---------------------------- MODULE AvDynamicArray -----------------------------
(***************************************************************************)
(* src/dataStructures/avDynamicArray.c: sequences kept in linked pages.    *)
(*                                                                         *)
(* The pages an array reaches from its data field are the sequence pages:  *)
(* addPage, removePage, Append and Clone always set next and prev to       *)
(* mirror each other, so the pair is the order of a sequence.  lastPage is *)
(* not derived from it, because the code does not keep it there: last is   *)
(* its place in pages, 0 for nullptr.                                      *)
(*                                                                         *)
(* An operation on one array is written as a function of its record r.  An *)
(* assertion that does not hold stops the program: it is a guard here.     *)
(***************************************************************************)
EXTENDS Naturals, Sequences, FiniteSets, TLC, Functions, SequencesExt

CONSTANTS Arrays,      (* handles                                          *)
          Elements,    (* elements                                         *)
          Zero,        (* what avCallocate and memset leave in a slot      *)
          None,        (* no element: what a failed read returns           *)
          DefaultGrowSize, (* AV_DYNAMIC_ARRAY_DEFAULT_GROW_SIZE           *)
          Sizes,       (* bound: the counts given to Create, Reserve and   *)
                       (*   SetGrowSize                                    *)
          Relocation,  (* bound: the values given to SetAllowRelocation    *)
          Callbacks,   (* bound: whether a callback is given to            *)
                       (*   SetDeallocateElementCallback                   *)
          MaxPages,    (* bound: the pages of one array                    *)
          MaxCount,    (* bound: the elements counted in one array         *)
          MaxCapacity, (* bound: the slots counted in one array            *)
          InOrderOnly, (* bound: whether calls on arrays that an append or *)
                       (*   a clone has put out of order are left out      *)
          Word         (* bound: 2^32, for the uint32 counters             *)

ASSUME Bounds == MaxPages \in Nat /\ MaxCount \in Nat /\ MaxCapacity \in Nat
ASSUME SizesArePositive == Sizes \cup {DefaultGrowSize} \subseteq 1..(Word - 1)
ASSUME NoneIsNoElement == Zero \notin Elements /\ None \notin Elements \cup {Zero}
ASSUME WordHoldsTheCounters == Word \in Nat /\ \A bound \in {MaxCount, MaxCapacity, MaxPages} : Word > bound
ASSUME FlagsAreBooleans == InOrderOnly \in BOOLEAN /\ Relocation \subseteq BOOLEAN /\ Callbacks \subseteq BOOLEAN

VARIABLES array,   (* the AvDynamicArray_T behind each handle in use; lost is *)
                   (* not in the code: it says whether pages of the array are *)
                   (* still allocated that it no longer reaches               *)
          released (* the elements the last call gave to deallocElement       *)

arrayVars == <<array, released>>

Values == Elements \cup {Zero}

Minus(x, y) == ((x + Word) - y) % Word

--------------------------------------------------------------------------------
(* Pages.                                                                  *)

BlankPage(capacity) == [slots |-> [i \in 1..capacity |-> Zero], count |-> 0]
Capacity(page) == Len(page.slots)

Blank == [pages |-> <<>>, last |-> 0, pageCount |-> 0, growSize |-> DefaultGrowSize,
          count |-> 0, capacity |-> 0, allowRelocation |-> TRUE, deallocElement |-> FALSE,
          lost |-> FALSE]

(* The slots of an array in the order of its pages: getPage finds an index *)
(* by the pages' capacities.                                               *)
Slots(r) ==
    FlattenSeq([k \in DOMAIN r.pages |-> [i \in DOMAIN r.pages[k].slots |-> <<k, i>>]])
Located(r, index) == index < Len(Slots(r))
Locate(r, index) == Slots(r)[index + 1]

(* Where lastPage->next leads: nowhere, unless lastPage is out of date.    *)
CutOff(r) == SubSeq(r.pages, r.last + 1, Len(r.pages))

(* addPage, for a count that is not 0: the new page becomes the successor  *)
(* of lastPage, whatever was there before.                                 *)
PageAdded(r, count) ==
    [r EXCEPT !.pages = Append(SubSeq(@, 1, r.last), BlankPage(count)),
              !.last = @ + 1,
              !.pageCount = (@ + 1) % Word,
              !.capacity = @ + count,
              !.lost = @ \/ CutOff(r) # <<>>]

(* Mutation: lastPage is not moved back. *)
PageRemovedLastKept(r, k) ==
    [r EXCEPT !.pages = RemoveAt(@, k),
              !.pageCount = Minus(@, 1),
              !.count = Minus(@, r.pages[k].count),
              !.capacity = Minus(@, Capacity(r.pages[k]))]

PageRemoved(r, k) ==
    [r EXCEPT !.pages = RemoveAt(@, k),
              !.last = IF k <= @ THEN @ - 1 ELSE @,
              !.pageCount = Minus(@, 1),
              !.count = Minus(@, r.pages[k].count),
              !.capacity = Minus(@, Capacity(r.pages[k]))]

(* Mutation: the page's count is not cut down to the capacity. *)
PageResizedUncut(r, k, capacity) ==
    IF capacity = 0 THEN PageRemoved(r, k)
    ELSE [r EXCEPT !.pages[k].slots = SubSeq(@, 1, capacity),
                   !.capacity = Minus(@, Capacity(r.pages[k]) - capacity)]

PageResized(r, k, capacity) ==
    LET kept == IF r.pages[k].count < capacity THEN r.pages[k].count ELSE capacity IN
    IF capacity = 0 THEN PageRemoved(r, k)
    ELSE [r EXCEPT !.pages[k] = [slots |-> SubSeq(@.slots, 1, capacity), count |-> kept],
                   !.count = Minus(@, r.pages[k].count - kept),
                   !.capacity = Minus(@, Capacity(r.pages[k]) - capacity)]

--------------------------------------------------------------------------------
(* The operations on one array.                                            *)

(* The slot of the next element, in the array with a page for it.          *)
Grown(r) == IF Located(r, r.count) THEN r ELSE PageAdded(r, r.growSize)
NextSlot(r) == IF Located(r, r.count) THEN Locate(r, r.count) ELSE <<Grown(r).last, 1>>

AddedEmpty(r) ==
    [Grown(r) EXCEPT !.pages[NextSlot(r)[1]].count = @ + 1, !.count = @ + 1]

Stored(r, slot, e) == [r EXCEPT !.pages[slot[1]].slots[slot[2]] = e]

Added(r, e) == Stored(AddedEmpty(r), NextSlot(r), e)

(* avDynamicArrayAddRange: one call of Add for each element.               *)
AddedAll(r, es) ==
    LET After[n \in 0..Len(es)] == IF n = 0 THEN r ELSE Added(After[n - 1], es[n])
    IN  After[Len(es)]

(* What avDynamicArrayRead gives for each index that has a slot, None when *)
(* its page does not count the slot and the call fails.                    *)
Reads(r) ==
    LET slots == Slots(r) IN
    [i \in DOMAIN slots |->
        LET page == r.pages[slots[i][1]] IN
        IF slots[i][2] <= page.count THEN page.slots[slots[i][2]] ELSE None]
Found(r, index) == LET reads == Reads(r) IN index < Len(reads) /\ reads[index + 1] # None

Written(r, index, e) == IF Found(r, index) THEN Stored(r, Locate(r, index), e) ELSE r

(* avDynamicArrayWriteRange: the first write that fails ends the range.    *)
WrittenAll(r, start, es) ==
    LET After[n \in 0..Len(es)] ==
            IF n = 0 THEN r
            ELSE IF \A m \in 1..n : Found(r, start + m - 1)
                 THEN Written(After[n - 1], start + n - 1, es[n])
                 ELSE After[n - 1]
    IN  After[Len(es)]

(* What avDynamicArrayReadRange puts in a blank buffer: it stops at the    *)
(* first element it does not find.                                         *)
Buffered(r, capacity) ==
    LET reads == Reads(r) IN
    [i \in 1..capacity |->
        IF i <= r.count /\ i <= Len(reads) /\ \A j \in 1..i : reads[j] # None
        THEN reads[i] ELSE Zero]

(* The memmove of avDynamicArrayRemove: the page's elements behind place i *)
(* move up.                                                                *)
Closed(page, i) ==
    [page EXCEPT !.slots = [k \in DOMAIN @ |-> IF k \in i..(page.count - 1) THEN @[k + 1] ELSE @[k]]]

(* Mutation: a page in front of others keeps its capacity. *)
RemovedNoResize(r, index) ==
    LET k == Locate(r, index)[1]
        moved == [r EXCEPT !.pages[k] = Closed(@, Locate(r, index)[2])]
    IN  [moved EXCEPT !.pages[k].count = @ - 1, !.count = Minus(@, 1)]

Removed(r, index) ==
    LET k == Locate(r, index)[1]
        moved == [r EXCEPT !.pages[k] = Closed(@, Locate(r, index)[2])]
    IN  IF k < Len(r.pages) /\ r.pages[k + 1].count # 0
        THEN PageResized(moved, k, r.pages[k].count - 1)
        ELSE [moved EXCEPT !.pages[k].count = @ - 1, !.count = Minus(@, 1)]

Cleared(r, v) ==
    [r EXCEPT !.pages = [k \in DOMAIN @ |-> [slots |-> [i \in DOMAIN @[k].slots |-> v], count |-> 0]],
              !.count = 0]

(* What is left in the page the next element goes to.                      *)
RemainingSpace(r) ==
    IF Located(r, r.count)
    THEN LET page == r.pages[Locate(r, r.count)[1]] IN Capacity(page) - page.count
    ELSE 0

Reserved(r, count) ==
    IF count <= RemainingSpace(r) THEN r ELSE PageAdded(r, count - RemainingSpace(r))

(* One turn of avDynamicArrayTrim's loop: its page is always lastPage.     *)
TrimTurn(r) ==
    IF r.last = 0 \/ r.pages[r.last].count = Capacity(r.pages[r.last]) THEN r
    ELSE IF r.pages[r.last].count = 0 THEN PageRemoved(r, r.last)
    ELSE PageResized(r, r.last, r.pages[r.last].count)

(* Each turn but the last removes a page.                                  *)
Trimmed(r) ==
    LET After[n \in 0..Len(r.pages)] == IF n = 0 THEN r ELSE TrimTurn(After[n - 1])
    IN  After[Len(r.pages)]

Contiguous(r) ==
    [r EXCEPT !.pages = <<[slots |-> Buffered(r, r.capacity), count |-> r.count]>>,
              !.last = 1, !.pageCount = 1]

(* What avDynamicArrayDestroy gives to the callback.                       *)
Deallocated(r) ==
    IF r.deallocElement
    THEN FlattenSeq([k \in DOMAIN r.pages |-> SubSeq(r.pages[k].slots, 1, r.pages[k].count)])
    ELSE <<>>

(* avDynamicArrayAppend to an array that has elements: the pages of the    *)
(* source become the successors of lastPage; lastPage and pageCount stay.  *)
Hooked(r, source) ==
    [r EXCEPT !.pages = SubSeq(@, 1, r.last) \o source.pages,
              !.lost = @ \/ CutOff(r) # <<>> \/ source.lost,
              !.count = @ + source.count,
              !.capacity = @ + source.capacity]

(* To one that has none, the elements are copied.                          *)
Copied(r, source) == AddedAll(r, Buffered(source, source.count))

(* avDynamicArrayClone copies pages until the one to come is lastPage; so  *)
(* the last of several is left out, while the counters are copied whole.   *)
Cloned(r) ==
    LET copies == SubSeq(r.pages, 1, IF r.last > 1 THEN r.last - 1 ELSE Len(r.pages))
        blank == [Blank EXCEPT !.growSize = r.growSize, !.deallocElement = r.deallocElement]
    IN  IF r.count = 0 THEN blank
        ELSE [blank EXCEPT !.pages = copies, !.last = Len(copies),
                           !.count = r.count, !.capacity = r.capacity]

--------------------------------------------------------------------------------
(* The calls.                                                              *)

Init == array = <<>> /\ released = <<>>

Exists(a) == a \in DOMAIN array

Total(numbers) == FoldLeft(LAMBDA sum, n : sum + n, 0, numbers)
Counts(pages) == [k \in DOMAIN pages |-> pages[k].count]
Capacities(pages) == [k \in DOMAIN pages |-> Capacity(pages[k])]

(* The counters are the pages' totals, lastPage is the last page, and no   *)
(* page has an element unless the pages before it are full.                *)
Sound(a) ==
    LET pages == array[a].pages IN
    /\ array[a].last = Len(pages)
    /\ array[a].count = Total(Counts(pages))
    /\ array[a].capacity = Total(Capacities(pages))
    /\ \A k \in DOMAIN pages : pages[k].count <= Capacity(pages[k])
    /\ \A k \in 2..Len(pages) :
        pages[k].count # 0 => pages[k - 1].count = Capacity(pages[k - 1])

Counted(a) == array[a].pageCount = Len(array[a].pages)

(* Calls are undefined on an array with a page that counts elements beyond *)
(* its memory, or that counts elements but has no page, and not modelled   *)
(* on one that has pages but no lastPage: a page it adds is in no chain.   *)
Usable(a) ==
    /\ Exists(a)
    /\ \A k \in DOMAIN array[a].pages : array[a].pages[k].count <= Capacity(array[a].pages[k])
    /\ array[a].last = 0 => array[a].pages = <<>> /\ array[a].count = 0
    /\ InOrderOnly => Sound(a)

Bounded(r) == r.count <= MaxCount /\ r.capacity <= MaxCapacity /\ Len(r.pages) <= MaxPages

Returns(a, r) ==
    /\ Bounded(r)
    /\ array' = [array EXCEPT ![a] = r]
    /\ released' = <<>>

Makes(a, r) == array' = [b \in DOMAIN array \cup {a} |-> IF b = a THEN r ELSE array[b]]

Create(a, initialSize) ==
    /\ ~Exists(a)
    /\ Makes(a, IF initialSize = 0 THEN Blank ELSE PageAdded(Blank, initialSize))
    /\ released' = <<>>

Destroy(a) ==
    /\ Usable(a)
    /\ array' = Restrict(array, DOMAIN array \ {a})
    /\ released' = Deallocated(array[a])

Add(a, e) == Usable(a) /\ Returns(a, Added(array[a], e))

(* The caller writes the element later, with avDynamicArrayWrite.          *)
AddEmpty(a) == Usable(a) /\ Returns(a, AddedEmpty(array[a]))

AddRange(a, es) == Usable(a) /\ Returns(a, AddedAll(array[a], es))

(* avDynamicArrayWriteRange; avDynamicArrayWrite is a range of one.        *)
WriteRange(a, start, es) == Usable(a) /\ Returns(a, WrittenAll(array[a], start, es))

(* Mutation: allowRelocation is not asserted.                              *)
RemoveIndexUnasserted(a, index) ==
    /\ Usable(a)
    /\ index < array[a].count /\ Found(array[a], index)
    /\ array' = [array EXCEPT ![a] = Removed(@, index)]
    /\ released' = IF array[a].deallocElement THEN <<Reads(array[a])[index + 1]>> ELSE <<>>

RemoveIndex(a, index) ==
    /\ Usable(a) /\ array[a].allowRelocation
    /\ index < array[a].count /\ Found(array[a], index)
    /\ array' = [array EXCEPT ![a] = Removed(@, index)]
    /\ released' = IF array[a].deallocElement THEN <<Reads(array[a])[index + 1]>> ELSE <<>>

RemoveIndexFails(a, index) ==
    /\ Usable(a) /\ array[a].allowRelocation
    /\ index >= array[a].count \/ ~Found(array[a], index)
    /\ Returns(a, array[a])

Clear(a, v) == Usable(a) /\ Returns(a, Cleared(array[a], v))

Reserve(a, count) ==
    /\ Usable(a)
    /\ Located(array[a], array[a].count) => RemainingSpace(array[a]) # 0
    /\ Returns(a, Reserved(array[a], count))

Trim(a) ==
    /\ Usable(a) /\ array[a].allowRelocation
    /\ Returns(a, Trimmed(array[a]))

MakeContiguous(a) == Usable(a) /\ Returns(a, Contiguous(array[a]))

SetGrowSize(a, n) == Exists(a) /\ Returns(a, [array[a] EXCEPT !.growSize = n])
SetAllowRelocation(a, b) == Exists(a) /\ Returns(a, [array[a] EXCEPT !.allowRelocation = b])
SetDeallocateElementCallback(a, b) ==
    Exists(a) /\ Returns(a, [array[a] EXCEPT !.deallocElement = b])

(* avDynamicArrayAppend trims dst first.                                   *)
Appending(dst, src) ==
    /\ Usable(dst) /\ Usable(src) /\ dst # src
    /\ array[src].count # 0
    /\ array[dst].allowRelocation

Becomes(dst, r, src) ==
    /\ Bounded(r)
    /\ array' = [a \in DOMAIN array \ {src} |-> IF a = dst THEN r ELSE array[a]]

(* Without elements in dst, src is destroyed with its own.  An element     *)
(* that is not found in src would be what the allocator left in the        *)
(* buffer: not modelled.                                                   *)
AppendCopies(dst, src) ==
    /\ Appending(dst, src)
    /\ \A index \in 0..(array[src].count - 1) : Found(array[src], index)
    /\ Trimmed(array[dst]).count = 0
    /\ Becomes(dst, Copied(Trimmed(array[dst]), array[src]), src)
    /\ released' = Deallocated(array[src])

AppendPages(dst, src) ==
    /\ Appending(dst, src)
    /\ Trimmed(array[dst]).count # 0 /\ Trimmed(array[dst]).last # 0
    /\ Becomes(dst, Hooked(Trimmed(array[dst]), array[src]), src)
    /\ released' = <<>>

(* Where pages follow the source's lastPage they would follow the copy's   *)
(* too, shared by the two arrays: not modelled.                            *)
Clone(src, dst) ==
    /\ Usable(src) /\ ~Exists(dst)
    /\ CutOff(array[src]) = <<>>
    /\ Makes(dst, Cloned(array[src]))
    /\ released' = <<>>

Next ==
    \/ \E a \in Arrays :
        \/ \E n \in Sizes \cup {0} : Create(a, n) \/ Reserve(a, n)
        \/ Destroy(a) \/ Trim(a) \/ MakeContiguous(a) \/ AddEmpty(a)
        \/ \E e \in Elements : Add(a, e)
        \/ \E e \in Elements, f \in Elements : AddRange(a, <<e, f>>)
        \/ \E n \in Sizes : SetGrowSize(a, n)
        \/ \E b \in Relocation : SetAllowRelocation(a, b)
        \/ \E b \in Callbacks : SetDeallocateElementCallback(a, b)
        \/ \E v \in Values : Clear(a, v)
    \/ \E a \in DOMAIN array : \E index \in 0..array[a].count :
        \/ RemoveIndex(a, index) \/ RemoveIndexFails(a, index)
        \/ \E e \in Elements : WriteRange(a, index, <<e>>)
        \/ \E e \in Elements, f \in Elements : WriteRange(a, index, <<e, f>>)
    \/ \E a, b \in Arrays : AppendCopies(a, b) \/ AppendPages(a, b) \/ Clone(a, b)

Spec == Init /\ [][Next]_arrayVars

--------------------------------------------------------------------------------
(* Properties.                                                             *)

(* The fields of the pages and the handles are in range.                   *)
TypeOK ==
    /\ DOMAIN array \subseteq Arrays
    /\ \A a \in DOMAIN array :
        /\ \A k \in DOMAIN array[a].pages :
            /\ array[a].pages[k].count \in Nat
            /\ array[a].pages[k].slots \in Seq(Values)
        /\ array[a].last \in 0..Len(array[a].pages)
        /\ array[a].growSize \in Nat \ {0}
        /\ {array[a].count, array[a].capacity, array[a].pageCount} \subseteq 0..(Word - 1)
    /\ released \in Seq(Values)

(* No call puts an array out of order, except an append of pages on to it. *)
(* No array is made out of order, except as a clone of several pages or of *)
(* one out of order.                                                       *)
SoundnessKept ==
    [][/\ \A a \in DOMAIN array \cap DOMAIN array' :
            \/ /\ Sound(a) => Sound(a)'
               /\ Sound(a) /\ Counted(a) => Counted(a)'
            \/ \E b \in Arrays : AppendPages(a, b)
       /\ \A a \in DOMAIN array' \ DOMAIN array :
            \/ Sound(a)'
            \/ \E b \in Arrays : Clone(b, a) /\ (Sound(b) => Len(array[b].pages) > 1)
      ]_arrayVars

(* "this should only occur when I programmed it wrong": the page of the    *)
(* next element is never full, so that the assertion of                    *)
(* avDynamicArrayReserve holds, whatever was removed, trimmed or resized.  *)
(* (After a clone of several pages it may fail: see the note at Cloned.)   *)
ReserveHasRoom ==
    \A a \in DOMAIN array : Located(array[a], array[a].count) => RemainingSpace(array[a]) # 0

(* What avDynamicArrayRead gives for each index below the size.            *)
Contents(r) ==
    LET reads == Reads(r) IN
    [i \in 1..r.count |-> IF i <= Len(reads) THEN reads[i] ELSE None]

(* On an array in order each call does to the sequence of its elements     *)
(* what its name says, whatever it does to the pages: none is lost,        *)
(* doubled or reordered, and the callback gets each one once.              *)
CallsAreSequenceOperations ==
    \A a \in DOMAIN array : Sound(a) =>
        LET r == array[a]
            items == Contents(r)
        IN  /\ \A i \in DOMAIN items : items[i] # None
            /\ \A e \in Elements : Contents(Added(r, e)) = Append(items, e)
            /\ Front(Contents(AddedEmpty(r))) = items
            /\ \A i \in DOMAIN items :
                /\ Contents(Removed(r, i - 1)) = RemoveAt(items, i)
                /\ \A e \in Elements : Contents(Written(r, i - 1, e)) = [items EXCEPT ![i] = e]
            /\ \A n \in Sizes : Contents(Reserved(r, n)) = items
            /\ Contents(Trimmed(r)) = items
            /\ Contents(Contiguous(r)) = items
            /\ Contents(Cleared(r, Zero)) = <<>>
            /\ Deallocated([r EXCEPT !.deallocElement = TRUE]) = items

(* So do the calls on two arrays: an append leaves the elements of both,   *)
(* in that order, and a clone has the elements of its source if that has   *)
(* one page.                                                               *)
AppendsAndClonesKeepElements ==
    \A a, b \in DOMAIN array : a # b /\ Sound(a) /\ Sound(b) /\ array[b].count # 0 =>
        LET r == Trimmed(array[a]) IN
        /\ Contents(IF r.count = 0 THEN Copied(r, array[b]) ELSE Hooked(r, array[b]))
              = Contents(array[a]) \o Contents(array[b])
        /\ Len(array[b].pages) = 1 => Contents(Cloned(array[b])) = Contents(array[b])

(* Two arrays keep their elements, and only an append of pages or a clone  *)
(* of several pages puts one out of order.                                 *)
PairKept == []AppendsAndClonesKeepElements /\ SoundnessKept

(* Some element is in another page or another slot than before.  A page    *)
(* that stays keeps its number unless one before it is removed.            *)
Moves(a) ==
    \E i \in 0..(array[a].count - 1) :
        ~(Found(array[a], i) /\ Found(array[a], i)' /\ Locate(array[a], i) = Locate(array[a], i)')

(* While relocation is not allowed a pointer to an element stays good: the *)
(* element is in the same place of the same page until the array is        *)
(* cleared or made contiguous (which asserts nothing).                     *)
PinnedElementsStay ==
    [][\A a \in DOMAIN array \cap DOMAIN array' :
          Sound(a) /\ ~array[a].allowRelocation /\ Moves(a)
              => MakeContiguous(a) \/ \E v \in Values : Clear(a, v)]_arrayVars

(* An element that is removed goes to the callback and the others close    *)
(* ranks, and an array that is destroyed gives it all it has; only what is *)
(* cleared, or goes to another array with its page, is not given to it.    *)
LeavesToCallback ==
    [][\A a \in DOMAIN array :
          Sound(a) /\ array[a].deallocElement =>
             /\ a \notin DOMAIN array' =>
                    released' = Contents(array[a]) \/ \E b \in DOMAIN array : AppendPages(b, a)
             /\ a \in DOMAIN array' /\ array'[a].count < array[a].count =>
                    \/ \E v \in Values : Clear(a, v)
                    \/ \E i \in 1..array[a].count :
                          /\ released' = <<Contents(array[a])[i]>>
                          /\ Contents(array'[a]) = RemoveAt(Contents(array[a]), i)]_arrayVars
ElementsStayOrLeave == PinnedElementsStay /\ LeavesToCallback

(* avDynamicArrayAppend "transfers ownership of all the data within the    *)
(* source array": its pages are not lost to dst later.                     *)
AppendedPagesAreOwned == \A a \in DOMAIN array : ~array[a].lost
================================================================================
