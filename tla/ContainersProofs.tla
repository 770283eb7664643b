---------------------------- MODULE ContainersProofs ----------------------------
(***************************************************************************)
(* What MCContainers checks on small instances, proved for every number of *)
(* queues, resources, keys, bits, elements of grids, bytes of tables, days *)
(* of months, threads and pages: one section per component, with the       *)
(* invariant its safety rests on; those of the list of allocations and of  *)
(* the allocators are in MemoryProofs.  The subject of a behaviour takes   *)
(* the steps of its component; the others stay as they are.                *)
(***************************************************************************)
EXTENDS MCContainers, MemoryProofs

--------------------------------------------------------------------------------
(* The ring of avQueue.c is a bounded first-in first-out queue.  The only  *)
(* arithmetic there is: an index is reduced at most once.                  *)

LEMMA ModBelow == ASSUME NEW n \in Nat \ {0}, NEW x \in 0..(n - 1) PROVE x % n = x
OBVIOUS

LEMMA ModOnce == ASSUME NEW n \in Nat \ {0}, NEW x \in n..(2 * n - 1) PROVE x % n = x - n
OBVIOUS

LEMMA SlotInRing == ASSUME NEW n \in Nat \ {0}, NEW x \in Nat PROVE x % n \in 0..(n - 1)
OBVIOUS

--------------------------------------------------------------------------------
(* What the operations do to one ring.                                     *)

LEMMA RingFields ==
  ASSUME NEW r \in Rings
  PROVE  /\ r.size \in Nat \ {0} /\ r.size \in 1..MaxSize
         /\ r.head \in 0..(r.size - 1) /\ r.head \in Nat
         /\ r.length \in 0..r.size /\ r.length \in Nat
         /\ r.data \in [0..(r.size - 1) -> Elements \cup {Zero}]
BY MaxSizeIsPositive DEF Rings

(* The slots of the positions of a ring, and of the one after the newest,  *)
(* are in the ring and, up to its size, all different.                     *)
LEMMA SlotOfPosition ==
  ASSUME NEW r \in Rings, NEW i \in 0..r.size
  PROVE  /\ SlotOf(r, r.head + i) \in 0..(r.size - 1)
         /\ SlotOf(r, r.head + i) = IF r.head + i < r.size THEN r.head + i ELSE r.head + i - r.size
<1>1. /\ r.size \in Nat \ {0} /\ r.head \in 0..(r.size - 1) /\ r.head + i \in Nat
      /\ r.head + i <= 2 * r.size - 1
  BY RingFields
<1>2. CASE r.head + i < r.size
  BY <1>1, <1>2, ModBelow DEF SlotOf
<1>3. CASE ~(r.head + i < r.size)
  <2>1. r.head + i \in r.size..(2 * r.size - 1)
    BY <1>1, <1>3
  <2>2. (r.head + i) % r.size = r.head + i - r.size
    BY <1>1, <2>1, ModOnce
  <2>3. QED
    BY <1>1, <1>3, <2>1, <2>2 DEF SlotOf
<1>4. QED
  BY <1>2, <1>3

LEMMA ContentsIsSeq ==
  ASSUME NEW r \in Rings
  PROVE  /\ Contents(r) \in Seq(Elements \cup {Zero})
         /\ Len(Contents(r)) = r.length
         /\ \A i \in 1..r.length : Contents(r)[i] = r.data[SlotOf(r, r.head + (i - 1))]
<1>1. \A i \in 1..r.length : r.data[SlotOf(r, r.head + (i - 1))] \in Elements \cup {Zero}
  <2>1. ASSUME NEW i \in 1..r.length PROVE SlotOf(r, r.head + (i - 1)) \in 0..(r.size - 1)
    <3>1. i - 1 \in 0..r.size
      BY RingFields
    <3>2. QED
      BY <3>1, SlotOfPosition
  <2>2. QED
    BY <2>1, RingFields
<1>2. Contents(r) \in [1..r.length -> Elements \cup {Zero}]
  BY <1>1 DEF Contents
<1>3. r.length \in Nat
  BY RingFields
<1>4. Contents(r) \in Seq(Elements \cup {Zero})
  BY <1>2, <1>3
<1>5. Len(Contents(r)) = r.length
  BY <1>2, <1>3, <1>4, LenProperties
<1>6. \A i \in 1..r.length : Contents(r)[i] = r.data[SlotOf(r, r.head + (i - 1))]
  BY DEF Contents
<1>7. QED
  BY <1>4, <1>5, <1>6

LEMMA RingCreated ==
  ASSUME NEW n \in 1..MaxSize
  PROVE  Created(n) \in Rings /\ Created(n).size = n /\ Created(n).length = 0
BY MaxSizeIsPositive DEF Created, Rings, Buffers

LEMMA RingPushed ==
  ASSUME NEW r \in Rings, ~IsFull(r), NEW e \in Elements
  PROVE  /\ Pushed(r, e) \in Rings
         /\ Pushed(r, e).size = r.size /\ Pushed(r, e).head = r.head
         /\ Pushed(r, e).length = r.length + 1
         /\ Pushed(r, e).data = [r.data EXCEPT ![SlotOf(r, r.head + r.length)] = e]
<1>1. /\ Pushed(r, e).size = r.size /\ Pushed(r, e).head = r.head
      /\ Pushed(r, e).length = r.length + 1
      /\ Pushed(r, e).data = [r.data EXCEPT ![SlotOf(r, r.head + r.length)] = e]
  BY DEF Pushed
<1>2. r.length + 1 \in 0..r.size
  BY RingFields DEF IsFull
<1>3. [r.data EXCEPT ![SlotOf(r, r.head + r.length)] = e] \in [0..(r.size - 1) -> Elements \cup {Zero}]
  BY RingFields
<1>4. Pushed(r, e) \in [size : 1..MaxSize, head : Nat, length : Nat, data : Buffers]
  <2>1. [r.data EXCEPT ![SlotOf(r, r.head + r.length)] = e] \in Buffers
    BY <1>3, RingFields DEF Buffers
  <2>2. QED
    BY <1>2, <2>1, RingFields DEF Pushed
<1>5. /\ Pushed(r, e).head < Pushed(r, e).size
      /\ Pushed(r, e).length <= Pushed(r, e).size
      /\ Pushed(r, e).data \in [0..(Pushed(r, e).size - 1) -> Elements \cup {Zero}]
  BY <1>1, <1>2, <1>3, RingFields
<1>6. QED
  BY <1>1, <1>4, <1>5 DEF Rings

LEMMA RingPulled ==
  ASSUME NEW r \in Rings, ~IsEmpty(r)
  PROVE  /\ Pulled(r) \in Rings
         /\ Pulled(r).size = r.size /\ Pulled(r).head = SlotOf(r, r.head + 1)
         /\ Pulled(r).length = r.length - 1 /\ Pulled(r).data = r.data
<1>1. /\ Pulled(r).size = r.size /\ Pulled(r).head = SlotOf(r, r.head + 1)
      /\ Pulled(r).length = r.length - 1 /\ Pulled(r).data = r.data
  BY DEF Pulled
<1>2. SlotOf(r, r.head + 1) \in 0..(r.size - 1)
  <2>1. r.size \in Nat \ {0} /\ r.head + 1 \in Nat
    BY RingFields
  <2>2. QED
    BY <2>1, SlotInRing DEF SlotOf
<1>3. r.length - 1 \in 0..r.size
  BY RingFields DEF IsEmpty
<1>4. Pulled(r) \in [size : 1..MaxSize, head : Nat, length : Nat, data : Buffers]
  <2>1. r.data \in Buffers
    BY DEF Rings
  <2>2. QED
    BY <1>2, <1>3, <2>1, RingFields DEF Pulled
<1>5. QED
  BY <1>1, <1>2, <1>3, <1>4, RingFields DEF Rings

LEMMA RingIsItsFields ==
  ASSUME NEW r \in Rings
  PROVE  r = [size |-> r.size, head |-> r.head, length |-> r.length, data |-> r.data]
BY DEF Rings

LEMMA RingCloned == ASSUME NEW r \in Rings PROVE Cloned(r) = r
<1>1. Cloned(r) = [size |-> r.size, head |-> r.head, length |-> r.length, data |-> r.data]
  BY DEF Cloned
<1>2. QED
  BY <1>1, RingIsItsFields

(* avQueuePush appends. *)
LEMMA ContentsPushed ==
  ASSUME NEW r \in Rings, ~IsFull(r), NEW e \in Elements
  PROVE  Contents(Pushed(r, e)) = Append(Contents(r), e)
<1> DEFINE p == Pushed(r, e)
           S == Elements \cup {Zero}
<1>1. /\ p \in Rings /\ p.size = r.size /\ p.head = r.head /\ p.length = r.length + 1
      /\ p.data = [r.data EXCEPT ![SlotOf(r, r.head + r.length)] = e]
  BY RingPushed
<1> HIDE DEF p
<1>2. /\ Contents(p) \in Seq(S) /\ Len(Contents(p)) = r.length + 1
      /\ \A i \in 1..(r.length + 1) : Contents(p)[i] = p.data[SlotOf(r, r.head + (i - 1))]
  <2>1. /\ Contents(p) \in Seq(S) /\ Len(Contents(p)) = p.length
        /\ \A i \in 1..p.length : Contents(p)[i] = p.data[SlotOf(p, p.head + (i - 1))]
    BY <1>1, ContentsIsSeq
  <2>2. QED
    BY <1>1, <2>1 DEF SlotOf
<1>3. /\ Contents(r) \in Seq(S) /\ Len(Contents(r)) = r.length
      /\ \A i \in 1..r.length : Contents(r)[i] = r.data[SlotOf(r, r.head + (i - 1))]
  BY ContentsIsSeq
<1>4. /\ Append(Contents(r), e) \in Seq(S)
      /\ Len(Append(Contents(r), e)) = r.length + 1
      /\ \A i \in 1..r.length : Append(Contents(r), e)[i] = Contents(r)[i]
      /\ Append(Contents(r), e)[r.length + 1] = e
  BY <1>3, RingFields
<1>5. ASSUME NEW i \in 1..(r.length + 1) PROVE Contents(p)[i] = Append(Contents(r), e)[i]
  <2>1. CASE i = r.length + 1
    <3>1. SlotOf(r, r.head + r.length) \in 0..(r.size - 1)
      BY RingFields, SlotOfPosition
    <3>2. p.data[SlotOf(r, r.head + r.length)] = e
      BY <1>1, <3>1, RingFields
    <3>3. i - 1 = r.length
      BY <2>1, RingFields
    <3>4. QED
      BY <1>2, <1>4, <2>1, <3>2, <3>3
  <2>2. CASE i # r.length + 1
    <3>1. i \in 1..r.length /\ i - 1 \in 0..r.size /\ r.length \in 0..r.size /\ i - 1 < r.length
          /\ r.length < r.size
      BY <2>2, RingFields DEF IsFull
    <3>2. SlotOf(r, r.head + (i - 1)) # SlotOf(r, r.head + r.length)
      <4>1. SlotOf(r, r.head + (i - 1)) = IF r.head + (i - 1) < r.size THEN r.head + (i - 1)
                                          ELSE r.head + (i - 1) - r.size
        BY <3>1, SlotOfPosition
      <4>2. SlotOf(r, r.head + r.length) = IF r.head + r.length < r.size THEN r.head + r.length
                                           ELSE r.head + r.length - r.size
        BY <3>1, SlotOfPosition
      <4>3. QED
        BY <3>1, <4>1, <4>2, RingFields
    <3>3. SlotOf(r, r.head + (i - 1)) \in 0..(r.size - 1)
      BY <3>1, SlotOfPosition
    <3>4. p.data[SlotOf(r, r.head + (i - 1))] = r.data[SlotOf(r, r.head + (i - 1))]
      BY <1>1, <3>2, <3>3, RingFields
    <3>5. QED
      BY <1>2, <1>3, <1>4, <3>1, <3>4
  <2>3. QED
    BY <2>1, <2>2
<1>6. QED
  BY <1>2, <1>4, <1>5, SeqEqual DEF p

(* avQueuePull takes the head, and what is left is the tail. *)
LEMMA ContentsPulled ==
  ASSUME NEW r \in Rings, ~IsEmpty(r)
  PROVE  /\ Oldest(r) = Head(Contents(r))
         /\ Contents(Pulled(r)) = Tail(Contents(r))
<1> DEFINE p == Pulled(r)
           S == Elements \cup {Zero}
<1>1. /\ p \in Rings /\ p.size = r.size /\ p.head = SlotOf(r, r.head + 1)
      /\ p.length = r.length - 1 /\ p.data = r.data
  BY RingPulled
<1> HIDE DEF p
<1>2. /\ r.size \in Nat \ {0} /\ r.head \in 0..(r.size - 1)
      /\ r.length \in 1..r.size
  BY RingFields DEF IsEmpty
<1>3. /\ Contents(p) \in Seq(S) /\ Len(Contents(p)) = r.length - 1
      /\ \A i \in 1..(r.length - 1) : Contents(p)[i] = r.data[SlotOf(r, p.head + (i - 1))]
  <2>1. /\ Contents(p) \in Seq(S) /\ Len(Contents(p)) = p.length
        /\ \A i \in 1..p.length : Contents(p)[i] = p.data[SlotOf(p, p.head + (i - 1))]
    BY <1>1, ContentsIsSeq
  <2>2. QED
    BY <1>1, <2>1 DEF SlotOf
<1>4. /\ Contents(r) \in Seq(S) /\ Len(Contents(r)) = r.length
      /\ \A i \in 1..r.length : Contents(r)[i] = r.data[SlotOf(r, r.head + (i - 1))]
  BY ContentsIsSeq
<1>5. /\ Tail(Contents(r)) \in Seq(S) /\ Len(Tail(Contents(r))) = r.length - 1
      /\ \A i \in 1..(r.length - 1) : Tail(Contents(r))[i] = Contents(r)[i + 1]
      /\ Head(Contents(r)) = Contents(r)[1]
  <2>1. Contents(r) # <<>>
    BY <1>2, <1>4, EmptySeq
  <2>2. QED
    BY <1>2, <1>4, <2>1, HeadTailProperties
(* The position after the head is counted from the head that has moved. *)
<1>6. ASSUME NEW i \in 1..(r.length - 1)
      PROVE  SlotOf(r, p.head + (i - 1)) = SlotOf(r, r.head + i)
  <2>1. i \in 0..r.size /\ i - 1 \in 0..r.size /\ 1 \in 0..r.size /\ i < r.size
    BY <1>2
  <2>2. SlotOf(r, r.head + i) = IF r.head + i < r.size THEN r.head + i ELSE r.head + i - r.size
    BY <2>1, SlotOfPosition
  <2>3. p.head = IF r.head + 1 < r.size THEN r.head + 1 ELSE r.head + 1 - r.size
    BY <1>1, <2>1, SlotOfPosition
  <2>4. SlotOf(p, p.head + (i - 1)) = IF p.head + (i - 1) < p.size THEN p.head + (i - 1)
                                      ELSE p.head + (i - 1) - p.size
    BY <1>1, <2>1, SlotOfPosition
  <2>5. SlotOf(p, p.head + (i - 1)) = SlotOf(r, p.head + (i - 1))
    BY <1>1 DEF SlotOf
  <2>6. QED
    BY <1>1, <1>2, <2>1, <2>2, <2>3, <2>4, <2>5
<1>7. ASSUME NEW i \in 1..(r.length - 1) PROVE Contents(p)[i] = Tail(Contents(r))[i]
  <2>1. i + 1 \in 1..r.length /\ (i + 1) - 1 = i
    BY <1>2
  <2>2. Contents(r)[i + 1] = r.data[SlotOf(r, r.head + ((i + 1) - 1))]
    BY <1>4, <2>1
  <2>3. Contents(p)[i] = r.data[SlotOf(r, r.head + i)]
    BY <1>3, <1>6
  <2>4. QED
    BY <1>5, <2>1, <2>2, <2>3
<1>8. Contents(p) = Tail(Contents(r))
  BY <1>3, <1>5, <1>7, SeqEqual
<1>9. Oldest(r) = Head(Contents(r))
  <2>1. 1 \in 1..r.length /\ r.head + (1 - 1) = r.head
    BY <1>2
  <2>2. QED
    BY <1>4, <1>5, <2>1 DEF Oldest
<1>10. QED
  BY <1>8, <1>9 DEF p

--------------------------------------------------------------------------------
(* The rings stay rings. *)

LEMMA NoQueueIsEmpty ==
  NoQueue.size = 0 /\ Contents(NoQueue) = <<>>
BY DEF NoQueue, Contents

LEMMA ExistingIsRing ==
  ASSUME TypeOK, NEW q \in Handles, Exists(q)
  PROVE  queue[q] \in Rings
BY NoQueueIsEmpty DEF TypeOK, Exists

LEMMA TypeInit == Init => TypeOK
BY DEF Init, TypeOK

LEMMA TypeStep == TypeOK /\ [Next]_queueVars => TypeOK'
<1> SUFFICES ASSUME TypeOK, [Next]_queueVars PROVE TypeOK'
  OBVIOUS
<1>1. ASSUME NEW q \in Handles, NEW n \in 1..MaxSize, Create(q, n) PROVE TypeOK'
  BY <1>1, RingCreated DEF TypeOK, Create
<1>2. ASSUME NEW q \in Handles, Destroy(q) PROVE TypeOK'
  BY <1>2 DEF TypeOK, Destroy
<1>3. ASSUME NEW q \in Handles, NEW e \in Elements, Push(q, e) PROVE TypeOK'
  <2>1. Pushed(queue[q], e) \in Rings
    BY <1>3, ExistingIsRing, RingPushed DEF Push
  <2>2. QED
    BY <1>3, <2>1 DEF TypeOK, Push
<1>4. ASSUME NEW q \in Handles, Pull(q) PROVE TypeOK'
  <2>1. Pulled(queue[q]) \in Rings
    BY <1>4, ExistingIsRing, RingPulled DEF Pull
  <2>2. QED
    BY <1>4, <2>1 DEF TypeOK, Pull
<1>5. ASSUME NEW p \in Handles, NEW q \in Handles, Clone(p, q) PROVE TypeOK'
  <2>1. Cloned(queue[p]) \in Rings
    BY <1>5, ExistingIsRing, RingCloned DEF Clone
  <2>2. QED
    BY <1>5, <2>1 DEF TypeOK, Clone
<1>6. CASE UNCHANGED queue
  BY <1>6 DEF TypeOK
<1>7. QED
  BY <1>1, <1>2, <1>3, <1>4, <1>5, <1>6 DEF Next, PushFull, PullEmpty, queueVars

(* The fields of every queue stay in range.                                *)
THEOREM QueueTypeCorrect == Spec => []TypeOK
BY TypeInit, TypeStep, PTL DEF Spec

--------------------------------------------------------------------------------
(* Every step of the rings is a step of the first-in first-out queues.     *)

LEMMA FifoInit == Init => Fifo!Init
BY NoQueueIsEmpty DEF Init, Fifo!Init

LEMMA FifoStep == TypeOK /\ [Next]_queueVars => [Fifo!Next]_(Fifo!fifoVars)
<1> SUFFICES ASSUME TypeOK, [Next]_queueVars PROVE [Fifo!Next]_(Fifo!fifoVars)
  OBVIOUS
<1>1. ASSUME NEW q \in Handles, NEW n \in 1..MaxSize, Create(q, n) PROVE Fifo!New(q, n)
  <2>1. Contents(Created(n)) = <<>> /\ Created(n).size = n
    BY DEF Created, Contents
  <2>2. QED
    BY <1>1, <2>1 DEF TypeOK, Create, Exists, Fifo!New
<1>2. ASSUME NEW q \in Handles, Destroy(q) PROVE Fifo!Drop(q)
  BY <1>2, NoQueueIsEmpty DEF TypeOK, Destroy, Fifo!Drop
<1>3. ASSUME NEW q \in Handles, NEW e \in Elements, Push(q, e) PROVE Fifo!Put(q, e)
  <2>1. queue[q] \in Rings /\ ~IsFull(queue[q])
    BY <1>3, ExistingIsRing DEF Push
  <2>2. Contents(Pushed(queue[q], e)) = Append(Contents(queue[q]), e)
    BY <2>1, ContentsPushed
  <2>3. Pushed(queue[q], e).size = queue[q].size
    BY <2>1, RingPushed
  <2>4. Len(Contents(queue[q])) < queue[q].size
    BY <2>1, ContentsIsSeq, RingFields DEF IsFull
  <2>5. QED
    BY <1>3, <2>2, <2>3, <2>4 DEF TypeOK, Push, Fifo!Put
<1>4. ASSUME NEW q \in Handles, PushFull(q) PROVE Fifo!PutFull(q)
  <2>1. queue[q] \in Rings
    BY <1>4, ExistingIsRing DEF PushFull
  <2>2. Len(Contents(queue[q])) = queue[q].size
    BY <1>4, <2>1, ContentsIsSeq DEF IsFull, PushFull
  <2>3. QED
    BY <1>4, <2>2 DEF PushFull, Exists, Fifo!PutFull
<1>5. ASSUME NEW q \in Handles, Pull(q) PROVE Fifo!Get(q)
  <2>1. queue[q] \in Rings /\ ~IsEmpty(queue[q])
    BY <1>5, ExistingIsRing DEF Pull
  <2>2. /\ Oldest(queue[q]) = Head(Contents(queue[q]))
        /\ Contents(Pulled(queue[q])) = Tail(Contents(queue[q]))
    BY <2>1, ContentsPulled
  <2>3. Pulled(queue[q]).size = queue[q].size
    BY <2>1, RingPulled
  <2>4. Len(Contents(queue[q])) > 0
    BY <2>1, ContentsIsSeq, RingFields DEF IsEmpty
  <2>5. QED
    BY <1>5, <2>2, <2>3, <2>4 DEF TypeOK, Pull, Fifo!Get
<1>6. ASSUME NEW q \in Handles, PullEmpty(q) PROVE Fifo!GetEmpty(q)
  <2>1. queue[q] \in Rings
    BY <1>6, ExistingIsRing DEF PullEmpty
  <2>2. Len(Contents(queue[q])) = 0
    BY <1>6, <2>1, ContentsIsSeq DEF IsEmpty, PullEmpty
  <2>3. QED
    BY <1>6, <2>2 DEF PullEmpty, Exists, Fifo!GetEmpty
<1>7. ASSUME NEW p \in Handles, NEW q \in Handles, Clone(p, q) PROVE Fifo!Copy(p, q)
  <2>1. Cloned(queue[p]) = queue[p]
    BY <1>7, ExistingIsRing, RingCloned DEF Clone
  <2>2. QED
    BY <1>7, <2>1 DEF TypeOK, Clone, Exists, Fifo!Copy
<1>8. CASE UNCHANGED queueVars
  BY <1>8 DEF queueVars, Fifo!fifoVars
<1>9. CASE Next
  BY <1>9, <1>1, <1>2, <1>3, <1>4, <1>5, <1>6, <1>7 DEF Next, Fifo!Next
<1>10. QED
  BY <1>8, <1>9

(* The ring implements the bounded first-in first-out queue.               *)
THEOREM FifoRefinement == Spec => ImplementsFifo
<1>1. Init => Fifo!Init
  BY FifoInit
<1>2. TypeOK /\ [Next]_queueVars => [Fifo!Next]_(Fifo!fifoVars)
  BY FifoStep
<1>3. Spec => []TypeOK
  BY QueueTypeCorrect
<1>4. QED
  BY <1>1, <1>2, <1>3, PTL DEF Spec, ImplementsFifo, Fifo!Spec

--------------------------------------------------------------------------------
(* An array of resources: a resource is in one slot, or lost, or was given *)
(* back.                                                                   *)

ArrayInv ==
    /\ array.count \in Nat
    /\ array = [count |-> array.count, data |-> array.data, callback |-> array.callback]
    /\ DOMAIN array.data = 1..array.count
    /\ \A i \in 1..array.count : array.data[i] \in Resources \cup {NoResource}
    /\ \A i, j \in 1..array.count :
           array.data[i] = array.data[j] => i = j \/ array.data[i] = NoResource
    /\ Held \cap lost = {}
    /\ lost \subseteq Resources
    /\ kept \subseteq Resources
    /\ released \in [Resources -> Nat]
    /\ ReleasedOnce

LEMMA ArrayInvInit == ArrayInit => ArrayInv
BY DEF ArrayInit, ArrayInv, Held, Zeroed, ReleasedOnce

(* What the callback is given was given before only when it was left in    *)
(* the array.                                                              *)
LEMMA GivenOnce ==
  ASSUME ArrayInv, Given
  PROVE  /\ released' \in [Resources -> Nat]
         /\ \A r \in Resources \ Held : released'[r] = released[r]
         /\ \A r \in Held : released'[r] >= 1
         /\ \A r \in Resources \ kept : released'[r] <= 1
         /\ \A r \in kept : released'[r] >= 1
<1>1. released \in [Resources -> Nat] /\ Held \subseteq Resources /\ kept \subseteq Resources
  BY DEF ArrayInv, Held
<1>2. /\ \A r \in Resources \ kept : released[r] <= 1
      /\ \A r \in (Held \cup lost) \ kept : released[r] = 0
      /\ \A r \in kept : released[r] >= 1
  BY DEF ArrayInv, ReleasedOnce
<1>3. \A r \in Resources :
          released'[r] = IF r \in Held /\ released[r] < MaxReleases THEN released[r] + 1 ELSE released[r]
  BY DEF Given
<1>4. released' \in [Resources -> Nat]
  BY <1>1 DEF Given
<1>5. QED
  BY <1>1, <1>2, <1>3, <1>4, ArrayBounds

LEMMA ArrayInvStep ==
  ASSUME ArrayInv, ArrayNext
  PROVE  ArrayInv'
<1>1. ASSUME array' = Zeroed, lost' = lost, kept' = kept, Given PROVE ArrayInv'
  <2>1. Held' = {} /\ array'.count = 0 /\ array'.data = <<>> /\ array' = [count |-> 0, data |-> <<>>, callback |-> "none"]
    BY <1>1 DEF Held, Zeroed
  <2>2. \A r \in lost \ kept : released'[r] = 0
    BY <1>1, GivenOnce DEF ArrayInv, ReleasedOnce
  <2>3. ReleasedOnce'
    BY <1>1, <2>1, <2>2, GivenOnce DEF ReleasedOnce
  <2>4. QED
    BY <1>1, <2>1, <2>3, GivenOnce DEF ArrayInv
<1>2. CASE ArrayFreeDestroy \/ ArrayFreeAnd
  BY <1>1, <1>2 DEF ArrayFreeDestroy, ArrayFreeAnd
<1>3. CASE ArrayFreePlain
  <2>1. array' = Zeroed /\ lost' = lost \cup Held /\ released' = released /\ kept' = kept
        /\ array.callback = "none"
    BY <1>3 DEF ArrayFreePlain
  <2>2. Held \subseteq Resources
    BY DEF ArrayInv, Held
  <2>3. Held' = {}
    BY <2>1 DEF Held, Zeroed
  <2>4. ReleasedOnce'
    BY <2>1, <2>3 DEF ArrayInv, ReleasedOnce
  <2>5. QED
    BY <2>1, <2>2, <2>3, <2>4 DEF ArrayInv, Zeroed
<1>4. ASSUME NEW n \in 1..MaxCount, NEW callback, ArrayAllocate(n, callback) PROVE ArrayInv'
  <2>1. /\ array' = [count |-> n, data |-> [i \in 1..n |-> NoResource], callback |-> callback]
        /\ lost' = lost /\ released' = released /\ kept' = kept
    BY <1>4 DEF ArrayAllocate
  <2>2. Held' = {}
    BY <2>1 DEF Held
  <2>3. ReleasedOnce'
    BY <2>1, <2>2 DEF ArrayInv, ReleasedOnce
  <2>4. QED
    BY <2>1, <2>2, <2>3, ArrayBounds DEF ArrayInv
<1>5. ASSUME NEW i \in 1..MaxCount, NEW r \in Resources, ArrayWrite(i, r) PROVE ArrayInv'
  <2> DEFINE old == array.data[i]
  <2>1. /\ i \in 1..array.count /\ r \notin Held \cup lost /\ released[r] = 0
        /\ array' = [array EXCEPT !.data[i] = r]
        /\ lost' = lost \cup ({old} \ {NoResource}) /\ released' = released /\ kept' = kept
    BY <1>5 DEF ArrayWrite
  <2>2. /\ array'.count = array.count /\ array'.callback = array.callback
        /\ array' = [count |-> array.count, data |-> array'.data, callback |-> array.callback]
        /\ array'.data = [array.data EXCEPT ![i] = r]
    BY <2>1 DEF ArrayInv
  <2>3. Held' = (Held \ {old}) \cup ({r} \ {NoResource})
    BY <2>1, <2>2 DEF ArrayInv, Held
  <2>4. \A j, k \in 1..array.count :
            array'.data[j] = array'.data[k] => j = k \/ array'.data[j] = NoResource
    BY <2>1, <2>2 DEF ArrayInv, Held
  <2>5. old \in Resources \cup {NoResource} /\ (old # NoResource => old \in Held)
    BY <2>1 DEF ArrayInv, Held
  <2>6. Held' \cap lost' = {}
    BY <2>1, <2>3, <2>5 DEF ArrayInv
  <2>7. r \notin kept
    BY <2>1 DEF ArrayInv, ReleasedOnce
  <2>8. ReleasedOnce'
    <3>1. \A x \in (Held' \cup lost') \ kept : released'[x] = 0
      BY <2>1, <2>3, <2>5 DEF ArrayInv, ReleasedOnce
    <3>2. Held' \cap kept # {} => array'.callback = "deallocate"
      BY <2>2, <2>3, <2>7 DEF ArrayInv, ReleasedOnce
    <3>3. QED
      BY <2>1, <3>1, <3>2 DEF ArrayInv, ReleasedOnce
  <2>9. \A j \in 1..array.count : array'.data[j] \in Resources \cup {NoResource}
    BY <2>1, <2>2 DEF ArrayInv
  <2>10. QED
    BY <2>1, <2>2, <2>4, <2>5, <2>6, <2>8, <2>9 DEF ArrayInv
<1>6. CASE ArrayFreeDeallocate
  <2>1. /\ array.callback = "deallocate" /\ Given
        /\ array' = array /\ lost' = lost /\ kept' = kept \cup Held
    BY <1>6 DEF ArrayFreeDeallocate
  <2>2. Held' = Held /\ Held \subseteq Resources /\ Held \cap lost = {} /\ lost \subseteq Resources
    BY <2>1 DEF ArrayInv, Held
  <2>3. \A r \in (Held' \cup lost') \ kept' : released'[r] = 0
    BY <2>1, <2>2, GivenOnce DEF ArrayInv, ReleasedOnce
  <2>4. ReleasedOnce'
    BY <2>1, <2>2, <2>3, GivenOnce DEF ReleasedOnce
  <2>5. QED
    BY <2>1, <2>2, <2>4, GivenOnce DEF ArrayInv
<1>7. QED
  BY <1>2, <1>3, <1>4, <1>5, <1>6 DEF ArrayNext

LEMMA ArraySound == ArrayInv => ReleasedOnce
BY DEF ArrayInv

--------------------------------------------------------------------------------
(* A map of slots: a key that was not stored over is in the slot of its    *)
(* hash.                                                                   *)

MapInv ==
    /\ slot = [i \in 0..(MapSize - 1) |-> slot[i]]
    /\ stored = [k \in Keys |-> stored[k]]
    /\ KeysKeepTheirData

LEMMA HashIsSlot == ASSUME NEW k \in Keys PROVE Hash(k) \in 0..(MapSize - 1)
BY HashesAreSlots DEF Hash

LEMMA MapInvInit == MapInit => MapInv
BY HashIsSlot DEF MapInit, MapInv, KeysKeepTheirData

LEMMA MapInvStep ==
  ASSUME MapInv, MapNext
  PROVE  MapInv'
<1>1. ASSUME NEW k \in Keys, MapWrite(k) PROVE MapInv'
  BY <1>1 DEF MapWrite, MapInv, KeysKeepTheirData
<1>2. ASSUME NEW k \in Keys, MapRead(k) PROVE MapInv'
  <2>1. \A j \in Keys : Hash(j) \in DOMAIN slot
    BY HashIsSlot DEF MapInv
  <2>2. \A j \in Keys : slot'[Hash(j)] = IF Hash(j) = Hash(k) THEN buffer ELSE slot[Hash(j)]
    BY <1>2, <2>1 DEF MapRead, MapInv
  <2>3. \A j \in Keys : stored'[j] = IF j = k THEN buffer ELSE stored[j]
    BY <1>2 DEF MapRead, MapInv
  <2>4. ASSUME NEW j \in Keys, slot'[Hash(j)] # stored'[j]
        PROVE  j \in clobbered' /\ \E i \in Keys \ {j} : Hash(i) = Hash(j)
    <3>1. j # k
      BY <2>2, <2>3, <2>4
    <3>2. CASE Hash(j) = Hash(k)
      BY <1>2, <3>1, <3>2 DEF MapRead
    <3>3. CASE Hash(j) # Hash(k)
      BY <1>2, <2>2, <2>3, <2>4, <3>1, <3>3 DEF MapRead, MapInv, KeysKeepTheirData
    <3>4. QED
      BY <3>2, <3>3
  <2>5. KeysKeepTheirData'
    BY <2>4 DEF KeysKeepTheirData
  <2>6. QED
    BY <1>2, <2>5 DEF MapRead, MapInv
<1>3. ASSUME NEW d, Fill(d) PROVE MapInv'
  BY <1>3 DEF Fill, MapInv, KeysKeepTheirData
<1>4. ASSUME NEW d, MapClear(d) PROVE MapInv'
  BY <1>4, HashIsSlot DEF MapClear, MapInv, KeysKeepTheirData
<1>5. QED
  BY <1>1, <1>2, <1>3, <1>4 DEF MapNext

--------------------------------------------------------------------------------
(* A bit field: a byte that is masked keeps exactly the bits below         *)
(* bitCount, so nothing of the padding is counted.                         *)

LEMMA WholeBytes ==
  ASSUME bitCount \in Nat
  PROVE  LET q == bitCount \div ByteSize
             r == bitCount % ByteSize
         IN  /\ q \in Nat /\ r \in 0..(ByteSize - 1) /\ bitCount = q * ByteSize + r
             /\ ByteCount = IF r = 0 THEN q ELSE q + 1
<1> DEFINE q == bitCount \div ByteSize
           r == bitCount % ByteSize
<1>1. q \in Int /\ r \in 0..(ByteSize - 1) /\ bitCount = ByteSize * q + r
  BY DivMod, BytesHaveBits
<1>2. ByteCount = q + (IF r # 0 THEN 1 ELSE 0)
  BY DEF ByteCount
<1> HIDE DEF q, r
<1>3. ByteSize * (-1) < ByteSize * q
  BY <1>1, BytesHaveBits
<1>4. q \in Nat
  BY <1>1, <1>3, ProductOrder, BytesHaveBits
<1>5. ByteSize * q = q * ByteSize
  BY <1>1, ProductOrder, BytesHaveBits
<1>6. QED
  BY <1>1, <1>2, <1>4, <1>5 DEF q, r

LEMMA CountsTests ==
  ASSUME bitCount \in Nat
  PROVE  CountIsOfTests
<1> DEFINE q == bitCount \div ByteSize
           r == bitCount % ByteSize
           Masked(i) == IF bitCount % ByteSize # 0 /\ i = q
                        THEN ones \cap MaskOnes(i, bitCount % ByteSize) ELSE ones \cap Byte(i)
           Counted == UNION {Masked(i) : i \in 0..(ByteCount - 1)}
           Tested == {bit \in 0..(bitCount - 1) : BitTest(bit)}
<1>1. q \in Nat /\ r \in 0..(ByteSize - 1) /\ bitCount = q * ByteSize + r
      /\ ByteCount = IF r = 0 THEN q ELSE q + 1
  BY WholeBytes
<1>2. ASSUME NEW i \in 0..(ByteCount - 1), NEW x \in Masked(i) PROVE x \in Tested
  <2>1. x \in ones
    BY <1>2
  <2>2. x \in Int /\ i * ByteSize <= x
    BY <1>1, <1>2, BytesHaveBits DEF MaskOnes, Byte
  <2>3. 0 <= i * ByteSize
    BY <1>1, <1>2, BytesHaveBits
  <2>4. CASE r # 0 /\ i = q
    BY <1>1, <1>2, <2>1, <2>2, <2>3, <2>4, BytesHaveBits DEF MaskOnes, BitTest
  <2>5. CASE ~(r # 0 /\ i = q)
    <3>1. i \in Int /\ i + 1 <= q
      BY <1>1, <2>5
    <3>2. (i + 1) * ByteSize <= q * ByteSize
      BY <1>1, <3>1, ProductOrder, BytesHaveBits
    <3>3. x < (i + 1) * ByteSize
      BY <1>1, <1>2, <2>5, <3>1, BytesHaveBits DEF Byte
    <3>4. (i + 1) * ByteSize \in Int /\ q * ByteSize \in Int
      BY <1>1, <3>1, BytesHaveBits
    <3> HIDE DEF q, r, Masked
    <3>5. x < bitCount /\ 0 <= x
      BY <1>1, <2>2, <2>3, <3>1, <3>2, <3>3, <3>4, BytesHaveBits
    <3>6. QED
      BY <2>1, <2>2, <3>5 DEF BitTest
  <2>6. QED
    BY <2>4, <2>5
<1>3. ASSUME NEW x \in Tested PROVE \E i \in 0..(ByteCount - 1) : x \in Masked(i)
  <2> DEFINE i == x \div ByteSize
  <2>1. x \in 0..(bitCount - 1) /\ x \in ones
    BY DEF BitTest
  <2>2. x \in Nat
    BY <2>1
  <2>3. i \in Nat /\ i * ByteSize <= x /\ x < (i + 1) * ByteSize
    BY <2>2, DivOfNat, BytesHaveBits
  <2> HIDE DEF i, q, r
  <2>4. i * ByteSize \in Int /\ q * ByteSize \in Int /\ (q + 1) * ByteSize = q * ByteSize + ByteSize
    BY <1>1, <2>3, BytesHaveBits
  <2>5. i * ByteSize < q * ByteSize => i < q
    BY <1>1, <2>3, ProductOrder, BytesHaveBits
  <2>6. i * ByteSize < (q + 1) * ByteSize => i < q + 1
    BY <1>1, <2>3, ProductOrder, BytesHaveBits
  <2>7. i <= ByteCount - 1
    BY <1>1, <2>1, <2>2, <2>3, <2>4, <2>5, <2>6, BytesHaveBits
  <2>8. x \in Byte(i)
    BY <2>2, <2>3, <2>4, BytesHaveBits DEF Byte
  <2>9. i = q => x \in MaskOnes(i, r)
    BY <1>1, <2>1, <2>3, <2>4 DEF MaskOnes
  <2>10. x \in Masked(i)
    BY <2>1, <2>8, <2>9 DEF q, r
  <2>11. i \in 0..(ByteCount - 1)
    BY <1>1, <2>3, <2>7
  <2>12. QED
    BY <2>10, <2>11
<1>4. Counted = Tested
  <2> HIDE DEF Masked, Tested
  <2> QED
    BY <1>2, <1>3
<1>5. CountOnes = Cardinality(Counted)
  BY DEF CountOnes
<1>6. QED
  BY <1>4, <1>5 DEF CountIsOfTests

LEMMA BitsGather ==
  ASSUME bitCount \in Nat, BitNext
  PROVE  \/ ones \subseteq ones'
         \/ ones' \cap AllocatedBits = {} /\ ones' \cap Behind = ones \cap Behind
         \/ AllocatedBits \subseteq ones'
<1>1. ASSUME NEW bit, NEW state, BitWrite(bit, state) PROVE ones \subseteq ones'
  BY <1>1 DEF BitWrite
<1>2. CASE WriteAll(TRUE)
  BY <1>2 DEF WriteAll
<1>3. CASE WriteAll(FALSE)
  <2>1. ones' = ones \cap Behind
    BY <1>3 DEF WriteAll
  <2>2. ByteCount * ByteSize \in Int
    BY WholeBytes, BytesHaveBits
  <2>3. Behind \cap AllocatedBits = {}
    BY <2>2 DEF Behind, AllocatedBits
  <2>4. QED
    BY <2>1, <2>3
<1>4. QED
  BY <1>1, <1>2, <1>3 DEF BitNext, BitSet, BitReset, BitToggle


--------------------------------------------------------------------------------
(* A grid: the element at a point has an index of its own.                 *)

GridOf(w, h) == [width : {w}, height : {h}, data : [0..(w * h - 1) -> Cells \cup {0}]]
IsGrid(r) == \E w, h \in Sides : r \in GridOf(w, h)
GridInv ==
    /\ grid = [g \in Grids |-> grid[g]]
    /\ \A g \in Grids : grid[g] = NoGrid \/ IsGrid(grid[g])

(* The point of an index, in a grid of this width.                         *)
Place(w, i) == <<i % w, i \div w>>

LEMMA IndexOfPoint ==
  ASSUME NEW w \in Nat \ {0}, NEW h \in Nat, NEW x \in 0..(w - 1), NEW y \in 0..(h - 1)
  PROVE  y * w + x \in 0..(w * h - 1) /\ Place(w, y * w + x) = <<x, y>>
<1> DEFINE i == y * w + x
<1>1. i \in Int /\ 0 <= i
  OBVIOUS
<1>2. (y + 1) * w <= h * w
  BY ProductOrder
<1>3. (y + 1) * w = y * w + w /\ h * w = w * h /\ y * w = w * y
  OBVIOUS
<1>4. i \in 0..(w * h - 1)
  <2>1. y * w \in Int /\ w * h \in Int
    OBVIOUS
  <2>2. QED
    BY <1>1, <1>2, <1>3, <2>1
<1>5. w * y <= i /\ i < w * y + w
  BY <1>3
<1> HIDE DEF i
<1>6. i \div w = y
  BY <1>1, <1>5, DivIsUnique
<1>7. i = w * (i \div w) + (i % w) /\ i % w \in 0..(w - 1)
  BY <1>1, DivMod
<1>8. i % w = x
  <2>1. w * y \in Int /\ i = w * y + x
    BY <1>3 DEF i
  <2>2. QED
    BY <1>6, <1>7, <2>1
<1>9. QED
  BY <1>4, <1>6, <1>8 DEF Place, i

LEMMA PointOfIndex ==
  ASSUME NEW w \in Nat \ {0}, NEW h \in Nat, NEW i \in 0..(w * h - 1)
  PROVE  i % w \in 0..(w - 1) /\ i \div w \in 0..(h - 1) /\ i = (i \div w) * w + (i % w)
<1>1. w * h \in Int /\ i \in Nat
  OBVIOUS
<1>2. i \div w \in Nat /\ (i \div w) * w <= i
  BY <1>1, DivOfNat
<1>3. i % w \in 0..(w - 1) /\ i = w * (i \div w) + (i % w)
  BY <1>1, DivMod
<1> DEFINE q == i \div w
<1>4. w * q < w * h => q < h
  BY <1>2, ProductOrder
<1>5. w * q = q * w /\ w * q \in Int
  BY <1>2
<1>6. q < h
  <2> HIDE DEF q
  <2> QED
    BY <1>1, <1>2, <1>4, <1>5 DEF q
<1>7. QED
  BY <1>2, <1>3, <1>5, <1>6

(* avGridWrite, on a grid: it stays one, and one element changes.          *)
LEMMA WrittenFacts ==
  ASSUME NEW w \in Sides, NEW h \in Sides, NEW r \in GridOf(w, h),
         NEW v \in Cells \cup {0}, NEW x \in Nat, NEW y \in Nat
  PROVE  /\ Written(r, v, x, y) \in GridOf(w, h)
         /\ \A i \in 0..(w * h - 1) :
                Written(r, v, x, y).data[i] = IF Place(w, i) = <<x, y>> THEN v ELSE r.data[i]
<1>1. w \in Nat \ {0} /\ h \in Nat \ {0}
  BY SidesFitTwice DEF Sides
<1>2. r.width = w /\ r.height = h /\ r.data \in [0..(w * h - 1) -> Cells \cup {0}]
      /\ r = [width |-> w, height |-> h, data |-> r.data]
  BY DEF GridOf
<1>3. CASE x < w /\ y < h
  <2> DEFINE j == y * w + x
             new == [r.data EXCEPT ![j] = v]
  <2>1. x \in 0..(w - 1) /\ y \in 0..(h - 1)
    BY <1>1, <1>3
  <2>2. j \in 0..(w * h - 1) /\ Place(w, j) = <<x, y>>
    BY <1>1, <2>1, IndexOfPoint
  <2>3. Written(r, v, x, y) = [width |-> w, height |-> h, data |-> new]
    <3>1. Written(r, v, x, y) = [r EXCEPT !.data[j] = v]
      BY <1>2, <1>3 DEF Written, InGrid, Index
    <3> HIDE DEF j
    <3>2. QED
      BY <1>2, <3>1
  <2> HIDE DEF j
  <2>4. new \in [0..(w * h - 1) -> Cells \cup {0}]
    BY <1>2
  <2>5. ASSUME NEW i \in 0..(w * h - 1) PROVE new[i] = IF Place(w, i) = <<x, y>> THEN v ELSE r.data[i]
    <3>1. Place(w, i) = <<x, y>> => i = j
      <4>1. i = (i \div w) * w + (i % w)
        BY <1>1, PointOfIndex
      <4>2. QED
        BY <4>1 DEF Place, j
    <3>2. QED
      BY <1>2, <2>2, <3>1
  <2>6. QED
    BY <2>3, <2>4, <2>5 DEF GridOf
<1>4. CASE ~(x < w /\ y < h)
  <2>1. Written(r, v, x, y) = r
    BY <1>2, <1>4 DEF Written, InGrid
  <2>2. ASSUME NEW i \in 0..(w * h - 1) PROVE Place(w, i) # <<x, y>>
    <3>1. i % w \in 0..(w - 1) /\ i \div w \in 0..(h - 1)
      BY <1>1, PointOfIndex
    <3>2. i % w < w /\ i \div w < h
      BY <1>1, <3>1
    <3>3. QED
      BY <1>4, <3>2 DEF Place
  <2>3. QED
    BY <2>1, <2>2
<1>5. QED
  BY <1>3, <1>4

(* A point of a grid and its element.                                      *)
LEMMA ElementFacts ==
  ASSUME NEW w \in Sides, NEW h \in Sides, NEW r \in GridOf(w, h), NEW p \in Points(r)
  PROVE  \E i \in 0..(w * h - 1) :
            /\ p = Place(w, i) /\ p[1] = i % w /\ p[2] = i \div w
            /\ p[1] \in 0..(w - 1) /\ p[2] \in 0..(h - 1)
            /\ \A s \in GridOf(w, h) : Element(s, p[1], p[2]) = s.data[i]
<1>1. w \in Nat \ {0} /\ h \in Nat \ {0}
  BY SidesFitTwice DEF Sides
<1>2. r.width = w /\ r.height = h
  BY DEF GridOf
<1>3. p[1] \in 0..(w - 1) /\ p[2] \in 0..(h - 1) /\ p = <<p[1], p[2]>>
  BY <1>2 DEF Points
<1> DEFINE i == p[2] * w + p[1]
<1>4. i \in 0..(w * h - 1) /\ Place(w, i) = <<p[1], p[2]>>
  BY <1>1, <1>3, IndexOfPoint
<1>5. \A s \in GridOf(w, h) : Element(s, p[1], p[2]) = s.data[i]
  BY DEF Element, Index, GridOf
<1> HIDE DEF i
<1>6. i % w = p[1] /\ i \div w = p[2]
  BY <1>4 DEF Place
<1>7. QED
  BY <1>3, <1>4, <1>5, <1>6

LEMMA WritesOneHolds == GridInv => WritesOne
<1> SUFFICES ASSUME GridInv, NEW g \in Grids, NEW v \in Cells,
                    NEW x \in Coordinates, NEW y \in Coordinates, NEW p \in Points(grid[g])
             PROVE  Element(Written(grid[g], v, x, y), p[1], p[2])
                        = IF p = <<x, y>> THEN v ELSE Element(grid[g], p[1], p[2])
  BY DEF WritesOne
<1>1. x \in Nat /\ y \in Nat
  BY SidesFitTwice DEF Coordinates
<1>2. grid[g] # NoGrid
  BY DEF NoGrid, Points
<1>3. PICK w \in Sides, h \in Sides : grid[g] \in GridOf(w, h)
  BY <1>2 DEF GridInv, IsGrid
<1>4. PICK i \in 0..(w * h - 1) :
          p = Place(w, i) /\ \A s \in GridOf(w, h) : Element(s, p[1], p[2]) = s.data[i]
  BY <1>3, ElementFacts
<1>5. /\ Written(grid[g], v, x, y) \in GridOf(w, h)
      /\ Written(grid[g], v, x, y).data[i] = IF Place(w, i) = <<x, y>> THEN v ELSE grid[g].data[i]
  BY <1>1, <1>3, WrittenFacts
<1>6. QED
  BY <1>3, <1>4, <1>5

(* avGridWriteGrid between two grids: after n elements, those of the       *)
(* region's first n places that are in the grid are the source's.          *)
PasteWidth(src, dst, x, w) == Min({w, src.width, (x - dst.width) % Modulus})
PasteHeight(src, dst, y, h) == Min({h, src.height, (y + dst.height) % Modulus})

LEMMA MinOfThree ==
  ASSUME NEW a \in Int, NEW b \in Int, NEW c \in Int
  PROVE  /\ Min({a, b, c}) \in {a, b, c}
         /\ Min({a, b, c}) <= a /\ Min({a, b, c}) <= b /\ Min({a, b, c}) <= c
<1>1. \E m \in {a, b, c} : \A n \in {a, b, c} : m <= n
  <2>1. CASE a <= b /\ a <= c
    BY <2>1
  <2>2. CASE b <= a /\ b <= c
    BY <2>2
  <2>3. CASE c <= a /\ c <= b
    BY <2>3
  <2>4. QED
    BY <2>1, <2>2, <2>3
<1>2. Min({a, b, c}) = CHOOSE m \in {a, b, c} : \A n \in {a, b, c} : m <= n
  BY DEF Min
<1>3. QED
  BY <1>1, <1>2

LEMMA PasteSizes ==
  ASSUME NEW a \in Sides, NEW b \in Sides, NEW src \in GridOf(a, b),
         NEW c \in Sides, NEW d \in Sides, NEW dst \in GridOf(c, d),
         NEW x \in Nat, NEW y \in Nat, NEW w \in Sides, NEW h \in Sides, InGrid(dst, x, y)
  PROVE  LET W == PasteWidth(src, dst, x, w)
             H == PasteHeight(src, dst, y, h)
         IN  /\ W \in Nat \ {0} /\ H \in Nat \ {0} /\ W <= a /\ H <= b
             /\ \A u \in 0..(c - x - 1) : u < W <=> u < w /\ u < a
             /\ \A v \in 0..(d - y - 1) : v < H <=> v < h /\ v < b
<1> DEFINE W == PasteWidth(src, dst, x, w)
           H == PasteHeight(src, dst, y, h)
           e == (x - c) % Modulus
           f == (y + d) % Modulus
<1>1. /\ a \in Nat \ {0} /\ b \in Nat \ {0} /\ c \in Nat \ {0} /\ d \in Nat \ {0}
      /\ w \in Nat \ {0} /\ h \in Nat \ {0} /\ Modulus \in Nat
      /\ 2 * c <= Modulus /\ 2 * d <= Modulus
  BY SidesFitTwice DEF Sides
<1>2. src.width = a /\ src.height = b /\ dst.width = c /\ dst.height = d
  BY DEF GridOf
<1>3. x < c /\ y < d
  BY <1>2 DEF InGrid
<1>4. e = x - c + Modulus
  <2>1. x - c < 0 /\ 0 <= x - c + Modulus /\ x - c + Modulus < Modulus
    BY <1>1, <1>3
  <2>2. QED
    BY <1>1, <2>1
<1>5. f = y + d
  <2>1. 0 <= y + d /\ y + d < Modulus
    BY <1>1, <1>3
  <2>2. QED
    BY <1>1, <2>1
<1> HIDE DEF e, f
<1>6. e \in Int /\ f \in Int
  BY <1>1, <1>4, <1>5
<1>7. W = Min({w, a, e}) /\ H = Min({h, b, f})
  BY <1>2 DEF PasteWidth, PasteHeight, e, f
<1> HIDE DEF W, H
<1>8. W \in {w, a, e} /\ W <= w /\ W <= a /\ W <= e
  <2>1. w \in Int /\ a \in Int /\ e \in Int
    BY <1>1, <1>6
  <2>2. /\ Min({w, a, e}) \in {w, a, e}
        /\ Min({w, a, e}) <= w /\ Min({w, a, e}) <= a /\ Min({w, a, e}) <= e
    BY ONLY <2>1, MinOfThree
  <2>3. QED
    BY ONLY <1>7, <2>2
<1>9. H \in {h, b, f} /\ H <= h /\ H <= b /\ H <= f
  <2>1. h \in Int /\ b \in Int /\ f \in Int
    BY <1>1, <1>6
  <2>2. /\ Min({h, b, f}) \in {h, b, f}
        /\ Min({h, b, f}) <= h /\ Min({h, b, f}) <= b /\ Min({h, b, f}) <= f
    BY ONLY <2>1, MinOfThree
  <2>3. QED
    BY ONLY <1>7, <2>2
<1>10. W \in Nat \ {0} /\ \A u \in 0..(c - x - 1) : u < W <=> u < w /\ u < a
  BY <1>1, <1>3, <1>4, <1>8
<1>11. H \in Nat \ {0} /\ \A v \in 0..(d - y - 1) : v < H <=> v < h /\ v < b
  BY <1>1, <1>3, <1>5, <1>9
<1>12. QED
  BY <1>8, <1>9, <1>10, <1>11 DEF W, H

(* Whether the place of index i, in a grid of width c, is one of the first *)
(* n places of the region that begins at x, y and is W wide.               *)
IsPasted(c, x, y, W, n, i) ==
    /\ (i % c) - x \in 0..(W - 1)
    /\ (i \div c) - y \in Nat
    /\ ((i \div c) - y) * W + ((i % c) - x) < n

PastedUpTo(src, dst, x, y, W, n) ==
    [width |-> dst.width, height |-> dst.height,
     data |-> [i \in 0..(dst.width * dst.height - 1) |->
                  IF IsPasted(dst.width, x, y, W, n, i)
                  THEN src.data[((i \div dst.width) - y) * src.width + ((i % dst.width) - x)]
                  ELSE dst.data[i]]]

LEMMA ProductBelow ==
  ASSUME NEW W \in Nat \ {0}, NEW H \in Nat, NEW u \in 0..(W - 1), NEW v \in Nat
  PROVE  v * W + u < W * H <=> v < H
<1>1. v < H => v * W + u < W * H
  <2>1. ASSUME v < H PROVE v * W + u < W * H
    <3>1. v * W + u \in 0..(W * H - 1)
      BY <2>1, IndexOfPoint
    <3>2. W * H \in Int
      OBVIOUS
    <3>3. QED
      BY <3>1, <3>2
  <2>2. QED
    BY <2>1
<1>2. H <= v => W * H <= W * v
  BY ProductOrder
<1>3. W * v = v * W /\ v * W \in Int /\ W * H \in Int
  OBVIOUS
<1>4. QED
  BY <1>1, <1>2, <1>3

LEMMA PastedIsGrid ==
  ASSUME NEW a \in Sides, NEW b \in Sides, NEW src \in GridOf(a, b),
         NEW c \in Sides, NEW d \in Sides, NEW dst \in GridOf(c, d),
         NEW x \in Nat, NEW y \in Nat, NEW W \in Nat \ {0}, NEW H \in Nat,
         W <= a, H <= b, NEW n \in 0..(W * H)
  PROVE  PastedUpTo(src, dst, x, y, W, n) \in GridOf(c, d)
<1>1. a \in Nat \ {0} /\ b \in Nat /\ c \in Nat \ {0} /\ d \in Nat
  BY SidesFitTwice DEF Sides
<1>2. /\ src.width = a /\ src.data \in [0..(a * b - 1) -> Cells \cup {0}]
      /\ dst.width = c /\ dst.height = d /\ dst.data \in [0..(c * d - 1) -> Cells \cup {0}]
  BY DEF GridOf
<1>3. ASSUME NEW i \in 0..(c * d - 1), IsPasted(c, x, y, W, n, i)
      PROVE  src.data[((i \div c) - y) * a + ((i % c) - x)] \in Cells \cup {0}
  <2> DEFINE u == (i % c) - x
             v == (i \div c) - y
  <2>1. u \in 0..(W - 1) /\ v \in Nat /\ v * W + u < n
    BY <1>3 DEF IsPasted
  <2> HIDE DEF u, v
  <2>2. v * W \in Int /\ W * H \in Int /\ u \in Int
    BY <2>1
  <2>3. v * W + u < W * H
    BY <2>1, <2>2
  <2>4. v < H
    BY <2>1, <2>3, ProductBelow
  <2>5. v \in 0..(b - 1) /\ u \in 0..(a - 1)
    BY <1>1, <2>1, <2>4
  <2>6. v * a + u \in 0..(a * b - 1)
    BY <1>1, <2>5, IndexOfPoint
  <2>7. QED
    BY <1>2, <2>6 DEF u, v
<1>4. [i \in 0..(c * d - 1) |->
          IF IsPasted(c, x, y, W, n, i) THEN src.data[((i \div c) - y) * a + ((i % c) - x)] ELSE dst.data[i]]
        \in [0..(c * d - 1) -> Cells \cup {0}]
  BY <1>2, <1>3
<1>5. QED
  BY <1>2, <1>4 DEF PastedUpTo, GridOf

(* A grid is its data.                                                     *)
LEMMA SameGrid ==
  ASSUME NEW w, NEW h, NEW r \in GridOf(w, h), NEW s \in GridOf(w, h),
         \A i \in 0..(w * h - 1) : r.data[i] = s.data[i]
  PROVE  r = s
<1>1. r.data = s.data
  <2>1. r.data \in [0..(w * h - 1) -> Cells \cup {0}] /\ s.data \in [0..(w * h - 1) -> Cells \cup {0}]
    BY DEF GridOf
  <2> DEFINE D == 0..(w * h - 1)
             T == Cells \cup {0}
  <2>2. r.data \in [D -> T] /\ s.data \in [D -> T] /\ \A i \in D : r.data[i] = s.data[i]
    BY <2>1
  <2> HIDE DEF D, T
  <2>3. QED
    BY ONLY <2>2
<1>2. r = [width |-> w, height |-> h, data |-> r.data] /\ s = [width |-> w, height |-> h, data |-> s.data]
  BY DEF GridOf
<1>3. QED
  BY <1>1, <1>2

LEMMA PasteStep ==
  ASSUME NEW a \in Sides, NEW b \in Sides, NEW src \in GridOf(a, b),
         NEW c \in Sides, NEW d \in Sides, NEW dst \in GridOf(c, d),
         NEW x \in Nat, NEW y \in Nat, NEW W \in Nat \ {0}, NEW H \in Nat,
         W <= a, H <= b, NEW n \in 1..(W * H)
  PROVE  LET xx == (n - 1) % W
             yy == (n - 1) \div W
         IN  Written(PastedUpTo(src, dst, x, y, W, n - 1), src.data[Index(src, xx, yy)], xx + x, yy + y)
                 = PastedUpTo(src, dst, x, y, W, n)
<1> DEFINE xx == (n - 1) % W
           yy == (n - 1) \div W
           old == PastedUpTo(src, dst, x, y, W, n - 1)
           new == PastedUpTo(src, dst, x, y, W, n)
           v0 == src.data[Index(src, xx, yy)]
           made == Written(old, v0, xx + x, yy + y)
<1>1. a \in Nat \ {0} /\ b \in Nat /\ c \in Nat \ {0} /\ d \in Nat
  BY SidesFitTwice DEF Sides
<1>2. /\ src.width = a /\ src.data \in [0..(a * b - 1) -> Cells \cup {0}]
      /\ dst.width = c /\ dst.height = d
  BY DEF GridOf
<1>3. W * H \in Int /\ n - 1 \in 0..(W * H - 1) /\ n - 1 \in 0..(W * H) /\ n \in 0..(W * H) /\ n \in Int
  OBVIOUS
<1>4. xx \in 0..(W - 1) /\ yy \in 0..(H - 1) /\ n - 1 = yy * W + xx
  BY <1>3, PointOfIndex
<1>5. old \in GridOf(c, d) /\ new \in GridOf(c, d)
  BY <1>3, PastedIsGrid
<1> HIDE DEF xx, yy
<1>6. v0 = src.data[yy * a + xx] /\ v0 \in Cells \cup {0}
  <2>1. xx \in 0..(a - 1) /\ yy \in 0..(b - 1)
    BY <1>1, <1>4
  <2>2. yy * a + xx \in 0..(a * b - 1)
    BY <1>1, <2>1, IndexOfPoint
  <2>3. QED
    BY <1>2, <2>2 DEF Index
<1>7. xx + x \in Nat /\ yy + y \in Nat
  BY <1>4
<1> HIDE DEF v0, old
<1>8. /\ made \in GridOf(c, d)
      /\ \A i \in 0..(c * d - 1) :
             made.data[i] = IF Place(c, i) = <<xx + x, yy + y>> THEN v0 ELSE old.data[i]
  <2> DEFINE px == xx + x
             py == yy + y
  <2>1. px \in Nat /\ py \in Nat
    BY <1>7
  <2> HIDE DEF px, py
  <2>2. /\ Written(old, v0, px, py) \in GridOf(c, d)
        /\ \A i \in 0..(c * d - 1) :
               Written(old, v0, px, py).data[i] = IF Place(c, i) = <<px, py>> THEN v0 ELSE old.data[i]
    <3>1. old \in GridOf(c, d) /\ v0 \in Cells \cup {0} /\ c \in Sides /\ d \in Sides
      BY <1>5, <1>6
    <3>2. QED
      BY ONLY <2>1, <3>1, WrittenFacts
  <2>3. QED
    BY <2>2 DEF px, py
<1> HIDE DEF made
<1>9. ASSUME NEW i \in 0..(c * d - 1) PROVE made.data[i] = new.data[i]
  <2> DEFINE u == (i % c) - x
             v == (i \div c) - y
             Pasted0(m) == IsPasted(c, x, y, W, m, i)
  <2>1. /\ old.data[i] = IF Pasted0(n - 1) THEN src.data[v * a + u] ELSE dst.data[i]
        /\ new.data[i] = IF Pasted0(n) THEN src.data[v * a + u] ELSE dst.data[i]
    BY <1>2 DEF PastedUpTo, old
  <2>2. i % c \in Int /\ i \div c \in Int
    <3>1. i % c \in 0..(c - 1) /\ i \div c \in 0..(d - 1)
      BY <1>1, PointOfIndex
    <3>2. QED
      BY <3>1
  <2>3. \A m : Pasted0(m) <=> u \in 0..(W - 1) /\ v \in Nat /\ v * W + u < m
    BY DEF IsPasted
  <2>4. Place(c, i) = <<xx + x, yy + y>> <=> u = xx /\ v = yy
    <3>1. Place(c, i) = <<i % c, i \div c>>
      BY DEF Place
    <3>2. i % c = xx + x <=> u = xx
      BY <1>4, <2>2
    <3>3. i \div c = yy + y <=> v = yy
      BY <1>4, <2>2
    <3>4. QED
      BY <3>1, <3>2, <3>3
  <2> HIDE DEF u, v, Pasted0, new
  <2>5. CASE u = xx /\ v = yy
    <3>1. u \in 0..(W - 1) /\ v \in Nat /\ v * W + u < n
      BY <1>3, <1>4, <2>5
    <3>2. Pasted0(n)
      BY <2>3, <3>1
    <3>3. QED
      BY <1>6, <1>8, <2>1, <2>4, <2>5, <3>2
  <2>6. CASE ~(u = xx /\ v = yy)
    <3>1. ASSUME u \in 0..(W - 1), v \in Nat PROVE v * W + u # n - 1 /\ v * W + u \in Int
      <4>1. v \in 0..v
        BY <3>1
      <4>2. Place(W, v * W + u) = <<u, v>>
        <5>1. v + 1 \in Nat /\ v \in 0..((v + 1) - 1)
          BY <3>1
        <5>2. QED
          BY <3>1, <5>1, IndexOfPoint
      <4>3. Place(W, n - 1) = <<xx, yy>>
        BY DEF Place, xx, yy
      <4>4. v * W + u \in Int
        BY <3>1
      <4>5. QED
        BY <2>6, <4>2, <4>3, <4>4
    <3>2. Pasted0(n) <=> Pasted0(n - 1)
      <4>1. ASSUME u \in 0..(W - 1), v \in Nat PROVE v * W + u < n <=> v * W + u < n - 1
        BY <1>3, <3>1, <4>1
      <4>2. QED
        BY <2>3, <4>1
    <3>3. QED
      BY <1>8, <2>1, <2>4, <2>6, <3>2
  <2>7. QED
    BY <2>5, <2>6
<1>10. made = new
  <2> HIDE DEF new
  <2> QED
    BY ONLY <1>5, <1>8, <1>9, SameGrid
<1>11. QED
  BY <1>10 DEF made, old, v0, xx, yy

PastesRegion(src, dst, x, y, w, h) ==
    LET W == PasteWidth(src, dst, x, w)
        H == PasteHeight(src, dst, y, h)
    IN  Pasted(src, dst, FALSE, x, y, w, h) = PastedUpTo(src, dst, x, y, W, W * H)

LEMMA PastedFacts ==
  ASSUME NEW a \in Sides, NEW b \in Sides, NEW src \in GridOf(a, b),
         NEW c \in Sides, NEW d \in Sides, NEW dst \in GridOf(c, d),
         NEW x \in Nat, NEW y \in Nat, NEW w \in Sides, NEW h \in Sides, InGrid(dst, x, y)
  PROVE  PastesRegion(src, dst, x, y, w, h)
<1> DEFINE W == PasteWidth(src, dst, x, w)
           H == PasteHeight(src, dst, y, h)
           N == W * H
           Upto == [n \in 0..N |-> PastedUpTo(src, dst, x, y, W, n)]
           Put(before, n) == Written(before, src.data[Index(src, (n - 1) % W, (n - 1) \div W)],
                                     ((n - 1) % W) + x, ((n - 1) \div W) + y)
           Body(f) == [n \in 0..N |-> IF n = 0 THEN dst ELSE Put(f[n - 1], n)]
           Copied == CHOOSE f : f = Body(f)
<1>1. /\ W \in Nat \ {0} /\ H \in Nat \ {0} /\ W <= a /\ H <= b
  BY PasteSizes
<1>2. Pasted(src, dst, FALSE, x, y, w, h) = Copied[N]
  BY DEF Pasted, PasteWidth, PasteHeight
<1> HIDE DEF W, H
<1>3. N \in Nat
  BY <1>1
<1>4. PastedUpTo(src, dst, x, y, W, 0) = dst
  <2> DEFINE none == PastedUpTo(src, dst, x, y, W, 0)
  <2>1. none \in GridOf(c, d)
    <3>1. 0 \in 0..(W * H)
      BY <1>3
    <3>2. W \in Nat \ {0} /\ H \in Nat /\ W <= a /\ H <= b
      BY <1>1
    <3>3. QED
      BY <3>1, <3>2, PastedIsGrid
  <2>2. ASSUME NEW i \in 0..(c * d - 1) PROVE none.data[i] = dst.data[i]
    <3>1. ~IsPasted(c, x, y, W, 0, i)
      <4>1. ASSUME NEW u \in 0..(W - 1), NEW v \in Nat PROVE ~(v * W + u < 0)
        BY <1>1
      <4>2. QED
        BY <4>1 DEF IsPasted
    <3>2. dst.width = c /\ dst.height = d
      BY DEF GridOf
    <3>3. QED
      BY <3>1, <3>2 DEF PastedUpTo
  <2> HIDE DEF none
  <2>3. none = dst
    BY ONLY <2>1, <2>2, SameGrid
  <2>4. QED
    BY <2>3 DEF none
<1>5. ASSUME NEW n \in 1..N
      PROVE  Put(PastedUpTo(src, dst, x, y, W, n - 1), n) = PastedUpTo(src, dst, x, y, W, n)
  <2>1. H \in Nat /\ W \in Nat \ {0} /\ W <= a /\ H <= b /\ n \in 1..(W * H)
    BY <1>1
  <2>2. QED
    BY <2>1, PasteStep
<1> HIDE DEF N, Put
<1>6. Upto = Body(Upto)
  <2>1. \A n \in 0..N : Upto[n] = Body(Upto)[n]
    <3>1. ASSUME NEW n \in 0..N, n # 0 PROVE n \in 1..N /\ n - 1 \in 0..N
      BY <1>3, <3>1
    <3>2. QED
      BY <1>4, <1>5, <3>1
  <2>2. QED
    BY <2>1
<1>7. Copied = Body(Copied)
  <2> HIDE DEF Body, Upto
  <2> QED
    BY <1>6
<1>8. \A n \in 0..N : Copied[n] = IF n = 0 THEN dst ELSE Put(Copied[n - 1], n)
  <2> HIDE DEF Copied
  <2> QED
    BY <1>7
<1> HIDE DEF Copied
<1>9. \A n \in 0..N : Copied[n] = Upto[n]
  <2>1. Copied[0] = Upto[0]
    BY <1>3, <1>4, <1>8
  <2>2. ASSUME NEW n \in 1..N, Copied[n - 1] = Upto[n - 1] PROVE Copied[n] = Upto[n]
    <3>1. n \in 0..N /\ n - 1 \in 0..N /\ n # 0
      BY <1>3
    <3>2. Copied[n] = Put(Upto[n - 1], n)
      BY <1>8, <2>2, <3>1
    <3>3. QED
      BY <1>5, <3>1, <3>2
  <2> HIDE DEF Upto
  <2>3. StepTogether(Copied, Upto, N)
    BY <2>1, <2>2 DEF StepTogether
  <2>4. Agree(Copied, Upto, N)
    BY ONLY <1>3, <2>3, SameSteps
  <2>5. QED
    BY <2>4 DEF Agree
<1>10. Copied[N] = PastedUpTo(src, dst, x, y, W, N)
  BY <1>3, <1>9
<1>11. QED
  BY <1>2, <1>10 DEF N, W, H, PastesRegion

LEMMA PastesClippedHolds == GridInv => PastesClipped
<1> SUFFICES ASSUME GridInv, NEW g \in Grids, NEW s \in Grids, grid[g] # NoGrid, grid[s] # NoGrid,
                    NEW x \in Coordinates, NEW y \in Coordinates, NEW w \in Sides, NEW h \in Sides,
                    NEW p \in Points(grid[g])
             PROVE  LET u == p[1] - x
                        v == p[2] - y
                    IN  Element(Pasted(grid[s], grid[g], FALSE, x, y, w, h), p[1], p[2])
                            = IF u \in 0..(w - 1) /\ v \in 0..(h - 1) /\ <<u, v>> \in Points(grid[s])
                              THEN Element(grid[s], u, v) ELSE Element(grid[g], p[1], p[2])
  BY DEF PastesClipped
<1> DEFINE src == grid[s]
           dst == grid[g]
           u == p[1] - x
           v == p[2] - y
           new == Pasted(src, dst, FALSE, x, y, w, h)
           inRegion == u \in 0..(w - 1) /\ v \in 0..(h - 1) /\ <<u, v>> \in Points(src)
<1>1. x \in Nat /\ y \in Nat
  BY SidesFitTwice DEF Coordinates
<1>2. PICK c \in Sides, d \in Sides : dst \in GridOf(c, d)
  BY DEF GridInv, IsGrid
<1>3. PICK a \in Sides, b \in Sides : src \in GridOf(a, b)
  BY DEF GridInv, IsGrid
<1>4. PICK i \in 0..(c * d - 1) :
          /\ p[1] = i % c /\ p[2] = i \div c
          /\ p[1] \in 0..(c - 1) /\ p[2] \in 0..(d - 1)
          /\ \A r \in GridOf(c, d) : Element(r, p[1], p[2]) = r.data[i]
  BY <1>2, ElementFacts
<1>5. /\ src.width = a /\ src.height = b /\ dst.width = c /\ dst.height = d
      /\ a \in Nat \ {0} /\ b \in Nat \ {0} /\ c \in Nat \ {0} /\ d \in Nat \ {0}
      /\ w \in Nat \ {0} /\ h \in Nat \ {0}
  <2>1. src.width = a /\ src.height = b
    BY ONLY <1>3 DEF GridOf
  <2>2. dst.width = c /\ dst.height = d
    BY ONLY <1>2 DEF GridOf
  <2>3. Sides \subseteq Nat \ {0}
    BY SidesFitTwice DEF Sides
  <2>4. QED
    BY <2>1, <2>2, <2>3
<1>6. inRegion <=> u \in 0..(w - 1) /\ v \in 0..(h - 1) /\ u < a /\ v < b
  <2>1. <<u, v>> \in Points(src) <=> u \in 0..(a - 1) /\ v \in 0..(b - 1)
    BY <1>5 DEF Points
  <2>2. u \in Int /\ v \in Int
    BY <1>1, <1>4
  <2> HIDE DEF u, v
  <2>3. QED
    BY <1>5, <2>1, <2>2
<1>7. Element(new, p[1], p[2]) = IF inRegion THEN src.data[v * a + u] ELSE dst.data[i]
  <2>1. CASE InGrid(dst, x, y)
    <3> DEFINE W == PasteWidth(src, dst, x, w)
               H == PasteHeight(src, dst, y, h)
               N == W * H
    <3>1. src \in GridOf(a, b) /\ dst \in GridOf(c, d)
      BY <1>2, <1>3
    <3> HIDE DEF src, dst, new
    <3>2. /\ W \in Nat \ {0} /\ H \in Nat \ {0} /\ W <= a /\ H <= b
          /\ \A m \in 0..(c - x - 1) : m < W <=> m < w /\ m < a
          /\ \A m \in 0..(d - y - 1) : m < H <=> m < h /\ m < b
      BY <1>1, <2>1, <3>1, PasteSizes
    <3>3. new = PastedUpTo(src, dst, x, y, W, N)
      <4>1. PastesRegion(src, dst, x, y, w, h)
        <5>1. x \in Nat /\ y \in Nat /\ w \in Sides /\ h \in Sides /\ InGrid(dst, x, y)
          BY <1>1, <2>1
        <5>2. QED
          BY ONLY <3>1, <5>1, PastedFacts
      <4>2. QED
        BY ONLY <4>1 DEF new, W, H, N, PastesRegion
    <3> HIDE DEF W, H
    <3>4. new \in GridOf(c, d)
      <4>1. N \in 0..(W * H) /\ H \in Nat
        BY <3>2
      <4>2. QED
        BY <1>1, <3>1, <3>2, <3>3, <4>1, PastedIsGrid
    <3> HIDE DEF N
    <3>5. new.data[i] = IF IsPasted(c, x, y, W, N, i) THEN src.data[v * a + u] ELSE dst.data[i]
      BY <1>4, <1>5, <3>3 DEF PastedUpTo
    <3>6. IsPasted(c, x, y, W, N, i) <=> u \in 0..(W - 1) /\ v \in Nat /\ v * W + u < N
      BY <1>4 DEF IsPasted
    <3>7. u \in Int /\ v \in Int /\ u < c - x /\ v < d - y
      BY <1>1, <1>4, <1>5
    <3> HIDE DEF u, v, inRegion
    <3>8. ASSUME u \in 0..(W - 1), v \in Nat PROVE v * W + u < N <=> v < H
      <4>1. H \in Nat
        BY <3>2
      <4>2. QED
        BY <3>2, <3>8, <4>1, ProductBelow DEF N
    <3>9. u \in Nat => (u < W <=> u < w /\ u < a)
      BY <1>1, <1>5, <3>2, <3>7
    <3>10. v \in Nat => (v < H <=> v < h /\ v < b)
      BY <1>1, <1>5, <3>2, <3>7
    <3>11. u \in 0..(W - 1) <=> u \in Nat /\ u < W
      BY <3>2, <3>7
    <3>12. u \in 0..(w - 1) /\ v \in 0..(h - 1) <=> u \in Nat /\ u < w /\ v \in Nat /\ v < h
      BY <1>5, <3>7
    <3>13. IsPasted(c, x, y, W, N, i) <=> inRegion
      BY <1>6, <3>6, <3>8, <3>9, <3>10, <3>11, <3>12
    <3>14. QED
      BY <1>4, <3>4, <3>5, <3>13
  <2>2. CASE ~InGrid(dst, x, y)
    <3>1. new = dst
      BY <2>2 DEF Pasted
    <3>2. ~(x < c /\ y < d)
      BY <1>5, <2>2 DEF InGrid
    <3>3. u < 0 \/ v < 0
      BY <1>1, <1>4, <1>5, <3>2
    <3>4. ~inRegion
      BY <1>1, <1>4, <1>5, <1>6, <3>3
    <3>5. QED
      BY <1>2, <1>4, <3>1, <3>4
  <2>3. QED
    BY <2>1, <2>2
<1>8. Element(src, u, v) = src.data[v * a + u] /\ Element(dst, p[1], p[2]) = dst.data[i]
  BY <1>2, <1>4, <1>5 DEF Element, Index
<1>9. Element(new, p[1], p[2]) = IF inRegion THEN Element(src, u, v) ELSE Element(dst, p[1], p[2])
  BY ONLY <1>7, <1>8
<1>10. QED
  BY <1>9

(* avGridFindMinRectSurrounding: after n elements, the bounds of those of  *)
(* the first n that are equal.                                             *)
LEMMA OfOne == ASSUME NEW x \in Int PROVE Min({x}) = x /\ Max({x}) = x
BY DEF Min, Max

LEMMA MinOfMore ==
  ASSUME NEW S, S \subseteq Nat, S # {}, NEW x \in Nat
  PROVE  Min({Min(S), x}) = Min(S \cup {x})
<1> DEFINE m == Min(S)
           T == S \cup {x}
<1>1. m \in S /\ m \in Nat /\ \A n \in S : m <= n
  BY MinExists
<1> HIDE DEF m
<1>2. T \subseteq Int /\ {m, x} \subseteq Int /\ \A n \in S : n \in Int
  BY <1>1
<1>3. CASE x <= m
  <2>1. x \in {m, x} /\ \A n \in {m, x} : x <= n
    BY <1>3
  <2>2. x \in T /\ \A n \in T : x <= n
    BY <1>1, <1>2, <1>3
  <2>3. Min({m, x}) = x
    BY ONLY <1>2, <2>1, MinIs
  <2> HIDE DEF T
  <2>4. Min(T) = x
    BY ONLY <1>2, <2>2, MinIs
  <2>5. QED
    BY <2>3, <2>4 DEF m, T
<1>4. CASE m <= x
  <2>1. m \in {m, x} /\ \A n \in {m, x} : m <= n
    BY <1>1, <1>4
  <2>2. m \in T /\ \A n \in T : m <= n
    BY <1>1, <1>4
  <2>3. Min({m, x}) = m
    BY ONLY <1>2, <2>1, MinIs
  <2> HIDE DEF T
  <2>4. Min(T) = m
    BY ONLY <1>2, <2>2, MinIs
  <2>5. QED
    BY <2>3, <2>4 DEF m, T
<1>5. QED
  BY <1>1, <1>3, <1>4

LEMMA MaxOfMore ==
  ASSUME NEW b \in Nat, NEW S, S \subseteq 0..b, S # {}, NEW x \in Nat
  PROVE  Max({Max(S), x}) = Max(S \cup {x})
<1> DEFINE m == Max(S)
           T == S \cup {x}
<1>1. m \in S /\ m \in Nat /\ \A n \in S : n <= m
  <2>1. m \in S /\ \A n \in S : n <= m
    BY MaxExists
  <2> HIDE DEF m
  <2>2. QED
    BY <2>1
<1> HIDE DEF m
<1>2. T \subseteq Int /\ {m, x} \subseteq Int /\ \A n \in S : n \in Int
  BY <1>1
<1>3. CASE m <= x
  <2>1. x \in {m, x} /\ \A n \in {m, x} : n <= x
    BY <1>3
  <2>2. x \in T /\ \A n \in T : n <= x
    BY <1>1, <1>2, <1>3
  <2>3. Max({m, x}) = x
    BY ONLY <1>2, <2>1, MaxIs
  <2> HIDE DEF T
  <2>4. Max(T) = x
    BY ONLY <1>2, <2>2, MaxIs
  <2>5. QED
    BY <2>3, <2>4 DEF m, T
<1>4. CASE x <= m
  <2>1. m \in {m, x} /\ \A n \in {m, x} : n <= m
    BY <1>1, <1>4
  <2>2. m \in T /\ \A n \in T : n <= m
    BY <1>1, <1>4
  <2>3. Max({m, x}) = m
    BY ONLY <1>2, <2>1, MaxIs
  <2> HIDE DEF T
  <2>4. Max(T) = m
    BY ONLY <1>2, <2>2, MaxIs
  <2>5. QED
    BY <2>3, <2>4 DEF m, T
<1>5. QED
  BY <1>1, <1>3, <1>4

(* The columns and rows of the first n elements that are v.                *)
Equal(r, v, n) == {i \in 0..(n - 1) : r.data[i] = v}
EqualColumns(r, v, w, n) == {i % w : i \in Equal(r, v, n)}
EqualRows(r, v, w, n) == {i \div w : i \in Equal(r, v, n)}
RectUpTo(r, v, w, h, n) ==
    <<Min({w} \cup EqualColumns(r, v, w, n)), Min({h} \cup EqualRows(r, v, w, n)),
      Max({0} \cup EqualColumns(r, v, w, n)), Max({0} \cup EqualRows(r, v, w, n))>>

LEMMA EqualPlaces ==
  ASSUME NEW r, NEW v, NEW w \in Nat \ {0}, NEW h \in Nat, NEW n \in 0..(w * h)
  PROVE  EqualColumns(r, v, w, n) \subseteq 0..(w - 1) /\ EqualRows(r, v, w, n) \subseteq 0..(h - 1)
<1>1. ASSUME NEW i \in 0..(n - 1) PROVE i % w \in 0..(w - 1) /\ i \div w \in 0..(h - 1)
  <2>1. i \in 0..(w * h - 1)
    <3>1. w * h \in Int
      OBVIOUS
    <3>2. QED
      BY <3>1
  <2>2. QED
    BY <2>1, PointOfIndex
<1>2. QED
  BY <1>1 DEF EqualColumns, EqualRows, Equal

WidensTo(r, v, w, h, n) ==
    LET x == (n - 1) % w
        y == (n - 1) \div w
        b == RectUpTo(r, v, w, h, n - 1)
    IN  RectUpTo(r, v, w, h, n)
            = IF r.data[n - 1] # v THEN b
              ELSE <<Min({b[1], x}), Min({b[2], y}), Max({b[3], x}), Max({b[4], y})>>

LEMMA RectStep ==
  ASSUME NEW w \in Nat \ {0}, NEW h \in Nat, NEW r, NEW v, NEW n \in 1..(w * h)
  PROVE  WidensTo(r, v, w, h, n)
<1> DEFINE x == (n - 1) % w
           y == (n - 1) \div w
           b == RectUpTo(r, v, w, h, n - 1)
           X == EqualColumns(r, v, w, n - 1)
           Y == EqualRows(r, v, w, n - 1)
<1>1. w * h \in Int /\ n - 1 \in 0..(w * h - 1) /\ n - 1 \in 0..(w * h) /\ n \in Int
  OBVIOUS
<1>2. x \in 0..(w - 1) /\ y \in 0..(h - 1)
  BY <1>1, PointOfIndex
<1>3. Equal(r, v, n) = IF r.data[n - 1] # v THEN Equal(r, v, n - 1) ELSE Equal(r, v, n - 1) \cup {n - 1}
  BY <1>1 DEF Equal
<1>4. CASE r.data[n - 1] # v
  BY <1>3, <1>4 DEF RectUpTo, EqualColumns, EqualRows, WidensTo
<1>5. CASE r.data[n - 1] = v
  <2>1. EqualColumns(r, v, w, n) = X \cup {x} /\ EqualRows(r, v, w, n) = Y \cup {y}
    BY <1>3, <1>5 DEF EqualColumns, EqualRows
  <2>2. X \subseteq 0..(w - 1) /\ Y \subseteq 0..(h - 1)
    BY <1>1, EqualPlaces
  <2>3. b = <<Min({w} \cup X), Min({h} \cup Y), Max({0} \cup X), Max({0} \cup Y)>>
    BY DEF RectUpTo
  <2> HIDE DEF x, y, b, X, Y
  <2>4. {w} \cup X \subseteq Nat /\ {h} \cup Y \subseteq Nat /\ x \in Nat /\ y \in Nat
        /\ {0} \cup X \subseteq 0..w /\ {0} \cup Y \subseteq 0..h
    BY <1>2, <2>2
  <2>5. Min({Min({w} \cup X), x}) = Min(({w} \cup X) \cup {x})
    BY <2>4, MinOfMore
  <2>6. Min({Min({h} \cup Y), y}) = Min(({h} \cup Y) \cup {y})
    BY <2>4, MinOfMore
  <2>7. Max({Max({0} \cup X), x}) = Max(({0} \cup X) \cup {x})
    BY <2>4, MaxOfMore
  <2>8. Max({Max({0} \cup Y), y}) = Max(({0} \cup Y) \cup {y})
    BY <2>4, MaxOfMore
  <2>9. /\ ({w} \cup X) \cup {x} = {w} \cup (X \cup {x}) /\ ({h} \cup Y) \cup {y} = {h} \cup (Y \cup {y})
        /\ ({0} \cup X) \cup {x} = {0} \cup (X \cup {x}) /\ ({0} \cup Y) \cup {y} = {0} \cup (Y \cup {y})
    OBVIOUS
  <2>10. RectUpTo(r, v, w, h, n)
             = <<Min({w} \cup (X \cup {x})), Min({h} \cup (Y \cup {y})),
                 Max({0} \cup (X \cup {x})), Max({0} \cup (Y \cup {y}))>>
    BY <2>1 DEF RectUpTo
  <2>11. RectUpTo(r, v, w, h, n) = <<Min({b[1], x}), Min({b[2], y}), Max({b[3], x}), Max({b[4], y})>>
    BY <2>3, <2>5, <2>6, <2>7, <2>8, <2>9, <2>10
  <2>12. QED
    BY <1>5, <2>11 DEF x, y, b, WidensTo
<1>6. QED
  BY <1>4, <1>5

LEMMA RectFacts ==
  ASSUME NEW w \in Sides, NEW h \in Sides, NEW r \in GridOf(w, h), NEW v
  PROVE  MinRect(r, v) = RectUpTo(r, v, w, h, w * h)
<1> DEFINE N == w * h
           Upto == [n \in 0..N |-> RectUpTo(r, v, w, h, n)]
           Wider(b, n) == IF r.data[Index(r, (n - 1) % w, (n - 1) \div w)] # v THEN b
                          ELSE <<Min({b[1], (n - 1) % w}), Min({b[2], (n - 1) \div w}),
                                 Max({b[3], (n - 1) % w}), Max({b[4], (n - 1) \div w})>>
           Body(f) == [n \in 0..N |-> IF n = 0 THEN <<w, h, 0, 0>> ELSE Wider(f[n - 1], n)]
           Seen == CHOOSE f : f = Body(f)
<1>1. w \in Nat \ {0} /\ h \in Nat \ {0} /\ r.width = w /\ r.height = h
  BY SidesFitTwice DEF Sides, GridOf
<1>2. MinRect(r, v) = Seen[N]
  BY <1>1 DEF MinRect
<1>3. N \in Nat
  BY <1>1
<1>4. RectUpTo(r, v, w, h, 0) = <<w, h, 0, 0>>
  <2>1. Equal(r, v, 0) = {}
    BY DEF Equal
  <2>2. EqualColumns(r, v, w, 0) = {} /\ EqualRows(r, v, w, 0) = {}
    BY <2>1 DEF EqualColumns, EqualRows
  <2>3. RectUpTo(r, v, w, h, 0) = <<Min({w}), Min({h}), Max({0}), Max({0})>>
    BY <2>2 DEF RectUpTo
  <2>4. Min({w}) = w /\ Min({h}) = h /\ Max({0}) = 0
    BY <1>1, OfOne
  <2>5. QED
    BY <2>3, <2>4
<1>5. ASSUME NEW n \in 1..N
      PROVE  Wider(RectUpTo(r, v, w, h, n - 1), n) = RectUpTo(r, v, w, h, n)
  <2>1. n - 1 \in 0..(w * h - 1)
    BY <1>3
  <2>2. Index(r, (n - 1) % w, (n - 1) \div w) = n - 1
    BY <1>1, <2>1, PointOfIndex DEF Index
  <2>3. n \in 1..(w * h) /\ h \in Nat
    BY <1>1
  <2>4. WidensTo(r, v, w, h, n)
    BY <1>1, <2>3, RectStep
  <2>5. QED
    BY <2>2, <2>4 DEF WidensTo
<1> HIDE DEF N, Wider
<1>6. Upto = Body(Upto)
  <2>1. \A n \in 0..N : Upto[n] = Body(Upto)[n]
    <3>1. ASSUME NEW n \in 0..N, n # 0 PROVE n \in 1..N /\ n - 1 \in 0..N
      BY <1>3, <3>1
    <3>2. QED
      BY <1>4, <1>5, <3>1
  <2>2. QED
    BY <2>1
<1>7. Seen = Body(Seen)
  <2> HIDE DEF Body, Upto
  <2> QED
    BY <1>6
<1>8. \A n \in 0..N : Seen[n] = IF n = 0 THEN <<w, h, 0, 0>> ELSE Wider(Seen[n - 1], n)
  <2> HIDE DEF Seen
  <2> QED
    BY <1>7
<1> HIDE DEF Seen
<1>9. \A n \in 0..N : Seen[n] = Upto[n]
  <2>1. Seen[0] = Upto[0]
    BY <1>3, <1>4, <1>8
  <2>2. ASSUME NEW n \in 1..N, Seen[n - 1] = Upto[n - 1] PROVE Seen[n] = Upto[n]
    <3>1. n \in 0..N /\ n - 1 \in 0..N /\ n # 0
      BY <1>3
    <3>2. Seen[n] = Wider(Upto[n - 1], n)
      BY <1>8, <2>2, <3>1
    <3>3. QED
      BY <1>5, <3>1, <3>2
  <2> HIDE DEF Upto
  <2>3. StepTogether(Seen, Upto, N)
    BY <2>1, <2>2 DEF StepTogether
  <2>4. Agree(Seen, Upto, N)
    BY ONLY <1>3, <2>3, SameSteps
  <2>5. QED
    BY <2>4 DEF Agree
<1>10. Seen[N] = RectUpTo(r, v, w, h, N)
  BY <1>3, <1>9
<1>11. QED
  BY <1>2, <1>10 DEF N

LEMMA RectIsTightHolds == GridInv => RectIsTight
<1> SUFFICES ASSUME GridInv, NEW g \in Grids, NEW v \in Cells, grid[g] # NoGrid
             PROVE  LET r == grid[g]
                        found == {p \in Points(r) : Element(r, p[1], p[2]) = v}
                        b == MinRect(r, v)
                    IN  IF found = {} THEN b[1] > b[3] /\ b[2] > b[4]
                        ELSE b = <<Min({p[1] : p \in found}), Min({p[2] : p \in found}),
                                   Max({p[1] : p \in found}), Max({p[2] : p \in found})>>
  BY DEF RectIsTight
<1> DEFINE r == grid[g]
           found == {p \in Points(r) : Element(r, p[1], p[2]) = v}
           b == MinRect(r, v)
<1>1. PICK w \in Sides, h \in Sides : r \in GridOf(w, h)
  BY DEF GridInv, IsGrid
<1> DEFINE X == EqualColumns(r, v, w, w * h)
           Y == EqualRows(r, v, w, w * h)
<1>2. w \in Nat \ {0} /\ h \in Nat \ {0} /\ r.width = w /\ r.height = h
  BY <1>1, SidesFitTwice DEF Sides, GridOf
<1>3. b = <<Min({w} \cup X), Min({h} \cup Y), Max({0} \cup X), Max({0} \cup Y)>>
  BY <1>1, RectFacts DEF RectUpTo
<1>4. X \subseteq 0..(w - 1) /\ Y \subseteq 0..(h - 1)
  <2>1. w * h \in 0..(w * h) /\ h \in Nat
    BY <1>2
  <2>2. QED
    BY <1>2, <2>1, EqualPlaces
<1>5. ASSUME NEW p \in found
      PROVE  \E i \in Equal(r, v, w * h) : p[1] = i % w /\ p[2] = i \div w
  <2>1. PICK i \in 0..(w * h - 1) :
            p[1] = i % w /\ p[2] = i \div w /\ Element(r, p[1], p[2]) = r.data[i]
    BY <1>1, ElementFacts
  <2>2. QED
    BY <2>1 DEF Equal
<1>6. ASSUME NEW i \in Equal(r, v, w * h)
      PROVE  \E p \in found : p[1] = i % w /\ p[2] = i \div w
  <2> DEFINE p == <<i % w, i \div w>>
  <2>1. i \in 0..(w * h - 1) /\ r.data[i] = v
    BY DEF Equal
  <2>2. i % w \in 0..(w - 1) /\ i \div w \in 0..(h - 1) /\ i = (i \div w) * w + (i % w)
    BY <1>2, <2>1, PointOfIndex
  <2>3. p \in Points(r)
    BY <1>2, <2>2 DEF Points
  <2>4. Element(r, p[1], p[2]) = v
    BY <1>2, <2>1, <2>2 DEF Element, Index
  <2>5. QED
    BY <2>3, <2>4
<1> HIDE DEF r, b
<1>7. {p[1] : p \in found} = X /\ {p[2] : p \in found} = Y
  <2> HIDE DEF found
  <2> QED
    BY <1>5, <1>6 DEF EqualColumns, EqualRows
<1>8. found = {} <=> X = {}
  BY <1>7
<1>9. found = {} <=> Y = {}
  BY <1>7
<1> HIDE DEF found, X, Y
<1>10. CASE found = {}
  <2>1. {w} \cup X = {w} /\ {h} \cup Y = {h} /\ {0} \cup X = {0} /\ {0} \cup Y = {0}
    BY <1>8, <1>9, <1>10
  <2>2. Min({w}) = w /\ Min({h}) = h /\ Max({0}) = 0
    BY <1>2, OfOne
  <2>3. b = <<w, h, 0, 0>>
    BY <1>3, <2>1, <2>2
  <2>4. b[1] > b[3] /\ b[2] > b[4]
    BY <1>2, <2>3
  <2>5. QED
    BY <1>10, <2>4 DEF r, b, found
<1>11. CASE found # {}
  <2>1. ASSUME NEW k \in Nat \ {0}, NEW S, S \subseteq 0..(k - 1), S # {}
        PROVE  Min({k} \cup S) = Min(S) /\ Max({0} \cup S) = Max(S)
    <3>1. S \subseteq Nat /\ k - 1 \in Nat
      BY <2>1
    <3> DEFINE m == Min(S)
               n == Max(S)
    <3>2. m \in S /\ \A i \in S : m <= i
      BY <2>1, <3>1, MinExists
    <3>3. n \in S /\ \A i \in S : i <= n
      BY <2>1, <3>1, MaxExists
    <3> HIDE DEF m, n
    <3>4. {k} \cup S \subseteq Int /\ m \in {k} \cup S /\ \A i \in {k} \cup S : m <= i
      BY <2>1, <3>2
    <3>5. {0} \cup S \subseteq Int /\ n \in {0} \cup S /\ \A i \in {0} \cup S : i <= n
      BY <2>1, <3>3
    <3> DEFINE T == {k} \cup S
               U == {0} \cup S
    <3>6. Min(T) = m
      BY ONLY <3>4, MinIs
    <3>7. Max(U) = n
      BY ONLY <3>5, MaxIs
    <3>8. QED
      BY <3>6, <3>7 DEF m, n
  <2>2. X # {} /\ Y # {}
    BY <1>8, <1>9, <1>11
  <2>3. Min({w} \cup X) = Min(X) /\ Max({0} \cup X) = Max(X)
    BY <1>2, <1>4, <2>1, <2>2
  <2>4. Min({h} \cup Y) = Min(Y) /\ Max({0} \cup Y) = Max(Y)
    BY <1>2, <1>4, <2>1, <2>2
  <2>5. b = <<Min({p[1] : p \in found}), Min({p[2] : p \in found}),
              Max({p[1] : p \in found}), Max({p[2] : p \in found})>>
    BY <1>3, <1>7, <2>3, <2>4
  <2>6. QED
    BY <1>11, <2>5 DEF r, b, found
<1>12. QED
  BY <1>10, <1>11

(* A grid pasted into itself may read what it has just written, but always *)
(* an element of the grid.                                                 *)
LEMMA SelfPasteStays ==
  ASSUME NEW c \in Sides, NEW d \in Sides, NEW r \in GridOf(c, d),
         NEW x \in Nat, NEW y \in Nat, NEW w \in Sides, NEW h \in Sides, InGrid(r, x, y)
  PROVE  Pasted(r, r, TRUE, x, y, w, h) \in GridOf(c, d)
<1> DEFINE W == PasteWidth(r, r, x, w)
           H == PasteHeight(r, r, y, h)
           N == W * H
           Grid0 == GridOf(c, d)
           Put(s, n) == Written(s, s.data[Index(s, (n - 1) % W, (n - 1) \div W)],
                                ((n - 1) % W) + x, ((n - 1) \div W) + y)
           Body(f) == [n \in 0..N |-> IF n = 0 THEN r ELSE Put(f[n - 1], n)]
           Copied == CHOOSE f : f = Body(f)
           Starts(f, m) == f[0] = r /\ \A n \in 1..m : f[n] = Put(f[n - 1], n)
           Possible == {m \in Nat : m <= N => \E f \in [0..m -> Grid0] : Starts(f, m)}
<1>1. W \in Nat \ {0} /\ H \in Nat \ {0} /\ W <= c /\ H <= d
  BY PasteSizes
<1>2. Pasted(r, r, TRUE, x, y, w, h) = Copied[N]
  BY DEF Pasted, PasteWidth, PasteHeight
<1> HIDE DEF W, H
<1>3. N \in Nat
  BY <1>1
<1>4. ASSUME NEW s \in Grid0, NEW n \in 1..N PROVE Put(s, n) \in Grid0
  <2> DEFINE xx == (n - 1) % W
             yy == (n - 1) \div W
             px == xx + x
             py == yy + y
             v == s.data[Index(s, xx, yy)]
  <2>1. n - 1 \in 0..(W * H - 1) /\ H \in Nat /\ W \in Nat \ {0}
    BY <1>1, <1>3
  <2>2. xx \in 0..(W - 1) /\ yy \in 0..(H - 1)
    BY <2>1, PointOfIndex
  <2> HIDE DEF xx, yy
  <2>3. c \in Nat \ {0} /\ d \in Nat /\ xx \in 0..(c - 1) /\ yy \in 0..(d - 1)
    BY <1>1, <2>2, SidesFitTwice DEF Sides
  <2>4. yy * c + xx \in 0..(c * d - 1)
    BY <2>3, IndexOfPoint
  <2>5. v \in Cells \cup {0}
    BY <2>4 DEF Index, GridOf
  <2>6. px \in Nat /\ py \in Nat
    BY <2>3
  <2> HIDE DEF px, py, v
  <2>7. s \in GridOf(c, d) /\ c \in Sides /\ d \in Sides
    OBVIOUS
  <2>8. Written(s, v, px, py) \in GridOf(c, d)
    BY ONLY <2>5, <2>6, <2>7, WrittenFacts
  <2>9. QED
    BY <2>8 DEF xx, yy, px, py, v
<1> HIDE DEF N, Put, Grid0
<1>5. r \in Grid0
  BY DEF Grid0
<1>6. 0 \in Possible
  <2> DEFINE f == [n \in 0..0 |-> r]
  <2>1. f \in [0..0 -> Grid0] /\ Starts(f, 0)
    BY <1>5
  <2>2. QED
    BY <2>1
<1>7. ASSUME NEW m \in Nat, m \in Possible PROVE m + 1 \in Possible
  <2>1. ASSUME m + 1 <= N PROVE \E f \in [0..(m + 1) -> Grid0] : Starts(f, m + 1)
    <3>1. m <= N /\ m + 1 \in 1..N
      BY <1>3, <2>1
    <3>2. PICK f \in [0..m -> Grid0] : Starts(f, m)
      BY <1>7, <3>1
    <3> DEFINE g == [n \in 0..(m + 1) |-> IF n = m + 1 THEN Put(f[m], m + 1) ELSE f[n]]
    <3>3. f[m] \in Grid0
      BY <3>2
    <3>4. Put(f[m], m + 1) \in Grid0
      BY <1>4, <3>1, <3>3
    <3>5. \A n \in 0..(m + 1) : n # m + 1 => n \in 0..m
      OBVIOUS
    <3>6. g \in [0..(m + 1) -> Grid0]
      BY <3>2, <3>4, <3>5
    <3>7. g[0] = r
      BY <3>2
    <3>8. ASSUME NEW n \in 1..(m + 1) PROVE g[n] = Put(g[n - 1], n)
      <4>1. n \in 0..(m + 1) /\ n - 1 \in 0..(m + 1) /\ n - 1 # m + 1
        OBVIOUS
      <4>2. g[n - 1] = f[n - 1]
        BY <4>1
      <4>3. CASE n = m + 1
        BY <4>1, <4>2, <4>3
      <4>4. CASE n # m + 1
        <5>1. n \in 1..m
          BY <4>4
        <5>2. f[n] = Put(f[n - 1], n) /\ g[n] = f[n]
          BY <3>2, <4>1, <4>4, <5>1
        <5>3. QED
          BY <4>2, <5>2
      <4>5. QED
        BY <4>3, <4>4
    <3> HIDE DEF g
    <3>9. QED
      BY <3>6, <3>7, <3>8
  <2>2. QED
    BY <2>1
<1>8. PICK f \in [0..N -> Grid0] : Starts(f, N)
  <2>1. Nat \subseteq Possible
    <3> HIDE DEF Possible
    <3> QED
      BY <1>6, <1>7, SetInduction
  <2>2. QED
    BY <1>3, <2>1
<1>9. f = Body(f)
  <2>1. ASSUME NEW n \in 0..N PROVE f[n] = Body(f)[n]
    <3>1. n # 0 => n \in 1..N
      BY <1>3
    <3>2. QED
      BY <1>8, <3>1
  <2>2. QED
    BY <2>1
<1>10. Copied = Body(Copied)
  <2> HIDE DEF Body
  <2> QED
    BY <1>9
<1>11. \A n \in 0..N : Copied[n] = IF n = 0 THEN r ELSE Put(Copied[n - 1], n)
  <2> HIDE DEF Copied
  <2> QED
    BY <1>10
<1> HIDE DEF Copied
<1> DEFINE F == f
<1>12. \A n \in 0..N : Copied[n] = F[n]
  <2>1. Copied[0] = F[0]
    BY <1>3, <1>8, <1>11
  <2>2. ASSUME NEW n \in 1..N, Copied[n - 1] = F[n - 1] PROVE Copied[n] = F[n]
    <3>1. n \in 0..N /\ n # 0
      BY <1>3
    <3>2. QED
      BY <1>8, <1>11, <2>2, <3>1
  <2> HIDE DEF F
  <2>3. StepTogether(Copied, F, N)
    BY <2>1, <2>2 DEF StepTogether
  <2>4. Agree(Copied, F, N)
    BY ONLY <1>3, <2>3, SameSteps
  <2>5. QED
    BY <2>4 DEF Agree
<1>13. Copied[N] \in Grid0
  BY <1>3, <1>8, <1>12
<1>14. QED
  BY <1>2, <1>13 DEF Grid0

LEMMA PastedStays ==
  ASSUME GridInv, NEW g \in Grids, NEW s \in Grids, grid[g] # NoGrid, grid[s] # NoGrid,
         NEW x \in Coordinates, NEW y \in Coordinates, NEW w \in Sides, NEW h \in Sides
  PROVE  IsGrid(Pasted(grid[s], grid[g], s = g, x, y, w, h))
<1>1. x \in Nat /\ y \in Nat
  BY SidesFitTwice DEF Coordinates
<1>2. PICK c \in Sides, d \in Sides : grid[g] \in GridOf(c, d)
  BY DEF GridInv, IsGrid
<1>3. PICK a \in Sides, b \in Sides : grid[s] \in GridOf(a, b)
  BY DEF GridInv, IsGrid
<1>4. CASE ~InGrid(grid[g], x, y)
  BY <1>2, <1>4 DEF Pasted, IsGrid
<1>5. CASE InGrid(grid[g], x, y) /\ s = g
  <2>1. Pasted(grid[g], grid[g], TRUE, x, y, w, h) \in GridOf(c, d)
    BY <1>1, <1>2, <1>5, SelfPasteStays
  <2>2. (s = g) = TRUE
    BY <1>5
  <2>3. Pasted(grid[s], grid[g], s = g, x, y, w, h) = Pasted(grid[g], grid[g], TRUE, x, y, w, h)
    BY <1>5, <2>2, Zenon
  <2>4. QED
    BY <2>1, <2>3 DEF IsGrid
<1>6. CASE InGrid(grid[g], x, y) /\ s # g
  <2> DEFINE W == PasteWidth(grid[s], grid[g], x, w)
             H == PasteHeight(grid[s], grid[g], y, h)
  <2>1. W \in Nat \ {0} /\ H \in Nat \ {0} /\ W <= a /\ H <= b
    BY <1>1, <1>2, <1>3, <1>6, PasteSizes
  <2>2. PastesRegion(grid[s], grid[g], x, y, w, h)
    BY <1>1, <1>2, <1>3, <1>6, PastedFacts
  <2>3. Pasted(grid[s], grid[g], FALSE, x, y, w, h) = PastedUpTo(grid[s], grid[g], x, y, W, W * H)
    BY <2>2 DEF PastesRegion
  <2> HIDE DEF W, H
  <2>4. W * H \in 0..(W * H) /\ H \in Nat
    BY <2>1
  <2>5. PastedUpTo(grid[s], grid[g], x, y, W, W * H) \in GridOf(c, d)
    BY <1>1, <1>2, <1>3, <2>1, <2>4, PastedIsGrid
  <2>6. (s = g) = FALSE
    BY <1>6
  <2>7. Pasted(grid[s], grid[g], s = g, x, y, w, h) = Pasted(grid[s], grid[g], FALSE, x, y, w, h)
    BY <2>6, Zenon
  <2>8. Pasted(grid[s], grid[g], s = g, x, y, w, h) \in GridOf(c, d)
    BY ONLY <2>3, <2>5, <2>7, Zenon
  <2>9. QED
    BY <2>8 DEF IsGrid
<1>7. QED
  BY <1>4, <1>5, <1>6

LEMMA GridInvInit == GridInit => GridInv
BY DEF GridInit, GridInv

LEMMA GridChanged ==
  ASSUME GridInv, NEW g \in Grids, NEW r, r = NoGrid \/ IsGrid(r), grid' = [grid EXCEPT ![g] = r]
  PROVE  GridInv'
<1>1. \A k \in Grids : grid'[k] = IF k = g THEN r ELSE grid[k]
  BY DEF GridInv
<1>2. grid' = [k \in Grids |-> grid'[k]]
  BY DEF GridInv
<1>3. \A k \in Grids : grid'[k] = NoGrid \/ IsGrid(grid'[k])
  BY <1>1 DEF GridInv
<1>4. QED
  BY <1>2, <1>3 DEF GridInv, IsGrid, GridOf

LEMMA GridInvStep == GridInv /\ GridNext => GridInv'
<1> SUFFICES ASSUME GridInv, GridNext PROVE GridInv'
  OBVIOUS
<1>1. PICK g \in Grids :
        \/ GridDestroy(g)
        \/ \E w, h \in Sides : GridCreate(g, w, h)
        \/ /\ grid[g] # NoGrid
           /\ \/ \E v \in Cells, x, y \in Coordinates : grid' = [grid EXCEPT ![g] = Written(@, v, x, y)]
              \/ \E v \in Cells : grid' = [grid EXCEPT ![g] = Cleared(@, v)]
              \/ \E s \in Grids, x, y \in Coordinates, w, h \in Sides :
                    /\ grid[s] # NoGrid
                    /\ grid' = [grid EXCEPT ![g] = Pasted(grid[s], @, s = g, x, y, w, h)]
  BY DEF GridNext
<1>2. CASE GridDestroy(g)
  BY <1>2, GridChanged DEF GridDestroy
<1>3. ASSUME NEW w \in Sides, NEW h \in Sides, GridCreate(g, w, h) PROVE GridInv'
  <2> DEFINE r == [width |-> w, height |-> h, data |-> [i \in 0..(w * h - 1) |-> 0]]
  <2>1. r \in GridOf(w, h)
    BY DEF GridOf
  <2>2. IsGrid(r)
    BY <2>1 DEF IsGrid
  <2>3. grid' = [grid EXCEPT ![g] = r]
    BY <1>3 DEF GridCreate
  <2> HIDE DEF r
  <2>4. QED
    BY <2>2, <2>3, GridChanged
<1>4. ASSUME grid[g] # NoGrid, NEW v \in Cells, NEW x \in Coordinates, NEW y \in Coordinates,
             grid' = [grid EXCEPT ![g] = Written(@, v, x, y)]
      PROVE  GridInv'
  <2>1. PICK w \in Sides, h \in Sides : grid[g] \in GridOf(w, h)
    BY <1>4 DEF GridInv, IsGrid
  <2> DEFINE r == Written(grid[g], v, x, y)
  <2>2. x \in Nat /\ y \in Nat /\ v \in Cells \cup {0}
    BY SidesFitTwice DEF Coordinates
  <2>3. r \in GridOf(w, h)
    BY <2>1, <2>2, WrittenFacts
  <2>4. grid' = [grid EXCEPT ![g] = r]
    BY <1>4
  <2> HIDE DEF r
  <2>5. IsGrid(r)
    BY <2>3 DEF IsGrid
  <2>6. QED
    BY <2>4, <2>5, GridChanged
<1>5. ASSUME grid[g] # NoGrid, NEW v \in Cells, grid' = [grid EXCEPT ![g] = Cleared(@, v)]
      PROVE  GridInv'
  <2>1. PICK w \in Sides, h \in Sides : grid[g] \in GridOf(w, h)
    BY <1>5 DEF GridInv, IsGrid
  <2> DEFINE r == Cleared(grid[g], v)
  <2>2. r = [width |-> w, height |-> h, data |-> [i \in 0..(w * h - 1) |-> v]]
    <3>1. DOMAIN grid[g].data = 0..(w * h - 1)
      BY <2>1 DEF GridOf
    <3>2. r = [width |-> grid[g].width, height |-> grid[g].height,
               data |-> [i \in DOMAIN grid[g].data |-> v]]
      BY <2>1 DEF Cleared, GridOf
    <3>3. grid[g].width = w /\ grid[g].height = h
      BY <2>1 DEF GridOf
    <3> HIDE DEF r
    <3>4. QED
      BY <3>1, <3>2, <3>3
  <2>3. grid' = [grid EXCEPT ![g] = r]
    BY <1>5
  <2> HIDE DEF r
  <2>4. r \in GridOf(w, h)
    BY <2>2 DEF GridOf
  <2>5. IsGrid(r)
    BY <2>4 DEF IsGrid
  <2>6. QED
    BY <2>3, <2>5, GridChanged
<1>6. ASSUME grid[g] # NoGrid, NEW s \in Grids, NEW x \in Coordinates, NEW y \in Coordinates,
             NEW w \in Sides, NEW h \in Sides, grid[s] # NoGrid,
             grid' = [grid EXCEPT ![g] = Pasted(grid[s], @, s = g, x, y, w, h)]
      PROVE  GridInv'
  <2> DEFINE r == Pasted(grid[s], grid[g], s = g, x, y, w, h)
  <2>1. IsGrid(r)
    BY <1>6, PastedStays
  <2>2. grid' = [grid EXCEPT ![g] = r]
    BY <1>6, Zenon
  <2> HIDE DEF r
  <2>3. QED
    BY <2>1, <2>2, GridChanged
<1>7. QED
  BY <1>1, <1>2, <1>3, <1>4, <1>5, <1>6

LEMMA GridIsSound == GridInv => GridSound
BY WritesOneHolds, PastesClippedHolds, RectIsTightHolds DEF GridSound

--------------------------------------------------------------------------------
(* A table: the offset of a column is the sum of the sizes before it, so   *)
(* no byte belongs to two cells.                                           *)

HasBytes(data) == data = [i \in 0..(Rows * RowSize - 1) |-> data[i]]

TableInv ==
    /\ columnSizes \in UNION {[1..n -> ColumnSizes] : n \in 1..MaxColumns}
    /\ HasBytes(rowData)

AreOffsets(n, p) ==
    /\ n \in Nat \ {0} /\ Columns = 1..n /\ Len(columnSizes) = n
    /\ \A c \in 1..n : columnSizes[c] \in Nat
    /\ ArePrefixSums(p, columnSizes, n)
    /\ RowSize = p[n]
    /\ \A c \in 1..n : ColumnOffset(c) = p[c - 1]

LEMMA OffsetsExist ==
  ASSUME columnSizes \in UNION {[1..n -> ColumnSizes] : n \in 1..MaxColumns}
  PROVE  \E n, p : AreOffsets(n, p)
<1>1. PICK n \in 1..MaxColumns : columnSizes \in [1..n -> ColumnSizes]
  OBVIOUS
<1>2. n \in Nat \ {0} /\ Columns = 1..n /\ \A c \in 1..n : columnSizes[c] \in Nat
  <2>1. n \in Nat \ {0}
    BY TableIsCounted
  <2>2. Columns = 1..n
    BY <1>1 DEF Columns
  <2>3. \A c \in 1..n : columnSizes[c] \in ColumnSizes
    BY <1>1
  <2>4. QED
    BY <2>1, <2>2, <2>3, TableIsCounted
<1>3. columnSizes \in Seq(Nat) /\ Len(columnSizes) = n
  <2>1. columnSizes \in [1..n -> Nat]
    BY <1>1, TableIsCounted
  <2>2. QED
    BY <1>2, <2>1
<1>4. PICK p : ArePrefixSums(p, columnSizes, n)
  BY <1>2, PrefixSums
<1>5. ASSUME NEW c \in 0..n PROVE SizeUpTo(c) = p[c]
  <2>1. SubSeq(columnSizes, 1, c) = First(columnSizes, c)
    BY <1>2, <1>3 DEF First
  <2>2. SizeUpTo(c) = Summed(First(columnSizes, c))
    BY <2>1 DEF SizeUpTo, Summed
  <2>3. QED
    BY <1>4, <2>2 DEF ArePrefixSums
<1>6. RowSize = p[n]
  BY <1>2, <1>3, <1>5 DEF RowSize
<1>7. \A c \in 1..n : ColumnOffset(c) = p[c - 1]
  BY <1>2, <1>5 DEF ColumnOffset
<1>8. QED
  BY <1>2, <1>3, <1>4, <1>6, <1>7 DEF AreOffsets

(* The place of byte i of a cell, and of the cell in the table.            *)
LEMMA PlaceOfByte ==
  ASSUME NEW n, NEW p, AreOffsets(n, p), NEW c \in 1..n, NEW r \in 0..(Rows - 1),
         NEW i \in 1..columnSizes[c]
  PROVE  /\ RowSize \in Nat \ {0}
         /\ p[c - 1] + (i - 1) \in 0..(RowSize - 1)
         /\ p[c - 1] \in Nat /\ p[c - 1] + (i - 1) < p[c] /\ p[c] <= RowSize
         /\ CellAt(c, r) + i - 1 \in 0..(Rows * RowSize - 1)
         /\ CellAt(c, r) + i - 1 = r * RowSize + (p[c - 1] + (i - 1))
         /\ CellAt(c, r) \in Nat
<1> USE TableIsCounted
<1>1. n \in Nat /\ columnSizes[c] \in Nat /\ RowSize = p[n] /\ ColumnOffset(c) = p[c - 1]
  BY DEF AreOffsets
<1>2. /\ p \in [0..n -> Nat] /\ p[c] = p[c - 1] + columnSizes[c]
      /\ c \in 0..n /\ c - 1 \in 0..n /\ n \in 0..n
  <2>1. p \in [0..n -> Nat] /\ p[c] = p[c - 1] + columnSizes[c]
    BY DEF AreOffsets, ArePrefixSums
  <2>2. c \in 0..n /\ c - 1 \in 0..n /\ n \in 0..n
    BY <1>1
  <2>3. QED
    BY <2>1, <2>2
<1>3. p[c] <= p[n]
  <2>1. ArePrefixSums(p, columnSizes, n) /\ \A k \in 1..n : columnSizes[k] \in Nat
    BY DEF AreOffsets
  <2>2. c \in 0..n /\ n \in 0..n /\ c <= n /\ n \in Nat
    BY <1>1, <1>2
  <2>3. QED
    BY ONLY <2>1, <2>2, SumsGrow
<1> DEFINE R == RowSize
           x == p[c - 1] + (i - 1)
<1>4. R \in Nat /\ p[c - 1] \in Nat /\ p[c] \in Nat /\ i \in Nat /\ i >= 1 /\ i <= columnSizes[c]
  BY <1>1, <1>2
<1>5. p[c - 1] + (i - 1) < p[c] /\ p[c] <= R
  BY <1>1, <1>2, <1>3, <1>4
<1> HIDE DEF R
<1>6. x \in 0..(R - 1) /\ R \in Nat \ {0}
  BY <1>4, <1>5
<1>7. CellAt(c, r) = r * R + p[c - 1]
  BY <1>1 DEF CellAt, R
<1>8. r * R + x \in 0..(Rows * R - 1)
  <2>1. r * R + x \in 0..(R * Rows - 1)
    BY <1>6, IndexOfPoint
  <2>2. R * Rows = Rows * R
    BY <1>6
  <2>3. QED
    BY <2>1, <2>2
<1>9. r * R \in Nat
  BY <1>6
<1>10. CellAt(c, r) \in Nat /\ CellAt(c, r) + i - 1 = r * R + x
  BY <1>4, <1>7, <1>9
<1>11. QED
  BY <1>4, <1>5, <1>6, <1>8, <1>10 DEF R

LEMMA CellsAreApart ==
  ASSUME NEW n, NEW p, AreOffsets(n, p), NEW c \in 1..n, NEW r \in 0..(Rows - 1),
         NEW d \in 1..n, NEW q \in 0..(Rows - 1),
         NEW i \in 1..columnSizes[c], NEW j \in 1..columnSizes[d],
         CellAt(c, r) + i - 1 = CellAt(d, q) + j - 1
  PROVE  c = d /\ r = q
<1> USE TableIsCounted
<1> DEFINE R == RowSize
           x == p[c - 1] + (i - 1)
           y == p[d - 1] + (j - 1)
<1>1. /\ R \in Nat \ {0} /\ x \in 0..(R - 1) /\ x < p[c] /\ p[c - 1] <= x
      /\ CellAt(c, r) + i - 1 = r * R + x
  BY PlaceOfByte
<1>2. /\ y \in 0..(R - 1) /\ y < p[d] /\ p[d - 1] <= y
      /\ CellAt(d, q) + j - 1 = q * R + y
  BY PlaceOfByte
<1>3. n \in Nat /\ ArePrefixSums(p, columnSizes, n) /\ (\A k \in 1..n : columnSizes[k] \in Nat)
      /\ \A k \in 0..n : p[k] \in Nat
  BY DEF AreOffsets, ArePrefixSums
<1> HIDE DEF R, x, y
<1>4. Place(R, r * R + x) = <<x, r>> /\ Place(R, q * R + y) = <<y, q>>
  <2>1. Rows \in Nat /\ R \in Nat \ {0} /\ r \in 0..(Rows - 1) /\ q \in 0..(Rows - 1)
    BY <1>1, TableIsCounted
  <2>2. Place(R, r * R + x) = <<x, r>>
    BY ONLY <1>1, <2>1, IndexOfPoint
  <2>3. Place(R, q * R + y) = <<y, q>>
    BY ONLY <1>2, <2>1, IndexOfPoint
  <2>4. QED
    BY <2>2, <2>3
<1>5. x = y /\ r = q
  BY <1>1, <1>2, <1>4
<1>6. ASSUME NEW k \in 1..n, NEW m \in 1..n, k < m PROVE p[k] <= p[m - 1]
  <2>1. k \in 0..n /\ m - 1 \in 0..n /\ k <= m - 1
    BY <1>3, <1>6
  <2>2. QED
    BY <1>3, <2>1, SumsGrow
<1>7. p[c] \in Nat /\ p[d] \in Nat /\ p[c - 1] \in Nat /\ p[d - 1] \in Nat /\ x \in Int /\ y \in Int
  <2>1. c \in 0..n /\ d \in 0..n /\ c - 1 \in 0..n /\ d - 1 \in 0..n
    BY <1>3
  <2>2. QED
    BY <1>1, <1>2, <1>3, <2>1
<1>8. ~(c < d) /\ ~(d < c)
  BY <1>1, <1>2, <1>5, <1>6, <1>7
<1>9. QED
  BY <1>3, <1>5, <1>8

(* Writing a cell of any bytes of the table leaves every other cell.       *)
WritesAlone(n, data, c, r, bytes) ==
    LET new == Stored(data, CellAt(c, r), bytes) IN
    /\ HasBytes(new)
    /\ \A d \in 1..n, q \in 0..(Rows - 1) :
           CellRead(new, d, q) = IF c = d /\ r = q THEN bytes ELSE CellRead(data, d, q)

LEMMA CellsStandAlone ==
  ASSUME NEW n, NEW p, AreOffsets(n, p), NEW data, HasBytes(data),
         NEW c \in 1..n, NEW r \in 0..(Rows - 1), NEW bytes, Len(bytes) = columnSizes[c],
         bytes = [i \in 1..columnSizes[c] |-> bytes[i]]
  PROVE  WritesAlone(n, data, c, r, bytes)
<1> DEFINE new == Stored(data, CellAt(c, r), bytes)
           All == 0..(Rows * RowSize - 1)
           at == CellAt(c, r)
<1>1. DOMAIN data = All
  BY DEF HasBytes
<1>2. new = [i \in All |-> IF i \in at..(at + columnSizes[c] - 1) THEN bytes[i - at + 1] ELSE data[i]]
  BY <1>1 DEF Stored
<1>3. HasBytes(new)
  <2> HIDE DEF at
  <2>1. new = [i \in All |-> new[i]]
    BY <1>2
  <2> HIDE DEF new
  <2>2. QED
    BY <2>1 DEF HasBytes
<1>4. ASSUME NEW d \in 1..n, NEW q \in 0..(Rows - 1)
      PROVE  CellRead(new, d, q) = IF c = d /\ r = q THEN bytes ELSE CellRead(data, d, q)
  <2> DEFINE to == CellAt(d, q)
  <2>0. columnSizes[c] \in Nat /\ columnSizes[d] \in Nat
    BY DEF AreOffsets
  <2>1. ASSUME NEW j \in 1..columnSizes[d]
        PROVE  /\ to + j - 1 \in All /\ to \in Nat /\ j \in Nat /\ j >= 1 /\ j <= columnSizes[d]
    BY <2>0, PlaceOfByte
  <2>2. CASE c = d /\ r = q
    <3>1. at = to
      BY <2>2
    <3>2. ASSUME NEW j \in 1..columnSizes[c] PROVE new[at + j - 1] = bytes[j]
      <4>1. at + j - 1 \in All /\ at \in Nat /\ j \in Nat /\ j >= 1 /\ j <= columnSizes[c]
        BY <2>1, <2>2
      <4> HIDE DEF at, to, new
      <4>2. at + j - 1 \in at..(at + columnSizes[c] - 1) /\ (at + j - 1) - at + 1 = j
        BY <2>0, <4>1
      <4>3. QED
        BY <1>2, <4>1, <4>2
    <3>3. CellRead(new, d, q) = [j \in 1..columnSizes[c] |-> new[at + j - 1]]
      BY <2>2 DEF CellRead, Fetched
    <3> HIDE DEF at, new
    <3>4. QED
      BY <2>2, <3>2, <3>3
  <2>3. CASE ~(c = d /\ r = q)
    <3>1. ASSUME NEW j \in 1..columnSizes[d] PROVE new[to + j - 1] = data[to + j - 1]
      <4>1. to + j - 1 \in All
        BY <2>1
      <4>2. ASSUME to + j - 1 \in at..(at + columnSizes[c] - 1) PROVE FALSE
        <5> DEFINE i == to + j - at
        <5>1. at \in Int
          <6>1. r * RowSize \in Int /\ ColumnOffset(c) \in Int
            <7>1. RowSize \in Int
              <8>1. RowSize = p[n] /\ n \in 0..n /\ p \in [0..n -> Nat]
                BY DEF AreOffsets, ArePrefixSums
              <8>2. QED
                BY <8>1
            <7>2. ColumnOffset(c) = p[c - 1] /\ c - 1 \in 0..n /\ p \in [0..n -> Nat]
              BY DEF AreOffsets, ArePrefixSums
            <7>3. r * RowSize \in Int
              BY <7>1
            <7>4. QED
              BY <7>2, <7>3
          <6>2. QED
            BY <6>1 DEF CellAt
        <5>2. to \in Nat /\ j \in Nat
          BY <2>1
        <5> HIDE DEF at, to
        <5>3. i \in 1..columnSizes[c] /\ at + i - 1 = to + j - 1
          <6> DEFINE length == columnSizes[c]
          <6>1. length \in Nat /\ to + j - 1 \in at..(at + length - 1) /\ i = to + j - at
            BY <2>0, <4>2
          <6> HIDE DEF length, i
          <6>2. i \in 1..length /\ at + i - 1 = to + j - 1
            BY ONLY <5>1, <5>2, <6>1
          <6>3. QED
            BY <6>2 DEF length
        <5> HIDE DEF i
        <5>4. c = d /\ r = q
          BY <5>3, CellsAreApart DEF at, to
        <5>5. QED
          BY <2>3, <5>4
      <4> HIDE DEF at, to, new
      <4>3. QED
        BY <1>2, <4>1, <4>2
    <3>2. CellRead(new, d, q) = [j \in 1..columnSizes[d] |-> new[to + j - 1]]
      BY DEF CellRead, Fetched
    <3>3. CellRead(data, d, q) = [j \in 1..columnSizes[d] |-> data[to + j - 1]]
      BY DEF CellRead, Fetched
    <3> HIDE DEF new, to
    <3>4. QED
      BY <2>3, <3>1, <3>2, <3>3
  <2>4. QED
    BY <2>2, <2>3
<1>5. QED
  BY <1>3, <1>4 DEF WritesAlone

LEMMA BytesFacts ==
  ASSUME NEW k \in Nat, NEW bytes \in BytesOf(k)
  PROVE  Len(bytes) = k /\ bytes = [i \in 1..k |-> bytes[i]] /\ bytes \in Seq(Bytes)
BY DEF BytesOf

LEMMA CellsIndependentHolds == TableInv => CellsIndependent
<1> SUFFICES ASSUME TableInv, NEW s \in Positions, NEW bytes \in BytesOf(columnSizes[s[1]]),
                    NEW q \in Positions
             PROVE  CellRead(CellWritten(rowData, s[1], s[2], bytes), q[1], q[2])
                        = IF s = q THEN bytes ELSE CellRead(rowData, q[1], q[2])
  BY DEF CellsIndependent
<1>1. PICK n, p : AreOffsets(n, p)
  BY OffsetsExist DEF TableInv
<1>2. /\ s[1] \in 1..n /\ s[2] \in 0..(Rows - 1) /\ s = <<s[1], s[2]>>
      /\ q[1] \in 1..n /\ q[2] \in 0..(Rows - 1) /\ q = <<q[1], q[2]>>
      /\ columnSizes[s[1]] \in Nat /\ InTable(s[1], s[2])
  BY <1>1, TableIsCounted DEF Positions, AreOffsets, InTable
<1>3. Len(bytes) = columnSizes[s[1]] /\ bytes = [i \in 1..columnSizes[s[1]] |-> bytes[i]]
  BY <1>2, BytesFacts
<1>4. CellRead(Stored(rowData, CellAt(s[1], s[2]), bytes), q[1], q[2])
          = IF s[1] = q[1] /\ s[2] = q[2] THEN bytes ELSE CellRead(rowData, q[1], q[2])
  <2> DEFINE c == s[1]
             r == s[2]
  <2>1. c \in 1..n /\ r \in 0..(Rows - 1) /\ HasBytes(rowData) /\ AreOffsets(n, p)
        /\ Len(bytes) = columnSizes[c] /\ bytes = [i \in 1..columnSizes[c] |-> bytes[i]]
    BY <1>1, <1>2, <1>3 DEF TableInv
  <2> HIDE DEF c, r
  <2>2. WritesAlone(n, rowData, c, r, bytes)
    BY ONLY <2>1, CellsStandAlone
  <2>3. QED
    BY <1>2, <2>2 DEF c, r, WritesAlone
<1>5. s = q <=> s[1] = q[1] /\ s[2] = q[2]
  BY <1>2
<1>6. QED
  BY <1>2, <1>4, <1>5 DEF CellWritten

(* A loop whose steps stay in a set has a value after each step.           *)
IsLoop(f, N, T, x, G) ==
    f \in [0..N -> T] /\ f[0] = x /\ \A n \in 1..N : f[n] = G[n][f[n - 1]]

LEMMA LoopRuns ==
  ASSUME NEW N \in Nat, NEW T, NEW x \in T, NEW G \in [1..N -> [T -> T]]
  PROVE  \E f : IsLoop(f, N, T, x, G)
<1> DEFINE Starts(f, m) == f[0] = x /\ \A n \in 1..m : f[n] = G[n][f[n - 1]]
           Possible == {m \in Nat : m <= N => \E f \in [0..m -> T] : Starts(f, m)}
<1>1. 0 \in Possible
  <2> DEFINE f == [n \in 0..0 |-> x]
  <2>1. f \in [0..0 -> T] /\ Starts(f, 0)
    OBVIOUS
  <2>2. QED
    BY <2>1
<1>2. ASSUME NEW m \in Nat, m \in Possible PROVE m + 1 \in Possible
  <2>1. ASSUME m + 1 <= N PROVE \E f \in [0..(m + 1) -> T] : Starts(f, m + 1)
    <3>1. m <= N /\ m + 1 \in 1..N
      BY <2>1
    <3>2. PICK f \in [0..m -> T] : Starts(f, m)
      BY <1>2, <3>1
    <3> DEFINE next == G[m + 1][f[m]]
               g == [n \in 0..(m + 1) |-> IF n = m + 1 THEN next ELSE f[n]]
    <3>3. f[m] \in T /\ G[m + 1] \in [T -> T]
      BY <3>1, <3>2
    <3>4. next \in T
      BY <3>3
    <3>5. \A n \in 0..(m + 1) : n # m + 1 => n \in 0..m
      OBVIOUS
    <3> HIDE DEF next
    <3>6. g \in [0..(m + 1) -> T]
      BY <3>2, <3>4, <3>5
    <3>7. g[0] = x
      BY <3>2
    <3>8. ASSUME NEW n \in 1..(m + 1) PROVE g[n] = G[n][g[n - 1]]
      <4>1. n \in 0..(m + 1) /\ n - 1 \in 0..(m + 1) /\ n - 1 # m + 1
        OBVIOUS
      <4>2. g[n - 1] = f[n - 1]
        BY <4>1
      <4>3. CASE n = m + 1
        <5>1. g[n] = next /\ n - 1 = m
          BY <4>1, <4>3
        <5>2. QED
          BY <4>2, <4>3, <5>1 DEF next
      <4>4. CASE n # m + 1
        <5>1. n \in 1..m
          BY <4>4
        <5>2. f[n] = G[n][f[n - 1]] /\ g[n] = f[n]
          BY <3>2, <4>1, <4>4, <5>1
        <5>3. QED
          BY <4>2, <5>2
      <4>5. QED
        BY <4>3, <4>4
    <3> HIDE DEF g
    <3>9. QED
      BY <3>6, <3>7, <3>8
  <2>2. QED
    BY <2>1
<1>3. Nat \subseteq Possible
  <2> HIDE DEF Possible
  <2> QED
    BY <1>1, <1>2, SetInduction
<1>4. PICK f \in [0..N -> T] : Starts(f, N)
  BY <1>3
<1>5. IsLoop(f, N, T, x, G)
  BY <1>4 DEF IsLoop
<1>6. QED
  BY <1>5

LEMMA StoredKeepsBytes ==
  ASSUME NEW data, HasBytes(data), NEW at, NEW bytes
  PROVE  HasBytes(Stored(data, at, bytes))
<1> DEFINE All == 0..(Rows * RowSize - 1)
           new == Stored(data, at, bytes)
<1>1. DOMAIN data = All
  BY DEF HasBytes
<1>2. new = [i \in All |-> new[i]]
  BY <1>1 DEF Stored
<1> HIDE DEF new
<1>3. QED
  BY <1>2 DEF HasBytes, new

(* avTableWriteColumn: the table after some rows, each of which has what   *)
(* was the first element.                                                  *)
ColumnLoop(f, data, c, bytes) ==
    /\ f[0] = data
    /\ \A r \in 1..Rows : f[r] = Stored(f[r - 1], CellAt(c, r - 1), SubSeq(bytes, 1, columnSizes[c]))

LEMMA ColumnWrittenIs ==
  ASSUME NEW data, HasBytes(data), NEW c \in Columns, NEW bytes
  PROVE  \E f : ColumnLoop(f, data, c, bytes) /\ ColumnWritten(data, c, bytes) = f[Rows]
<1> USE TableIsCounted
<1> DEFINE All == 0..(Rows * RowSize - 1)
           one == SubSeq(bytes, 1, columnSizes[c])
           Put(t, r) == Stored(t, CellAt(c, r - 1), one)
           ByteFor(i, r) == one[i - CellAt(c, r - 1) + 1]
           V == {data[i] : i \in All} \cup {ByteFor(z[1], z[2]) : z \in All \X (1..Rows)}
           Body(f) == [r \in 0..Rows |-> IF r = 0 THEN data ELSE Put(f[r - 1], r)]
           Chosen == CHOOSE f : f = Body(f)
           G == [r \in 1..Rows |-> [t \in [All -> V] |-> Put(t, r)]]
<1>1. ColumnWritten(data, c, bytes) = Chosen[Rows]
  BY DEF ColumnWritten
<1>2. data \in [All -> V]
  BY DEF HasBytes
<1>3. ASSUME NEW t \in [All -> V], NEW r \in 1..Rows PROVE Put(t, r) \in [All -> V]
  <2>1. ASSUME NEW i \in All PROVE ByteFor(i, r) \in V
    <3> DEFINE z == <<i, r>>
    <3>1. z \in All \X (1..Rows) /\ z[1] = i /\ z[2] = r
      OBVIOUS
    <3> HIDE DEF ByteFor, z, All
    <3>2. ByteFor(z[1], z[2]) \in V
      BY <3>1
    <3>3. QED
      BY <3>1, <3>2
  <2>2. DOMAIN t = All
    OBVIOUS
  <2> HIDE DEF V, one
  <2>3. Put(t, r) = [i \in All |-> IF i \in CellAt(c, r - 1)..(CellAt(c, r - 1) + Len(one) - 1)
                                   THEN one[i - CellAt(c, r - 1) + 1] ELSE t[i]]
    BY <2>2 DEF Stored
  <2> HIDE DEF Put
  <2>4. QED
    BY <2>1, <2>3
<1>4. G \in [1..Rows -> [[All -> V] -> [All -> V]]]
  <2> HIDE DEF V, Put
  <2> QED
    BY <1>3
<1>5. PICK f \in [0..Rows -> [All -> V]] : f[0] = data /\ \A r \in 1..Rows : f[r] = G[r][f[r - 1]]
  <2> DEFINE T == [All -> V]
  <2> HIDE DEF G, V, Put
  <2>1. data \in T
    BY <1>2
  <2>2. G \in [1..Rows -> [T -> T]]
    BY <1>4
  <2>3. Rows \in Nat
    OBVIOUS
  <2> HIDE DEF T
  <2>4. \E e : IsLoop(e, Rows, T, data, G)
    BY ONLY <2>1, <2>2, <2>3, LoopRuns
  <2>5. PICK e : IsLoop(e, Rows, T, data, G)
    BY <2>4
  <2>6. e \in [0..Rows -> [All -> V]] /\ e[0] = data /\ \A r \in 1..Rows : e[r] = G[r][e[r - 1]]
    BY <2>5 DEF IsLoop, T
  <2>7. QED
    BY <2>6
<1>6. \A r \in 1..Rows : f[r] = Put(f[r - 1], r)
  <2> HIDE DEF V, Put
  <2>1. \A r \in 1..Rows : r - 1 \in 0..Rows
    OBVIOUS
  <2>2. QED
    BY <1>5, <2>1
<1>7. f = Body(f)
  <2> HIDE DEF Put, V
  <2>1. ASSUME NEW r \in 0..Rows PROVE f[r] = Body(f)[r]
    <3>1. r # 0 => r \in 1..Rows
      OBVIOUS
    <3>2. QED
      BY <1>5, <1>6, <3>1
  <2>2. QED
    BY <2>1
<1>8. Chosen = Body(Chosen)
  <2> HIDE DEF Body
  <2> QED
    BY <1>7
<1>9. Chosen[0] = data /\ \A r \in 1..Rows : Chosen[r] = Put(Chosen[r - 1], r)
  <2> HIDE DEF Chosen, Put
  <2>1. \A r \in 0..Rows : Chosen[r] = IF r = 0 THEN data ELSE Put(Chosen[r - 1], r)
    BY <1>8
  <2>2. \A r \in 1..Rows : r \in 0..Rows /\ r # 0
    OBVIOUS
  <2>3. QED
    BY <2>1, <2>2
<1> HIDE DEF Chosen
<1>10. QED
  BY <1>1, <1>9 DEF ColumnLoop

HoldsColumn(t, c, one) == HasBytes(t) /\ \A r \in 0..(Rows - 1) : CellRead(t, c, r) = one

LEMMA WritesKeepCells ==
  ASSUME NEW n, NEW p, AreOffsets(n, p), NEW data, HasBytes(data), NEW c \in 1..n,
         NEW bytes, NEW one, one = SubSeq(bytes, 1, columnSizes[c]),
         Len(one) = columnSizes[c], one = [i \in 1..columnSizes[c] |-> one[i]],
         NEW f, ColumnLoop(f, data, c, bytes)
  PROVE  HoldsColumn(f[Rows], c, one)
<1> USE TableIsCounted
<1> DEFINE Filled(t, m) == HasBytes(t) /\ \A r \in 0..(m - 1) : CellRead(t, c, r) = one
           Done == {m \in Nat : m <= Rows => Filled(f[m], m)}
<1>1. 0 \in Done
  BY DEF ColumnLoop
<1>2. ASSUME NEW m \in Nat, m \in Done PROVE m + 1 \in Done
  <2>1. ASSUME m + 1 <= Rows PROVE Filled(f[m + 1], m + 1)
    <3>1. m \in 0..(Rows - 1) /\ m + 1 \in 1..Rows /\ (m + 1) - 1 = m
      BY <2>1
    <3>2. Filled(f[m], m)
      BY <1>2, <3>1
    <3>3. f[m + 1] = Stored(f[m], CellAt(c, m), one)
      <4>1. f[m + 1] = Stored(f[(m + 1) - 1], CellAt(c, (m + 1) - 1), SubSeq(bytes, 1, columnSizes[c]))
        BY <3>1 DEF ColumnLoop
      <4>2. QED
        BY <3>1, <4>1
    <3> DEFINE t == f[m]
               u == f[m + 1]
    <3>4. HasBytes(t)
      BY <3>2
    <3>5. u = Stored(t, CellAt(c, m), one)
      BY <3>3
    <3> HIDE DEF t
    <3>6. WritesAlone(n, t, c, m, one)
      BY <3>1, <3>4, CellsStandAlone
    <3> HIDE DEF u
    <3>7. HasBytes(u) /\ \A q \in 0..(Rows - 1) : CellRead(u, c, q) = IF m = q THEN one ELSE CellRead(t, c, q)
      BY <3>5, <3>6 DEF WritesAlone
    <3>8. ASSUME NEW q \in 0..m PROVE CellRead(u, c, q) = one
      <4>1. q \in 0..(Rows - 1) /\ (m # q => q \in 0..(m - 1))
        BY <3>1
      <4>2. m # q => CellRead(t, c, q) = one
        BY <3>2, <4>1 DEF t
      <4>3. QED
        BY <3>7, <4>1, <4>2
    <3>9. (m + 1) - 1 = m
      OBVIOUS
    <3>10. QED
      BY <3>7, <3>8, <3>9 DEF u
  <2>2. QED
    BY <2>1
<1>3. Nat \subseteq Done
  <2> HIDE DEF Done
  <2> QED
    BY <1>1, <1>2, SetInduction
<1>4. Rows \in Done
  <2> HIDE DEF Done
  <2> QED
    BY <1>3
<1>5. QED
  BY <1>4 DEF HoldsColumn

(* The first of the elements that were written, and the rest of a buffer.  *)
LEMMA ElementOfColumn ==
  ASSUME NEW k \in Nat, NEW bytes \in BytesOf(Rows * k)
  PROVE  LET one == SubSeq(bytes, 1, k)
         IN  /\ one \in Seq(Bytes) /\ Len(one) = k /\ one = [i \in 1..k |-> one[i]]
             /\ bytes \in Seq(Bytes) /\ Len(bytes) = Rows * k /\ k <= Rows * k
<1> DEFINE N == Rows * k
           one == SubSeq(bytes, 1, k)
<1>1. N \in Nat /\ k <= N
  BY TableIsCounted
<1> HIDE DEF N
<1>2. bytes \in Seq(Bytes) /\ Len(bytes) = N /\ \A i \in 1..N : bytes[i] \in Bytes
  BY <1>1 DEF BytesOf, N
<1>3. \A i \in 1..k : bytes[i] \in Bytes
  BY <1>1, <1>2
<1>4. one \in Seq(Bytes) /\ Len(one) = IF 1 <= k THEN k - 1 + 1 ELSE 0
  BY <1>3, SubSeqProperties
<1>5. Len(one) = k
  BY <1>4
<1> HIDE DEF one
<1>6. one = [i \in 1..k |-> one[i]]
  BY <1>4, <1>5
<1>7. QED
  BY <1>1, <1>2, <1>4, <1>5, <1>6 DEF N, one

LEMMA ColumnWrittenFills ==
  ASSUME NEW n, NEW p, AreOffsets(n, p), NEW data, HasBytes(data), NEW c \in 1..n,
         NEW bytes \in BytesOf(Rows * columnSizes[c])
  PROVE  HoldsColumn(ColumnWritten(data, c, bytes), c, SubSeq(bytes, 1, columnSizes[c]))
<1>1. columnSizes[c] \in Nat /\ c \in Columns
  BY DEF AreOffsets
<1>2. PICK f : ColumnLoop(f, data, c, bytes) /\ ColumnWritten(data, c, bytes) = f[Rows]
  BY <1>1, ColumnWrittenIs
<1> DEFINE one == SubSeq(bytes, 1, columnSizes[c])
<1>3. Len(one) = columnSizes[c] /\ one = [i \in 1..columnSizes[c] |-> one[i]]
  BY <1>1, ElementOfColumn
<1>4. one = SubSeq(bytes, 1, columnSizes[c])
  OBVIOUS
<1> HIDE DEF one
<1>5. HoldsColumn(f[Rows], c, one)
  BY <1>2, <1>3, <1>4, WritesKeepCells
<1>6. QED
  BY <1>2, <1>5 DEF one

(* avTableReadColumn, when every cell of the column holds the same bytes:  *)
(* each row puts them at the start of the buffer.                          *)
ReadsElement(data, c, into, one, k) == ColumnRead(data, c, into) = one \o SubSeq(into, k + 1, Len(into))

LEMMA ColumnReadIs ==
  ASSUME NEW data, NEW c, NEW k \in Nat, columnSizes[c] = k, NEW one \in Seq(Bytes), Len(one) = k,
         HoldsColumn(data, c, one), NEW into \in Seq(Bytes), k <= Len(into)
  PROVE  ReadsElement(data, c, into, one, k)
<1> USE TableIsCounted
<1> DEFINE L == Len(into)
           rest == SubSeq(into, k + 1, L)
           new == one \o rest
           Put(t, r) == CellRead(data, c, r - 1) \o SubSeq(t, k + 1, L)
           Body(f) == [r \in 0..Rows |-> IF r = 0 THEN into ELSE Put(f[r - 1], r)]
           F == [r \in 0..Rows |-> IF r = 0 THEN into ELSE new]
           Chosen == CHOOSE f : f = Body(f)
<1>1. ColumnRead(data, c, into) = Chosen[Rows]
  BY DEF ColumnRead
<1>2. L \in Nat /\ k <= L /\ \A i \in 1..L : into[i] \in Bytes
  OBVIOUS
<1>3. SubSeq(new, k + 1, L) = rest
  <2>1. \A i \in (k + 1)..L : into[i] \in Bytes
    BY <1>2
  <2>2. /\ rest \in Seq(Bytes) /\ Len(rest) = L - k
        /\ \A i \in 1..(L - k) : rest[i] = into[k + i]
    <3> HIDE DEF L
    <3>1. k + 1 \in Int /\ L \in Int /\ L - (k + 1) + 1 = L - k
      BY <1>2
    <3>2. /\ rest \in Seq(Bytes) /\ Len(rest) = IF k + 1 <= L THEN L - (k + 1) + 1 ELSE 0
          /\ \A i \in 1..(L - (k + 1) + 1) : rest[i] = into[(k + 1) + i - 1]
      BY <2>1, <3>1, SubSeqProperties
    <3>3. Len(rest) = L - k
      <4> HIDE DEF rest
      <4> QED
        BY ONLY <1>2, <3>1, <3>2, k \in Nat
    <3>4. \A i \in 1..(L - k) : (k + 1) + i - 1 = k + i
      BY <1>2
    <3> HIDE DEF rest
    <3>5. QED
      BY <3>1, <3>2, <3>3, <3>4
  <2> HIDE DEF rest, L
  <2>3. /\ new \in Seq(Bytes) /\ Len(new) = L
        /\ \A i \in 1..L : new[i] = IF i <= k THEN one[i] ELSE rest[i - k]
    <3>1. k + (L - k) = L
      BY <1>2
    <3>2. /\ new \in Seq(Bytes) /\ Len(new) = Len(one) + Len(rest)
          /\ \A i \in 1..(Len(one) + Len(rest)) : new[i] = IF i <= Len(one) THEN one[i] ELSE rest[i - Len(one)]
      BY <2>2, ConcatProperties
    <3> HIDE DEF new
    <3>3. QED
      BY <2>2, <3>1, <3>2
  <2> HIDE DEF new
  <2> DEFINE reread == SubSeq(new, k + 1, L)
  <2>4. \A i \in (k + 1)..L : new[i] \in Bytes
    BY <1>2, <2>3
  <2>5. /\ reread \in Seq(Bytes) /\ Len(reread) = L - k
        /\ \A i \in 1..(L - k) : reread[i] = new[k + i]
    <3>1. k + 1 \in Int /\ L \in Int /\ L - (k + 1) + 1 = L - k
      BY <1>2
    <3>2. /\ reread \in Seq(Bytes) /\ Len(reread) = IF k + 1 <= L THEN L - (k + 1) + 1 ELSE 0
          /\ \A i \in 1..(L - (k + 1) + 1) : reread[i] = new[(k + 1) + i - 1]
      BY <2>4, <3>1, SubSeqProperties
    <3>3. Len(reread) = L - k
      <4> HIDE DEF reread
      <4> QED
        BY ONLY <1>2, <3>1, <3>2, k \in Nat
    <3>4. \A i \in 1..(L - k) : (k + 1) + i - 1 = k + i
      BY <1>2
    <3> HIDE DEF reread
    <3>5. QED
      BY <3>1, <3>2, <3>3, <3>4
  <2> HIDE DEF reread
  <2>6. \A i \in 1..(L - k) : reread[i] = rest[i]
    <3>1. \A i \in 1..(L - k) : k + i \in 1..L /\ ~(k + i <= k) /\ (k + i) - k = i
      BY <1>2
    <3>2. QED
      BY <2>3, <2>5, <3>1
  <2>7. reread = rest
    BY ONLY <2>2, <2>5, <2>6
  <2>8. QED
    BY <2>7 DEF reread
<1> HIDE DEF new, rest, L
<1>4. \A r \in 1..Rows : CellRead(data, c, r - 1) = one /\ r \in 0..Rows /\ r - 1 \in 0..Rows /\ r # 0
  <2>1. \A r \in 1..Rows : r - 1 \in 0..(Rows - 1)
    OBVIOUS
  <2>2. QED
    BY <2>1 DEF HoldsColumn
<1>5. F = Body(F)
  <2>1. ASSUME NEW r \in 0..Rows PROVE F[r] = Body(F)[r]
    <3>1. CASE r = 0
      BY <3>1
    <3>2. CASE r # 0
      <4>1. r \in 1..Rows
        BY <3>2
      <4>2. F[r] = new /\ CellRead(data, c, r - 1) = one
        BY <1>4, <3>2, <4>1
      <4>3. SubSeq(F[r - 1], k + 1, L) = rest
        <5>1. F[r - 1] \in {into, new}
          BY <1>4, <4>1
        <5>2. QED
          BY <1>3, <5>1 DEF rest
      <4>4. Body(F)[r] = Put(F[r - 1], r)
        BY <3>2
      <4>5. Put(F[r - 1], r) = new
        BY <4>2, <4>3 DEF new
      <4>6. QED
        BY <4>2, <4>4, <4>5
    <3>3. QED
      BY <3>1, <3>2
  <2>2. Body(F) = [r \in 0..Rows |-> Body(F)[r]] /\ F = [r \in 0..Rows |-> F[r]]
    OBVIOUS
  <2> HIDE DEF F, Body
  <2>3. QED
    BY <2>1, <2>2
<1>6. Chosen = Body(Chosen)
  <2> HIDE DEF Body, F
  <2> QED
    BY <1>5
<1> HIDE DEF Chosen
<1>7. \A r \in 0..Rows : Chosen[r] = IF r = 0 THEN into ELSE Put(Chosen[r - 1], r)
  <2> HIDE DEF Put
  <2> QED
    BY <1>6
<1>8. \A r \in 0..Rows : F[r] = IF r = 0 THEN into ELSE Put(F[r - 1], r)
  <2> HIDE DEF Put
  <2> DEFINE B == Body(F)
  <2>1. \A r \in 0..Rows : B[r] = IF r = 0 THEN into ELSE Put(F[r - 1], r)
    OBVIOUS
  <2>2. F = B
    BY <1>5
  <2> HIDE DEF B, F
  <2>3. QED
    BY <2>1, <2>2
<1>9. StepTogether(Chosen, F, Rows)
  <2> HIDE DEF Put, F
  <2> QED
    BY <1>4, <1>7, <1>8 DEF StepTogether
<1>10. Agree(Chosen, F, Rows)
  <2> HIDE DEF F
  <2> QED
    BY <1>9, SameSteps
<1>11. Chosen[Rows] = new
  <2>1. Rows \in 0..Rows /\ Rows # 0
    OBVIOUS
  <2>2. Chosen[Rows] = F[Rows]
    BY <1>10, <2>1 DEF Agree
  <2>3. QED
    BY <2>1, <2>2
<1>12. QED
  BY <1>1, <1>11 DEF ReadsElement, new, rest, L

LEMMA ColumnsOfOneValueHolds == TableInv => ColumnsOfOneValue
<1> SUFFICES ASSUME TableInv, NEW c \in Columns,
                    NEW bytes \in BytesOf(Rows * columnSizes[c]), NEW into \in BytesOf(Rows * columnSizes[c])
             PROVE  LET written == ColumnWritten(rowData, c, bytes)
                        element == SubSeq(bytes, 1, columnSizes[c])
                    IN  /\ \A r \in 0..(Rows - 1) : CellRead(written, c, r) = element
                        /\ ColumnRead(written, c, into) = element \o SubSeq(into, columnSizes[c] + 1, Len(into))
  BY DEF ColumnsOfOneValue
<1>1. PICK n, p : AreOffsets(n, p)
  BY OffsetsExist DEF TableInv
<1>2. c \in 1..n /\ columnSizes[c] \in Nat
  BY <1>1 DEF AreOffsets
<1> DEFINE written == ColumnWritten(rowData, c, bytes)
           one == SubSeq(bytes, 1, columnSizes[c])
           k == columnSizes[c]
<1>3. HoldsColumn(written, c, one)
  BY <1>1, <1>2, ColumnWrittenFills DEF TableInv
<1>4. one \in Seq(Bytes) /\ Len(one) = k
  BY <1>2, ElementOfColumn
<1>5. into \in Seq(Bytes) /\ k <= Len(into)
  BY <1>2, ElementOfColumn
<1>6. k \in Nat /\ columnSizes[c] = k
  BY <1>2
<1> HIDE DEF written, one, k
<1>7. \A r \in 0..(Rows - 1) : CellRead(written, c, r) = one
  BY <1>3 DEF HoldsColumn
<1>8. ReadsElement(written, c, into, one, k)
  BY ONLY <1>3, <1>4, <1>5, <1>6, ColumnReadIs
<1>9. QED
  BY <1>7, <1>8 DEF ReadsElement, written, one, k

(* Bytes fetched one behind the other are those fetched at once.           *)
LEMMA FetchedInTwo ==
  ASSUME NEW data, NEW at \in Int, NEW a \in Nat, NEW b \in Nat
  PROVE  Fetched(data, at, a) \o Fetched(data, at + a, b) = Fetched(data, at, a + b)
<1> DEFINE V == {data[i] : i \in at..(at + (a + b) - 1)}
           s == Fetched(data, at, a)
           t == Fetched(data, at + a, b)
           u == Fetched(data, at, a + b)
<1>1. s \in Seq(V) /\ Len(s) = a /\ \A i \in 1..a : s[i] = data[at + i - 1]
  <2>1. \A i \in 1..a : at + i - 1 \in at..(at + (a + b) - 1)
    OBVIOUS
  <2>2. \A i \in 1..a : data[at + i - 1] \in V
    BY <2>1
  <2>3. s = [i \in 1..a |-> data[at + i - 1]]
    BY DEF Fetched
  <2> HIDE DEF V, s
  <2>4. s \in [1..a -> V]
    BY <2>2, <2>3
  <2>5. s \in Seq(V) /\ Len(s) = a
    BY ONLY <2>4, a \in Nat
  <2>6. QED
    BY <2>3, <2>5
<1>2. t \in Seq(V) /\ Len(t) = b /\ \A i \in 1..b : t[i] = data[at + a + i - 1]
  <2>1. \A i \in 1..b : at + a + i - 1 \in at..(at + (a + b) - 1)
    OBVIOUS
  <2>2. \A i \in 1..b : data[at + a + i - 1] \in V
    BY <2>1
  <2>3. t = [i \in 1..b |-> data[at + a + i - 1]]
    BY DEF Fetched
  <2> HIDE DEF V, t
  <2>4. t \in [1..b -> V]
    BY <2>2, <2>3
  <2>5. t \in Seq(V) /\ Len(t) = b
    BY ONLY <2>4, b \in Nat
  <2>6. QED
    BY <2>3, <2>5
<1>3. u = [i \in 1..(a + b) |-> data[at + i - 1]]
  BY DEF Fetched
<1> HIDE DEF V, s, t, u
<1> DEFINE w == s \o t
<1>4. /\ w \in Seq(V) /\ Len(w) = a + b
      /\ \A i \in 1..(a + b) : w[i] = IF i <= a THEN s[i] ELSE t[i - a]
  <2>1. /\ w \in Seq(V) /\ Len(w) = Len(s) + Len(t)
        /\ \A i \in 1..(Len(s) + Len(t)) : w[i] = IF i <= Len(s) THEN s[i] ELSE t[i - Len(s)]
    BY <1>1, <1>2, ConcatProperties
  <2> HIDE DEF w
  <2>2. QED
    BY <1>1, <1>2, <2>1
<1> HIDE DEF w
<1>5. ASSUME NEW i \in 1..(a + b) PROVE w[i] = data[at + i - 1]
  <2>1. CASE i <= a
    BY <1>1, <1>4, <2>1
  <2>2. CASE ~(i <= a)
    <3>1. i - a \in 1..b /\ at + a + (i - a) - 1 = at + i - 1
      BY <2>2
    <3>2. QED
      BY <1>2, <1>4, <2>2, <3>1
  <2>3. QED
    BY <2>1, <2>2
<1>6. w = [i \in 1..(a + b) |-> w[i]]
  BY <1>4
<1>7. w = u
  BY <1>3, <1>5, <1>6
<1>8. QED
  BY <1>7 DEF s, t, u, w

LEMMA RowsAreCellsHolds == TableInv => RowsAreCells
<1> SUFFICES ASSUME TableInv, NEW r \in 0..(Rows - 1)
             PROVE  RowRead(rowData, r) = FlattenSeq([c \in Columns |-> CellRead(rowData, c, r)])
  BY DEF RowsAreCells
<1> USE TableIsCounted
<1>1. PICK n, p : AreOffsets(n, p)
  BY OffsetsExist DEF TableInv
<1>2. /\ n \in Nat \ {0} /\ Columns = 1..n /\ RowSize = p[n]
      /\ p \in [0..n -> Nat] /\ p[0] = 0
      /\ \A c \in 1..n : /\ columnSizes[c] \in Nat /\ p[c] = p[c - 1] + columnSizes[c]
                         /\ ColumnOffset(c) = p[c - 1]
  BY <1>1 DEF AreOffsets, ArePrefixSums
<1>3. n \in 0..n /\ 1 \in 1..n /\ n \in 1..n /\ \A c \in 1..n : c \in 0..n /\ c - 1 \in 0..n
  BY <1>2
<1> DEFINE at == r * RowSize
           cells == [c \in Columns |-> CellRead(rowData, c, r)]
           F == [c \in 1..n |-> Fetched(rowData, at, p[c])]
           Body(f) == [c \in 1..n |-> IF c = 1 THEN cells[c] ELSE f[c - 1] \o cells[c]]
           Chosen == CHOOSE f : f = Body(f)
<1>4. at \in Int
  BY <1>2, <1>3
<1>5. cells = [c \in 1..n |-> CellRead(rowData, c, r)]
  BY <1>2
<1>6. \A c \in 1..n : cells[c] = Fetched(rowData, at + p[c - 1], columnSizes[c])
  BY <1>2, <1>5 DEF CellRead, CellAt
<1> HIDE DEF cells, at
<1>7. DOMAIN cells = 1..n /\ Len(cells) = n
  BY <1>2, <1>5
<1>8. FlattenSeq(cells) = Chosen[n]
  BY <1>2, <1>7 DEF FlattenSeq
<1>9. \A c \in 1..n : F[c] = IF c = 1 THEN cells[c] ELSE F[c - 1] \o cells[c]
  <2> SUFFICES ASSUME NEW c \in 1..n PROVE F[c] = IF c = 1 THEN cells[c] ELSE F[c - 1] \o cells[c]
    OBVIOUS
  <2>1. p[c - 1] \in Nat /\ columnSizes[c] \in Nat /\ p[c] = p[c - 1] + columnSizes[c]
    BY <1>2, <1>3
  <2>2. CASE c = 1
    <3>1. p[c - 1] = 0
      BY <1>2, <2>2
    <3>2. at + p[c - 1] = at /\ p[c] = columnSizes[c]
      BY <1>4, <2>1, <3>1
    <3>3. QED
      BY <1>6, <2>2, <3>2
  <2>3. CASE c # 1
    <3>1. c - 1 \in 1..n
      BY <1>2, <2>3
    <3>2. F[c - 1] = Fetched(rowData, at, p[c - 1]) /\ F[c] = Fetched(rowData, at, p[c - 1] + columnSizes[c])
      BY <2>1, <3>1
    <3> HIDE DEF F
    <3> DEFINE a == p[c - 1]
               b == columnSizes[c]
    <3>3. a \in Nat /\ b \in Nat /\ F[c - 1] = Fetched(rowData, at, a) /\ F[c] = Fetched(rowData, at, a + b)
          /\ cells[c] = Fetched(rowData, at + a, b)
      BY <1>6, <2>1, <3>2
    <3> HIDE DEF a, b
    <3>4. Fetched(rowData, at, a) \o Fetched(rowData, at + a, b) = Fetched(rowData, at, a + b)
      BY <1>4, <3>3, FetchedInTwo
    <3>5. QED
      BY <2>3, <3>3, <3>4
  <2>4. QED
    BY <2>2, <2>3
<1>10. F = Body(F)
  <2> DEFINE B == Body(F)
  <2>1. \A c \in 1..n : F[c] = B[c]
    BY <1>9
  <2>2. F = [c \in 1..n |-> F[c]] /\ B = [c \in 1..n |-> B[c]]
    OBVIOUS
  <2> HIDE DEF F, B
  <2>3. F = B
    BY <2>1, <2>2
  <2>4. QED
    BY <2>3 DEF B
<1>11. Chosen = Body(Chosen)
  <2> HIDE DEF Body, F
  <2> QED
    BY <1>10
<1>12. \A c \in 1..n : Chosen[c] = IF c = 1 THEN cells[c] ELSE Chosen[c - 1] \o cells[c]
  <2> HIDE DEF Chosen
  <2> QED
    BY <1>11
<1> HIDE DEF Chosen, F
<1> DEFINE W == [k \in 0..(n - 1) |-> Chosen[k + 1]]
           G == [k \in 0..(n - 1) |-> F[k + 1]]
<1>13. StepTogether(W, G, n - 1)
  <2>1. W[0] = Chosen[1] /\ G[0] = F[1] /\ 1 \in 1..n
    BY <1>2
  <2>2. W[0] = G[0]
    BY <1>9, <1>12, <2>1
  <2>3. ASSUME NEW k \in 1..(n - 1), W[k - 1] = G[k - 1] PROVE W[k] = G[k]
    <3>1. /\ k \in 0..(n - 1) /\ k - 1 \in 0..(n - 1) /\ k + 1 \in 1..n /\ k + 1 # 1
          /\ (k + 1) - 1 = k /\ (k - 1) + 1 = k
      BY <1>2
    <3>2. W[k - 1] = Chosen[k] /\ G[k - 1] = F[k] /\ W[k] = Chosen[k + 1] /\ G[k] = F[k + 1]
      BY <3>1
    <3>3. Chosen[k + 1] = Chosen[k] \o cells[k + 1] /\ F[k + 1] = F[k] \o cells[k + 1]
      BY <1>9, <1>12, <3>1
    <3> HIDE DEF W, G
    <3>4. QED
      BY <2>3, <3>2, <3>3
  <2> HIDE DEF W, G
  <2>4. QED
    BY <2>2, <2>3 DEF StepTogether
<1>14. n - 1 \in Nat /\ n - 1 \in 0..(n - 1) /\ (n - 1) + 1 = n
  BY <1>2
<1>15. Agree(W, G, n - 1)
  <2> HIDE DEF W, G
  <2> QED
    BY <1>13, <1>14, SameSteps
<1>16. Chosen[n] = F[n]
  <2>1. W[n - 1] = Chosen[n] /\ G[n - 1] = F[n]
    BY <1>14
  <2> HIDE DEF W, G
  <2>2. QED
    BY <1>14, <1>15, <2>1 DEF Agree
<1>17. F[n] = Fetched(rowData, at, RowSize)
  BY <1>2, <1>3 DEF F
<1>18. QED
  BY <1>8, <1>16, <1>17 DEF RowRead, cells, at

LEMMA TableInvInit == TableInit => TableInv
BY DEF TableInit, TableInv, HasBytes

LEMMA RowSizeIs == RowSize = Summed(SubSeq(columnSizes, 1, Len(columnSizes)))
<1>1. SizeUpTo(Len(columnSizes)) = Summed(SubSeq(columnSizes, 1, Len(columnSizes)))
  BY DEF SizeUpTo, Summed, FoldLeft, MapThenFoldSet
<1>2. QED
  BY <1>1 DEF RowSize

LEMMA TableInvStep == TableInv /\ TableNext => TableInv'
<1> SUFFICES ASSUME TableInv, TableNext PROVE TableInv'
  OBVIOUS
<1>1. PICK n, p : AreOffsets(n, p)
  BY OffsetsExist DEF TableInv
<1>2. columnSizes' = columnSizes
  BY DEF TableNext
<1>3. RowSize' = RowSize
  <2>1. (RowSize = Summed(SubSeq(columnSizes, 1, Len(columnSizes))))'
    BY RowSizeIs, PTL
  <2>2. QED
    BY <1>2, <2>1, RowSizeIs
<1>4. HasBytes(rowData)
  BY DEF TableInv
<1>5. ASSUME NEW at, NEW bytes PROVE HasBytes(Stored(rowData, at, bytes))
  BY <1>4, StoredKeepsBytes
<1>6. ASSUME NEW c, NEW r, NEW bytes, rowData' = CellWritten(rowData, c, r, bytes)
      PROVE  HasBytes(rowData')
  BY <1>4, <1>5, <1>6 DEF CellWritten
<1>7. ASSUME NEW r, NEW bytes, rowData' = RowWritten(rowData, r, bytes)
      PROVE  HasBytes(rowData')
  BY <1>4, <1>5, <1>7 DEF RowWritten
<1>8. ASSUME NEW c \in Columns, NEW bytes \in BytesOf(Rows * columnSizes[c]),
             rowData' = ColumnWritten(rowData, c, bytes)
      PROVE  HasBytes(rowData')
  <2>1. c \in 1..n
    BY <1>1 DEF AreOffsets
  <2>2. HoldsColumn(ColumnWritten(rowData, c, bytes), c, SubSeq(bytes, 1, columnSizes[c]))
    BY <1>1, <1>4, <2>1, ColumnWrittenFills
  <2>3. QED
    BY <1>8, <2>2 DEF HoldsColumn
<1>9. HasBytes(rowData')
  BY <1>6, <1>7, <1>8 DEF TableNext
<1>10. rowData' = [i \in 0..(Rows * RowSize' - 1) |-> rowData'[i]]
  BY <1>3, <1>9 DEF HasBytes
<1>11. QED
  BY <1>2, <1>10 DEF TableInv, HasBytes

LEMMA TableInvStays == TableInv /\ rowData' = rowData /\ columnSizes' = columnSizes => TableInv'
<1> SUFFICES ASSUME TableInv, rowData' = rowData, columnSizes' = columnSizes PROVE TableInv'
  OBVIOUS
<1>1. (RowSize = Summed(SubSeq(columnSizes, 1, Len(columnSizes))))'
  BY RowSizeIs, PTL
<1>2. RowSize' = RowSize
  BY <1>1, RowSizeIs
<1>3. HasBytes(rowData)
  BY DEF TableInv
<1>4. rowData' = [i \in 0..(Rows * RowSize' - 1) |-> rowData'[i]]
  BY <1>2, <1>3 DEF HasBytes
<1>5. QED
  BY <1>4 DEF TableInv, HasBytes

LEMMA TableIsSound == TableInv => TableSound
BY CellsIndependentHolds, RowsAreCellsHolds, ColumnsOfOneValueHolds DEF TableSound

--------------------------------------------------------------------------------
(* Dates: a number of ticks is one date, and a date one number.            *)

LEMMA Distribute ==
  ASSUME NEW a \in Int, NEW b \in Int, NEW k \in Int
  PROVE  (a + b) * k = a * k + b * k /\ a * k \in Int /\ b * k \in Int
OBVIOUS

(* The number with this quotient and this remainder.                       *)
LEMMA QuotientAndRest ==
  ASSUME NEW k \in Nat \ {0}, NEW q \in Int, NEW x \in 0..(k - 1)
  PROVE  (q * k + x) \div k = q /\ (q * k + x) % k = x /\ q * k + x \in Int
<1> DEFINE n == q * k + x
<1>1. k * q = q * k /\ k * q \in Int
  OBVIOUS
<1>2. n \in Int /\ k * q <= n /\ n < k * q + k
  BY <1>1
<1> HIDE DEF n
<1>3. n \div k = q
  BY <1>2, DivIsUnique
<1>4. n = k * (n \div k) + (n % k) /\ n % k \in Int
  BY <1>2, DivMod
<1>5. n = k * q + x
  BY <1>1 DEF n
<1>6. n % k = x
  BY <1>1, <1>3, <1>4, <1>5
<1>7. QED
  BY <1>2, <1>3, <1>6 DEF n

AreMonths(p) ==
    /\ Months \in Nat \ {0}
    /\ \A m \in 1..Months : MonthDays[m] \in Nat \ {0}
    /\ p \in [0..Months -> Nat] /\ p[0] = 0
    /\ \A m \in 1..Months : p[m] = p[m - 1] + MonthDays[m]
    /\ \A j \in 0..Months : \A k \in 0..Months : j <= k => p[j] <= p[k]
    /\ \A k \in 0..Months : Total(SubSeq(MonthDays, 1, k)) = p[k]
    /\ YearDays = p[Months] /\ YearDays \in Nat \ {0}

LEMMA TotalIsSummed == ASSUME NEW s PROVE Total(s) = Summed(s)
BY DEF Total, Summed, FoldLeft, MapThenFoldSet

LEMMA MonthsExist == \E p : AreMonths(p)
<1> USE CalendarIsCounted
<1>1. /\ Months \in Nat \ {0} /\ Months = Len(MonthDays)
      /\ \A m \in 1..Months : MonthDays[m] \in Nat \ {0}
  BY DEF Months
<1>2. \A m \in 1..Months : MonthDays[m] \in Nat
  BY <1>1
<1>3. PICK p : ArePrefixSums(p, MonthDays, Months)
  BY <1>1, <1>2, PrefixSums
<1>4. /\ p \in [0..Months -> Nat] /\ p[0] = 0
      /\ \A m \in 1..Months : p[m] = p[m - 1] + MonthDays[m]
  BY <1>3 DEF ArePrefixSums
<1>5. \A j \in 0..Months : \A k \in 0..Months : j <= k => p[j] <= p[k]
  BY <1>1, <1>2, <1>3, SumsGrow
<1>6. ASSUME NEW k \in 0..Months PROVE Total(SubSeq(MonthDays, 1, k)) = p[k]
  <2>1. SubSeq(MonthDays, 1, k) = First(MonthDays, k)
    BY <1>1 DEF First
  <2>2. QED
    BY <1>3, <2>1, TotalIsSummed DEF ArePrefixSums
<1>7. YearDays = p[Months]
  <2>1. SubSeq(MonthDays, 1, Months) = MonthDays
    BY <1>1
  <2>2. Months \in 0..Months
    BY <1>1
  <2>3. QED
    BY <1>6, <2>1, <2>2 DEF YearDays
<1>8. YearDays \in Nat \ {0}
  <2>1. 0 \in 0..Months /\ 1 \in 1..Months /\ 1 \in 0..Months /\ Months \in 0..Months /\ 1 - 1 = 0
    BY <1>1
  <2>2. p[1] = p[0] + MonthDays[1] /\ p[1] <= p[Months] /\ p[1] \in Nat /\ p[Months] \in Nat
    BY <1>1, <1>4, <1>5, <2>1
  <2>3. MonthDays[1] \in Nat \ {0}
    BY <1>1, <2>1
  <2>4. QED
    BY <1>4, <1>7, <2>2, <2>3
<1>9. QED
  BY <1>1, <1>4, <1>5, <1>6, <1>7, <1>8 DEF AreMonths

(* The month of a day of the year.                                         *)
IsMonthOf(p, x, m) == m \in 1..Months /\ p[m - 1] <= x /\ x < p[m]

LEMMA OneMonth ==
  ASSUME NEW p, AreMonths(p), NEW x \in 0..(YearDays - 1)
  PROVE  /\ \E m : IsMonthOf(p, x, m)
         /\ \A m, k : IsMonthOf(p, x, m) /\ IsMonthOf(p, x, k) => m = k
<1>1. /\ Months \in Nat \ {0} /\ p \in [0..Months -> Nat] /\ p[0] = 0
      /\ YearDays = p[Months] /\ YearDays \in Nat
      /\ \A j \in 0..Months : \A k \in 0..Months : j <= k => p[j] <= p[k]
  BY DEF AreMonths
<1>2. \E m : IsMonthOf(p, x, m)
  <2> DEFINE S == {m \in Nat : m <= Months /\ x < p[m]}
  <2>1. Months \in S
    BY <1>1
  <2>2. PICK m \in S : \A k \in S : m <= k
    <3>1. S \subseteq Nat /\ S # {}
      BY <2>1
    <3> HIDE DEF S
    <3>2. QED
      BY <3>1, LeastNatural
  <2>3. m # 0
    BY <1>1, <2>2
  <2>4. m - 1 \notin S /\ m \in 1..Months /\ m - 1 \in Nat /\ m - 1 <= Months /\ m - 1 \in 0..Months
    BY <1>1, <2>2, <2>3
  <2>5. p[m - 1] \in Nat /\ x \in Int
    BY <1>1, <2>4
  <2>6. p[m - 1] <= x
    BY <2>4, <2>5
  <2>7. QED
    BY <2>2, <2>4, <2>6 DEF IsMonthOf
<1>3. ASSUME NEW m, NEW k, IsMonthOf(p, x, m), IsMonthOf(p, x, k), m < k PROVE FALSE
  <2>1. m \in 0..Months /\ k - 1 \in 0..Months /\ m <= k - 1
    BY <1>1, <1>3 DEF IsMonthOf
  <2>2. p[m] <= p[k - 1] /\ p[m] \in Nat /\ p[k - 1] \in Nat /\ x \in Int
    BY <1>1, <2>1
  <2>3. p[k - 1] <= x /\ x < p[m]
    BY <1>3 DEF IsMonthOf
  <2>4. QED
    BY <2>2, <2>3
<1>4. \A m, k : IsMonthOf(p, x, m) /\ IsMonthOf(p, x, k) => m = k
  <2> SUFFICES ASSUME NEW m, NEW k, IsMonthOf(p, x, m), IsMonthOf(p, x, k) PROVE m = k
    OBVIOUS
  <2>1. m \in Int /\ k \in Int
    BY <1>1 DEF IsMonthOf
  <2>2. ~(m < k) /\ ~(k < m)
    BY <1>3
  <2>3. QED
    BY <2>1, <2>2
<1>5. QED
  BY <1>2, <1>4

LEMMA DayHasTicks == TicksPerDay \in Nat \ {0}
<1> DEFINE k == HoursPerDay * MinutesPerHour
<1>1. k \in Nat \ {0}
  BY CalendarIsCounted
<1> HIDE DEF k
<1>2. k * SecondsPerMinute \in Nat \ {0}
  BY <1>1, CalendarIsCounted
<1>3. QED
  BY <1>2 DEF k, TicksPerDay

(* A quotient and a rest in range are a number in range, and the other way. *)
LEMMA PairInRange ==
  ASSUME NEW k \in Nat \ {0}, NEW K \in Nat \ {0}, NEW q \in 0..(K - 1), NEW x \in 0..(k - 1)
  PROVE  q * k + x \in 0..(K * k - 1)
<1>1. k * q <= k * (K - 1)
  BY ProductOrder
<1>2. k * (K - 1) = K * k - k /\ k * q = q * k /\ q * k \in Nat /\ K * k \in Nat
  BY Distribute
<1>3. QED
  BY <1>1, <1>2

LEMMA QuotientInRange ==
  ASSUME NEW k \in Nat \ {0}, NEW K \in Nat \ {0}, NEW n \in 0..(K * k - 1)
  PROVE  n \div k \in 0..(K - 1) /\ n % k \in 0..(k - 1) /\ n = (n \div k) * k + (n % k)
<1> DEFINE q == n \div k
           x == n % k
           kk == K * k
<1>1. kk \in Nat /\ n \in Int /\ 0 <= n /\ n < kk
  OBVIOUS
<1>2. q \in Int /\ x \in 0..(k - 1) /\ n = k * q + x
  BY <1>1, DivMod
<1> HIDE DEF q, x, kk
<1>3. q < K
  <2>1. SUFFICES ASSUME K <= q PROVE FALSE
    BY <1>2
  <2>2. k * K <= k * q /\ k * K = kk /\ k * q \in Int
    BY <1>2, <2>1, ProductOrder DEF kk
  <2>3. QED
    BY <1>1, <1>2, <2>2
<1>4. 0 <= q
  <2>1. SUFFICES ASSUME q <= -1 PROVE FALSE
    BY <1>2
  <2>2. k * q <= k * (-1) /\ k * (-1) = -k /\ k * q \in Int
    BY <1>2, <2>1, ProductOrder
  <2>3. QED
    BY <1>1, <1>2, <2>2
<1>5. k * q = q * k
  BY <1>2
<1>6. QED
  BY <1>2, <1>3, <1>4, <1>5 DEF q, x

(* A clock is one number of ticks, and ticks are one clock.                *)
HourOf(t) == (t \div SecondsPerMinute) \div MinutesPerHour
MinuteOf(t) == (t \div SecondsPerMinute) % MinutesPerHour
SecondOf(t) == t % SecondsPerMinute

LEMMA ClockIsKept ==
  ASSUME NEW h \in 0..(HoursPerDay - 1), NEW n \in 0..(MinutesPerHour - 1), NEW s \in 0..(SecondsPerMinute - 1)
  PROVE  /\ Ticks(h, n, s) \in 0..(TicksPerDay - 1)
         /\ HourOf(Ticks(h, n, s)) = h /\ MinuteOf(Ticks(h, n, s)) = n /\ SecondOf(Ticks(h, n, s)) = s
<1> USE CalendarIsCounted
<1> DEFINE u == h * MinutesPerHour + n
           K == HoursPerDay * MinutesPerHour
<1>1. u \in 0..(K - 1) /\ K \in Nat \ {0}
  BY PairInRange
<1>2. u \div MinutesPerHour = h /\ u % MinutesPerHour = n
  BY QuotientAndRest
<1>3. Ticks(h, n, s) = u * SecondsPerMinute + s /\ TicksPerDay = K * SecondsPerMinute
  BY DEF Ticks, TicksPerDay
<1> HIDE DEF u, K
<1>4. u * SecondsPerMinute + s \in 0..(K * SecondsPerMinute - 1)
  BY <1>1, PairInRange
<1>5. (u * SecondsPerMinute + s) \div SecondsPerMinute = u /\ (u * SecondsPerMinute + s) % SecondsPerMinute = s
  <2>1. u \in Int
    BY <1>1
  <2>2. QED
    BY <2>1, QuotientAndRest
<1>6. QED
  BY <1>2, <1>3, <1>4, <1>5 DEF HourOf, MinuteOf, SecondOf

LEMMA TicksAreKept ==
  ASSUME NEW t \in 0..(TicksPerDay - 1)
  PROVE  /\ HourOf(t) \in 0..(HoursPerDay - 1) /\ MinuteOf(t) \in 0..(MinutesPerHour - 1)
         /\ SecondOf(t) \in 0..(SecondsPerMinute - 1)
         /\ Ticks(HourOf(t), MinuteOf(t), SecondOf(t)) = t
<1> USE CalendarIsCounted
<1> DEFINE u == t \div SecondsPerMinute
           K == HoursPerDay * MinutesPerHour
<1>1. K \in Nat \ {0} /\ t \in 0..(K * SecondsPerMinute - 1)
  BY DEF TicksPerDay
<1> HIDE DEF K
<1>2. u \in 0..(K - 1) /\ SecondOf(t) \in 0..(SecondsPerMinute - 1) /\ t = u * SecondsPerMinute + SecondOf(t)
  BY <1>1, QuotientInRange DEF SecondOf
<1>3. u \in 0..(HoursPerDay * MinutesPerHour - 1)
  BY <1>2 DEF K
<1>4. HourOf(t) = u \div MinutesPerHour /\ MinuteOf(t) = u % MinutesPerHour
  BY DEF HourOf, MinuteOf
<1> HIDE DEF u
<1>5. /\ HourOf(t) \in 0..(HoursPerDay - 1) /\ MinuteOf(t) \in 0..(MinutesPerHour - 1)
      /\ u = HourOf(t) * MinutesPerHour + MinuteOf(t)
  <2>1. /\ u \div MinutesPerHour \in 0..(HoursPerDay - 1) /\ u % MinutesPerHour \in 0..(MinutesPerHour - 1)
        /\ u = (u \div MinutesPerHour) * MinutesPerHour + (u % MinutesPerHour)
    BY <1>3, QuotientInRange
  <2>2. QED
    BY ONLY <1>4, <2>1
<1>6. QED
  BY <1>2, <1>5 DEF Ticks

(* Clocks add up, in range or not.                                         *)
HasClock(a) == a.hour \in Int /\ a.minute \in Int /\ a.second \in Int

AddsTicks(h, n, s, g, m, r) == Ticks(h + g, n + m, s + r) = Ticks(h, n, s) + Ticks(g, m, r)

LEMMA TicksAdd ==
  ASSUME NEW h \in Int, NEW n \in Int, NEW s \in Int, NEW g \in Int, NEW m \in Int, NEW r \in Int
  PROVE  AddsTicks(h, n, s, g, m, r)
<1> DEFINE M == MinutesPerHour
           S == SecondsPerMinute
<1>1. M \in Int /\ S \in Int
  BY CalendarIsCounted
<1> DEFINE hM == h * M
           gM == g * M
           u == hM + n
           v == gM + m
<1>2. Ticks(h, n, s) = u * S + s /\ Ticks(g, m, r) = v * S + r
      /\ Ticks(h + g, n + m, s + r) = ((h + g) * M + (n + m)) * S + (s + r)
  BY DEF Ticks
<1> HIDE DEF M, S
<1>3. (h + g) * M = hM + gM /\ hM \in Int /\ gM \in Int
  BY <1>1, Distribute
<1> HIDE DEF hM, gM
<1>4. (h + g) * M + (n + m) = u + v /\ u \in Int /\ v \in Int
  BY <1>3
<1> HIDE DEF u, v
<1>5. (u + v) * S = u * S + v * S /\ u * S \in Int /\ v * S \in Int
  BY <1>1, <1>4, Distribute
<1>6. QED
  BY <1>2, <1>4, <1>5 DEF AddsTicks

LEMMA TickIsInt == ASSUME NEW a, HasClock(a) PROVE Tick(a) \in Int
<1> DEFINE h == a.hour * MinutesPerHour
           u == h + a.minute
<1>1. h \in Int /\ SecondsPerMinute \in Int /\ a.minute \in Int /\ a.second \in Int
  BY CalendarIsCounted DEF HasClock
<1>2. Tick(a) = u * SecondsPerMinute + a.second
  BY DEF Tick, Ticks
<1> HIDE DEF h
<1>3. u \in Int
  BY <1>1
<1> HIDE DEF u
<1>4. QED
  BY <1>1, <1>2, <1>3

LEMMA TimesAddTicks ==
  ASSUME NEW a, NEW b, HasClock(a), HasClock(b)
  PROVE  /\ TimeAdd(a, b) = FromNumber(ToNumber(a.year + b.year, a.month + b.month - 1, a.day + b.day, Tick(a) + Tick(b)))
         /\ TimeSub(a, b) = FromNumber(ToNumber(a.year - b.year, a.month - (b.month - 1), a.day - b.day, Tick(a) - Tick(b)))
<1> DEFINE ah == a.hour
           an == a.minute
           as == a.second
           bh == b.hour
           bn == b.minute
           bs == b.second
<1>0. ah \in Int /\ an \in Int /\ as \in Int /\ bh \in Int /\ bn \in Int /\ bs \in Int
  BY DEF HasClock
<1>1. Ticks(ah + bh, an + bn, as + bs) = Tick(a) + Tick(b)
  <2>1. Tick(a) = Ticks(ah, an, as) /\ Tick(b) = Ticks(bh, bn, bs)
    BY DEF Tick
  <2> HIDE DEF ah, an, as, bh, bn, bs
  <2>2. AddsTicks(ah, an, as, bh, bn, bs)
    BY ONLY <1>0, TicksAdd
  <2>3. QED
    BY ONLY <2>1, <2>2 DEF AddsTicks
<1>2. Ticks(ah - bh, an - bn, as - bs) = Tick(a) - Tick(b)
  <2> DEFINE h == ah - bh
             n == an - bn
             s == as - bs
  <2>1. Tick(a) = Ticks(ah, an, as) /\ Tick(b) = Ticks(bh, bn, bs) /\ Tick(a) \in Int /\ Tick(b) \in Int
    BY TickIsInt DEF Tick
  <2> HIDE DEF ah, an, as, bh, bn, bs
  <2>2. h \in Int /\ n \in Int /\ s \in Int /\ h + bh = ah /\ n + bn = an /\ s + bs = as
    BY <1>0
  <2> HIDE DEF h, n, s
  <2>3. Ticks(ah, an, as) = Ticks(h, n, s) + Ticks(bh, bn, bs)
    <3>1. AddsTicks(h, n, s, bh, bn, bs)
      BY ONLY <1>0, <2>2, TicksAdd
    <3>2. Ticks(h + bh, n + bn, s + bs) = Ticks(h, n, s) + Ticks(bh, bn, bs)
      BY ONLY <3>1 DEF AddsTicks
    <3>3. h + bh = ah /\ n + bn = an /\ s + bs = as
      BY <2>2
    <3>4. QED
      BY ONLY <3>2, <3>3, Zenon
  <2>4. Ticks(h, n, s) \in Int
    <3> DEFINE c == [hour |-> h, minute |-> n, second |-> s]
    <3>1. HasClock(c) /\ Tick(c) = Ticks(h, n, s)
      BY <2>2 DEF HasClock, Tick
    <3> HIDE DEF c
    <3>2. QED
      BY <3>1, TickIsInt
  <2>5. Ticks(h, n, s) = Tick(a) - Tick(b)
    BY ONLY <2>1, <2>3, <2>4
  <2>6. QED
    BY <2>5 DEF h, n, s
<1>3. QED
  BY <1>1, <1>2 DEF TimeAdd, TimeSub

IsCalendarDate(a) ==
    /\ a = [year |-> a.year, month |-> a.month, day |-> a.day,
            hour |-> a.hour, minute |-> a.minute, second |-> a.second]
    /\ a.year \in Int
    /\ a.month \in 1..Months
    /\ a.day \in 1..MonthDays[a.month]
    /\ a.hour \in 0..(HoursPerDay - 1)
    /\ a.minute \in 0..(MinutesPerHour - 1)
    /\ a.second \in 0..(SecondsPerMinute - 1)

(* The date of a day and the ticks of its clock.                           *)
DateAt(y, m, d, t) ==
    [year |-> y, month |-> m, day |-> d, hour |-> HourOf(t), minute |-> MinuteOf(t), second |-> SecondOf(t)]

LEMMA DateFields ==
  ASSUME NEW a, IsCalendarDate(a)
  PROVE  /\ a.year \in Int /\ a.month \in 1..Months /\ a.month \in Int /\ a.day \in 1..MonthDays[a.month]
         /\ a.day \in Int /\ HasClock(a) /\ Tick(a) \in 0..(TicksPerDay - 1) /\ Tick(a) \in Int
         /\ a = DateAt(a.year, a.month, a.day, Tick(a))
<1>1. Months \in Nat /\ MonthDays[a.month] \in Nat
  BY CalendarIsCounted DEF IsCalendarDate, Months
<1>2. a.year \in Int /\ a.month \in 1..Months /\ a.day \in 1..MonthDays[a.month]
  BY DEF IsCalendarDate
<1>3. a.month \in Int /\ a.day \in Int
  BY <1>1, <1>2
<1>4. HasClock(a)
  BY CalendarIsCounted DEF IsCalendarDate, HasClock
<1>5. Tick(a) \in 0..(TicksPerDay - 1) /\ HourOf(Tick(a)) = a.hour
      /\ MinuteOf(Tick(a)) = a.minute /\ SecondOf(Tick(a)) = a.second
  BY ClockIsKept DEF IsCalendarDate, Tick
<1>6. a = DateAt(a.year, a.month, a.day, Tick(a))
  BY <1>5 DEF IsCalendarDate, DateAt
<1>7. Tick(a) \in Int
  BY <1>4, TickIsInt
<1>8. QED
  BY <1>2, <1>3, <1>4, <1>5, <1>6, <1>7

LEMMA IsDateAt ==
  ASSUME NEW y \in Int, NEW m \in 1..Months, NEW d \in 1..MonthDays[m], NEW t \in 0..(TicksPerDay - 1)
  PROVE  /\ IsCalendarDate(DateAt(y, m, d, t)) /\ Tick(DateAt(y, m, d, t)) = t
         /\ DateAt(y, m, d, t).year = y /\ DateAt(y, m, d, t).month = m /\ DateAt(y, m, d, t).day = d
BY TicksAreKept DEF IsCalendarDate, DateAt, Tick

TimeInv == IsCalendarDate(first) /\ IsCalendarDate(second)

(* The days before a month, which may lie in another year.                 *)
DaysBefore(p, y, m) == (y + ((m - 1) \div Months)) * YearDays + p[(m - 1) % Months]

LEMMA ToNumberIs ==
  ASSUME NEW p, AreMonths(p), NEW y \in Int, NEW m \in Int, NEW d \in Int, NEW t \in Int
  PROVE  /\ ToNumber(y, m, d, t) = (DaysBefore(p, y, m) + (d - 1)) * TicksPerDay + t
         /\ DaysBefore(p, y, m) \in Int /\ ToNumber(y, m, d, t) \in Int
<1> USE CalendarIsCounted, DayHasTicks
<1> DEFINE q == (m - 1) \div Months
           r == (m - 1) % Months
<1>1. Months \in Nat \ {0} /\ YearDays \in Nat /\ p \in [0..Months -> Nat]
  BY DEF AreMonths
<1>2. q \in Int /\ r \in 0..(Months - 1) /\ r \in 0..Months
  <2>1. m - 1 \in Int
    OBVIOUS
  <2>2. q \in Int /\ r \in 0..(Months - 1)
    BY <1>1, <2>1, DivMod
  <2> HIDE DEF q, r
  <2>3. QED
    BY <1>1, <2>2
<1>3. Total(SubSeq(MonthDays, 1, r)) = p[r] /\ p[r] \in Nat
  <2> HIDE DEF r
  <2> QED
    BY <1>1, <1>2 DEF AreMonths
<1> DEFINE w == (y + q) * YearDays
<1>4. ToNumber(y, m, d, t) = (w + Total(SubSeq(MonthDays, 1, r)) + d - 1) * TicksPerDay + t
  BY DEF ToNumber
<1>5. DaysBefore(p, y, m) = w + p[r]
  BY DEF DaysBefore
<1>6. w \in Int
  <2>1. y + q \in Int
    <3> HIDE DEF q
    <3> QED
      BY <1>2
  <2>2. QED
    BY <1>1, <2>1
<1> DEFINE z == p[r]
<1>7. z \in Int
  BY <1>3
<1> HIDE DEF w, z
<1>8. w + z + d - 1 = (w + z) + (d - 1) /\ w + z \in Int
  BY <1>6, <1>7
<1>9. ToNumber(y, m, d, t) = ((w + z) + (d - 1)) * TicksPerDay + t
  BY <1>3, <1>4, <1>8 DEF z
<1>10. ((w + z) + (d - 1)) * TicksPerDay + t \in Int
  BY <1>8
<1>11. QED
  BY <1>5, <1>8, <1>9, <1>10 DEF z

LEMMA DaysOfMonth ==
  ASSUME NEW p, AreMonths(p), NEW y \in Int, NEW m \in 1..Months
  PROVE  DaysBefore(p, y, m) = y * YearDays + p[m - 1] /\ y * YearDays \in Int /\ p[m - 1] \in Nat
<1>1. Months \in Nat \ {0} /\ YearDays \in Nat /\ p \in [0..Months -> Nat]
  BY DEF AreMonths
<1>2. m - 1 \in 0..(Months - 1) /\ 0 * Months + (m - 1) = m - 1 /\ m - 1 \in 0..Months
  BY <1>1
<1>3. (m - 1) \div Months = 0 /\ (m - 1) % Months = m - 1
  <2> DEFINE x == m - 1
             q == 0
  <2>1. x \in 0..(Months - 1) /\ q * Months + x = x /\ q \in Int
    BY <1>1, <1>2
  <2> HIDE DEF x, q
  <2>2. (q * Months + x) \div Months = q /\ (q * Months + x) % Months = x
    BY <1>1, <2>1, QuotientAndRest
  <2>3. QED
    BY <2>1, <2>2 DEF x, q
<1>4. y + 0 = y /\ y * YearDays \in Int
  BY <1>1
<1>5. QED
  BY <1>1, <1>2, <1>3, <1>4 DEF DaysBefore

(* localtime gives the date whose days and ticks these are.                *)
LEMMA FromNumberIs ==
  ASSUME NEW p, AreMonths(p), NEW y \in Int, NEW m \in 1..Months, NEW d \in 1..MonthDays[m],
         NEW t \in 0..(TicksPerDay - 1)
  PROVE  FromNumber((y * YearDays + (p[m - 1] + (d - 1))) * TicksPerDay + t) = DateAt(y, m, d, t)
<1> USE CalendarIsCounted, DayHasTicks
<1>1. /\ Months \in Nat \ {0} /\ YearDays \in Nat \ {0} /\ p \in [0..Months -> Nat]
      /\ MonthDays[m] \in Nat /\ p[m] = p[m - 1] + MonthDays[m]
      /\ YearDays = p[Months] /\ m \in 0..Months /\ m - 1 \in 0..Months /\ Months \in 0..Months
      /\ \A k \in 0..Months : Total(SubSeq(MonthDays, 1, k)) = p[k]
      /\ p[m] <= p[Months]
  <2>1. Months \in Nat \ {0}
    BY DEF AreMonths
  <2>2. m \in 0..Months /\ m - 1 \in 0..Months /\ Months \in 0..Months /\ m <= Months
    BY <2>1
  <2>3. QED
    BY <2>1, <2>2 DEF AreMonths
<1> DEFINE x == p[m - 1] + (d - 1)
           days == y * YearDays + x
           n == days * TicksPerDay + t
<1>2. p[m - 1] \in Nat /\ p[m] \in Nat /\ d \in Int /\ d >= 1 /\ d <= MonthDays[m]
  BY <1>1
<1>3. x \in 0..(YearDays - 1) /\ p[m - 1] <= x /\ x < p[m] /\ x \in Int
  <2>1. p[m] <= YearDays /\ YearDays \in Nat /\ MonthDays[m] \in Nat /\ p[m] = p[m - 1] + MonthDays[m]
    BY <1>1
  <2>2. x \in Int /\ p[m - 1] <= x /\ x < p[m]
    BY ONLY <1>2, <2>1
  <2>3. 0 <= x
    BY <1>2, <2>2
  <2> HIDE DEF x
  <2>4. QED
    BY ONLY <1>2, <2>1, <2>2, <2>3
<1> HIDE DEF x
<1>4. days \div YearDays = y /\ days % YearDays = x /\ days \in Int
  BY <1>1, <1>3, QuotientAndRest
<1> HIDE DEF days
<1>5. n \div TicksPerDay = days /\ n % TicksPerDay = t
  BY <1>4, QuotientAndRest
<1> DEFINE InMonth(k) == Total(SubSeq(MonthDays, 1, k - 1)) <= x /\ x < Total(SubSeq(MonthDays, 1, k))
           month == CHOOSE k \in 1..Months : InMonth(k)
<1>6. \A k \in 1..Months : InMonth(k) <=> IsMonthOf(p, x, k)
  <2>1. \A k \in 1..Months : k \in 0..Months /\ k - 1 \in 0..Months
    BY <1>1
  <2>2. QED
    BY <1>1, <2>1 DEF IsMonthOf
<1>7. IsMonthOf(p, x, m) /\ InMonth(m)
  BY <1>3, <1>6 DEF IsMonthOf
<1>8. month = m
  <2>1. month \in 1..Months /\ InMonth(month)
    <3> HIDE DEF InMonth
    <3> QED
      BY <1>7
  <2>2. IsMonthOf(p, x, month)
    <3> HIDE DEF month, InMonth
    <3> QED
      BY <1>6, <2>1
  <2> HIDE DEF month
  <2>3. QED
    BY <1>3, <1>7, <2>2, OneMonth
<1>9. FromNumber(n) = DateAt(days \div YearDays, month, x - Total(SubSeq(MonthDays, 1, month - 1)) + 1, t)
  <2> HIDE DEF n
  <2> QED
    BY <1>4, <1>5 DEF FromNumber, DateAt, HourOf, MinuteOf, SecondOf
<1> HIDE DEF month
<1>10. x - Total(SubSeq(MonthDays, 1, m - 1)) + 1 = d
  BY <1>1, <1>2 DEF x
<1>11. FromNumber(n) = DateAt(y, m, d, t)
  BY <1>4, <1>8, <1>9, <1>10
<1>12. QED
  BY <1>11 DEF n, days, x

LEMMA NumberIs ==
  ASSUME NEW p, AreMonths(p), NEW a, IsCalendarDate(a)
  PROVE  /\ Number(a) = (a.year * YearDays + (p[a.month - 1] + (a.day - 1))) * TicksPerDay + Tick(a)
         /\ Number(a) \in Int /\ p[a.month - 1] \in Nat /\ a.year * YearDays \in Int
         /\ a.day \in Int /\ Tick(a) \in Int
<1> DEFINE y == a.year
           m == a.month
           d == a.day
           t == Tick(a)
<1>1. Months \in Nat \ {0} /\ TicksPerDay \in Nat \ {0}
  BY DayHasTicks DEF AreMonths
<1>2. y \in Int /\ m \in 1..Months /\ m \in Int /\ d \in Int /\ t \in Int
  BY DateFields
<1>3. Number(a) = ToNumber(y, m, d, t)
  BY DEF Number
<1> HIDE DEF y, m, d, t
<1>4. /\ ToNumber(y, m, d, t) = (DaysBefore(p, y, m) + (d - 1)) * TicksPerDay + t
      /\ DaysBefore(p, y, m) \in Int /\ ToNumber(y, m, d, t) \in Int
  BY ONLY AreMonths(p), <1>2, ToNumberIs
<1>5. DaysBefore(p, y, m) = y * YearDays + p[m - 1] /\ y * YearDays \in Int /\ p[m - 1] \in Nat
  BY <1>2, DaysOfMonth
<1> DEFINE w == y * YearDays
           z == p[m - 1]
<1>6. w \in Int /\ z \in Int /\ DaysBefore(p, y, m) = w + z
  BY <1>5
<1> HIDE DEF w, z
<1>7. (w + z) + (d - 1) = w + (z + (d - 1))
  BY <1>2, <1>6
<1>8. Number(a) = (w + (z + (d - 1))) * TicksPerDay + t
  BY <1>3, <1>4, <1>6, <1>7
<1>9. QED
  BY <1>2, <1>3, <1>4, <1>5, <1>8 DEF w, z, y, m, d, t

(* A date is not changed by the two conversions.                           *)
LEMMA DateIsKept ==
  ASSUME NEW a, IsCalendarDate(a)
  PROVE  FromNumber(Number(a)) = a
<1>1. PICK p : AreMonths(p)
  BY MonthsExist
<1> DEFINE y == a.year
           m == a.month
           d == a.day
           t == Tick(a)
<1>2. /\ a = DateAt(y, m, d, t)
      /\ y \in Int /\ m \in 1..Months /\ d \in 1..MonthDays[m] /\ t \in 0..(TicksPerDay - 1)
  BY DateFields
<1>3. Number(a) = (y * YearDays + (p[m - 1] + (d - 1))) * TicksPerDay + t
  BY <1>1, NumberIs
<1> HIDE DEF y, m, d, t
<1>4. FromNumber((y * YearDays + (p[m - 1] + (d - 1))) * TicksPerDay + t) = DateAt(y, m, d, t)
  BY <1>1, <1>2, FromNumberIs
<1>5. QED
  BY <1>2, <1>3, <1>4

(* Every number is the number of a date.                                   *)
LEMMA NumberIsKept ==
  ASSUME NEW n \in Int
  PROVE  IsCalendarDate(FromNumber(n)) /\ Number(FromNumber(n)) = n
<1> USE CalendarIsCounted, DayHasTicks
<1>1. PICK p : AreMonths(p)
  BY MonthsExist
<1>2. /\ Months \in Nat \ {0} /\ YearDays \in Nat \ {0} /\ p \in [0..Months -> Nat]
      /\ \A m \in 1..Months : MonthDays[m] \in Nat /\ p[m] = p[m - 1] + MonthDays[m]
  BY <1>1 DEF AreMonths
<1> DEFINE days == n \div TicksPerDay
           t == n % TicksPerDay
           y == days \div YearDays
           x == days % YearDays
<1>3. days \in Int /\ t \in 0..(TicksPerDay - 1) /\ n = TicksPerDay * days + t
  BY DivMod
<1>4. y \in Int /\ x \in 0..(YearDays - 1) /\ days = YearDays * y + x
  <2> HIDE DEF days
  <2> QED
    BY <1>2, <1>3, DivMod
<1> HIDE DEF days, t, y, x
<1>5. PICK m : IsMonthOf(p, x, m)
  BY <1>1, <1>4, OneMonth
<1> DEFINE d == x - p[m - 1] + 1
<1>6. m \in 1..Months /\ p[m - 1] \in Nat /\ MonthDays[m] \in Nat /\ p[m] = p[m - 1] + MonthDays[m]
      /\ p[m - 1] <= x /\ x < p[m] /\ x \in Int
  <2>1. m \in 1..Months /\ p[m - 1] <= x /\ x < p[m]
    BY <1>5 DEF IsMonthOf
  <2>2. m - 1 \in 0..Months /\ x \in Int
    BY <1>2, <1>4, <2>1
  <2>3. QED
    BY <1>2, <2>1, <2>2
<1>7. d \in 1..MonthDays[m] /\ p[m - 1] + (d - 1) = x /\ d \in Int
  <2> DEFINE before == p[m - 1]
             length == MonthDays[m]
  <2>1. before \in Nat /\ length \in Nat /\ before <= x /\ x < before + length /\ x \in Int
    BY <1>6
  <2>2. d = x - before + 1
    OBVIOUS
  <2> HIDE DEF before, length, d
  <2>3. d \in 1..length /\ before + (d - 1) = x /\ d \in Int
    BY ONLY <2>1, <2>2
  <2>4. QED
    BY <2>3 DEF before, length
<1> HIDE DEF d
<1> DEFINE a == DateAt(y, m, d, t)
<1>8. IsCalendarDate(a)
  BY <1>3, <1>4, <1>6, <1>7, IsDateAt
<1>9. a.year = y /\ a.month = m /\ a.day = d /\ Tick(a) = t
  BY <1>3, <1>4, <1>6, <1>7, IsDateAt
<1> HIDE DEF a
<1>10. Number(a) = n
  <2>1. Number(a) = (y * YearDays + (p[m - 1] + (d - 1))) * TicksPerDay + t
    BY <1>1, <1>8, <1>9, NumberIs
  <2>2. Number(a) = (y * YearDays + x) * TicksPerDay + t
    BY <1>7, <2>1
  <2>3. y * YearDays + x = days
    BY <1>2, <1>4
  <2>4. days * TicksPerDay = TicksPerDay * days
    BY <1>3
  <2>5. QED
    BY <1>3, <2>2, <2>3, <2>4
<1>11. FromNumber(n) = a
  BY <1>8, <1>10, DateIsKept
<1>12. QED
  BY <1>8, <1>10, <1>11

(* A date none of whose fields is less is not earlier.                     *)
NoneLess(a, b) ==
    /\ b.year <= a.year /\ b.month <= a.month /\ b.day <= a.day
    /\ b.hour <= a.hour /\ b.minute <= a.minute /\ b.second <= a.second

LEMMA ClockOrder ==
  ASSUME NEW a, NEW b, HasClock(a), HasClock(b), NoneLess(a, b)
  PROVE  Tick(b) <= Tick(a)
<1> DEFINE M == MinutesPerHour
           S == SecondsPerMinute
           u == a.hour * M + a.minute
           v == b.hour * M + b.minute
<1>1. M \in Nat \ {0} /\ S \in Nat \ {0}
  BY CalendarIsCounted
<1>2. Tick(a) = u * S + a.second /\ Tick(b) = v * S + b.second
  BY DEF Tick, Ticks
<1> HIDE DEF M, S
<1>3. a.hour \in Int /\ b.hour \in Int /\ b.hour <= a.hour
      /\ a.minute \in Int /\ b.minute \in Int /\ b.minute <= a.minute
      /\ a.second \in Int /\ b.second \in Int /\ b.second <= a.second
  BY DEF HasClock, NoneLess
<1>4. M * b.hour <= M * a.hour /\ M * b.hour = b.hour * M /\ M * a.hour = a.hour * M
      /\ M * b.hour \in Int /\ M * a.hour \in Int
  BY <1>1, <1>3, ProductOrder
<1>5. v <= u /\ v \in Int /\ u \in Int
  BY <1>3, <1>4
<1> HIDE DEF u, v
<1>6. S * v <= S * u /\ S * v = v * S /\ S * u = u * S /\ S * v \in Int /\ S * u \in Int
  BY <1>1, <1>5, ProductOrder
<1>7. QED
  BY <1>2, <1>3, <1>6

LEMMA FieldsOrder ==
  ASSUME NEW a, NEW b, IsCalendarDate(a), IsCalendarDate(b), NoneLess(a, b)
  PROVE  Number(b) <= Number(a)
<1>1. PICK p : AreMonths(p)
  BY MonthsExist
<1>2. Months \in Nat \ {0} /\ YearDays \in Nat \ {0} /\ TicksPerDay \in Nat \ {0}
  BY <1>1, DayHasTicks DEF AreMonths
<1> DEFINE X == a.year * YearDays
           Y == b.year * YearDays
           P == p[a.month - 1] + (a.day - 1)
           Q == p[b.month - 1] + (b.day - 1)
<1>3. Number(a) = (X + P) * TicksPerDay + Tick(a) /\ p[a.month - 1] \in Nat /\ X \in Int
      /\ a.day \in Int /\ Tick(a) \in Int /\ Number(a) \in Int
  BY <1>1, NumberIs
<1>4. Number(b) = (Y + Q) * TicksPerDay + Tick(b) /\ p[b.month - 1] \in Nat /\ Y \in Int
      /\ b.day \in Int /\ Tick(b) \in Int /\ Number(b) \in Int
  BY <1>1, NumberIs
<1>5. Y <= X
  <2>1. a.year \in Int /\ b.year \in Int /\ b.year <= a.year
    BY DEF IsCalendarDate, NoneLess
  <2>2. YearDays * b.year <= YearDays * a.year
    BY <1>2, <2>1, ProductOrder
  <2>3. QED
    BY <1>2, <2>1, <2>2
<1>6. p[b.month - 1] <= p[a.month - 1]
  <2>1. a.month \in 1..Months /\ b.month \in 1..Months /\ b.month <= a.month
    BY DEF IsCalendarDate, NoneLess
  <2>2. a.month - 1 \in 0..Months /\ b.month - 1 \in 0..Months /\ b.month - 1 <= a.month - 1
    BY <1>2, <2>1
  <2>3. QED
    BY <1>1, <2>2 DEF AreMonths
<1>7. b.day <= a.day /\ Tick(b) <= Tick(a)
  BY DateFields, ClockOrder DEF NoneLess
<1>8. Q <= P /\ Q \in Int /\ P \in Int
  BY <1>3, <1>4, <1>6, <1>7
<1> HIDE DEF X, Y, P, Q
<1>9. TicksPerDay * (Y + Q) <= TicksPerDay * (X + P)
  <2>1. Y + Q \in Int /\ X + P \in Int /\ Y + Q <= X + P
    BY <1>3, <1>4, <1>5, <1>8
  <2> DEFINE u == Y + Q
             v == X + P
  <2>2. u \in Int /\ v \in Int /\ u <= v
    BY <2>1
  <2> HIDE DEF u, v
  <2>3. TicksPerDay * u <= TicksPerDay * v
    BY <1>2, <2>2, ProductOrder
  <2>4. QED
    BY <2>3 DEF u, v
<1>10. /\ TicksPerDay * (Y + Q) = (Y + Q) * TicksPerDay /\ TicksPerDay * (X + P) = (X + P) * TicksPerDay
       /\ (Y + Q) * TicksPerDay \in Int /\ (X + P) * TicksPerDay \in Int
  BY <1>2, <1>3, <1>4, <1>8
<1> DEFINE u == (Y + Q) * TicksPerDay
           v == (X + P) * TicksPerDay
<1>11. u <= v /\ u \in Int /\ v \in Int /\ Number(b) = u + Tick(b) /\ Number(a) = v + Tick(a)
  BY <1>3, <1>4, <1>9, <1>10
<1> HIDE DEF u, v
<1>12. QED
  BY ONLY <1>3, <1>4, <1>7, <1>11

LEMMA OrderIsOneSidedHolds == TimeInv => OrderIsOneSided
<1> SUFFICES ASSUME TimeInv PROVE OrderIsOneSided
  OBVIOUS
<1>1. IsCalendarDate(first) /\ IsCalendarDate(second)
  BY DEF TimeInv
<1>2. Number(first) \in Int /\ Number(second) \in Int
  <2>1. PICK p : AreMonths(p)
    BY MonthsExist
  <2>2. QED
    BY <1>1, <2>1, NumberIs
<1>3. (\E f \in Fields : first[f] < second[f]) <=> ~NoneLess(first, second)
  <2>1. /\ first.year \in Int /\ first.month \in Int /\ first.day \in Int /\ HasClock(first)
        /\ second.year \in Int /\ second.month \in Int /\ second.day \in Int /\ HasClock(second)
    BY <1>1, DateFields
  <2>2. (\E f \in Fields : first[f] < second[f]) <=>
            \/ first.year < second.year \/ first.month < second.month \/ first.day < second.day
            \/ first.hour < second.hour \/ first.minute < second.minute \/ first.second < second.second
    BY DEF Fields
  <2>3. QED
    BY <2>1, <2>2 DEF NoneLess, HasClock
<1>4. NoneLess(first, second) => Number(second) <= Number(first)
  BY <1>1, FieldsOrder
<1> SUFFICES ASSUME NEW padding \in BOOLEAN
             PROVE  /\ Number(first) < Number(second) => IsBefore(first, second, padding)
                    /\ IsAfter(first, second, padding) /\ ~(padding /\ first = second) =>
                           Number(first) > Number(second)
  BY DEF OrderIsOneSided
<1>5. ASSUME Number(first) < Number(second) PROVE IsBefore(first, second, padding)
  <2>1. first # second
    BY <1>2, <1>5
  <2>2. ~NoneLess(first, second)
    BY <1>2, <1>4, <1>5
  <2>3. QED
    BY <1>3, <2>1, <2>2 DEF IsBefore, Differ
<1>6. ASSUME IsAfter(first, second, padding), ~(padding /\ first = second) PROVE Number(first) > Number(second)
  <2>1. first # second /\ NoneLess(first, second)
    BY <1>3, <1>6 DEF IsAfter, IsBefore, Differ
  <2>2. Number(second) <= Number(first)
    BY <1>4, <2>1
  <2>3. Number(first) # Number(second)
    BY <1>1, <2>1, DateIsKept
  <2>4. QED
    BY <1>2, <2>2, <2>3
<1>7. QED
  BY <1>5, <1>6

(* Days and ticks add up whatever the month is.                            *)
AddsUp(y, m, d, t, e, u) ==
    /\ ToNumber(y, m, d + e, t + u) = ToNumber(y, m, d, t) + (e * TicksPerDay + u)
    /\ ToNumber(y, m, d - e, t - u) = ToNumber(y, m, d, t) - (e * TicksPerDay + u)
    /\ ToNumber(y, m, d, t) \in Int /\ e * TicksPerDay + u \in Int

LEMMA ToNumberAdds ==
  ASSUME NEW y \in Int, NEW m \in Int, NEW d \in Int, NEW t \in Int, NEW e \in Int, NEW u \in Int
  PROVE  AddsUp(y, m, d, t, e, u)
<1>1. PICK p : AreMonths(p)
  BY MonthsExist
<1> DEFINE w == DaysBefore(p, y, m)
           k == TicksPerDay
<1>2. k \in Int
  BY DayHasTicks
<1>3. ASSUME NEW dd \in Int, NEW tt \in Int
      PROVE  w \in Int /\ ToNumber(y, m, dd, tt) = (w + (dd - 1)) * k + tt /\ ToNumber(y, m, dd, tt) \in Int
  BY <1>1, ToNumberIs
<1>4. w \in Int
  BY <1>3
<1> HIDE DEF w, k
<1> DEFINE v == w + (d - 1)
           vk == v * k
           ek == e * k
<1>5. v \in Int /\ w + ((d + e) - 1) = v + e /\ w + ((d - e) - 1) = v + (-e) /\ -e \in Int
  BY <1>4
<1>6. ToNumber(y, m, d + e, t + u) = (v + e) * k + (t + u)
  BY <1>3, <1>5
<1>7. ToNumber(y, m, d - e, t - u) = (v + (-e)) * k + (t - u)
  BY <1>3, <1>5
<1>8. ToNumber(y, m, d, t) = vk + t /\ ToNumber(y, m, d, t) \in Int
  BY <1>3
<1> HIDE DEF v
<1>9. (v + e) * k = vk + ek /\ vk \in Int /\ ek \in Int
  BY <1>2, <1>5
<1>10. (v + (-e)) * k = vk - ek
  BY <1>2, <1>5
<1> HIDE DEF vk, ek
<1>11. QED
  BY <1>6, <1>7, <1>8, <1>9, <1>10 DEF ek, k, AddsUp

(* A month that is q years further.                                        *)
IsFurther(s, q, m) == s - 1 = q * Months + (m - 1)

LEMMA ToNumberWraps ==
  ASSUME NEW y \in Int, NEW q \in Int, NEW m \in 1..Months, NEW s \in Int, IsFurther(s, q, m),
         NEW d \in Int, NEW t \in Int
  PROVE  ToNumber(y, s, d, t) = ToNumber(y + q, m, d, t)
<1>1. PICK p : AreMonths(p)
  BY MonthsExist
<1>2. Months \in Nat \ {0} /\ m \in Int
  BY <1>1 DEF AreMonths
<1> DEFINE x == m - 1
           z == 0
<1>3. x \in 0..(Months - 1) /\ s - 1 = q * Months + x /\ z * Months + x = x /\ z \in Int /\ m - 1 = x
  BY <1>2 DEF IsFurther
<1> HIDE DEF x, z
<1>4. (s - 1) \div Months = q /\ (s - 1) % Months = x
  <2>1. (q * Months + x) \div Months = q /\ (q * Months + x) % Months = x
    BY <1>2, <1>3, QuotientAndRest
  <2>2. QED
    BY <1>3, <2>1
<1>5. (m - 1) \div Months = z /\ (m - 1) % Months = x
  <2>1. (z * Months + x) \div Months = z /\ (z * Months + x) % Months = x
    BY <1>2, <1>3, QuotientAndRest
  <2>2. QED
    BY <1>3, <2>1
<1>6. (y + q) + z = y + q
  BY DEF z
<1>7. QED
  BY <1>4, <1>5, <1>6 DEF ToNumber

LEMMA DurationFacts ==
  ASSUME NEW a, IsCalendarDate(a)
  PROVE  LET b == Duration(a)
         IN  b.year \in Int /\ b.month \in 1..Months /\ b.month \in Int /\ b.day \in Int /\ HasClock(b)
<1>1. a.year \in Int /\ a.month \in 1..Months /\ a.month \in Int /\ a.day \in Int /\ HasClock(a)
  BY DateFields
<1>2. Duration(a) = [year |-> a.year, month |-> a.month, day |-> a.day - 1,
                     hour |-> a.hour, minute |-> a.minute, second |-> a.second]
  BY DEF Duration, IsCalendarDate
<1>3. QED
  BY <1>1, <1>2 DEF HasClock

(* Less than a month is taken away again.                                  *)
LEMMA DaysRoundTrip ==
  ASSUME NEW a, IsCalendarDate(a), NEW b, b.year = 0, b.month = 1, b.day \in Int, HasClock(b)
  PROVE  TimeSub(TimeAdd(a, b), b) = a
<1> DEFINE step == b.day * TicksPerDay + Tick(b)
           n == Number(a) + step
           c == FromNumber(n)
<1>1. /\ a.year \in Int /\ a.month \in Int /\ a.day \in Int /\ Tick(a) \in Int /\ HasClock(a)
      /\ a.year + b.year = a.year /\ a.month + b.month - 1 = a.month /\ Tick(b) \in Int
  <2>1. a.year \in Int /\ a.month \in Int /\ a.day \in Int /\ Tick(a) \in Int /\ HasClock(a)
    BY DateFields
  <2>2. QED
    BY <2>1, TickIsInt
<1>2. /\ ToNumber(a.year, a.month, a.day + b.day, Tick(a) + Tick(b)) = n
      /\ Number(a) \in Int /\ step \in Int
  <2>1. AddsUp(a.year, a.month, a.day, Tick(a), b.day, Tick(b))
    BY <1>1, ToNumberAdds
  <2>2. QED
    BY <2>1 DEF AddsUp, Number
<1>3. TimeAdd(a, b) = c
  BY <1>1, <1>2, TimesAddTicks
<1> HIDE DEF step
<1>4. n \in Int
  BY <1>2
<1>5. IsCalendarDate(c) /\ Number(c) = n
  <2> HIDE DEF n
  <2> QED
    BY <1>4, NumberIsKept
<1> HIDE DEF c
<1>6. /\ c.year \in Int /\ c.month \in Int /\ c.day \in Int /\ Tick(c) \in Int /\ HasClock(c)
      /\ c.year - b.year = c.year /\ c.month - (b.month - 1) = c.month
  <2>1. c.year \in Int /\ c.month \in Int /\ c.day \in Int /\ Tick(c) \in Int /\ HasClock(c)
    BY <1>5, DateFields
  <2>2. QED
    BY <2>1
<1>7. ToNumber(c.year, c.month, c.day - b.day, Tick(c) - Tick(b)) = Number(c) - step
  <2>1. AddsUp(c.year, c.month, c.day, Tick(c), b.day, Tick(b))
    BY <1>1, <1>6, ToNumberAdds
  <2>2. QED
    BY <2>1 DEF AddsUp, Number, step
<1>8. Number(c) - step = Number(a)
  BY <1>2, <1>5
<1>9. TimeSub(c, b) = FromNumber(Number(a))
  BY <1>6, <1>7, <1>8, TimesAddTicks
<1>10. QED
  BY <1>3, <1>9, DateIsKept

(* Months and years are, when the month that is reached has the day.       *)
LEMMA MonthsRoundTrip ==
  ASSUME NEW a, IsCalendarDate(a), NEW b, b.year \in Int, b.month \in 1..Months, b.day = 0, Tick(b) = 0, HasClock(b),
         a.day <= MonthDays[((a.month + b.month - 2) % Months) + 1]
  PROVE  TimeSub(TimeAdd(a, b), b) = a
<1> DEFINE s == a.month + b.month - 2
           q == s \div Months
           r == s % Months
           c == DateAt((a.year + b.year) + q, r + 1, a.day, Tick(a))
<1>1. Months \in Nat \ {0} /\ \A m \in 1..Months : MonthDays[m] \in Nat
  <2>1. PICK p : AreMonths(p)
    BY MonthsExist
  <2>2. QED
    BY <2>1 DEF AreMonths
<1>2. /\ a.year \in Int /\ a.month \in Int /\ a.month \in 1..Months /\ b.month \in Int /\ s \in Int
      /\ a.day \in Int /\ a.day >= 1 /\ Tick(a) \in Int /\ Tick(a) \in 0..(TicksPerDay - 1) /\ HasClock(a)
  <2>1. /\ a.year \in Int /\ a.month \in Int /\ a.month \in 1..Months /\ HasClock(a)
        /\ a.day \in 1..MonthDays[a.month] /\ Tick(a) \in 0..(TicksPerDay - 1) /\ Tick(a) \in Int
    BY DateFields
  <2>2. MonthDays[a.month] \in Nat
    BY <1>1, <2>1
  <2>3. QED
    BY <1>1, <2>1, <2>2
<1>3. q \in Int /\ r \in 0..(Months - 1) /\ s = Months * q + r
  <2> HIDE DEF s
  <2> QED
    BY <1>1, <1>2, DivMod
<1>4. a.day <= MonthDays[r + 1]
  OBVIOUS
<1>5. a.month + b.month - 1 = s + 1
  BY <1>2
<1>6. a.month - 1 = s + 1 - b.month
  BY <1>2
<1> HIDE DEF s, q, r
<1>7. r + 1 \in 1..Months /\ r + 1 \in Int /\ (r + 1) - 1 = r /\ Months * q = q * Months /\ q * Months \in Int
  BY <1>1, <1>3
<1>8. IsCalendarDate(c) /\ c.year = (a.year + b.year) + q /\ c.month = r + 1 /\ c.day = a.day /\ Tick(c) = Tick(a) /\ HasClock(c)
  <2>1. a.day \in 1..MonthDays[r + 1]
    BY <1>1, <1>2, <1>4, <1>7
  <2>2. (a.year + b.year) + q \in Int
    BY <1>2, <1>3
  <2>3. IsCalendarDate(c) /\ Tick(c) = Tick(a) /\ c.year = (a.year + b.year) + q /\ c.month = r + 1 /\ c.day = a.day
    BY <1>2, <1>7, <2>1, <2>2, IsDateAt
  <2> HIDE DEF c
  <2>4. QED
    BY <2>3, DateFields
<1> HIDE DEF c
<1>9. TimeAdd(a, b) = c
  <2> DEFINE y == a.year + b.year
             m == r + 1
             x == s + 1
             d == a.day
             t == Tick(a)
  <2>1. y \in Int /\ m \in 1..Months /\ x \in Int /\ IsFurther(x, q, m) /\ d \in Int /\ t \in Int
        /\ q \in Int
    BY <1>2, <1>3, <1>7 DEF IsFurther
  <2>2. d + b.day = d /\ t + Tick(b) = t
    BY <1>2
  <2>3. TimeAdd(a, b) = FromNumber(ToNumber(y, x, d, t))
    BY <1>2, <1>5, <2>2, TimesAddTicks
  <2>4. Number(c) = ToNumber(y + q, m, d, t)
    BY <1>8 DEF Number
  <2> HIDE DEF y, m, x, d, t
  <2>5. ToNumber(y, x, d, t) = ToNumber(y + q, m, d, t)
    BY ONLY <2>1, ToNumberWraps
  <2>6. QED
    BY <1>8, <2>3, <2>4, <2>5, DateIsKept
<1>10. TimeSub(c, b) = a
  <2> DEFINE y == c.year - b.year
             m == a.month
             x == c.month - (b.month - 1)
             d == a.day
             t == Tick(a)
             z == -q
  <2>1. y \in Int /\ m \in 1..Months /\ x \in Int /\ d \in Int /\ t \in Int /\ z \in Int
    BY <1>2, <1>3, <1>7, <1>8
  <2>2. IsFurther(x, z, m)
    <3>1. z * Months = -(q * Months)
      BY <1>1, <1>3
    <3>2. x - 1 = (r + 1) - (b.month - 1) - 1
      BY <1>8
    <3> DEFINE w == q * Months
    <3>3. s = w + r /\ w \in Int /\ z * Months = -w
      BY <1>3, <1>7, <3>1
    <3>4. a.month \in Int /\ b.month \in Int /\ s \in Int /\ r \in Int /\ a.month - 1 = s + 1 - b.month /\ m = a.month
      BY <1>1, <1>2, <1>3, <1>6
    <3> HIDE DEF w, z, x, m
    <3>5. x - 1 = z * Months + (m - 1)
      BY ONLY <3>2, <3>3, <3>4
    <3>6. QED
      BY <3>5 DEF IsFurther
  <2>3. c.day - b.day = d /\ Tick(c) - Tick(b) = t /\ y + z = a.year
    BY <1>2, <1>3, <1>8
  <2>4. TimeSub(c, b) = FromNumber(ToNumber(y, x, d, t))
    BY <1>8, <2>3, TimesAddTicks
  <2>5. Number(a) = ToNumber(y + z, m, d, t)
    BY <2>3 DEF Number
  <2> HIDE DEF y, m, x, d, t, z
  <2>6. ToNumber(y, x, d, t) = ToNumber(y + z, m, d, t)
    BY ONLY <2>1, <2>2, ToNumberWraps
  <2>7. QED
    BY <2>4, <2>5, <2>6, DateIsKept
<1>11. QED
  BY <1>9, <1>10

LEMMA RoundTripsHolds == TimeInv => RoundTrips
<1> SUFFICES ASSUME TimeInv PROVE RoundTrips
  OBVIOUS
<1> DEFINE b == Duration(second)
           month == ((first.month + b.month - 2) % Months) + 1
<1>1. IsCalendarDate(first) /\ IsCalendarDate(second)
  BY DEF TimeInv
<1>2. b.year \in Int /\ b.month \in 1..Months /\ b.day \in Int /\ HasClock(b)
  BY <1>1, DurationFacts
<1> HIDE DEF b
<1>3. FromNumber(Number(first)) = first
  BY <1>1, DateIsKept
<1>4. ASSUME b.year = 0, b.month = 1 PROVE TimeSub(TimeAdd(first, b), b) = first
  BY <1>1, <1>2, <1>4, DaysRoundTrip
<1>5. ASSUME b.day = 0, Tick(b) = 0, first.day <= MonthDays[month] PROVE TimeSub(TimeAdd(first, b), b) = first
  BY <1>1, <1>2, <1>5, MonthsRoundTrip
<1>6. QED
  BY <1>3, <1>4, <1>5 DEF RoundTrips, b

LEMMA TimeInvInit == TimeInit => TimeInv
<1> SUFFICES ASSUME NEW a \in Dates, IsDate(a) PROVE IsCalendarDate(a)
  BY DEF TimeInit, TimeInv
<1> USE CalendarIsCounted
<1> DEFINE D == Max({MonthDays[m] : m \in 1..Months})
<1>1. PICK y \in 0..(Years - 1), m \in 1..Months, d \in 1..D,
           h \in 0..(HoursPerDay - 1), n \in 0..(MinutesPerHour - 1), s \in 0..(SecondsPerMinute - 1) :
          a = [year |-> y, month |-> m, day |-> d, hour |-> h, minute |-> n, second |-> s]
  <2>1. Dates = {[year |-> y, month |-> m, day |-> d, hour |-> h, minute |-> n, second |-> s] :
                    y \in 0..(Years - 1), m \in 1..Months, d \in 1..D,
                    h \in 0..(HoursPerDay - 1), n \in 0..(MinutesPerHour - 1), s \in 0..(SecondsPerMinute - 1)}
    BY DEF Dates
  <2> HIDE DEF D
  <2>2. QED
    BY <2>1
<1> HIDE DEF D
<1>2. d <= MonthDays[m]
  BY <1>1 DEF IsDate
<1>3. Months \in Nat /\ MonthDays[m] \in Nat
  BY DEF Months
<1>4. d \in 1..MonthDays[m]
  BY <1>2, <1>3
<1>5. QED
  BY <1>1, <1>4 DEF IsCalendarDate

LEMMA TimeInvStep == TimeInv /\ TimeNext => TimeInv'
<1> SUFFICES ASSUME TimeInv, TimeNext PROVE TimeInv'
  OBVIOUS
<1>1. IsCalendarDate(first) /\ IsCalendarDate(second) /\ second' = second
  BY DEF TimeInv, TimeNext
<1>2. PICK n \in Int : first' = FromNumber(n)
  <2> DEFINE b == Duration(second)
  <2>1. ASSUME NEW y \in Int, NEW m \in Int, NEW d \in Int, NEW t \in Int PROVE ToNumber(y, m, d, t) \in Int
    <3>1. PICK p : AreMonths(p)
      BY MonthsExist
    <3>2. QED
      BY <3>1, ToNumberIs
  <2>2. first.year \in Int /\ first.month \in Int /\ first.day \in Int /\ Tick(first) \in Int /\ HasClock(first)
    BY <1>1, DateFields
  <2>3. b.year \in Int /\ b.month \in Int /\ b.day \in Int /\ Tick(b) \in Int /\ HasClock(b)
    BY <1>1, DurationFacts, TickIsInt
  <2> HIDE DEF b
  <2>4. Number(first) \in Int
    BY <2>1, <2>2 DEF Number
  <2>5. ToNumber(first.year + b.year, first.month + b.month - 1, first.day + b.day, Tick(first) + Tick(b)) \in Int
    <3> DEFINE y == first.year + b.year
               m == first.month + b.month - 1
               d == first.day + b.day
               t == Tick(first) + Tick(b)
    <3>1. y \in Int /\ m \in Int /\ d \in Int /\ t \in Int
      BY <2>2, <2>3
    <3> HIDE DEF y, m, d, t
    <3>2. ToNumber(y, m, d, t) \in Int
      BY <2>1, <3>1
    <3>3. QED
      BY <3>2 DEF y, m, d, t
  <2>6. ToNumber(first.year - b.year, first.month - (b.month - 1), first.day - b.day, Tick(first) - Tick(b)) \in Int
    <3> DEFINE y == first.year - b.year
               m == first.month - (b.month - 1)
               d == first.day - b.day
               t == Tick(first) - Tick(b)
    <3>1. y \in Int /\ m \in Int /\ d \in Int /\ t \in Int
      BY <2>2, <2>3
    <3> HIDE DEF y, m, d, t
    <3>2. ToNumber(y, m, d, t) \in Int
      BY <2>1, <3>1
    <3>3. QED
      BY <3>2 DEF y, m, d, t
  <2>7. \/ first' = FromNumber(Number(first))
        \/ first' = TimeAdd(first, b)
        \/ first' = TimeSub(first, b)
    BY DEF TimeNext, b
  <2>8. QED
    BY <2>2, <2>3, <2>4, <2>5, <2>6, <2>7, TimesAddTicks
<1>3. IsCalendarDate(first')
  BY <1>2, NumberIsKept
<1>4. QED
  BY <1>1, <1>3 DEF TimeInv

LEMMA TimeIsSound == TimeInv => TimeSound
BY OrderIsOneSidedHolds, RoundTripsHolds DEF TimeSound

--------------------------------------------------------------------------------
(* The subject takes the steps of its component.                           *)

LEMMA SubjectSteps ==
  ASSUME [ContainersNext]_containerVars
  PROVE  /\ ListNext \/ UNCHANGED listVars
         /\ ArrayNext \/ UNCHANGED arrayVars
         /\ MapNext \/ UNCHANGED mapVars
         /\ BitNext \/ UNCHANGED bitVars
         /\ GridNext \/ UNCHANGED grid
         /\ TableNext \/ UNCHANGED tableVars
         /\ TimeNext \/ UNCHANGED timeVars
         /\ AllocatorNext \/ UNCHANGED allocatorVars
<1>1. CASE ContainersNext
  <2>1. ListNext \/ UNCHANGED listVars
    BY <1>1 DEF ContainersNext, memoryVars
  <2>2. ArrayNext \/ UNCHANGED arrayVars
    BY <1>1 DEF ContainersNext, memoryVars
  <2>3. MapNext \/ UNCHANGED mapVars
    BY <1>1 DEF ContainersNext, cellVars
  <2>4. BitNext \/ UNCHANGED bitVars
    BY <1>1 DEF ContainersNext, cellVars
  <2>5. GridNext \/ UNCHANGED grid
    BY <1>1 DEF ContainersNext, cellVars
  <2>6. TableNext \/ UNCHANGED tableVars
    BY <1>1 DEF ContainersNext, cellVars
  <2>7. TimeNext \/ UNCHANGED timeVars
    BY <1>1 DEF ContainersNext
  <2>8. AllocatorNext \/ UNCHANGED allocatorVars
    BY <1>1 DEF ContainersNext, memoryVars
  <2>9. QED
    BY <2>1, <2>2, <2>3, <2>4, <2>5, <2>6, <2>7, <2>8
<1>2. CASE UNCHANGED containerVars
  BY <1>2 DEF containerVars, memoryVars, cellVars
<1>3. QED
  BY <1>1, <1>2

ContainersInv ==
    /\ ListInv
    /\ ArrayInv
    /\ MapInv
    /\ bitCount \in Nat
    /\ GridInv
    /\ TableInv
    /\ TimeInv
    /\ AllocatorInv

LEMMA ContainersInvInit == ContainersInit => ContainersInv
<1> SUFFICES ASSUME ContainersInit PROVE ContainersInv
  OBVIOUS
<1>1. ListInit /\ ArrayInit /\ MapInit /\ BitInit /\ GridInit /\ TableInit /\ TimeInit /\ AllocatorInit
  BY DEF ContainersInit
<1>2. bitCount \in Nat
  BY <1>1, BytesHaveBits DEF BitInit
<1>3. GridInv /\ TableInv /\ TimeInv
  BY <1>1, GridInvInit, TableInvInit, TimeInvInit
<1>4. QED
  BY <1>1, <1>2, <1>3, ListInvInit, ArrayInvInit, MapInvInit, AllocatorStarts DEF ContainersInv

LEMMA ContainersInvStep == ContainersInv /\ [ContainersNext]_containerVars => ContainersInv'
<1> SUFFICES ASSUME ContainersInv, [ContainersNext]_containerVars PROVE ContainersInv'
  OBVIOUS
<1>1. /\ ListNext \/ UNCHANGED listVars
      /\ ArrayNext \/ UNCHANGED arrayVars
      /\ MapNext \/ UNCHANGED mapVars
      /\ BitNext \/ UNCHANGED bitVars
      /\ GridNext \/ UNCHANGED grid
      /\ TableNext \/ UNCHANGED tableVars
      /\ TimeNext \/ UNCHANGED timeVars
      /\ AllocatorNext \/ UNCHANGED allocatorVars
  BY SubjectSteps
<1>2. ListInv'
  BY <1>1, ListInvStep DEF ContainersInv
<1>3. ArrayInv'
  <2>1. CASE UNCHANGED arrayVars
    BY <2>1 DEF ContainersInv, ArrayInv, ReleasedOnce, Held, arrayVars
  <2>2. QED
    BY <1>1, <2>1, ArrayInvStep DEF ContainersInv
<1>4. MapInv'
  <2>1. CASE UNCHANGED mapVars
    BY <2>1 DEF ContainersInv, MapInv, KeysKeepTheirData, mapVars
  <2>2. QED
    BY <1>1, <2>1, MapInvStep DEF ContainersInv
<1>5. bitCount' \in Nat
  BY <1>1 DEF ContainersInv, bitVars, BitNext, BitSet, BitReset, BitToggle, BitWrite, WriteAll
<1>6. GridInv'
  <2>1. CASE UNCHANGED grid
    BY <2>1 DEF ContainersInv, GridInv
  <2>2. QED
    BY <1>1, <2>1, GridInvStep DEF ContainersInv
<1>7. TableInv'
  <2>1. CASE UNCHANGED tableVars
    BY <2>1, TableInvStays DEF ContainersInv, tableVars
  <2>2. QED
    BY <1>1, <2>1, TableInvStep DEF ContainersInv
<1>8. TimeInv'
  <2>1. CASE UNCHANGED timeVars
    BY <2>1 DEF ContainersInv, TimeInv, timeVars
  <2>2. QED
    BY <1>1, <2>1, TimeInvStep DEF ContainersInv
<1>9. AllocatorInv'
  BY <1>1, AllocatorInvStep, AllocatorUnchanged DEF ContainersInv
<1>10. QED
  BY <1>2, <1>3, <1>4, <1>5, <1>6, <1>7, <1>8, <1>9 DEF ContainersInv

LEMMA ContainersInvariant == ContainersSpec => []ContainersInv
BY ContainersInvInit, ContainersInvStep, PTL DEF ContainersSpec

(* avDumpLeaks reports every allocated block once and nothing else unless  *)
(* two threads were in the list at once; threads that only add records at  *)
(* once can make it report too little, never a freed record or block.      *)
THEOREM AllocationListSound == ContainersSpec => []ListSound
<1>1. ContainersInv => ListSound
  BY DEF ContainersInv, ListInv
<1>2. QED
  BY <1>1, ContainersInvariant, PTL

(* avArrayFree and its variants give a resource back twice only when       *)
(* avArrayFree gave it to a deallocation callback and left it in its       *)
(* array, and then as long as that array is there.                         *)
THEOREM ArraysReleaseOnce == ContainersSpec => []ReleasedOnce
<1>1. ContainersInv => ReleasedOnce
  BY ArraySound DEF ContainersInv
<1>2. QED
  BY <1>1, ContainersInvariant, PTL

(* A map loses what avFMapRead was given for a key only to another key     *)
(* with its hash.                                                          *)
THEOREM MapsRemember == ContainersSpec => []KeysKeepTheirData
<1>1. ContainersInv => KeysKeepTheirData
  BY DEF ContainersInv, MapInv
<1>2. QED
  BY <1>1, ContainersInvariant, PTL

(* avBitFieldCountOnes counts the bits that avBitFieldTest calls 1, for    *)
(* every number of bits and every size of a byte.                          *)
THEOREM BitsAreCounted == ContainersSpec => []CountIsOfTests
<1>1. ContainersInv => CountIsOfTests
  BY CountsTests DEF ContainersInv
<1>2. QED
  BY <1>1, ContainersInvariant, PTL

(* No call but avBitFieldWriteAll clears a bit.                            *)
THEOREM BitsAreKept == ContainersSpec => BitsOnlyGather
<1>1. ContainersInv /\ [ContainersNext]_containerVars =>
          [ \/ ones \subseteq ones'
            \/ ones' \cap AllocatedBits = {} /\ ones' \cap Behind = ones \cap Behind
            \/ AllocatedBits \subseteq ones' ]_bitVars
  BY SubjectSteps, BitsGather DEF ContainersInv
<1>2. QED
  BY <1>1, ContainersInvariant, PTL DEF ContainersSpec, BitsOnlyGather

(* A write to a grid changes one element; a region written from another    *)
(* grid is what both have of it, however the sizes wrap around; and the    *)
(* smallest rectangle holds every equal element and no more.               *)
THEOREM GridsAreSound == ContainersSpec => []GridSound
<1>1. ContainersInv => GridSound
  BY GridIsSound DEF ContainersInv
<1>2. QED
  BY <1>1, ContainersInvariant, PTL

(* No byte of a table belongs to two cells, a row is its cells in order,   *)
(* and of what avTableWriteColumn is given every cell gets the first       *)
(* element.                                                                *)
THEOREM TablesAreSound == ContainersSpec => []TableSound
<1>1. ContainersInv => TableSound
  BY TableIsSound DEF ContainersInv
<1>2. QED
  BY <1>1, ContainersInvariant, PTL

(* An earlier date is before a later one, the conversions to a number and  *)
(* back change nothing, and what was added is taken away again when the    *)
(* calendar has the day.                                                   *)
THEOREM TimesAreSound == ContainersSpec => []TimeSound
<1>1. ContainersInv => TimeSound
  BY TimeIsSound DEF ContainersInv
<1>2. QED
  BY <1>1, ContainersInvariant, PTL

(* Of every allocator the blocks are aligned, inside allocated pages and   *)
(* apart, no page is lost or freed while a call can reach it, and the      *)
(* total reported is what was handed out, until avAllocatorReset leaves    *)
(* the caller with an allocator that is out of date.                       *)
THEOREM AllocatorsAreSound == ContainersSpec => []BlocksSound
<1>1. ContainersInv => BlocksSound
  BY AllocatorIsSound DEF ContainersInv
<1>2. QED
  BY <1>1, ContainersInvariant, PTL

(* The list of allocations, the grid, the table, the bit field, the map,   *)
(* the array and dates keep what their calls promise, in every behaviour   *)
(* of whichever of them is the subject.                                    *)
THEOREM EveryContainerIsSound == ContainersSpec => []ContainersSound
<1>1. ASSUME ContainersInv PROVE ContainersSound
  <2>1. ListSound /\ ReleasedOnce /\ KeysKeepTheirData /\ CountIsOfTests
    BY <1>1, ArraySound, CountsTests DEF ContainersInv, ListInv, MapInv
  <2>2. GridSound /\ TableSound /\ TimeSound
    BY <1>1, GridIsSound, TableIsSound, TimeIsSound DEF ContainersInv
  <2>3. QED
    BY <2>1, <2>2 DEF ContainersSound
<1>2. QED
  BY <1>1, ContainersInvariant, PTL

================================================================================
