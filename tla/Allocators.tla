------------------------------- MODULE Allocators -------------------------------
(***************************************************************************)
(* src/memory/avAllocator.c, avDynamicAllocator.c and avLinearAllocator.c: *)
(* one allocator that hands out blocks from pages, or from one block of    *)
(* memory, and takes them back all at once.                                *)
(*                                                                         *)
(* The program uses it through AvAllocator, or through the functions of    *)
(* its kind.  The memory of a linear allocator is page 1.  A failed assert *)
(* ends the program.  Sizes are scaled down: Alignment stands for 8 bytes, *)
(* Increment for 1024, Width32 and Width64 for 2^32 and 2^64.              *)
(***************************************************************************)
EXTENDS Integers, FiniteSets, FiniteSetsExt

CONSTANTS Pages,       (* addresses of pages: 1..n                          *)
          Base,        (* the address of a linear allocator's memory        *)
          Sizes,       (* what is asked for                                 *)
          Alignments,  (* of avLinearAllocatorAllocateAlligned              *)
          Alignment, Increment, Width32, Width64,
          MaxTotal     (* bound: the total a dynamic allocator reports      *)

ASSUME PagesAreNumbered == IsFiniteSet(Pages) /\ 1 \in Pages /\ Pages = 1..Cardinality(Pages)
ASSUME AllocationsAreCounted == Sizes \cup Alignments \subseteq Nat /\ 0 \notin Alignments /\ MaxTotal \in Nat
ASSUME WidthsHoldPages ==
    /\ {Alignment, Increment} \subseteq 1..(Width32 \div 2)
    /\ Width32 \in Nat /\ Width64 \in Nat /\ Width32 <= Width64
(* No memory reaches to the end of the range of addresses.                 *)
ASSUME AddressesFit ==
    Base \in Nat /\ \A alignment \in Alignments : Base + 2 * Width32 + alignment <= Width64

VARIABLES allocator,   (* its type, newest page and totalAllocatedSize      *)
          page,        (* page[p]: the page at p                            *)
          blocks,      (* what the program was given since the last reset   *)
          past         (* whether a size was too wide, and a reset misled   *)

allocatorVars == <<allocator, page, blocks, past>>

NoPage == 0
Freed == [live |-> FALSE, size |-> 0, used |-> 0, left |-> 0, previous |-> NoPage]
None == [type |-> "none", current |-> NoPage, total |-> 0]

AllocatorInit ==
    /\ allocator = None
    /\ page = [p \in Pages |-> Freed]
    /\ blocks = {}
    /\ past = [wide |-> FALSE, reset |-> "none"]

AlignUp(size, alignment) == (((size + alignment - 1) % Width64) \div alignment) * alignment
(* Defined up to half the width; beyond, the code shifts too far.          *)
NextPow2(x) ==
    LET Power[n \in 0..x] == IF n = 0 THEN 1 ELSE 2 * Power[n - 1] IN
    Min({Power[n] : n \in 0..x} \cap x..(2 * x))
LivePages == {p \in Pages : page[p].live}
NewPage(size, previous) ==
    [live |-> TRUE, size |-> size, used |-> 0, left |-> size % Width32, previous |-> previous]

(* avDynamicAllocatorCreate; no page for size 0.                           *)
CreateDynamic(size) ==
    /\ allocator.type = "none"
    /\ size <= Width32 \div 2
    /\ LET first == Max({NextPow2(AlignUp(size, Alignment) % Width32), Increment}) IN
       IF size = 0 THEN allocator' = [None EXCEPT !.type = "dynamic"] /\ UNCHANGED page
       ELSE /\ allocator' = [None EXCEPT !.type = "dynamic", !.current = 1]
            /\ page' = [page EXCEPT ![1] = NewPage(first, NoPage)]
    /\ UNCHANGED <<blocks, past>>

(* avLinearAllocatorCreate *)
CreateLinear(size) ==
    /\ allocator.type = "none"
    /\ size < Width32
    /\ allocator' = [None EXCEPT !.type = "linear", !.current = 1]
    /\ page' = [page EXCEPT ![1] = [NewPage(size, NoPage) EXCEPT !.left = 0]]
    /\ UNCHANGED <<blocks, past>>

(* returnAllocatedSpace, from page p as it is.                             *)
Returns(p, here, size) ==
    /\ allocator.total + size <= MaxTotal
    /\ page' = [page EXCEPT ![p] = [here EXCEPT !.used = @ + size, !.left = (@ - size) % Width32]]
    /\ allocator' = [allocator EXCEPT !.current = p, !.total = @ + size]
    /\ blocks' = blocks \cup {[page |-> p, at |-> here.used, size |-> size, alignment |-> Alignment]}

(* avDynamicAllocatorAllocate: from the newest page, or from a new one,    *)
(* whose size nextPow2 computes in 32 bits.                                *)
AllocateDynamic(asked) ==
    LET size == AlignUp(asked, Alignment)
        current == allocator.current
        Room == IF size > Increment THEN NextPow2(size % Width32) ELSE Increment
    IN
    /\ allocator.type = "dynamic"
    /\ asked # 0
    /\ current # NoPage => page[current].live
    /\ IF current # NoPage /\ size <= page[current].left THEN Returns(current, page[current], size)
       ELSE /\ LivePages # Pages
            /\ size > Increment => size % Width32 \in 1..(Width32 \div 2)
            /\ Returns(Min(Pages \ LivePages), NewPage(Room, current), size)
    /\ past' = [past EXCEPT !.wide = @ \/ size >= Width32]

(* avLinearAllocatorAllocateAlligned, and avLinearAllocatorAllocate with   *)
(* the default alignment.  The test for room is in 64 bits.                *)
AllocateLinear(size, alignment) ==
    LET offset == (AlignUp(Base + page[1].used, alignment) - Base) % Width64
        end == (offset + size) % Width64
    IN
    /\ allocator.type = "linear"
    /\ end <= page[1].size
    /\ page' = [page EXCEPT ![1].used = end]
    /\ blocks' = blocks \cup {[page |-> 1, at |-> offset, size |-> size, alignment |-> alignment]}
    /\ past' = [past EXCEPT !.wide = @ \/ size >= Width32]
    /\ UNCHANGED allocator

(* The pages from p back to the first one.                                 *)
Chain(p) ==
    LET Back[n \in 0..Cardinality(Pages)] ==
            IF n = 0 THEN {p} \ {NoPage} ELSE Back[n - 1] \cup ({page[q].previous : q \in Back[n - 1]} \ {NoPage})
    IN  Back[Cardinality(Pages)]

(* The page avDynamicAllocatorReset keeps: the newest of the largest, by   *)
(* what the page's counters say.                                           *)
CountedSize(p) == page[p].used + page[p].left
IsNewer(p, q) == q \in Chain(p)
Kept == CHOOSE p \in Chain(allocator.current) :
            \A q \in Chain(allocator.current) :
                CountedSize(p) > CountedSize(q) \/ (CountedSize(p) = CountedSize(q) /\ IsNewer(p, q))

Again(p) == [page[p] EXCEPT !.used = 0, !.left = CountedSize(p) % Width32, !.previous = NoPage]
Emptied(keep) ==
    page' = [p \in Pages |-> IF p = keep THEN Again(p)
                             ELSE IF p \in Chain(allocator.current) THEN Freed ELSE page[p]]

(* Mutation: a larger page is kept and the one kept so far is not freed. *)
ResetDynamicLeaks ==
    /\ allocator.type = "dynamic"
    /\ Chain(allocator.current) \subseteq LivePages
    /\ allocator.current # NoPage
    /\ page' = [page EXCEPT ![Kept] = Again(Kept)]
    /\ allocator' = [allocator EXCEPT !.current = Kept, !.total = 0]
    /\ blocks' = {}
    /\ UNCHANGED past

(* avDynamicAllocatorReset *)
ResetDynamic ==
    /\ allocator.type = "dynamic"
    /\ Chain(allocator.current) \subseteq LivePages
    /\ IF allocator.current = NoPage THEN allocator' = [allocator EXCEPT !.total = 0] /\ UNCHANGED page
       ELSE Emptied(Kept) /\ allocator' = [allocator EXCEPT !.current = Kept, !.total = 0]
    /\ blocks' = {}
    /\ UNCHANGED past

(* avLinearAllocatorReset *)
ResetLinear ==
    /\ allocator.type = "linear"
    /\ page' = [page EXCEPT ![1].used = 0]
    /\ blocks' = {}
    /\ UNCHANGED <<allocator, past>>

(* avAllocatorReset: the pages are reset, and the caller's allocator stays *)
(* as it is.  A linear allocator's position is part of it.                 *)
Reset ==
    /\ allocator.type \in {"dynamic", "linear"}
    /\ allocator.type = "dynamic" => Chain(allocator.current) \subseteq LivePages
    /\ IF allocator.type = "dynamic" /\ allocator.current # NoPage THEN Emptied(Kept) ELSE UNCHANGED page
    /\ past' = [past EXCEPT !.reset =
                   IF @ = "older" \/ (allocator.type = "dynamic" /\ allocator.current # NoPage
                                      /\ Kept # allocator.current) THEN "older" ELSE "same"]
    /\ blocks' = {}
    /\ UNCHANGED allocator

(* A call of an allocator whose newest page was freed.                     *)
UseFreed ==
    /\ allocator.type = "dynamic"
    /\ ~(Chain(allocator.current) \subseteq LivePages)
    /\ allocator' = [allocator EXCEPT !.type = "crashed"]
    /\ UNCHANGED <<page, blocks, past>>

(* avAllocatorDestroy, avDynamicAllocatorDestroy, avLinearAllocatorDestroy *)
AllocatorDestroy ==
    /\ allocator.type \in {"dynamic", "linear"}
    /\ Chain(allocator.current) \subseteq LivePages
    /\ page' = [p \in Pages |-> IF p \in Chain(allocator.current) THEN Freed ELSE page[p]]
    /\ allocator' = None
    /\ blocks' = {}
    /\ UNCHANGED past

AllocatorNext ==
    \/ CreateDynamic(0) \/ ResetDynamic \/ ResetLinear \/ Reset \/ UseFreed \/ AllocatorDestroy
    \/ \E size \in Sizes :
          \/ CreateDynamic(size) \/ CreateLinear(size) \/ AllocateDynamic(size)
          \/ \E alignment \in Alignments : AllocateLinear(size, alignment)
    \/ allocator.type = "crashed" /\ UNCHANGED allocatorVars

--------------------------------------------------------------------------------

Apart(b, c) == b.page # c.page \/ b.at + b.size <= c.at \/ c.at + c.size <= b.at
Address(b) == IF allocator.type = "linear" THEN Base + b.at ELSE b.at

(* Blocks handed out are aligned, inside a page that is allocated, and     *)
(* apart from each other, unless a size did not fit in the width of the    *)
(* page's counter or wrapped around the test for room.                     *)
BlocksApart ==
    ~past.wide =>
        /\ \A b \in blocks : page[b.page].live /\ b.at + b.size <= page[b.page].size
        /\ \A b \in blocks : Address(b) % b.alignment = 0
        /\ \A b, c \in blocks : b = c \/ Apart(b, c)

(* A page is freed exactly when no call can reach it any more, and the     *)
(* size reported is what was handed out, until avAllocatorReset: it leaves *)
(* the old size, and a freed page when an older page is larger.            *)
PagesOwned ==
    /\ past.reset # "older" =>
          allocator.type # "crashed" /\ LivePages = Chain(allocator.current)
    /\ past.reset = "none" /\ allocator.type = "dynamic" =>
          allocator.total = MapThenSumSet(LAMBDA b : b.size, blocks)

BlocksSound == BlocksApart /\ PagesOwned
================================================================================
