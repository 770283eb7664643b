------------------------------ MODULE StringMemory -----------------------------
(***************************************************************************)
(* src/string/avString.c: strings that share reference-counted memory, and *)
(* the stack of debug contexts in which the allocated memories are listed. *)
(*                                                                         *)
(* A string is zeroed (EmptyString), refers to characters it does not own  *)
(* (ConstString), or refers to a string memory.  Its characters, offset    *)
(* and length are left out.  A call that fails an avAssert ends the        *)
(* program and one that changes nothing is not an action.                  *)
(***************************************************************************)
EXTENDS AllocationTable, Sequences, FiniteSets

CONSTANTS Strings,        (* AvString variables of the program                    *)
          HeapMemories,   (* addresses avStringMemoryHeapAllocate_ can return     *)
          OwnMemories,    (* AvStringMemory variables of the program              *)
          Contexts,       (* addresses avStringDebugContextStart_ can get         *)
          EmptyString, ConstString, NoContext,
          MaxReferences   (* bound: references to one memory                      *)

Memories == HeapMemories \cup OwnMemories

ASSUME StringKinds == {EmptyString, ConstString, NoMemory} \cap Memories = {}
ASSUME ContextKinds == NoContext \notin Contexts
ASSUME KindsAreApart == HeapMemories \cap OwnMemories = {}
ASSUME StringsAreFinite == IsFiniteSet(Strings)
ASSUME MaxReferencesIsPositive == MaxReferences \in Nat \ {0}

VARIABLES string,        (* what each string refers to                           *)
          heap,          (* the memories and the contexts' tables, see TypeOK    *)
          debugContext,  (* the contexts that have started, the innermost first  *)
          overwritten,   (* history: memories a string referred to when a copy   *)
                         (* was written over it without avStringFree             *)
          reported       (* history: memories found unfreed when their context   *)
                         (* ended                                                *)

stringVars == <<string, heap, debugContext, overwritten, reported>>

Open == {debugContext[i] : i \in 1..Len(debugContext)}

(* Where addAllocation lists m: a memory on the heap, which the function   *)
(* that makes it returns to its caller, in the caller's context.           *)
Registrar(m) ==
    LET depth == IF m \in HeapMemories THEN 2 ELSE 1
    IN IF Len(debugContext) >= depth THEN debugContext[depth] ELSE NoContext

(* avStringMemoryAllocate_ *)
Allocated(h, m) ==
    LET c == Registrar(m)
    IN [allocated |-> h.allocated \cup {m},
        referenceCount |-> [h.referenceCount EXCEPT ![m] = 0],
        context |-> [h.context EXCEPT ![m] = c],
        id |-> IF c = NoContext THEN h.id ELSE [h.id EXCEPT ![m] = NextId(h.table[c])],
        table |-> IF c = NoContext THEN h.table
                  ELSE [h.table EXCEPT ![c] = Added(h.table[c], m)]]

(* avStringMemoryFree.  When the context has ended, removeAllocation reads *)
(* what was its table: it touches none of the tables of the open contexts, *)
(* or an assertion ends the program.                                       *)
Freed(h, m) ==
    LET c == h.context[m]
    IN [allocated |-> h.allocated \ {m},
        referenceCount |-> h.referenceCount,
        context |-> [h.context EXCEPT ![m] = NoContext],
        id |-> [h.id EXCEPT ![m] = 0],
        table |-> IF c \in Open /\ Holds(h.table[c], m, h.id[m])
                  THEN [h.table EXCEPT ![c] = Removed(h.table[c], h.id[m])]
                  ELSE h.table]

Counted(h, m, n) ==
    [allocated |-> h.allocated, referenceCount |-> [h.referenceCount EXCEPT ![m] = n],
     context |-> h.context, id |-> h.id, table |-> h.table]

(* avStringFromMemory, for the memory's side *)
Referenced(h, m) == Counted(h, m, h.referenceCount[m] + 1)

(* Mutation: freed when the count is still 1. *)
UnreferencedEarly(h, m) ==
    LET g == Counted(h, m, h.referenceCount[m] - 1)
    IN IF g.referenceCount[m] <= 1 THEN Freed(g, m) ELSE g

(* stringMemoryRemoveReference *)
Unreferenced(h, m) ==
    LET g == Counted(h, m, h.referenceCount[m] - 1)
    IN IF g.referenceCount[m] = 0 THEN Freed(g, m) ELSE g

(* avStringFree, for the memory's side: a string without one has nothing to free. *)
Released(h, s) == IF string[s] \in Memories THEN Unreferenced(h, string[s]) ELSE h

AfterFree(s) == IF string[s] \in Memories THEN EmptyString ELSE string[s]

--------------------------------------------------------------------------------

Init ==
    /\ string \in [Strings -> {EmptyString, ConstString}]
    /\ heap = [allocated |-> {}, referenceCount |-> [m \in Memories |-> 0],
               context |-> [m \in Memories |-> NoContext], id |-> [m \in Memories |-> 0],
               table |-> [c \in Contexts |-> NewTable]]
    /\ debugContext = <<>>
    /\ overwritten = {}
    /\ reported = {}

(* The histories forget a memory that is freed. *)
Remember(lost) ==
    /\ overwritten' = (overwritten \cup lost) \cap heap'.allocated
    /\ reported' = reported \cap heap'.allocated
    /\ UNCHANGED debugContext

(* Mutation: the destination's old memory is not freed. *)
KeepAndReplace(d, m) ==
    /\ m \notin heap.allocated
    /\ heap' = Referenced(Allocated(heap, m), m)
    /\ string' = [string EXCEPT ![d] = m]
    /\ Remember({})

(* A new memory m is filled, what d refers to is freed, d refers to m. *)
Replace(d, m) ==
    /\ m \notin heap.allocated
    /\ heap' = Referenced(Released(Allocated(heap, m), d), m)
    /\ string' = [string EXCEPT ![d] = m]
    /\ Remember({})

(* avStringClone_; avStringTrim, avStringFlip of another string, and       *)
(* avStringReplace when there is nothing to replace, do the same.          *)
Clone(d, s, m) == string[s] # EmptyString /\ Replace(d, m)

(* avStringAppend *)
AppendTo(d, s, m) ==
    /\ string[d] # EmptyString \/ string[s] # EmptyString
    /\ Replace(d, m)

(* avStringAppendChar *)
AppendCharTo(d, m) == Replace(d, m)

(* The first avStringWrite, avStringToUppercase, avStringToLowercase or    *)
(* avStringReplaceChar of a constant string clones it; later ones change   *)
(* the characters of the memory in place, for all strings that share it.   *)
Change(s, m) == string[s] = ConstString /\ Replace(s, m)

(* avStringJoin_, avStringReplace and avStringReplaceAll of what they find *)
(* free nothing: d must not refer to a memory.                             *)
Join(d, m) == string[d] \notin Memories /\ Replace(d, m)

(* avStringReplaceAll of an empty string zeroes d whatever it referred to. *)
ReplaceAllOfEmpty(d, s) ==
    /\ string[s] = EmptyString
    /\ string' = [string EXCEPT ![d] = EmptyString]
    /\ UNCHANGED heap
    /\ Remember({string[d]} \cap Memories)

(* Mutation: the copy is not counted. *)
FromMemoryUncounted(d, m) ==
    /\ string[d] \in Memories => string[d] = m
    /\ heap.referenceCount[m] < MaxReferences
    /\ UNCHANGED heap
    /\ string' = [string EXCEPT ![d] = m]
    /\ Remember({string[d]} \cap Memories)

(* avStringFromMemory: d may refer to m already, which is then counted twice. *)
FromMemory(d, m) ==
    /\ string[d] \in Memories => string[d] = m
    /\ heap.referenceCount[m] < MaxReferences
    /\ heap' = Referenced(heap, m)
    /\ string' = [string EXCEPT ![d] = m]
    /\ Remember({string[d]} \cap Memories)

(* avStringCopySection, of which avStringCopy and the pieces of            *)
(* avStringSplit are cases.  A copy of a constant is not counted, and is   *)
(* written over whatever d referred to.                                    *)
Copy(d, s) ==
    \/ string[s] \in Memories /\ FromMemory(d, string[s])
    \/ /\ string[s] = ConstString
       /\ string' = [string EXCEPT ![d] = ConstString]
       /\ UNCHANGED heap
       /\ Remember({string[d]} \cap Memories)

(* avStringMove: the destination is freed before the source is cloned, so  *)
(* that m may be the memory that was just freed.                           *)
Move(d, s, m) ==
    LET freed == Released(heap, d)
        cloned == Referenced(Allocated(freed, m), m)
    IN /\ d # s
       /\ string[s] # EmptyString
       /\ m \notin freed.allocated
       /\ heap' = Released(cloned, s)
       /\ string' = [string EXCEPT ![d] = m, ![s] = AfterFree(s)]
       /\ Remember({})

Free(s) ==
    /\ string[s] \in Memories
    /\ heap' = Released(heap, s)
    /\ string' = [string EXCEPT ![s] = EmptyString]
    /\ Remember({})

(* avStringCopyToAllocator.  The characters of s are copied after those of *)
(* d have been freed: d is not s.                                          *)
CopyToAllocator(s, d) ==
    /\ string[s] # EmptyString
    /\ d # s
    /\ heap' = Released(heap, d)
    /\ string' = [string EXCEPT ![d] = ConstString]
    /\ Remember({})

MoveToAllocator(s) ==
    /\ string[s] # EmptyString
    /\ heap' = Released(heap, s)
    /\ string' = [string EXCEPT ![s] = ConstString]
    /\ Remember({})

(* avStringMemoryHeapAllocate_, avStringMemoryAllocate_ and                *)
(* avStringMemoryAllocStore *)
MemoryAllocate(m) ==
    /\ m \notin heap.allocated
    /\ heap' = Allocated(heap, m)
    /\ UNCHANGED string
    /\ Remember({})

MemoryFree(m) ==
    /\ m \in heap.allocated
    /\ heap.referenceCount[m] = 0
    /\ heap' = Freed(heap, m)
    /\ UNCHANGED string
    /\ Remember({})

WithTable(h, c, t) ==
    [allocated |-> h.allocated, referenceCount |-> h.referenceCount, context |-> h.context,
     id |-> h.id, table |-> [h.table EXCEPT ![c] = t]]

(* avStringDebugContextStart_: c may be the address of one that has ended. *)
ContextStart(c) ==
    /\ c \notin Open
    /\ debugContext' = <<c>> \o debugContext
    /\ heap' = WithTable(heap, c, NewTable)
    /\ UNCHANGED <<string, overwritten, reported>>

(* Mutation: the last memory of the table is not reported. *)
ContextEndShort ==
    /\ debugContext # <<>>
    /\ debugContext' = Tail(debugContext)
    /\ LET t == heap.table[Head(debugContext)]
       IN reported' = reported \cup {t.memories[i] : i \in 0..(t.count - 1) \ {t.count - 1}}
    /\ heap' = WithTable(heap, Head(debugContext), NewTable)
    /\ UNCHANGED <<string, overwritten>>

(* avStringDebugContextEnd_ prints the memories that are left and frees    *)
(* the context, to which they still refer.                                 *)
ContextEnd ==
    /\ debugContext # <<>>
    /\ debugContext' = Tail(debugContext)
    /\ LET t == heap.table[Head(debugContext)]
       IN reported' = reported \cup {t.memories[i] : i \in 0..(t.count - 1)}
    /\ heap' = WithTable(heap, Head(debugContext), NewTable)
    /\ UNCHANGED <<string, overwritten>>

Next ==
    \/ \E d, s \in Strings :
          \/ Copy(d, s) \/ ReplaceAllOfEmpty(d, s) \/ CopyToAllocator(s, d)
          \/ \E m \in HeapMemories : Clone(d, s, m) \/ AppendTo(d, s, m) \/ Move(d, s, m)
    \/ \E s \in Strings :
          \/ Free(s) \/ MoveToAllocator(s)
          \/ \E m \in HeapMemories : AppendCharTo(s, m) \/ Change(s, m) \/ Join(s, m)
          \/ \E m \in heap.allocated : FromMemory(s, m)
    \/ \E m \in Memories : MemoryAllocate(m) \/ MemoryFree(m)
    \/ \E c \in Contexts : ContextStart(c)
    \/ ContextEnd

Spec == Init /\ [][Next]_stringVars

--------------------------------------------------------------------------------

TypeOK ==
    /\ string \in [Strings -> Memories \cup {EmptyString, ConstString}]
    /\ heap.allocated \in SUBSET Memories
    /\ heap.referenceCount \in [Memories -> 0..MaxReferences]
    /\ heap.context \in [Memories -> Contexts \cup {NoContext}]
    /\ heap.id \in [Memories -> Nat]
    /\ DOMAIN heap.table = Contexts
    /\ debugContext \in Seq(Contexts)
    /\ overwritten \in SUBSET heap.allocated
    /\ reported \in SUBSET heap.allocated

Sharers(f, m) == {s \in Strings : f[s] = m}

(* With the strings f, every memory of h that a string refers to is        *)
(* allocated and counts at least the strings that refer to it.             *)
Covers(h, f) ==
    \A m \in Memories :
        /\ Sharers(f, m) # {} => m \in h.allocated
        /\ m \in h.allocated => Cardinality(Sharers(f, m)) <= h.referenceCount[m]

(* No string outlives its characters, whatever is cloned, copied, moved    *)
(* and freed in whatever order: no reference count is ever too low, so     *)
(* that neither avStringFree nor avStringMemoryFree frees the memory of    *)
(* another string.                                                         *)
NoDanglingString == Covers(heap, string)

(* The only references that are never given back are those of strings a    *)
(* copy was written over: every other memory counts exactly its strings,   *)
(* and is freed with the last of them.                                     *)
LeaksOnlyOverwritten ==
    \A m \in heap.allocated \ overwritten : heap.referenceCount[m] = Cardinality(Sharers(string, m))

(* The tables of the contexts that are open stay in order through any      *)
(* sequence of additions and removals, and list only memories that are     *)
(* allocated and were added to them, each once: avStringDebugContextEnd_   *)
(* never reads a memory that is gone.                                      *)
TablesSound ==
    \A c \in Open :
        LET t == heap.table[c]
        IN /\ Sound(t)
           /\ \A i \in 0..(t.count - 1) :
                 LET m == t.memories[i]
                 IN m \in heap.allocated /\ heap.context[m] = c /\ t.memoryIndex[heap.id[m]] = i

(* removeAllocation finds every memory where it was added, without any of  *)
(* its "Corruption" assertions, unless the context ended before the memory *)
(* was freed: then the message of avStringDebugContextEnd_ named it, and   *)
(* the memory still refers to the freed context.                           *)
FoundUnlessReported ==
    \A m \in heap.allocated \ reported :
        heap.context[m] # NoContext =>
            /\ heap.context[m] \in Open
            /\ Holds(heap.table[heap.context[m]], m, heap.id[m])
================================================================================
