--------------------------- MODULE StringMemoryProofs --------------------------
(***************************************************************************)
(* No string outlives its characters (NoDanglingString), for every number  *)
(* of strings, memories and contexts, and the tables of the debug contexts *)
(* stay in order.                                                          *)
(*                                                                         *)
(* A call is a sequence of a few operations on the heap and the strings,   *)
(* each of which keeps Covers: one lemma for each of them, which the steps *)
(* of the specification put together.                                      *)
(***************************************************************************)
EXTENDS StringMemory, TLAPS, FiniteSetTheorems

USE StringsAreFinite, StringKinds DEF Memories

Values == Memories \cup {EmptyString, ConstString}

(* The part of the heap the counts depend on. *)
HeapOK(h) ==
    /\ h.allocated \subseteq Memories
    /\ h.referenceCount \in [Memories -> Nat]

Safe(h, f) ==
    /\ HeapOK(h)
    /\ f \in [Strings -> Values]
    /\ Covers(h, f)

LEMMA SharersFinite ==
  ASSUME NEW f, NEW m
  PROVE  /\ IsFiniteSet(Sharers(f, m))
         /\ Cardinality(Sharers(f, m)) \in Nat
<1>1. Sharers(f, m) \subseteq Strings
  BY DEF Sharers
<1>2. QED
  BY <1>1, FS_Subset, FS_CardinalityType

LEMMA NoSharers ==
  ASSUME NEW f, NEW m, Cardinality(Sharers(f, m)) <= 0
  PROVE  Sharers(f, m) = {}
<1>1. Cardinality(Sharers(f, m)) = 0
  BY SharersFinite
<1>2. QED
  BY <1>1, SharersFinite, FS_EmptySet

LEMMA OneMore ==
  ASSUME NEW A, IsFiniteSet(A), NEW x, NEW B, B = A \cup {x}
  PROVE  Cardinality(B) <= Cardinality(A) + 1
<1>1. /\ x \in A => Cardinality(A \cup {x}) = Cardinality(A)
      /\ x \notin A => Cardinality(A \cup {x}) = Cardinality(A) + 1
  BY FS_AddElement, Zenon
<1>2. Cardinality(A) \in Nat
  BY FS_CardinalityType
<1>3. Cardinality(A \cup {x}) <= Cardinality(A) + 1
  BY <1>1, <1>2
<1>4. QED
  BY <1>3, Zenon

LEMMA OneLess ==
  ASSUME NEW A, IsFiniteSet(A), NEW x \in A, NEW B, B = A \ {x}
  PROVE  Cardinality(B) = Cardinality(A) - 1
<1>1. Cardinality(A \ {x}) = Cardinality(A) - 1
  BY FS_RemoveElement
<1>2. QED
  BY <1>1, Zenon

(* A string that is given a value without memory leaves counts high enough. *)
LEMMA SafeDropped ==
  ASSUME NEW h, NEW f, Safe(h, f), NEW s \in Strings, NEW v \in {EmptyString, ConstString}
  PROVE  Safe(h, [f EXCEPT ![s] = v])
<1> DEFINE g == [f EXCEPT ![s] = v]
<1>1. f \in [Strings -> Values] /\ g \in [Strings -> Values] /\ v \in Values /\ HeapOK(h)
  BY DEF Safe, Values
<1>2. ASSUME NEW m \in Memories
      PROVE  /\ Sharers(g, m) # {} => m \in h.allocated
             /\ m \in h.allocated => Cardinality(Sharers(g, m)) <= h.referenceCount[m]
  <2>1. v # m
    OBVIOUS
  <2>2. Sharers(g, m) = Sharers(f, m) \ {s}
    BY <1>1, <2>1 DEF Sharers
  <2>3. /\ Cardinality(Sharers(g, m)) <= Cardinality(Sharers(f, m))
        /\ Cardinality(Sharers(g, m)) \in Nat /\ Cardinality(Sharers(f, m)) \in Nat
    BY <2>2, SharersFinite, FS_Subset
  <2>4. h.referenceCount[m] \in Nat
    BY <1>1 DEF HeapOK
  <2>5. m \in h.allocated => Cardinality(Sharers(f, m)) <= h.referenceCount[m]
    BY DEF Safe, Covers
  <2>6. m \in h.allocated => Cardinality(Sharers(g, m)) <= h.referenceCount[m]
    BY <2>3, <2>4, <2>5
  <2>7. Sharers(g, m) # {} => m \in h.allocated
    BY <2>2 DEF Safe, Covers
  <2>8. QED
    BY <2>6, <2>7
<1>3. QED
  BY <1>1, <1>2 DEF Safe, Covers

(* A memory that is allocated is nobody's yet. *)
LEMMA SafeAllocated ==
  ASSUME NEW h, NEW f, Safe(h, f), NEW m \in Memories, m \notin h.allocated
  PROVE  Safe(Allocated(h, m), f) /\ m \in Allocated(h, m).allocated
<1> DEFINE g == Allocated(h, m)
<1>1. HeapOK(h) /\ Covers(h, f) /\ f \in [Strings -> Values]
  BY DEF Safe
<1>2. /\ g.allocated = h.allocated \cup {m}
      /\ g.referenceCount = [h.referenceCount EXCEPT ![m] = 0]
  BY DEF Allocated
<1>3. HeapOK(g)
  BY <1>1, <1>2 DEF HeapOK
<1>4. Sharers(f, m) = {}
  BY <1>1 DEF Covers
<1>5. Cardinality(Sharers(f, m)) = 0
  BY <1>4, FS_EmptySet
<1>6. g.referenceCount[m] = 0
  BY <1>1, <1>2 DEF HeapOK
<1>7. \A n \in Memories \ {m} : g.referenceCount[n] = h.referenceCount[n]
  BY <1>1, <1>2 DEF HeapOK
<1>8. Covers(g, f)
  <2> SUFFICES ASSUME NEW n \in Memories
               PROVE  /\ Sharers(f, n) # {} => n \in g.allocated
                      /\ n \in g.allocated => Cardinality(Sharers(f, n)) <= g.referenceCount[n]
    BY DEF Covers
  <2>1. CASE n = m
    BY <2>1, <1>2, <1>5, <1>6
  <2>2. CASE n # m
    BY <2>2, <1>1, <1>2, <1>7 DEF Covers
  <2>3. QED
    BY <2>1, <2>2
<1>9. QED
  BY <1>1, <1>2, <1>3, <1>8 DEF Safe

(* A memory without sharers can be freed. *)
LEMMA SafeFreed ==
  ASSUME NEW h, NEW f, Safe(h, f), NEW m \in Memories, Sharers(f, m) = {}
  PROVE  Safe(Freed(h, m), f)
<1> DEFINE g == Freed(h, m)
<1>1. g.allocated = h.allocated \ {m} /\ g.referenceCount = h.referenceCount
  BY DEF Freed
<1>2. HeapOK(g)
  BY <1>1 DEF HeapOK, Safe
<1>3. QED
  BY <1>1, <1>2 DEF Safe, Covers

(* avStringFromMemory: one reference more and one string more. *)
LEMMA SafeReferenced ==
  ASSUME NEW h, NEW f, Safe(h, f), NEW m \in Memories, m \in h.allocated, NEW s \in Strings
  PROVE  Safe(Referenced(h, m), [f EXCEPT ![s] = m])
<1> DEFINE g == Referenced(h, m)
           e == [f EXCEPT ![s] = m]
<1>1. HeapOK(h) /\ Covers(h, f) /\ f \in [Strings -> Values]
  BY DEF Safe
<1>2. /\ g.allocated = h.allocated
      /\ g.referenceCount = [h.referenceCount EXCEPT ![m] = h.referenceCount[m] + 1]
  BY DEF Referenced, Counted
<1>3. HeapOK(g) /\ e \in [Strings -> Values]
  BY <1>1, <1>2 DEF HeapOK, Values
<1>4. \A n \in Memories :
          g.referenceCount[n] = IF n = m THEN h.referenceCount[n] + 1 ELSE h.referenceCount[n]
  BY <1>1, <1>2 DEF HeapOK
<1>5. ASSUME NEW n \in Memories
      PROVE  /\ Sharers(e, n) # {} => n \in g.allocated
             /\ n \in g.allocated => Cardinality(Sharers(e, n)) <= g.referenceCount[n]
  <2>1. h.referenceCount[n] \in Nat /\ Cardinality(Sharers(f, n)) \in Nat
    BY <1>1, SharersFinite DEF HeapOK
  <2>2. m \in Values
    BY DEF Values
  <2>3. CASE n = m
    <3>1. Sharers(e, n) = Sharers(f, n) \cup {s}
      BY <1>1, <2>3 DEF Sharers
    <3>2. Cardinality(Sharers(e, n)) <= Cardinality(Sharers(f, n)) + 1
      BY <3>1, SharersFinite, OneMore
    <3>3. Cardinality(Sharers(e, n)) \in Nat
      BY SharersFinite
    <3>4. Cardinality(Sharers(f, n)) <= h.referenceCount[n]
      BY <1>1, <2>3 DEF Covers
    <3>5. g.referenceCount[n] = h.referenceCount[n] + 1
      BY <1>4, <2>3
    <3>6. Cardinality(Sharers(e, n)) <= g.referenceCount[n]
      BY <2>1, <3>2, <3>3, <3>4, <3>5
    <3>7. QED
      BY <1>2, <2>3, <3>6
  <2>4. CASE n # m
    <3>1. Sharers(e, n) = Sharers(f, n) \ {s}
      BY <1>1, <2>4 DEF Sharers
    <3>2. /\ Cardinality(Sharers(e, n)) <= Cardinality(Sharers(f, n))
          /\ Cardinality(Sharers(e, n)) \in Nat
      BY <3>1, SharersFinite, FS_Subset
    <3>3. g.referenceCount[n] = h.referenceCount[n]
      BY <1>4, <2>4
    <3>4. n \in h.allocated => Cardinality(Sharers(f, n)) <= h.referenceCount[n]
      BY <1>1 DEF Covers
    <3>5. n \in h.allocated => Cardinality(Sharers(e, n)) <= g.referenceCount[n]
      BY <2>1, <3>2, <3>3, <3>4
    <3>6. Sharers(e, n) # {} => n \in h.allocated
      BY <1>1, <3>1 DEF Covers
    <3>7. QED
      BY <1>2, <3>5, <3>6
  <2>5. QED
    BY <2>3, <2>4
<1>6. QED
  BY <1>3, <1>5 DEF Safe, Covers

(* stringMemoryRemoveReference: one reference less and one string less. *)
LEMMA SafeUnreferenced ==
  ASSUME NEW h, NEW f, Safe(h, f), NEW s \in Strings, f[s] \in Memories,
         NEW v \in {EmptyString, ConstString}
  PROVE  Safe(Unreferenced(h, f[s]), [f EXCEPT ![s] = v])
<1> DEFINE m == f[s]
           g == Counted(h, m, h.referenceCount[m] - 1)
           e == [f EXCEPT ![s] = v]
<1>1. HeapOK(h) /\ Covers(h, f) /\ f \in [Strings -> Values] /\ m \in Memories
  BY DEF Safe
<1>2. s \in Sharers(f, m)
  BY DEF Sharers
<1>3. m \in h.allocated /\ Cardinality(Sharers(f, m)) <= h.referenceCount[m]
  BY <1>1, <1>2 DEF Covers
<1>4. \A n \in Memories :
          h.referenceCount[n] \in Nat /\ Cardinality(Sharers(f, n)) \in Nat
            /\ Cardinality(Sharers(e, n)) \in Nat
  BY <1>1, SharersFinite DEF HeapOK
<1>5. Sharers(e, m) = Sharers(f, m) \ {s}
  BY <1>1 DEF Sharers
<1>6. Cardinality(Sharers(e, m)) = Cardinality(Sharers(f, m)) - 1
  BY <1>2, <1>5, SharersFinite, OneLess
<1>7. g.allocated = h.allocated
      /\ g.referenceCount = [h.referenceCount EXCEPT ![m] = h.referenceCount[m] - 1]
  BY DEF Counted
<1>8. h.referenceCount[m] - 1 \in Nat /\ Cardinality(Sharers(e, m)) <= h.referenceCount[m] - 1
  <2>1. h.referenceCount[m] \in Nat /\ Cardinality(Sharers(f, m)) \in Nat
        /\ Cardinality(Sharers(e, m)) \in Nat
    BY <1>1, <1>4
  <2>2. QED
    BY <1>3, <1>6, <2>1
<1>9. HeapOK(g) /\ e \in [Strings -> Values]
  BY <1>1, <1>7, <1>8 DEF HeapOK, Values
<1>10. /\ g.referenceCount[m] = h.referenceCount[m] - 1
       /\ \A n \in Memories \ {m} : g.referenceCount[n] = h.referenceCount[n]
  BY <1>1, <1>7 DEF HeapOK
<1>11. Covers(g, e)
  <2> SUFFICES ASSUME NEW n \in Memories
               PROVE  /\ Sharers(e, n) # {} => n \in g.allocated
                      /\ n \in g.allocated => Cardinality(Sharers(e, n)) <= g.referenceCount[n]
    BY DEF Covers
  <2>1. CASE n = m
    BY <2>1, <1>3, <1>7, <1>8, <1>10
  <2>2. CASE n # m
    <3>1. Sharers(e, n) = Sharers(f, n)
      BY <1>1, <2>2 DEF Sharers
    <3>2. QED
      BY <1>1, <1>7, <1>10, <2>2, <3>1 DEF Covers
  <2>3. QED
    BY <2>1, <2>2
<1>12. Safe(g, e)
  BY <1>9, <1>11 DEF Safe
<1>13. CASE g.referenceCount[m] = 0
  <2>1. Cardinality(Sharers(e, m)) <= 0
    BY <1>8, <1>10, <1>13
  <2>2. Sharers(e, m) = {}
    BY <2>1, NoSharers
  <2>3. Safe(Freed(g, m), e)
    BY <1>1, <1>12, <2>2, SafeFreed
  <2>4. QED
    BY <1>13, <2>3 DEF Unreferenced
<1>14. CASE g.referenceCount[m] # 0
  BY <1>12, <1>14 DEF Unreferenced
<1>15. QED
  BY <1>13, <1>14

(* avStringFree *)
LEMMA SafeReleased ==
  ASSUME NEW h, NEW f, Safe(h, f), NEW s \in Strings, f[s] = string[s],
         NEW v \in {EmptyString, ConstString}
  PROVE  Safe(Released(h, s), [f EXCEPT ![s] = v])
<1>1. CASE string[s] \in Memories
  BY <1>1, SafeUnreferenced DEF Released
<1>2. CASE string[s] \notin Memories
  BY <1>2, SafeDropped DEF Released
<1>3. QED
  BY <1>1, <1>2

LEMMA ReleasedKeepsOthers ==
  ASSUME NEW h, NEW s, NEW m \in h.allocated, m # string[s]
  PROVE  m \in Released(h, s).allocated
BY DEF Released, Unreferenced, Freed, Counted

--------------------------------------------------------------------------------

Inv == Safe(heap, string)

LEMMA ReplaceKeepsInv ==
  ASSUME Inv, NEW d \in Strings, NEW m \in Memories, Replace(d, m)
  PROVE  Inv'
<1> DEFINE h == Allocated(heap, m)
           f == [string EXCEPT ![d] = EmptyString]
<1>1. Safe(heap, string) /\ m \notin heap.allocated
  BY DEF Inv, Replace
<1>2. Safe(h, string) /\ m \in h.allocated
  BY <1>1, SafeAllocated
<1>3. Safe(Released(h, d), f)
  BY <1>2, SafeReleased
<1>4. m # string[d]
  BY <1>1 DEF Safe, Covers, Sharers
<1>5. m \in Released(h, d).allocated
  BY <1>2, <1>4, ReleasedKeepsOthers
<1>6. Safe(Referenced(Released(h, d), m), [f EXCEPT ![d] = m])
  BY <1>3, <1>5, SafeReferenced
<1>7. [f EXCEPT ![d] = m] = [string EXCEPT ![d] = m]
  BY <1>1 DEF Safe
<1>8. heap' = Referenced(Released(h, d), m) /\ string' = [string EXCEPT ![d] = m]
  BY DEF Replace
<1>9. QED
  BY <1>6, <1>7, <1>8 DEF Inv

LEMMA MoveKeepsInv ==
  ASSUME Inv, NEW d \in Strings, NEW s \in Strings, NEW m \in Memories, Move(d, s, m)
  PROVE  Inv'
<1> DEFINE freed == Released(heap, d)
           f == [string EXCEPT ![d] = EmptyString]
           g == [f EXCEPT ![d] = m]
           cloned == Referenced(Allocated(freed, m), m)
<1>1. /\ Safe(heap, string) /\ d # s /\ m \notin freed.allocated
      /\ heap' = Released(cloned, s)
      /\ string' = [string EXCEPT ![d] = m, ![s] = AfterFree(s)]
  BY DEF Inv, Move
<1>2. Safe(freed, f)
  BY <1>1, SafeReleased
<1>3. Safe(Allocated(freed, m), f) /\ m \in Allocated(freed, m).allocated
  BY <1>1, <1>2, SafeAllocated
<1>4. Safe(cloned, g)
  BY <1>3, SafeReferenced
<1>5. string \in [Strings -> Values]
  BY <1>1 DEF Safe
<1>6. g[s] = string[s]
  BY <1>1, <1>5
<1>7. AfterFree(s) \in {EmptyString, ConstString}
  BY <1>5 DEF AfterFree, Values
<1>8. Safe(Released(cloned, s), [g EXCEPT ![s] = AfterFree(s)])
  BY <1>4, <1>6, <1>7, SafeReleased
<1>9. string' = [g EXCEPT ![s] = AfterFree(s)]
  BY <1>1, <1>5
<1>10. QED
  BY <1>1, <1>8, <1>9 DEF Inv

LEMMA FromMemoryKeepsInv ==
  ASSUME Inv, NEW d \in Strings, NEW m \in heap.allocated, FromMemory(d, m)
  PROVE  Inv'
<1>1. m \in Memories
  BY DEF Inv, Safe, HeapOK
<1>2. Safe(Referenced(heap, m), [string EXCEPT ![d] = m])
  BY <1>1, SafeReferenced DEF Inv
<1>3. QED
  BY <1>2 DEF FromMemory, Inv

(* Steps that free what one string refers to and leave it without memory. *)
LEMMA ReleaseKeepsInv ==
  ASSUME Inv, NEW s \in Strings, NEW v \in {EmptyString, ConstString},
         heap' = Released(heap, s), string' = [string EXCEPT ![s] = v]
  PROVE  Inv'
BY SafeReleased DEF Inv

(* Steps that write over a string without freeing anything. *)
LEMMA DropKeepsInv ==
  ASSUME Inv, NEW s \in Strings, NEW v \in {EmptyString, ConstString},
         UNCHANGED heap, string' = [string EXCEPT ![s] = v]
  PROVE  Inv'
BY SafeDropped DEF Inv

LEMMA InvInit == Init => Inv
<1> SUFFICES ASSUME Init PROVE Inv
  OBVIOUS
<1>1. HeapOK(heap) /\ string \in [Strings -> Values]
  BY DEF Init, HeapOK, Values
<1>2. \A m \in Memories : Sharers(string, m) = {}
  BY DEF Init, Sharers
<1>3. heap.allocated = {}
  BY DEF Init
<1>4. QED
  BY <1>1, <1>2, <1>3 DEF Inv, Safe, Covers

LEMMA InvStep == Inv /\ [Next]_stringVars => Inv'
<1> SUFFICES ASSUME Inv, [Next]_stringVars PROVE Inv'
  OBVIOUS
<1>1. ASSUME NEW d \in Strings, NEW s \in Strings, Copy(d, s) PROVE Inv'
  <2>1. CASE string[s] \in Memories /\ FromMemory(d, string[s])
    <3>1. string[s] \in heap.allocated
      BY <2>1 DEF Inv, Safe, Covers, Sharers
    <3>2. QED
      BY <2>1, <3>1, FromMemoryKeepsInv
  <2>2. CASE string' = [string EXCEPT ![d] = ConstString] /\ UNCHANGED heap
    BY <2>2, DropKeepsInv
  <2>3. QED
    BY <1>1, <2>1, <2>2 DEF Copy
<1>2. ASSUME NEW d \in Strings, NEW s \in Strings, ReplaceAllOfEmpty(d, s) PROVE Inv'
  BY <1>2, DropKeepsInv DEF ReplaceAllOfEmpty
<1>3. ASSUME NEW d \in Strings, NEW s \in Strings, CopyToAllocator(s, d) PROVE Inv'
  BY <1>3, ReleaseKeepsInv DEF CopyToAllocator
<1>4. ASSUME NEW d \in Strings, NEW s \in Strings, NEW m \in HeapMemories,
             Clone(d, s, m) \/ AppendTo(d, s, m) PROVE Inv'
  BY <1>4, ReplaceKeepsInv DEF Clone, AppendTo
<1>5. ASSUME NEW d \in Strings, NEW s \in Strings, NEW m \in HeapMemories, Move(d, s, m)
      PROVE Inv'
  BY <1>5, MoveKeepsInv
<1>6. ASSUME NEW s \in Strings, Free(s) PROVE Inv'
  BY <1>6, ReleaseKeepsInv DEF Free
<1>7. ASSUME NEW s \in Strings, MoveToAllocator(s) PROVE Inv'
  BY <1>7, ReleaseKeepsInv DEF MoveToAllocator
<1>8. ASSUME NEW s \in Strings, NEW m \in HeapMemories,
             AppendCharTo(s, m) \/ Change(s, m) \/ Join(s, m) PROVE Inv'
  BY <1>8, ReplaceKeepsInv DEF AppendCharTo, Change, Join
<1>9. ASSUME NEW s \in Strings, NEW m \in heap.allocated, FromMemory(s, m) PROVE Inv'
  BY <1>9, FromMemoryKeepsInv
<1>10. ASSUME NEW m \in Memories, MemoryAllocate(m) PROVE Inv'
  BY <1>10, SafeAllocated DEF MemoryAllocate, Inv
<1>11. ASSUME NEW m \in Memories, MemoryFree(m) PROVE Inv'
  <2>1. Cardinality(Sharers(string, m)) <= 0
    BY <1>11 DEF MemoryFree, Inv, Safe, Covers
  <2>2. Sharers(string, m) = {}
    BY <2>1, NoSharers
  <2>3. QED
    BY <1>11, <2>2, SafeFreed DEF MemoryFree, Inv
<1>12. ASSUME NEW c \in Contexts, ContextStart(c) PROVE Inv'
  BY <1>12 DEF ContextStart, WithTable, Inv, Safe, HeapOK, Covers
<1>13. ASSUME ContextEnd PROVE Inv'
  BY <1>13 DEF ContextEnd, WithTable, Inv, Safe, HeapOK, Covers
<1>14. CASE UNCHANGED stringVars
  BY <1>14 DEF stringVars, Inv
<1>15. QED
  BY <1>1, <1>2, <1>3, <1>4, <1>5, <1>6, <1>7, <1>8, <1>9, <1>10, <1>11, <1>12, <1>13, <1>14
  DEF Next

(* No string outlives its characters: the count of every allocated memory  *)
(* is at least the number of strings that refer to it, in every state of   *)
(* every sequence of calls, and so no call frees the memory of a string    *)
(* that still refers to it.                                                *)
THEOREM NoStringDangles == Spec => []NoDanglingString
<1>1. Inv => NoDanglingString
  BY DEF Inv, Safe, NoDanglingString
<1>2. QED
  BY <1>1, InvInit, InvStep, PTL DEF Spec

--------------------------------------------------------------------------------
(* The counts are exact, but for the memories in W.                        *)

Exact(h, f, W) ==
    \A m \in h.allocated \ W : h.referenceCount[m] = Cardinality(Sharers(f, m))

(* The memories a string is written over with. *)
Lost(f, s) == {f[s]} \cap Memories

LEMMA ExactDropped ==
  ASSUME NEW h, NEW f, Safe(h, f), NEW W, Exact(h, f, W), NEW s \in Strings,
         NEW v \in {EmptyString, ConstString}
  PROVE  Exact(h, [f EXCEPT ![s] = v], W \cup Lost(f, s))
<1> SUFFICES ASSUME NEW m \in h.allocated \ (W \cup Lost(f, s))
             PROVE  h.referenceCount[m] = Cardinality(Sharers([f EXCEPT ![s] = v], m))
  BY DEF Exact
<1>1. m \in Memories /\ f[s] # m /\ v # m /\ f \in [Strings -> Values]
  BY DEF Safe, HeapOK, Lost
<1>2. Sharers([f EXCEPT ![s] = v], m) = Sharers(f, m)
  BY <1>1 DEF Sharers
<1>3. QED
  BY <1>2 DEF Exact

LEMMA ExactAllocated ==
  ASSUME NEW h, NEW f, Safe(h, f), NEW W, Exact(h, f, W), NEW m \in Memories, m \notin h.allocated
  PROVE  Exact(Allocated(h, m), f, W)
<1> DEFINE g == Allocated(h, m)
<1>1. HeapOK(h) /\ Covers(h, f)
  BY DEF Safe
<1>2. /\ g.allocated = h.allocated \cup {m}
      /\ g.referenceCount = [h.referenceCount EXCEPT ![m] = 0]
  BY DEF Allocated
<1>3. Sharers(f, m) = {}
  BY <1>1 DEF Covers
<1>4. g.referenceCount[m] = Cardinality(Sharers(f, m))
  BY <1>1, <1>2, <1>3, FS_EmptySet DEF HeapOK
<1>5. \A n \in h.allocated : g.referenceCount[n] = h.referenceCount[n]
  BY <1>1, <1>2 DEF HeapOK
<1>6. QED
  BY <1>2, <1>4, <1>5 DEF Exact

LEMMA ExactFreed ==
  ASSUME NEW h, NEW f, NEW W, Exact(h, f, W), NEW m
  PROVE  Exact(Freed(h, m), f, W)
BY DEF Exact, Freed

LEMMA ExactReferenced ==
  ASSUME NEW h, NEW f, Safe(h, f), NEW W, Exact(h, f, W), NEW m \in Memories, NEW s \in Strings
  PROVE  Exact(Referenced(h, m), [f EXCEPT ![s] = m], W \cup Lost(f, s))
<1> DEFINE g == Referenced(h, m)
           e == [f EXCEPT ![s] = m]
<1>1. HeapOK(h) /\ f \in [Strings -> Values]
  BY DEF Safe
<1>2. /\ g.allocated = h.allocated
      /\ g.referenceCount = [h.referenceCount EXCEPT ![m] = h.referenceCount[m] + 1]
  BY DEF Referenced, Counted
<1> SUFFICES ASSUME NEW n \in h.allocated \ (W \cup Lost(f, s))
             PROVE  g.referenceCount[n] = Cardinality(Sharers(e, n))
  BY <1>2 DEF Exact
<1>3. n \in Memories /\ f[s] # n /\ h.referenceCount[n] = Cardinality(Sharers(f, n))
  BY <1>1 DEF HeapOK, Lost, Exact
<1>4. CASE n = m
  <2>1. Sharers(e, n) = Sharers(f, n) \cup {s} /\ s \notin Sharers(f, n)
    BY <1>1, <1>3, <1>4 DEF Sharers
  <2>2. Cardinality(Sharers(f, n) \cup {s}) = Cardinality(Sharers(f, n)) + 1
    BY <2>1, SharersFinite, FS_AddElement
  <2>3. g.referenceCount[n] = h.referenceCount[n] + 1
    BY <1>1, <1>2, <1>3, <1>4 DEF HeapOK
  <2>4. QED
    BY <1>3, <2>1, <2>2, <2>3
<1>5. CASE n # m
  <2>1. Sharers(e, n) = Sharers(f, n)
    BY <1>1, <1>3, <1>5 DEF Sharers
  <2>2. g.referenceCount[n] = h.referenceCount[n]
    BY <1>1, <1>2, <1>3, <1>5 DEF HeapOK
  <2>3. QED
    BY <1>3, <2>1, <2>2
<1>6. QED
  BY <1>4, <1>5

LEMMA ExactReleased ==
  ASSUME NEW h, NEW f, Safe(h, f), NEW W, Exact(h, f, W), NEW s \in Strings, f[s] = string[s],
         NEW v \in {EmptyString, ConstString}
  PROVE  Exact(Released(h, s), [f EXCEPT ![s] = v], W)
<1> DEFINE m == f[s]
           g == Counted(h, m, h.referenceCount[m] - 1)
           e == [f EXCEPT ![s] = v]
<1>1. HeapOK(h) /\ f \in [Strings -> Values]
  BY DEF Safe
<1>2. CASE m \notin Memories
  <2>1. Lost(f, s) = {} /\ Released(h, s) = h
    BY <1>2 DEF Lost, Released
  <2>2. Exact(h, e, W \cup Lost(f, s))
    BY ExactDropped
  <2>3. QED
    BY <2>1, <2>2
<1>3. CASE m \in Memories
  <2>1. /\ g.allocated = h.allocated
        /\ g.referenceCount = [h.referenceCount EXCEPT ![m] = h.referenceCount[m] - 1]
    BY DEF Counted
  <2>2. ASSUME NEW n \in h.allocated \ W
        PROVE  g.referenceCount[n] = Cardinality(Sharers(e, n))
    <3>1. n \in Memories /\ h.referenceCount[n] = Cardinality(Sharers(f, n))
      BY <1>1 DEF HeapOK, Exact
    <3>2. CASE n = m
      <4>1. Sharers(e, n) = Sharers(f, n) \ {s} /\ s \in Sharers(f, n)
        BY <1>1, <1>3, <3>2 DEF Sharers
      <4>2. Cardinality(Sharers(e, n)) = Cardinality(Sharers(f, n)) - 1
        BY <4>1, SharersFinite, OneLess
      <4>3. g.referenceCount[n] = h.referenceCount[n] - 1
        BY <1>1, <2>1, <3>1, <3>2 DEF HeapOK
      <4>4. QED
        BY <3>1, <4>2, <4>3
    <3>3. CASE n # m
      <4>1. Sharers(e, n) = Sharers(f, n) /\ g.referenceCount[n] = h.referenceCount[n]
        BY <1>1, <2>1, <3>1, <3>3 DEF Sharers, HeapOK
      <4>2. QED
        BY <3>1, <4>1
    <3>4. QED
      BY <3>2, <3>3
  <2>3. Exact(g, e, W)
    BY <2>1, <2>2 DEF Exact
  <2>4. Released(h, s) = IF g.referenceCount[m] = 0 THEN Freed(g, m) ELSE g
    BY <1>3 DEF Released, Unreferenced
  <2>5. QED
    BY <2>3, <2>4, ExactFreed
<1>4. QED
  BY <1>2, <1>3

LeakInv == Exact(heap, string, overwritten)

(* What the histories forget are memories that are not allocated.          *)
LEMMA LeakRemembered ==
  ASSUME NEW lost, Exact(heap', string', overwritten \cup lost), Remember(lost)
  PROVE  LeakInv'
BY DEF LeakInv, Exact, Remember, Sharers

LEMMA ReplaceKeepsLeakInv ==
  ASSUME Inv, LeakInv, NEW d \in Strings, NEW m \in Memories, Replace(d, m)
  PROVE  LeakInv'
<1> DEFINE h == Allocated(heap, m)
           f == [string EXCEPT ![d] = EmptyString]
<1>1. Safe(heap, string) /\ m \notin heap.allocated
  BY DEF Inv, Replace
<1>2. Safe(h, string) /\ Exact(h, string, overwritten)
  BY <1>1, SafeAllocated, ExactAllocated DEF LeakInv
<1>3. Safe(Released(h, d), f) /\ Exact(Released(h, d), f, overwritten)
  BY <1>2, SafeReleased, ExactReleased
<1>4. Lost(f, d) = {}
  BY <1>1 DEF Safe, Lost
<1>5. Exact(Referenced(Released(h, d), m), [f EXCEPT ![d] = m], overwritten \cup Lost(f, d))
  BY <1>3, ExactReferenced
<1>6. [f EXCEPT ![d] = m] = [string EXCEPT ![d] = m]
  BY <1>1 DEF Safe
<1>7. /\ heap' = Referenced(Released(h, d), m) /\ string' = [string EXCEPT ![d] = m]
      /\ Remember({})
  BY DEF Replace
<1>8. QED
  BY <1>4, <1>5, <1>6, <1>7, LeakRemembered

LEMMA MoveKeepsLeakInv ==
  ASSUME Inv, LeakInv, NEW d \in Strings, NEW s \in Strings, NEW m \in Memories, Move(d, s, m)
  PROVE  LeakInv'
<1> DEFINE freed == Released(heap, d)
           f == [string EXCEPT ![d] = EmptyString]
           g == [f EXCEPT ![d] = m]
           cloned == Referenced(Allocated(freed, m), m)
<1>1. /\ Safe(heap, string) /\ d # s /\ m \notin freed.allocated
      /\ heap' = Released(cloned, s)
      /\ string' = [string EXCEPT ![d] = m, ![s] = AfterFree(s)]
      /\ Remember({})
  BY DEF Inv, Move
<1>2. string \in [Strings -> Values]
  BY <1>1 DEF Safe
<1>3. Safe(freed, f) /\ Exact(freed, f, overwritten)
  BY <1>1, SafeReleased, ExactReleased DEF LeakInv
<1>4. /\ Safe(Allocated(freed, m), f) /\ m \in Allocated(freed, m).allocated
      /\ Exact(Allocated(freed, m), f, overwritten)
  BY <1>1, <1>3, SafeAllocated, ExactAllocated
<1>5. Lost(f, d) = {}
  BY <1>2 DEF Lost
<1>6. Safe(cloned, g) /\ Exact(cloned, g, overwritten \cup Lost(f, d))
  BY <1>4, SafeReferenced, ExactReferenced
<1>7. Exact(cloned, g, overwritten)
  BY <1>5, <1>6
<1>8. g[s] = string[s]
  BY <1>1, <1>2
<1>9. AfterFree(s) \in {EmptyString, ConstString}
  BY <1>2 DEF AfterFree, Values
<1>10. Exact(Released(cloned, s), [g EXCEPT ![s] = AfterFree(s)], overwritten)
  BY <1>6, <1>7, <1>8, <1>9, ExactReleased
<1>11. string' = [g EXCEPT ![s] = AfterFree(s)]
  BY <1>1, <1>2
<1>12. QED
  BY <1>1, <1>10, <1>11, LeakRemembered

LEMMA FromMemoryKeepsLeakInv ==
  ASSUME Inv, LeakInv, NEW d \in Strings, NEW m \in Memories, FromMemory(d, m)
  PROVE  LeakInv'
<1>1. Exact(Referenced(heap, m), [string EXCEPT ![d] = m], overwritten \cup Lost(string, d))
  BY ExactReferenced DEF Inv, LeakInv
<1>2. QED
  BY <1>1, LeakRemembered DEF FromMemory, Lost

LEMMA ReleaseKeepsLeakInv ==
  ASSUME Inv, LeakInv, NEW s \in Strings, NEW v \in {EmptyString, ConstString},
         heap' = Released(heap, s), string' = [string EXCEPT ![s] = v], Remember({})
  PROVE  LeakInv'
<1>1. Exact(Released(heap, s), [string EXCEPT ![s] = v], overwritten)
  BY ExactReleased DEF Inv, LeakInv
<1>2. QED
  BY <1>1, LeakRemembered

LEMMA DropKeepsLeakInv ==
  ASSUME Inv, LeakInv, NEW s \in Strings, NEW v \in {EmptyString, ConstString},
         UNCHANGED heap, string' = [string EXCEPT ![s] = v],
         Remember({string[s]} \cap Memories)
  PROVE  LeakInv'
<1>1. Exact(heap, [string EXCEPT ![s] = v], overwritten \cup Lost(string, s))
  BY ExactDropped DEF Inv, LeakInv
<1>2. QED
  BY <1>1, LeakRemembered DEF Lost

LEMMA LeakInvStep == Inv /\ LeakInv /\ [Next]_stringVars => LeakInv'
<1> SUFFICES ASSUME Inv, LeakInv, [Next]_stringVars PROVE LeakInv'
  OBVIOUS
<1>1. ASSUME NEW d \in Strings, NEW s \in Strings, Copy(d, s) PROVE LeakInv'
  BY <1>1, FromMemoryKeepsLeakInv, DropKeepsLeakInv DEF Copy
<1>2. ASSUME NEW d \in Strings, NEW s \in Strings, ReplaceAllOfEmpty(d, s) PROVE LeakInv'
  BY <1>2, DropKeepsLeakInv DEF ReplaceAllOfEmpty
<1>3. ASSUME NEW d \in Strings, NEW s \in Strings, CopyToAllocator(s, d) PROVE LeakInv'
  BY <1>3, ReleaseKeepsLeakInv DEF CopyToAllocator
<1>4. ASSUME NEW d \in Strings, NEW s \in Strings, NEW m \in HeapMemories,
             Clone(d, s, m) \/ AppendTo(d, s, m) PROVE LeakInv'
  BY <1>4, ReplaceKeepsLeakInv DEF Clone, AppendTo
<1>5. ASSUME NEW d \in Strings, NEW s \in Strings, NEW m \in HeapMemories, Move(d, s, m)
      PROVE LeakInv'
  BY <1>5, MoveKeepsLeakInv
<1>6. ASSUME NEW s \in Strings, Free(s) \/ MoveToAllocator(s) PROVE LeakInv'
  BY <1>6, ReleaseKeepsLeakInv DEF Free, MoveToAllocator
<1>7. ASSUME NEW s \in Strings, NEW m \in HeapMemories,
             AppendCharTo(s, m) \/ Change(s, m) \/ Join(s, m) PROVE LeakInv'
  BY <1>7, ReplaceKeepsLeakInv DEF AppendCharTo, Change, Join
<1>8. ASSUME NEW s \in Strings, NEW m \in heap.allocated, FromMemory(s, m) PROVE LeakInv'
  BY <1>8, FromMemoryKeepsLeakInv DEF Inv, Safe, HeapOK
<1>9. ASSUME NEW m \in Memories, MemoryAllocate(m) PROVE LeakInv'
  BY <1>9, ExactAllocated, LeakRemembered DEF MemoryAllocate, Inv, LeakInv
<1>10. ASSUME NEW m \in Memories, MemoryFree(m) PROVE LeakInv'
  BY <1>10, ExactFreed, LeakRemembered DEF MemoryFree, LeakInv
<1>11. ASSUME NEW c \in Contexts, ContextStart(c) PROVE LeakInv'
  BY <1>11 DEF ContextStart, WithTable, LeakInv, Exact, Sharers
<1>12. ASSUME ContextEnd PROVE LeakInv'
  BY <1>12 DEF ContextEnd, WithTable, LeakInv, Exact, Sharers
<1>13. CASE UNCHANGED stringVars
  BY <1>13 DEF stringVars, LeakInv, Exact, Sharers
<1>14. QED
  BY <1>1, <1>2, <1>3, <1>4, <1>5, <1>6, <1>7, <1>8, <1>9, <1>10, <1>11, <1>12, <1>13 DEF Next

(* The only references that are never given back are those of strings a    *)
(* copy was written over: every other memory counts exactly its strings,   *)
(* and so is freed with the last of them.                                  *)
THEOREM OnlyOverwrittenLeak == Spec => []LeaksOnlyOverwritten
<1>1. Init => LeakInv
  BY DEF Init, LeakInv, Exact
<1>2. LeakInv => LeaksOnlyOverwritten
  BY DEF LeakInv, Exact, LeaksOnlyOverwritten
<1>3. QED
  BY <1>1, <1>2, InvInit, InvStep, LeakInvStep, PTL DEF Spec

--------------------------------------------------------------------------------
(* The tables of the debug contexts stay in order, and removeAllocation    *)
(* finds every memory whose context is open, for every number of strings,  *)
(* memories and contexts and for tables that have grown to any capacity.   *)

HIDE StringsAreFinite
USE ContextKinds

--------------------------------------------------------------------------------
(* One table.                                                              *)

Used(t) == 0..(t.count - 1)

(* Sound, with the types of the arrays, and the two index arrays inverse   *)
(* to each other both ways.                                                *)
TableOK(t) ==
    /\ t.capacity \in Nat \ {0}
    /\ t.count \in 0..t.capacity
    /\ t.memoryIndex \in [Entries(t) -> Entries(t)]
    /\ t.memoryReference \in [Entries(t) -> Entries(t)]
    /\ DOMAIN t.memories = Entries(t)
    /\ \A i \in Entries(t) : /\ t.memoryIndex[t.memoryReference[i]] = i
                             /\ t.memoryReference[t.memoryIndex[i]] = i
                             /\ t.memories[i] = NoMemory <=> i >= t.count

LEMMA TableIsSound == ASSUME NEW t, TableOK(t) PROVE Sound(t)
BY DEF TableOK, Sound, Entries

LEMMA TableNat ==
  ASSUME NEW t, TableOK(t)
  PROVE  t.count \in Nat /\ \A k \in Entries(t) : t.memoryIndex[k] \in Nat
BY DEF TableOK, Entries

LEMMA NewTableOK == TableOK(NewTable) /\ NewTable.count = 0
BY DEF TableOK, NewTable, Entries

(* A table with room for one more has the entries it had.                  *)
LEMMA WithRoomOK ==
  ASSUME NEW t, TableOK(t)
  PROVE  LET r == WithRoom(t)
         IN /\ TableOK(r) /\ r.count = t.count /\ t.count < r.capacity
            /\ Entries(t) \subseteq Entries(r)
            /\ \A i \in Entries(t) : /\ r.memoryIndex[i] = t.memoryIndex[i]
                                     /\ r.memories[i] = t.memories[i]
<1> DEFINE r == WithRoom(t)
<1>1. CASE t.count < t.capacity
  <2>1. r = t
    BY <1>1 DEF WithRoom, TableOK
  <2>2. QED
    BY <1>1, <2>1
<1>2. CASE ~(t.count < t.capacity)
  <2>1. t.count = t.capacity /\ r = Doubled(t) /\ t.capacity \in Nat \ {0}
    BY <1>2 DEF WithRoom, TableOK
  <2>2. r.count = t.count /\ r.capacity = 2 * t.capacity
    BY <2>1 DEF Doubled
  <2>3. DOMAIN t.memoryIndex = Entries(t) /\ DOMAIN t.memoryReference = Entries(t)
        /\ DOMAIN t.memories = Entries(t)
    BY DEF TableOK
  <2>4. r.memoryIndex = [i \in Entries(r) |-> IF i \in Entries(t) THEN t.memoryIndex[i] ELSE i]
    BY <2>1, <2>2, <2>3 DEF Doubled, Extended, Entries
  <2>5. r.memoryReference
          = [i \in Entries(r) |-> IF i \in Entries(t) THEN t.memoryReference[i] ELSE i]
    BY <2>1, <2>2, <2>3 DEF Doubled, Extended, Entries
  <2>6. r.memories = [i \in Entries(r) |-> IF i \in Entries(t) THEN t.memories[i] ELSE NoMemory]
    BY <2>1, <2>2, <2>3 DEF Doubled, Extended, Entries
  <2>7. Entries(t) \subseteq Entries(r)
    BY <2>1, <2>2 DEF Entries
  <2>8. ASSUME NEW i \in Entries(r)
        PROVE  /\ r.memoryIndex[i] \in Entries(r) /\ r.memoryReference[i] \in Entries(r)
               /\ r.memoryIndex[r.memoryReference[i]] = i
               /\ r.memoryReference[r.memoryIndex[i]] = i
    <3>1. CASE i \in Entries(t)
      <4>1. t.memoryIndex[i] \in Entries(t) /\ t.memoryReference[i] \in Entries(t)
        BY <3>1 DEF TableOK
      <4>2. QED
        BY <2>4, <2>5, <2>7, <3>1, <4>1 DEF TableOK
    <3>2. CASE i \notin Entries(t)
      BY <2>4, <2>5, <3>2
    <3>3. QED
      BY <3>1, <3>2
  <2>9. ASSUME NEW i \in Entries(r) PROVE r.memories[i] = NoMemory <=> i >= r.count
    <3>1. CASE i \in Entries(t)
      BY <2>2, <2>6, <3>1 DEF TableOK
    <3>2. CASE i \notin Entries(t)
      BY <2>1, <2>2, <2>6, <3>2 DEF Entries
    <3>3. QED
      BY <3>1, <3>2
  <2>10. r.capacity \in Nat \ {0} /\ r.count \in 0..r.capacity /\ t.count < r.capacity
    BY <2>1, <2>2
  <2>11. TableOK(r)
    BY <2>4, <2>5, <2>6, <2>8, <2>9, <2>10 DEF TableOK
  <2>12. QED
    BY <2>2, <2>4, <2>6, <2>7, <2>10, <2>11
<1>3. QED
  BY <1>1, <1>2

(* addAllocation puts m behind the entries in use, under an id of which    *)
(* memoryIndex gives that position, and moves nothing.                     *)
LEMMA AddedOK ==
  ASSUME NEW t, TableOK(t), NEW m, m # NoMemory
  PROVE  LET r == Added(t, m)
             id == NextId(t)
         IN /\ TableOK(r) /\ r.count = t.count + 1
            /\ Entries(t) \subseteq Entries(r)
            /\ id \in Entries(r) /\ r.memoryIndex[id] = t.count /\ r.memories[t.count] = m
            /\ \A i \in Entries(t) : r.memoryIndex[i] = t.memoryIndex[i]
            /\ \A i \in Used(t) : r.memories[i] = t.memories[i]
<1> DEFINE w == WithRoom(t)
           r == Added(t, m)
           id == NextId(t)
<1>1. /\ TableOK(w) /\ w.count = t.count /\ t.count < w.capacity
      /\ Entries(t) \subseteq Entries(w)
      /\ \A i \in Entries(t) : /\ w.memoryIndex[i] = t.memoryIndex[i]
                               /\ w.memories[i] = t.memories[i]
  BY WithRoomOK
<1>2. /\ r.count = t.count + 1 /\ r.capacity = w.capacity
      /\ r.memoryIndex = w.memoryIndex /\ r.memoryReference = w.memoryReference
      /\ r.memories = [w.memories EXCEPT ![t.count] = m]
  BY DEF Added
<1>3. t.count \in Nat /\ w.capacity \in Nat \ {0} /\ t.count \in Entries(w) /\ Entries(r) = Entries(w)
  BY <1>1, <1>2 DEF TableOK, Entries
<1>4. \A i \in Entries(w) : r.memories[i] = IF i = t.count THEN m ELSE w.memories[i]
  BY <1>1, <1>2 DEF TableOK
<1>5. \A i \in Entries(w) : r.memories[i] = NoMemory <=> i >= r.count
  <2> SUFFICES ASSUME NEW i \in Entries(w) PROVE r.memories[i] = NoMemory <=> i >= t.count + 1
    BY <1>2
  <2>1. i \in Nat
    BY DEF Entries
  <2>2. w.memories[i] = NoMemory <=> i >= t.count
    BY <1>1 DEF TableOK
  <2>3. QED
    BY <1>3, <1>4, <2>1, <2>2
<1>6. TableOK(r)
  <2>1. /\ r.capacity \in Nat \ {0} /\ r.count \in 0..r.capacity
        /\ DOMAIN r.memories = Entries(r)
    BY <1>1, <1>2, <1>3 DEF TableOK
  <2>2. /\ r.memoryIndex \in [Entries(r) -> Entries(r)]
        /\ r.memoryReference \in [Entries(r) -> Entries(r)]
        /\ \A i \in Entries(r) : /\ r.memoryIndex[r.memoryReference[i]] = i
                                 /\ r.memoryReference[r.memoryIndex[i]] = i
    BY <1>1, <1>2, <1>3 DEF TableOK
  <2>3. QED
    BY <1>3, <1>5, <2>1, <2>2 DEF TableOK
<1>7. id = w.memoryReference[t.count]
  BY DEF NextId
<1>8. id \in Entries(r) /\ r.memoryIndex[id] = t.count
  BY <1>1, <1>2, <1>3, <1>7 DEF TableOK
<1>9. \A i \in Used(t) : i \in Entries(t) /\ i # t.count
  BY <1>3 DEF Used, Entries, TableOK
<1>10. QED
  BY <1>1, <1>2, <1>3, <1>4, <1>6, <1>8, <1>9

(* removeAllocation moves the last entry in use to the position that       *)
(* becomes free, and gives that of the last one to the removed id.         *)
LEMMA RemovedOK ==
  ASSUME NEW t, TableOK(t), NEW id \in Entries(t), t.memoryIndex[id] < t.count
  PROVE  LET r == Removed(t, id)
             last == t.count - 1
         IN /\ TableOK(r) /\ r.count = last /\ last \in Entries(t) /\ Entries(r) = Entries(t)
            /\ \A i \in Used(r) : r.memories[i] = IF i = t.memoryIndex[id] THEN t.memories[last]
                                                  ELSE t.memories[i]
            /\ \A i \in Entries(t) :
                  r.memoryIndex[i] = IF i = id THEN last
                                     ELSE IF t.memoryIndex[i] = last THEN t.memoryIndex[id]
                                     ELSE t.memoryIndex[i]
<1> DEFINE r == Removed(t, id)
           last == t.count - 1
           index == t.memoryIndex[id]
           lastId == t.memoryReference[last]
<1>1. /\ t.count \in Nat /\ t.capacity \in Nat /\ index \in Nat /\ index <= last
      /\ last \in Entries(t) /\ index \in Entries(t) /\ lastId \in Entries(t)
  <2>1. index \in Entries(t) /\ t.count \in Nat /\ t.capacity \in Nat /\ t.count <= t.capacity
    BY DEF TableOK
  <2>2. index \in Nat /\ index <= last /\ last \in Entries(t)
    BY <2>1 DEF Entries
  <2>3. QED
    BY <2>1, <2>2 DEF TableOK
<1>2. /\ r.count = last /\ r.capacity = t.capacity
      /\ r.memoryIndex = [t.memoryIndex EXCEPT ![lastId] = index, ![id] = last]
      /\ r.memoryReference = [t.memoryReference EXCEPT ![last] = id, ![index] = lastId]
      /\ r.memories = [t.memories EXCEPT ![index] = t.memories[last], ![last] = NoMemory]
  BY DEF Removed
<1>3. Entries(r) = Entries(t)
  BY <1>2 DEF Entries
<1>4. \A i \in Entries(t) : r.memoryIndex[i] = IF i = id THEN last
                                               ELSE IF i = lastId THEN index ELSE t.memoryIndex[i]
  BY <1>1, <1>2 DEF TableOK
<1>5. \A i \in Entries(t) : r.memoryReference[i] = IF i = index THEN lastId
                                                   ELSE IF i = last THEN id ELSE t.memoryReference[i]
  BY <1>1, <1>2 DEF TableOK
<1>6. \A i \in Entries(t) : r.memories[i] = IF i = last THEN NoMemory
                                            ELSE IF i = index THEN t.memories[last] ELSE t.memories[i]
  BY <1>1, <1>2 DEF TableOK
<1>7. \A i \in Entries(t) : /\ t.memoryIndex[i] = last <=> i = lastId
                            /\ t.memoryIndex[i] = index <=> i = id
                            /\ t.memoryReference[i] = lastId <=> i = last
                            /\ t.memoryReference[i] = id <=> i = index
  BY <1>1 DEF TableOK
<1>8. \A i \in Entries(t) : r.memoryIndex[i] \in Entries(t) /\ r.memoryReference[i] \in Entries(t)
  BY <1>1, <1>4, <1>5 DEF TableOK
<1>9. \A i \in Entries(t) : r.memoryIndex[r.memoryReference[i]] = i
  <2> SUFFICES ASSUME NEW i \in Entries(t) PROVE r.memoryIndex[r.memoryReference[i]] = i
    OBVIOUS
  <2>1. t.memoryReference[i] \in Entries(t) /\ t.memoryIndex[t.memoryReference[i]] = i
    BY DEF TableOK
  <2>2. CASE i = index
    BY <1>1, <1>4, <1>5, <1>7, <2>2
  <2>3. CASE i # index /\ i = last
    BY <1>1, <1>4, <1>5, <2>3
  <2>4. CASE i # index /\ i # last
    BY <1>4, <1>5, <1>7, <2>1, <2>4
  <2>5. QED
    BY <2>2, <2>3, <2>4
<1>10. \A i \in Entries(t) : r.memoryReference[r.memoryIndex[i]] = i
  <2> SUFFICES ASSUME NEW i \in Entries(t) PROVE r.memoryReference[r.memoryIndex[i]] = i
    OBVIOUS
  <2>1. t.memoryIndex[i] \in Entries(t) /\ t.memoryReference[t.memoryIndex[i]] = i
    BY DEF TableOK
  <2>2. CASE i = id
    BY <1>1, <1>4, <1>5, <1>7, <2>2
  <2>3. CASE i # id /\ i = lastId
    BY <1>1, <1>4, <1>5, <2>3
  <2>4. CASE i # id /\ i # lastId
    BY <1>4, <1>5, <1>7, <2>1, <2>4
  <2>5. QED
    BY <2>2, <2>3, <2>4
<1>11. \A i \in Entries(t) : r.memories[i] = NoMemory <=> i >= r.count
  <2> SUFFICES ASSUME NEW i \in Entries(t) PROVE r.memories[i] = NoMemory <=> i >= last
    BY <1>2
  <2>1. /\ i \in Nat
        /\ t.memories[i] = NoMemory <=> i >= t.count
        /\ t.memories[last] # NoMemory
    BY <1>1 DEF TableOK, Entries
  <2>2. QED
    BY <1>1, <1>6, <2>1
<1>12. TableOK(r)
  <2>1. /\ r.capacity \in Nat \ {0} /\ r.count \in 0..r.capacity
        /\ DOMAIN r.memories = Entries(r)
    BY <1>1, <1>2, <1>3 DEF TableOK
  <2>2. /\ r.memoryIndex \in [Entries(r) -> Entries(r)]
        /\ r.memoryReference \in [Entries(r) -> Entries(r)]
    <3> HIDE DEF r
    <3>1. QED
      BY <1>1, <1>2, <1>3 DEF TableOK
  <2>3. QED
    BY <1>3, <1>9, <1>10, <1>11, <2>1, <2>2 DEF TableOK
<1>13. \A i \in Used(r) : i \in Entries(t) /\ i # last
  <2> SUFFICES ASSUME NEW i \in Used(r) PROVE i \in Entries(t) /\ i # last
    OBVIOUS
  <2>1. i \in Nat /\ i < last /\ last \in Nat
    BY <1>1, <1>2 DEF Used, Entries
  <2>2. last < t.capacity
    BY <1>1 DEF Entries
  <2>3. QED
    BY <1>1, <2>1, <2>2 DEF Entries
<1>14. \A i \in Used(r) : r.memories[i] = IF i = index THEN t.memories[last] ELSE t.memories[i]
  BY <1>6, <1>13
<1>15. \A i \in Entries(t) : r.memoryIndex[i] = IF i = id THEN last
                                                ELSE IF t.memoryIndex[i] = last THEN index
                                                ELSE t.memoryIndex[i]
  BY <1>4, <1>7
<1>16. QED
  BY <1>1, <1>2, <1>3, <1>12, <1>14, <1>15

(* What the table still lists is where it was, or has moved with the last  *)
(* entry, and is found under the id it had.                                *)
LEMMA RemovedKeeps ==
  ASSUME NEW t, TableOK(t), NEW id \in Entries(t), t.memoryIndex[id] < t.count
  PROVE  LET r == Removed(t, id)
         IN /\ \A i \in Used(r) : \E from \in Used(t) \ {t.memoryIndex[id]} :
                  /\ r.memories[i] = t.memories[from]
                  /\ \A k \in Entries(t) : t.memoryIndex[k] = from => r.memoryIndex[k] = i
            /\ \A n, k : Holds(t, n, k) /\ k # id => Holds(r, n, k)
<1> DEFINE r == Removed(t, id)
           last == t.count - 1
           index == t.memoryIndex[id]
<1>1. /\ r.count = last /\ last \in Entries(t) /\ Entries(r) = Entries(t)
      /\ \A i \in Used(r) : r.memories[i] = IF i = index THEN t.memories[last] ELSE t.memories[i]
      /\ \A i \in Entries(t) :
            r.memoryIndex[i] = IF i = id THEN last
                               ELSE IF t.memoryIndex[i] = last THEN index
                               ELSE t.memoryIndex[i]
  BY RemovedOK
<1>2. \A k \in Entries(t) : /\ t.memoryIndex[k] \in Nat
                            /\ t.memoryIndex[k] = index => k = id
  BY DEF TableOK, Entries
<1>3. index \in Nat /\ last \in Nat /\ t.count = last + 1 /\ index <= last
  <2>1. index \in Nat /\ last \in Nat /\ t.count \in Nat
    BY <1>1, <1>2 DEF TableOK, Entries
  <2>2. QED
    BY <2>1
<1>4. ASSUME NEW i \in Used(r)
      PROVE  \E from \in Used(t) \ {index} :
                /\ r.memories[i] = t.memories[from]
                /\ \A k \in Entries(t) : t.memoryIndex[k] = from => r.memoryIndex[k] = i
  <2>1. i \in Nat /\ i < last
    BY <1>1, <1>3 DEF Used
  <2>2. CASE i = index
    <3>1. last \in Used(t) \ {index}
      BY <1>3, <2>1, <2>2 DEF Used
    <3>2. \A k \in Entries(t) : t.memoryIndex[k] = last => r.memoryIndex[k] = i
      BY <1>1, <2>1, <2>2
    <3>3. r.memories[i] = t.memories[last]
      BY <1>1, <2>2
    <3>4. QED
      BY <3>1, <3>2, <3>3
  <2>3. CASE i # index
    <3>1. i \in Used(t) \ {index}
      BY <1>3, <2>1, <2>3 DEF Used
    <3>2. \A k \in Entries(t) : t.memoryIndex[k] = i => r.memoryIndex[k] = i
      BY <1>1, <2>1, <2>3
    <3>3. r.memories[i] = t.memories[i]
      BY <1>1, <2>3
    <3>4. QED
      BY <3>1, <3>2, <3>3
  <2>4. QED
    BY <2>2, <2>3
<1>5. ASSUME NEW n, NEW k, Holds(t, n, k), k # id PROVE Holds(r, n, k)
  <2> DEFINE p == t.memoryIndex[k]
  <2>1. k \in Entries(t) /\ p < t.count /\ t.memories[p] = n
    BY <1>5 DEF Holds
  <2>2. p \in Nat /\ p # index /\ p <= last
    BY <1>2, <1>3, <1>5, <2>1
  <2>3. CASE p = last
    <3>1. r.memoryIndex[k] = index /\ index < last
      BY <1>1, <1>3, <1>5, <2>1, <2>2, <2>3
    <3>2. index \in Used(r)
      BY <1>1, <1>3, <3>1 DEF Used
    <3>3. r.memories[index] = n
      BY <1>1, <2>1, <2>3, <3>2
    <3>4. QED
      BY <1>1, <2>1, <3>1, <3>3 DEF Holds
  <2>4. CASE p # last
    <3>1. r.memoryIndex[k] = p /\ p < last
      BY <1>1, <1>3, <1>5, <2>1, <2>2, <2>4
    <3>2. p \in Used(r)
      BY <1>1, <1>3, <2>2, <3>1 DEF Used
    <3>3. r.memories[p] = n
      BY <1>1, <2>1, <2>2, <3>2
    <3>4. QED
      BY <1>1, <2>1, <3>1, <3>3 DEF Holds
  <2>5. QED
    BY <2>3, <2>4
<1>6. QED
  BY <1>4, <1>5

--------------------------------------------------------------------------------
(* All tables, and the memories that are listed in them.                   *)

(* The table c lists m at position i, under the id m has.                  *)
ListedAt(h, c, i, m) ==
    /\ m \in h.allocated
    /\ h.context[m] = c
    /\ h.id[m] \in Entries(h.table[c])
    /\ h.table[c].memoryIndex[h.id[m]] = i

TablesTyped(h) ==
    /\ h.allocated \subseteq Memories
    /\ h.context \in [Memories -> Contexts \cup {NoContext}]
    /\ h.id \in [Memories -> Nat]
    /\ DOMAIN h.table = Contexts

(* Contexts that have ended, and may be started again, list nothing.       *)
TablesOK(h) ==
    /\ TablesTyped(h)
    /\ \A c \in Contexts :
          /\ TableOK(h.table[c])
          /\ c \notin Open => h.table[c].count = 0
          /\ \A i \in Used(h.table[c]) : ListedAt(h, c, i, h.table[c].memories[i])

(* Every memory that is not in R is found by removeAllocation.             *)
Findable(h, R) ==
    \A m \in h.allocated \ R :
        h.context[m] # NoContext =>
            /\ h.context[m] \in Open
            /\ Holds(h.table[h.context[m]], m, h.id[m])

ContextsTyped ==
    /\ debugContext \in Seq(Contexts)
    /\ \A i, j \in 1..Len(debugContext) : debugContext[i] = debugContext[j] => i = j

LEMMA OpenIsContexts == ASSUME ContextsTyped PROVE Open \subseteq Contexts
BY DEF ContextsTyped, Open

LEMMA RegistrarIsOpen ==
  ASSUME NEW m
  PROVE  Registrar(m) \in Open \cup {NoContext}
<1> DEFINE depth == IF m \in HeapMemories THEN 2 ELSE 1
<1>1. depth \in {1, 2}
  OBVIOUS
<1>2. CASE Len(debugContext) >= depth /\ Len(debugContext) \in Nat
  BY <1>1, <1>2 DEF Registrar, Open
<1>3. QED
  BY <1>2 DEF Registrar, Open

LEMMA TablesAllocated ==
  ASSUME ContextsTyped, NEW h, TablesOK(h), NEW m \in Memories, m \notin h.allocated
  PROVE  /\ TablesOK(Allocated(h, m))
         /\ \A R : Findable(h, R) => Findable(Allocated(h, m), R)
<1> DEFINE g == Allocated(h, m)
           c == Registrar(m)
<1>1. TablesTyped(h) /\ c \in Open \cup {NoContext} /\ Open \subseteq Contexts
  BY RegistrarIsOpen, OpenIsContexts DEF TablesOK
<1>2. g.allocated = h.allocated \cup {m} /\ g.context = [h.context EXCEPT ![m] = c]
  BY DEF Allocated
<1>3. /\ g.context[m] = c
      /\ \A n \in Memories \ {m} : g.context[n] = h.context[n]
  BY <1>1, <1>2 DEF TablesTyped
<1>4. CASE c = NoContext
  <2>1. g.id = h.id /\ g.table = h.table
    BY <1>4 DEF Allocated
  <2>2. TablesTyped(g)
    BY <1>1, <1>2, <1>4, <2>1 DEF TablesTyped
  <2>3. ASSUME NEW d \in Contexts, NEW i \in Used(g.table[d])
        PROVE  ListedAt(g, d, i, g.table[d].memories[i])
    <3> DEFINE n == g.table[d].memories[i]
    <3>1. ListedAt(h, d, i, n)
      BY <2>1, <2>3 DEF TablesOK
    <3>2. n \in Memories \ {m}
      BY <1>1, <3>1 DEF ListedAt, TablesTyped
    <3>3. QED
      BY <1>2, <1>3, <2>1, <3>1, <3>2 DEF ListedAt
  <2>4. TablesOK(g)
    BY <2>1, <2>2, <2>3 DEF TablesOK
  <2>5. ASSUME NEW R, Findable(h, R) PROVE Findable(g, R)
    BY <1>1, <1>2, <1>3, <1>4, <2>1, <2>5 DEF Findable, TablesTyped
  <2>6. QED
    BY <2>4, <2>5
<1>5. CASE c \in Open
  <2> DEFINE t == h.table[c]
             r == Added(t, m)
             id == NextId(t)
  <2>1. c # NoContext /\ c \in Contexts
    BY <1>1, <1>5
  <2>2. g.id = [h.id EXCEPT ![m] = id] /\ g.table = [h.table EXCEPT ![c] = r]
    BY <2>1 DEF Allocated
  <2>3. TableOK(t) /\ t.count \in Nat
    BY <2>1 DEF TablesOK, TableOK
  <2>4. m # NoMemory
    OBVIOUS
  <2>5. /\ TableOK(r) /\ r.count = t.count + 1
        /\ Entries(t) \subseteq Entries(r)
        /\ id \in Entries(r) /\ r.memoryIndex[id] = t.count /\ r.memories[t.count] = m
        /\ \A i \in Entries(t) : r.memoryIndex[i] = t.memoryIndex[i]
        /\ \A i \in Used(t) : r.memories[i] = t.memories[i]
    BY <2>3, <2>4, AddedOK
  <2>6. id \in Nat
    BY <2>5 DEF Entries
  <2>7. TablesTyped(g)
    BY <1>1, <1>2, <2>1, <2>2, <2>6 DEF TablesTyped
  <2>8. /\ g.table[c] = r
        /\ \A d \in Contexts \ {c} : g.table[d] = h.table[d]
        /\ g.id[m] = id
        /\ \A n \in Memories \ {m} : g.id[n] = h.id[n]
    BY <1>1, <2>1, <2>2 DEF TablesTyped
  <2>9. ASSUME NEW d \in Contexts, NEW i, NEW n, ListedAt(h, d, i, n)
        PROVE  ListedAt(g, d, i, n)
    <3>1. n \in Memories \ {m} /\ n \in h.allocated
      BY <1>1, <2>9 DEF ListedAt, TablesTyped
    <3>2. CASE d = c
      BY <1>2, <1>3, <2>5, <2>8, <2>9, <3>1, <3>2 DEF ListedAt
    <3>3. CASE d # c
      BY <1>2, <1>3, <2>8, <2>9, <3>1, <3>3 DEF ListedAt
    <3>4. QED
      BY <3>2, <3>3
  <2>10. ASSUME NEW d \in Contexts, NEW i \in Used(g.table[d])
         PROVE  ListedAt(g, d, i, g.table[d].memories[i])
    <3>1. CASE d # c
      BY <2>8, <2>9, <2>10, <3>1 DEF TablesOK
    <3>2. CASE d = c /\ i \in Used(t)
      BY <2>1, <2>5, <2>8, <2>9, <3>2 DEF TablesOK
    <3>3. CASE d = c /\ i \notin Used(t)
      <4>1. i = t.count
        BY <2>3, <2>5, <2>8, <2>10, <3>3 DEF Used
      <4>2. ListedAt(g, c, t.count, m)
        BY <1>2, <1>3, <2>5, <2>8 DEF ListedAt
      <4>3. g.table[d].memories[i] = m
        BY <2>5, <2>8, <3>3, <4>1
      <4>4. QED
        BY <3>3, <4>1, <4>2, <4>3
    <3>4. QED
      BY <3>1, <3>2, <3>3
  <2>11. TablesOK(g)
    <3>1. ASSUME NEW d \in Contexts PROVE TableOK(g.table[d]) /\ (d \notin Open => g.table[d].count = 0)
      BY <1>5, <2>5, <2>8 DEF TablesOK
    <3>2. QED
      BY <2>7, <2>10, <3>1 DEF TablesOK
  <2>12. ASSUME NEW R, Findable(h, R) PROVE Findable(g, R)
    <3> SUFFICES ASSUME NEW n \in g.allocated \ R, g.context[n] # NoContext
                 PROVE  g.context[n] \in Open /\ Holds(g.table[g.context[n]], n, g.id[n])
      BY DEF Findable
    <3>1. CASE n = m
      <4>1. r.memoryIndex[id] < r.count
        BY <2>3, <2>5
      <4>2. Holds(r, m, id)
        BY <2>5, <4>1 DEF Holds
      <4>3. QED
        BY <1>3, <1>5, <2>8, <3>1, <4>2
    <3>2. CASE n # m
      <4>1. /\ n \in Memories /\ g.context[n] = h.context[n] /\ g.id[n] = h.id[n]
            /\ h.context[n] \in Open /\ Holds(h.table[h.context[n]], n, h.id[n])
        BY <1>1, <1>2, <1>3, <2>8, <2>12, <3>2 DEF TablesTyped, Findable
      <4>2. CASE h.context[n] # c
        BY <1>1, <2>8, <4>1, <4>2
      <4>3. CASE h.context[n] = c
        <5>1. /\ h.id[n] \in Entries(t) /\ t.memoryIndex[h.id[n]] < t.count
              /\ t.memories[t.memoryIndex[h.id[n]]] = n
          BY <4>1, <4>3 DEF Holds
        <5>2. t.memoryIndex[h.id[n]] \in Used(t) /\ t.memoryIndex[h.id[n]] < r.count
          <6>1. t.memoryIndex[h.id[n]] \in Nat
            BY <2>3, <5>1 DEF TableOK, Entries
          <6>2. QED
            BY <2>3, <2>5, <5>1, <6>1 DEF Used
        <5>3. Holds(r, n, h.id[n])
          BY <2>5, <5>1, <5>2 DEF Holds
        <5>4. QED
          BY <2>8, <4>1, <4>3, <5>3
      <4>4. QED
        BY <4>2, <4>3
    <3>3. QED
      BY <3>1, <3>2
  <2>13. QED
    BY <2>11, <2>12
<1>6. QED
  BY <1>1, <1>4, <1>5

LEMMA TablesFreed ==
  ASSUME ContextsTyped, NEW h, TablesOK(h), NEW m \in Memories
  PROVE  /\ TablesOK(Freed(h, m))
         /\ \A R : Findable(h, R) => Findable(Freed(h, m), R)
<1> DEFINE g == Freed(h, m)
           c == h.context[m]
           id == h.id[m]
           t == h.table[c]
<1>1. TablesTyped(h) /\ Open \subseteq Contexts
  BY OpenIsContexts DEF TablesOK
<1>2. /\ g.allocated = h.allocated \ {m} /\ g.context = [h.context EXCEPT ![m] = NoContext]
      /\ g.id = [h.id EXCEPT ![m] = 0]
  BY DEF Freed
<1>3. \A n \in Memories \ {m} : g.context[n] = h.context[n] /\ g.id[n] = h.id[n]
  BY <1>1, <1>2 DEF TablesTyped
<1>4. ASSUME NEW d \in Contexts, NEW i \in Used(h.table[d])
      PROVE  ListedAt(h, d, i, h.table[d].memories[i])
  BY <1>4 DEF TablesOK
<1>5. CASE ~(c \in Open /\ Holds(t, m, id))
  <2>1. g.table = h.table
    BY <1>5 DEF Freed
  <2>2. TablesTyped(g)
    BY <1>1, <1>2, <2>1 DEF TablesTyped
  <2>3. ASSUME NEW d \in Contexts, NEW i \in Used(h.table[d]) PROVE h.table[d].memories[i] # m
    <3> SUFFICES ASSUME h.table[d].memories[i] = m PROVE FALSE
      OBVIOUS
    <3>1. d = c /\ id \in Entries(t) /\ t.memoryIndex[id] = i
      BY <1>4 DEF ListedAt
    <3>2. t.count \in Nat /\ i < t.count /\ t.count # 0
      BY <3>1 DEF TablesOK, TableOK, Used
    <3>3. c \in Open
      BY <3>1, <3>2 DEF TablesOK
    <3>4. QED
      BY <1>5, <3>1, <3>2, <3>3 DEF Holds
  <2>4. ASSUME NEW d \in Contexts, NEW i \in Used(g.table[d])
        PROVE  ListedAt(g, d, i, g.table[d].memories[i])
    <3> DEFINE n == h.table[d].memories[i]
    <3>1. ListedAt(h, d, i, n) /\ n # m
      BY <1>4, <2>1, <2>3, <2>4
    <3>2. n \in Memories \ {m} /\ n \in g.allocated
      BY <1>1, <1>2, <3>1 DEF ListedAt, TablesTyped
    <3>3. QED
      BY <1>3, <2>1, <3>1, <3>2 DEF ListedAt
  <2>5. TablesOK(g)
    BY <2>1, <2>2, <2>4 DEF TablesOK
  <2>6. ASSUME NEW R, Findable(h, R) PROVE Findable(g, R)
    BY <1>1, <1>2, <1>3, <2>1, <2>6 DEF Findable, TablesTyped
  <2>7. QED
    BY <2>5, <2>6
<1>6. CASE c \in Open /\ Holds(t, m, id)
  <2> DEFINE r == Removed(t, id)
             index == t.memoryIndex[id]
  <2>1. /\ c \in Contexts /\ TableOK(t) /\ id \in Entries(t) /\ index < t.count
        /\ t.memories[index] = m
    BY <1>1, <1>6 DEF Holds, TablesOK
  <2>2. TableOK(r) /\ Entries(r) = Entries(t)
    BY <2>1, RemovedOK
  <2>3. /\ \A i \in Used(r) : \E from \in Used(t) \ {index} :
              /\ r.memories[i] = t.memories[from]
              /\ \A k \in Entries(t) : t.memoryIndex[k] = from => r.memoryIndex[k] = i
        /\ \A n, k : Holds(t, n, k) /\ k # id => Holds(r, n, k)
    BY <2>1, RemovedKeeps
  <2>4. g.table = [h.table EXCEPT ![c] = r]
    BY <1>6 DEF Freed
  <2>5. g.table[c] = r /\ \A d \in Contexts \ {c} : g.table[d] = h.table[d]
    BY <1>1, <2>1, <2>4 DEF TablesTyped
  <2>6. TablesTyped(g)
    BY <1>1, <1>2, <2>1, <2>4 DEF TablesTyped
  <2>7. ASSUME NEW d \in Contexts, NEW i \in Used(h.table[d]), h.table[d].memories[i] = m
        PROVE  d = c /\ i = index
    BY <1>4, <2>7 DEF ListedAt
  <2>8. ASSUME NEW d \in Contexts \ {c}, NEW i \in Used(g.table[d])
        PROVE  ListedAt(g, d, i, g.table[d].memories[i])
    <3> DEFINE n == h.table[d].memories[i]
    <3>1. ListedAt(h, d, i, n) /\ n # m
      BY <1>4, <2>5, <2>7, <2>8
    <3>2. n \in Memories \ {m} /\ n \in g.allocated
      BY <1>1, <1>2, <3>1 DEF ListedAt, TablesTyped
    <3>3. QED
      BY <1>3, <2>5, <3>1, <3>2 DEF ListedAt
  <2>9. ASSUME NEW i \in Used(r)
        PROVE  ListedAt(g, c, i, r.memories[i])
    <3>1. PICK from \in Used(t) \ {index} :
            /\ r.memories[i] = t.memories[from]
            /\ \A k \in Entries(t) : t.memoryIndex[k] = from => r.memoryIndex[k] = i
      BY <2>3, <2>9
    <3> DEFINE n == t.memories[from]
    <3>2. ListedAt(h, c, from, n) /\ n # m
      BY <1>4, <2>1, <2>7, <3>1
    <3>3. /\ n \in Memories \ {m} /\ n \in g.allocated /\ g.context[n] = c
          /\ g.id[n] = h.id[n] /\ h.id[n] \in Entries(t) /\ t.memoryIndex[h.id[n]] = from
      BY <1>1, <1>2, <1>3, <3>2 DEF ListedAt, TablesTyped
    <3>4. QED
      BY <2>2, <2>5, <3>1, <3>3 DEF ListedAt
  <2>10. TablesOK(g)
    <3>1. ASSUME NEW d \in Contexts PROVE TableOK(g.table[d]) /\ (d \notin Open => g.table[d].count = 0)
      BY <1>6, <2>2, <2>5 DEF TablesOK
    <3>2. ASSUME NEW d \in Contexts, NEW i \in Used(g.table[d])
          PROVE  ListedAt(g, d, i, g.table[d].memories[i])
      BY <2>5, <2>8, <2>9, <3>2
    <3>3. QED
      BY <2>6, <3>1, <3>2 DEF TablesOK
  <2>11. ASSUME NEW R, Findable(h, R) PROVE Findable(g, R)
    <3> SUFFICES ASSUME NEW n \in g.allocated \ R, g.context[n] # NoContext
                 PROVE  g.context[n] \in Open /\ Holds(g.table[g.context[n]], n, g.id[n])
      BY DEF Findable
    <3>1. /\ n # m /\ n \in Memories /\ g.context[n] = h.context[n] /\ g.id[n] = h.id[n]
          /\ h.context[n] \in Open /\ Holds(h.table[h.context[n]], n, h.id[n])
      BY <1>1, <1>2, <1>3, <2>11 DEF TablesTyped, Findable
    <3>2. CASE h.context[n] # c
      BY <1>1, <2>5, <3>1, <3>2
    <3>3. CASE h.context[n] = c
      <4>1. Holds(t, n, h.id[n])
        BY <3>1, <3>3
      <4>2. h.id[n] # id
        BY <2>1, <3>1, <4>1 DEF Holds
      <4>3. QED
        BY <2>3, <2>5, <3>1, <3>3, <4>1, <4>2
    <3>4. QED
      BY <3>2, <3>3
  <2>12. QED
    BY <2>10, <2>11
<1>7. QED
  BY <1>5, <1>6

(* Counting references leaves the tables alone. *)
LEMMA TablesCounted ==
  ASSUME NEW h, TablesOK(h), NEW m, NEW n
  PROVE  /\ TablesOK(Counted(h, m, n))
         /\ \A R : Findable(h, R) => Findable(Counted(h, m, n), R)
BY DEF Counted, TablesOK, TablesTyped, ListedAt, Findable

LEMMA TablesReferenced ==
  ASSUME NEW h, TablesOK(h), NEW m
  PROVE  /\ TablesOK(Referenced(h, m))
         /\ \A R : Findable(h, R) => Findable(Referenced(h, m), R)
BY TablesCounted DEF Referenced

LEMMA TablesReleased ==
  ASSUME ContextsTyped, NEW h, TablesOK(h), NEW s
  PROVE  /\ TablesOK(Released(h, s))
         /\ \A R : Findable(h, R) => Findable(Released(h, s), R)
<1> DEFINE m == string[s]
           g == Counted(h, m, h.referenceCount[m] - 1)
<1>1. TablesOK(g) /\ \A R : Findable(h, R) => Findable(g, R)
  BY TablesCounted
<1>2. CASE m \in Memories
  <2>1. TablesOK(Freed(g, m)) /\ \A R : Findable(g, R) => Findable(Freed(g, m), R)
    BY <1>1, <1>2, TablesFreed
  <2>2. Released(h, s) = g \/ Released(h, s) = Freed(g, m)
    BY <1>2 DEF Released, Unreferenced
  <2>3. QED
    BY <1>1, <2>1, <2>2
<1>3. CASE m \notin Memories
  BY <1>3 DEF Released
<1>4. QED
  BY <1>2, <1>3

--------------------------------------------------------------------------------

TableInv ==
    /\ ContextsTyped
    /\ TablesOK(heap)
    /\ Findable(heap, reported)
    /\ overwritten \subseteq heap.allocated
    /\ reported \subseteq heap.allocated

LEMMA TableInvInit == Init => TableInv
<1> SUFFICES ASSUME Init PROVE TableInv
  OBVIOUS
<1>1. ContextsTyped
  BY DEF Init, ContextsTyped
<1>2. TablesTyped(heap) /\ heap.allocated = {} /\ \A c \in Contexts : heap.table[c] = NewTable
  BY DEF Init, TablesTyped
<1>3. TablesOK(heap)
  BY <1>2, NewTableOK DEF TablesOK, Used
<1>4. QED
  BY <1>1, <1>2, <1>3 DEF Init, TableInv, Findable

(* The calls that leave the contexts alone. *)
LEMMA TableRemembered ==
  ASSUME TableInv, NEW lost, Remember(lost), TablesOK(heap'),
         \A R : Findable(heap, R) => Findable(heap', R)
  PROVE  TableInv'
<1>1. /\ debugContext' = debugContext /\ Open' = Open
      /\ reported' = reported \cap heap'.allocated
      /\ overwritten' \subseteq heap'.allocated
  BY DEF Remember, Open
<1>2. ContextsTyped'
  BY <1>1 DEF TableInv, ContextsTyped
<1>3. TablesOK(heap)'
  BY <1>1 DEF TablesOK, TablesTyped, ListedAt
<1>4. Findable(heap', reported)
  BY DEF TableInv
<1>5. Findable(heap, reported)'
  BY <1>1, <1>4 DEF Findable
<1>6. QED
  BY <1>1, <1>2, <1>3, <1>5 DEF TableInv

LEMMA ReplaceKeepsTables ==
  ASSUME TableInv, NEW d \in Strings, NEW m \in Memories, Replace(d, m)
  PROVE  TableInv'
<1> DEFINE h == Allocated(heap, m)
<1>1. ContextsTyped /\ TablesOK(heap) /\ m \notin heap.allocated
  BY DEF TableInv, Replace
<1>2. TablesOK(h) /\ \A R : Findable(heap, R) => Findable(h, R)
  BY <1>1, TablesAllocated
<1>3. TablesOK(Released(h, d)) /\ \A R : Findable(h, R) => Findable(Released(h, d), R)
  BY <1>1, <1>2, TablesReleased
<1>4. /\ TablesOK(Referenced(Released(h, d), m))
      /\ \A R : Findable(Released(h, d), R) => Findable(Referenced(Released(h, d), m), R)
  BY <1>3, TablesReferenced
<1>5. heap' = Referenced(Released(h, d), m) /\ Remember({})
  BY DEF Replace
<1>6. QED
  BY <1>2, <1>3, <1>4, <1>5, TableRemembered

LEMMA MoveKeepsTables ==
  ASSUME TableInv, NEW d \in Strings, NEW s \in Strings, NEW m \in Memories, Move(d, s, m)
  PROVE  TableInv'
<1> DEFINE freed == Released(heap, d)
           new == Allocated(freed, m)
           cloned == Referenced(new, m)
<1>1. ContextsTyped /\ TablesOK(heap) /\ m \notin freed.allocated
  BY DEF TableInv, Move
<1>2. TablesOK(freed) /\ \A R : Findable(heap, R) => Findable(freed, R)
  BY <1>1, TablesReleased
<1>3. TablesOK(new) /\ \A R : Findable(freed, R) => Findable(new, R)
  BY <1>1, <1>2, TablesAllocated
<1>4. TablesOK(cloned) /\ \A R : Findable(new, R) => Findable(cloned, R)
  BY <1>3, TablesReferenced
<1>5. TablesOK(Released(cloned, s)) /\ \A R : Findable(cloned, R) => Findable(Released(cloned, s), R)
  BY <1>1, <1>4, TablesReleased
<1>6. heap' = Released(cloned, s) /\ Remember({})
  BY DEF Move
<1>7. QED
  BY <1>2, <1>3, <1>4, <1>5, <1>6, TableRemembered

LEMMA ReleaseKeepsTables ==
  ASSUME TableInv, NEW s \in Strings, heap' = Released(heap, s), Remember({})
  PROVE  TableInv'
BY TablesReleased, TableRemembered DEF TableInv

LEMMA ReferenceKeepsTables ==
  ASSUME TableInv, NEW m, NEW lost, Remember(lost), heap' = Referenced(heap, m) \/ heap' = heap
  PROVE  TableInv'
BY TablesReferenced, TableRemembered DEF TableInv

(* A context that starts lists nothing yet. *)
LEMMA StartKeepsTables ==
  ASSUME TableInv, NEW c \in Contexts, ContextStart(c)
  PROVE  TableInv'
<1>1. /\ c \notin Open /\ debugContext' = <<c>> \o debugContext
      /\ heap' = WithTable(heap, c, NewTable)
      /\ overwritten' = overwritten /\ reported' = reported
      /\ debugContext \in Seq(Contexts) /\ TablesTyped(heap)
  BY DEF ContextStart, TableInv, ContextsTyped, TablesOK
<1>2. /\ debugContext' \in Seq(Contexts) /\ Len(debugContext') = Len(debugContext) + 1
      /\ \A i \in 1..Len(debugContext') :
            debugContext'[i] = IF i = 1 THEN c ELSE debugContext[i - 1]
  BY <1>1
<1>3. Open' = Open \cup {c}
  <2>1. Open' = {debugContext'[i] : i \in 1..Len(debugContext')}
    BY DEF Open
  <2>2. ASSUME NEW x \in Open PROVE x \in Open'
    <3>1. PICK i \in 1..Len(debugContext) : x = debugContext[i]
      BY <2>2 DEF Open
    <3>2. i + 1 \in 1..Len(debugContext') /\ debugContext'[i + 1] = x
      BY <1>1, <1>2, <3>1
    <3>3. QED
      BY <2>1, <3>2
  <2>3. c \in Open'
    BY <1>1, <1>2, <2>1
  <2>4. ASSUME NEW x \in Open' PROVE x \in Open \cup {c}
    <3>1. PICK i \in 1..Len(debugContext') : x = debugContext'[i]
      BY <2>1, <2>4
    <3>2. CASE i = 1
      BY <1>2, <3>1, <3>2
    <3>3. CASE i # 1
      <4>1. i - 1 \in 1..Len(debugContext) /\ x = debugContext[i - 1]
        BY <1>1, <1>2, <3>1, <3>3
      <4>2. QED
        BY <4>1 DEF Open
    <3>4. QED
      BY <3>2, <3>3
  <2>5. QED
    BY <2>2, <2>3, <2>4
<1>4. ContextsTyped'
  <2> SUFFICES ASSUME NEW i \in 1..Len(debugContext'), NEW j \in 1..Len(debugContext'),
                      debugContext'[i] = debugContext'[j]
               PROVE  i = j
    BY <1>2 DEF ContextsTyped
  <2>1. \A k \in 1..Len(debugContext) : debugContext[k] # c
    BY <1>1 DEF Open
  <2>2. CASE i = 1 \/ j = 1
    BY <1>1, <1>2, <2>1, <2>2
  <2>3. CASE i # 1 /\ j # 1
    <3>1. i - 1 \in 1..Len(debugContext) /\ j - 1 \in 1..Len(debugContext)
      BY <1>1, <1>2, <2>3
    <3>2. i - 1 = j - 1
      BY <1>2, <2>3, <3>1 DEF TableInv, ContextsTyped
    <3>3. QED
      BY <3>2
  <2>4. QED
    BY <2>2, <2>3
<1>5. /\ heap'.allocated = heap.allocated /\ heap'.context = heap.context /\ heap'.id = heap.id
      /\ heap'.table = [heap.table EXCEPT ![c] = NewTable]
  BY <1>1 DEF WithTable
<1>6. heap'.table[c] = NewTable /\ \A d \in Contexts \ {c} : heap'.table[d] = heap.table[d]
  BY <1>1, <1>5 DEF TablesTyped
<1>7. TablesOK(heap)'
  <2>1. TablesTyped(heap)'
    BY <1>1, <1>5 DEF TablesTyped
  <2>2. ASSUME NEW d \in Contexts
        PROVE  /\ TableOK(heap'.table[d])
               /\ d \notin Open' => heap'.table[d].count = 0
               /\ \A i \in Used(heap'.table[d]) : ListedAt(heap', d, i, heap'.table[d].memories[i])
    <3>1. CASE d = c
      BY <1>6, <3>1, NewTableOK DEF Used
    <3>2. CASE d # c
      BY <1>3, <1>5, <1>6, <3>2 DEF TableInv, TablesOK, ListedAt
    <3>3. QED
      BY <3>1, <3>2
  <2>3. QED
    BY <2>1, <2>2 DEF TablesOK
<1>8. Findable(heap, reported)'
  <2> SUFFICES ASSUME NEW m \in heap.allocated \ reported, heap.context[m] # NoContext
               PROVE  /\ heap.context[m] \in Open'
                      /\ Holds(heap'.table[heap.context[m]], m, heap.id[m])
    BY <1>1, <1>5 DEF Findable
  <2>1. heap.context[m] \in Open /\ Holds(heap.table[heap.context[m]], m, heap.id[m])
    BY DEF TableInv, Findable
  <2>2. heap.context[m] \in Contexts \ {c}
    BY <1>1, <2>1, OpenIsContexts DEF TableInv
  <2>3. QED
    BY <1>3, <1>6, <2>1, <2>2
<1>9. QED
  BY <1>1, <1>4, <1>5, <1>7, <1>8 DEF TableInv

(* A context that ends reports everything its table lists, which is        *)
(* allocated.                                                              *)
LEMMA EndKeepsTables ==
  ASSUME TableInv, ContextEnd
  PROVE  TableInv'
<1> DEFINE c == Head(debugContext)
           t == heap.table[c]
           left == {t.memories[i] : i \in 0..(t.count - 1)}
<1>1. /\ debugContext # <<>> /\ debugContext' = Tail(debugContext)
      /\ heap' = WithTable(heap, c, NewTable)
      /\ overwritten' = overwritten /\ reported' = reported \cup left
      /\ debugContext \in Seq(Contexts) /\ TablesTyped(heap)
  BY DEF ContextEnd, TableInv, ContextsTyped, TablesOK
<1>2. /\ debugContext' \in Seq(Contexts) /\ Len(debugContext') = Len(debugContext) - 1
      /\ Len(debugContext) \in Nat \ {0} /\ c = debugContext[1] /\ c \in Contexts
      /\ \A i \in 1..Len(debugContext') : debugContext'[i] = debugContext[i + 1]
  BY <1>1
<1>3. \A i, j \in 1..Len(debugContext) : debugContext[i] = debugContext[j] => i = j
  BY DEF TableInv, ContextsTyped
<1>4. Open' = Open \ {c}
  <2>1. Open' = {debugContext'[i] : i \in 1..Len(debugContext')}
    BY DEF Open
  <2>2. ASSUME NEW x \in Open \ {c} PROVE x \in Open'
    <3>1. PICK i \in 1..Len(debugContext) : x = debugContext[i]
      BY <2>2 DEF Open
    <3>2. i # 1
      BY <1>2, <2>2, <3>1
    <3>3. i - 1 \in 1..Len(debugContext') /\ debugContext'[i - 1] = x
      BY <1>2, <3>1, <3>2
    <3>4. QED
      BY <2>1, <3>3
  <2>3. ASSUME NEW x \in Open' PROVE x \in Open \ {c}
    <3>1. PICK i \in 1..Len(debugContext') : x = debugContext'[i]
      BY <2>1, <2>3
    <3>2. i + 1 \in 1..Len(debugContext) /\ x = debugContext[i + 1] /\ i + 1 # 1
      BY <1>2, <3>1
    <3>3. x # c
      BY <1>2, <1>3, <3>2
    <3>4. QED
      BY <3>2, <3>3 DEF Open
  <2>4. QED
    BY <2>2, <2>3
<1>5. ContextsTyped'
  <2> SUFFICES ASSUME NEW i \in 1..Len(debugContext'), NEW j \in 1..Len(debugContext'),
                      debugContext'[i] = debugContext'[j]
               PROVE  i = j
    BY <1>2 DEF ContextsTyped
  <2>1. i + 1 \in 1..Len(debugContext) /\ j + 1 \in 1..Len(debugContext)
    BY <1>2
  <2>2. i + 1 = j + 1
    BY <1>2, <1>3, <2>1
  <2>3. QED
    BY <2>2
<1>6. /\ heap'.allocated = heap.allocated /\ heap'.context = heap.context /\ heap'.id = heap.id
      /\ heap'.table = [heap.table EXCEPT ![c] = NewTable]
  BY <1>1 DEF WithTable
<1>7. heap'.table[c] = NewTable /\ \A d \in Contexts \ {c} : heap'.table[d] = heap.table[d]
  BY <1>1, <1>6 DEF TablesTyped
<1>8. TablesOK(heap)'
  <2>1. TablesTyped(heap)'
    BY <1>1, <1>6 DEF TablesTyped
  <2>2. ASSUME NEW d \in Contexts
        PROVE  /\ TableOK(heap'.table[d])
               /\ d \notin Open' => heap'.table[d].count = 0
               /\ \A i \in Used(heap'.table[d]) : ListedAt(heap', d, i, heap'.table[d].memories[i])
    <3>1. CASE d = c
      BY <1>7, <3>1, NewTableOK DEF Used
    <3>2. CASE d # c
      BY <1>4, <1>6, <1>7, <3>2 DEF TableInv, TablesOK, ListedAt
    <3>3. QED
      BY <3>1, <3>2
  <2>3. QED
    BY <2>1, <2>2 DEF TablesOK
<1>9. left \subseteq heap.allocated
  BY <1>2 DEF TableInv, TablesOK, ListedAt, Used
<1>10. Findable(heap, reported)'
  <2> SUFFICES ASSUME NEW m \in heap.allocated \ (reported \cup left), heap.context[m] # NoContext
               PROVE  /\ heap.context[m] \in Open'
                      /\ Holds(heap'.table[heap.context[m]], m, heap.id[m])
    BY <1>1, <1>6 DEF Findable
  <2>1. heap.context[m] \in Open /\ Holds(heap.table[heap.context[m]], m, heap.id[m])
    BY DEF TableInv, Findable
  <2>2. heap.context[m] # c
    <3> SUFFICES ASSUME heap.context[m] = c PROVE m \in left
      OBVIOUS
    <3>1. /\ heap.id[m] \in Entries(t) /\ t.memoryIndex[heap.id[m]] < t.count
          /\ t.memories[t.memoryIndex[heap.id[m]]] = m
      BY <2>1 DEF Holds
    <3>2. t.memoryIndex[heap.id[m]] \in Nat /\ t.count \in Nat
      <4>1. TableOK(t)
        BY <1>2 DEF TableInv, TablesOK
      <4>2. QED
        BY <3>1, <4>1, TableNat
    <3>3. t.memoryIndex[heap.id[m]] \in 0..(t.count - 1)
      BY <3>1, <3>2
    <3>4. QED
      BY <3>1, <3>3
  <2>3. heap.context[m] \in Contexts
    BY <2>1, OpenIsContexts DEF TableInv
  <2>4. QED
    BY <1>4, <1>7, <2>1, <2>2, <2>3
<1>11. QED
  BY <1>1, <1>5, <1>6, <1>8, <1>9, <1>10 DEF TableInv

LEMMA TableInvStep == Inv /\ TableInv /\ [Next]_stringVars => TableInv'
<1> SUFFICES ASSUME Inv, TableInv, [Next]_stringVars PROVE TableInv'
  OBVIOUS
<1>1. ASSUME NEW d \in Strings, NEW s \in Strings, Copy(d, s) PROVE TableInv'
  BY <1>1, ReferenceKeepsTables DEF Copy, FromMemory
<1>2. ASSUME NEW d \in Strings, NEW s \in Strings, ReplaceAllOfEmpty(d, s) PROVE TableInv'
  BY <1>2, ReferenceKeepsTables DEF ReplaceAllOfEmpty
<1>3. ASSUME NEW d \in Strings, NEW s \in Strings, CopyToAllocator(s, d) PROVE TableInv'
  BY <1>3, ReleaseKeepsTables DEF CopyToAllocator
<1>4. ASSUME NEW d \in Strings, NEW s \in Strings, NEW m \in HeapMemories,
             Clone(d, s, m) \/ AppendTo(d, s, m) PROVE TableInv'
  BY <1>4, ReplaceKeepsTables DEF Clone, AppendTo
<1>5. ASSUME NEW d \in Strings, NEW s \in Strings, NEW m \in HeapMemories, Move(d, s, m)
      PROVE TableInv'
  BY <1>5, MoveKeepsTables
<1>6. ASSUME NEW s \in Strings, Free(s) \/ MoveToAllocator(s) PROVE TableInv'
  BY <1>6, ReleaseKeepsTables DEF Free, MoveToAllocator
<1>7. ASSUME NEW s \in Strings, NEW m \in HeapMemories,
             AppendCharTo(s, m) \/ Change(s, m) \/ Join(s, m) PROVE TableInv'
  BY <1>7, ReplaceKeepsTables DEF AppendCharTo, Change, Join
<1>8. ASSUME NEW s \in Strings, NEW m \in heap.allocated, FromMemory(s, m) PROVE TableInv'
  BY <1>8, ReferenceKeepsTables DEF FromMemory
<1>9. ASSUME NEW m \in Memories, MemoryAllocate(m) PROVE TableInv'
  BY <1>9, TablesAllocated, TableRemembered DEF MemoryAllocate, TableInv
<1>10. ASSUME NEW m \in Memories, MemoryFree(m) PROVE TableInv'
  BY <1>10, TablesFreed, TableRemembered DEF MemoryFree, TableInv
<1>11. ASSUME NEW c \in Contexts, ContextStart(c) PROVE TableInv'
  BY <1>11, StartKeepsTables
<1>12. ASSUME ContextEnd PROVE TableInv'
  BY <1>12, EndKeepsTables
<1>13. CASE UNCHANGED stringVars
  BY <1>13 DEF stringVars, TableInv, ContextsTyped, TablesOK, TablesTyped, ListedAt, Findable, Open
<1>14. QED
  BY <1>1, <1>2, <1>3, <1>4, <1>5, <1>6, <1>7, <1>8, <1>9, <1>10, <1>11, <1>12, <1>13 DEF Next

LEMMA TableInvariant == Spec => [](Inv /\ TableInv)
BY InvInit, InvStep, TableInvInit, TableInvStep, PTL DEF Spec

(* The tables of the open contexts stay in order through any sequence of   *)
(* additions and removals, and list only memories that are allocated and   *)
(* were added to them.                                                     *)
THEOREM TablesStaySound == Spec => []TablesSound
<1>1. TableInv => TablesSound
  <2> SUFFICES ASSUME TableInv, NEW c \in Open
               PROVE  LET t == heap.table[c]
                      IN /\ Sound(t)
                         /\ \A i \in 0..(t.count - 1) :
                               LET m == t.memories[i]
                               IN m \in heap.allocated /\ heap.context[m] = c /\ t.memoryIndex[heap.id[m]] = i
    BY DEF TablesSound
  <2>1. c \in Contexts
    BY OpenIsContexts DEF TableInv
  <2>2. Sound(heap.table[c])
    BY <2>1, TableIsSound DEF TableInv, TablesOK
  <2>3. \A i \in Used(heap.table[c]) : ListedAt(heap, c, i, heap.table[c].memories[i])
    BY <2>1 DEF TableInv, TablesOK
  <2>4. QED
    BY <2>2, <2>3 DEF Used, ListedAt
<1>2. QED
  BY <1>1, TableInvariant, PTL

(* removeAllocation finds every memory where it was added, unless the end  *)
(* of its context reported it.                                             *)
THEOREM AllocationsAreFound == Spec => []FoundUnlessReported
<1>1. TableInv => FoundUnlessReported
  BY DEF TableInv, Findable, FoundUnlessReported
<1>2. QED
  BY <1>1, TableInvariant, PTL

--------------------------------------------------------------------------------
(* The types; the counts stay below the bound, which only FromMemory needs *)
(* to test.                                                                *)

Bounded(h) == \A m \in Memories : h.referenceCount[m] <= MaxReferences

LEMMA BoundedAllocated ==
  ASSUME NEW h, HeapOK(h), Bounded(h), NEW m \in Memories
  PROVE  /\ HeapOK(Allocated(h, m)) /\ Bounded(Allocated(h, m))
         /\ Allocated(h, m).referenceCount[m] = 0
<1>1. Allocated(h, m).referenceCount = [h.referenceCount EXCEPT ![m] = 0]
      /\ Allocated(h, m).allocated = h.allocated \cup {m}
  BY DEF Allocated
<1>2. QED
  BY <1>1, MaxReferencesIsPositive DEF HeapOK, Bounded

LEMMA BoundedReleased ==
  ASSUME NEW h, Safe(h, string), Bounded(h), NEW s \in Strings
  PROVE  /\ Bounded(Released(h, s))
         /\ \A m \in Memories \ {string[s]} :
               Released(h, s).referenceCount[m] = h.referenceCount[m]
<1> DEFINE m == string[s]
<1>1. CASE m \notin Memories
  BY <1>1 DEF Released
<1>2. CASE m \in Memories
  <2>1. h.referenceCount \in [Memories -> Nat] /\ h.referenceCount[m] \in Nat
    BY <1>2 DEF Safe, HeapOK
  <2>2. Released(h, s).referenceCount = [h.referenceCount EXCEPT ![m] = h.referenceCount[m] - 1]
    BY <1>2 DEF Released, Unreferenced, Freed, Counted
  <2>3. h.referenceCount[m] - 1 <= MaxReferences
    BY <1>2, <2>1, MaxReferencesIsPositive DEF Bounded
  <2>4. QED
    BY <2>1, <2>2, <2>3 DEF Bounded
<1>3. QED
  BY <1>1, <1>2

LEMMA BoundedReferenced ==
  ASSUME NEW h, HeapOK(h), Bounded(h), NEW m \in Memories, h.referenceCount[m] < MaxReferences
  PROVE  Bounded(Referenced(h, m))
<1>1. Referenced(h, m).referenceCount = [h.referenceCount EXCEPT ![m] = h.referenceCount[m] + 1]
  BY DEF Referenced, Counted
<1>2. h.referenceCount[m] \in Nat
  BY DEF HeapOK
<1>3. QED
  BY <1>1, <1>2, MaxReferencesIsPositive DEF HeapOK, Bounded

LEMMA BoundedStep ==
  ASSUME Inv, Bounded(heap), [Next]_stringVars
  PROVE  Bounded(heap')
<1> USE DEF Inv
<1>1. ASSUME NEW d \in Strings, NEW m \in Memories, Replace(d, m) PROVE Bounded(heap')
  <2> DEFINE h == Allocated(heap, m)
             f == [string EXCEPT ![d] = EmptyString]
  <2>1. HeapOK(heap) /\ m \notin heap.allocated /\ m # string[d]
    BY <1>1 DEF Replace, Safe, Covers, Sharers
  <2>2. Safe(h, string)
    BY <2>1, SafeAllocated
  <2>3. Bounded(h) /\ h.referenceCount[m] = 0
    BY <2>1, BoundedAllocated
  <2>4. Bounded(Released(h, d)) /\ Released(h, d).referenceCount[m] = 0
    BY <2>1, <2>2, <2>3, BoundedReleased
  <2>5. HeapOK(Released(h, d))
    BY <2>2, SafeReleased DEF Safe
  <2>6. Bounded(Referenced(Released(h, d), m))
    BY <2>4, <2>5, BoundedReferenced, MaxReferencesIsPositive
  <2>7. QED
    BY <1>1, <2>6 DEF Replace
<1>2. ASSUME NEW d \in Strings, NEW s \in Strings, NEW m \in Memories, Move(d, s, m)
      PROVE  Bounded(heap')
  <2> DEFINE freed == Released(heap, d)
             f == [string EXCEPT ![d] = EmptyString]
             g == [f EXCEPT ![d] = m]
             new == Allocated(freed, m)
             cloned == Referenced(new, m)
  <2>1. /\ d # s /\ m \notin freed.allocated /\ heap' = Released(cloned, s)
        /\ string \in [Strings -> Values]
    BY <1>2 DEF Move, Safe
  <2>2. Safe(freed, f) /\ Bounded(freed)
    BY SafeReleased, BoundedReleased
  <2>3. Safe(new, f) /\ Bounded(new) /\ new.referenceCount[m] = 0 /\ m \in new.allocated
    BY <2>1, <2>2, SafeAllocated, BoundedAllocated DEF Safe
  <2>4. Safe(cloned, g) /\ Bounded(cloned)
    BY <2>3, SafeReferenced, BoundedReferenced, MaxReferencesIsPositive DEF Safe
  <2>5. CASE string[s] \notin Memories
    BY <2>1, <2>4, <2>5 DEF Released
  <2>6. CASE string[s] \in Memories
    <3> DEFINE n == string[s]
    <3>1. cloned.referenceCount \in [Memories -> Nat]
      BY <2>4 DEF Safe, HeapOK
    <3>2. Released(cloned, s).referenceCount
            = [cloned.referenceCount EXCEPT ![n] = cloned.referenceCount[n] - 1]
      BY <2>6 DEF Released, Unreferenced, Freed, Counted
    <3>3. cloned.referenceCount[n] - 1 <= MaxReferences
      BY <2>4, <2>6, <3>1, MaxReferencesIsPositive DEF Bounded
    <3>4. QED
      BY <2>1, <2>4, <3>1, <3>2, <3>3 DEF Bounded
  <2>7. QED
    BY <2>5, <2>6
<1>3. ASSUME NEW d \in Strings, NEW m \in Memories, FromMemory(d, m) PROVE Bounded(heap')
  BY <1>3, BoundedReferenced DEF FromMemory, Safe
<1>4. ASSUME NEW s \in Strings, heap' = Released(heap, s) PROVE Bounded(heap')
  BY <1>4, BoundedReleased
<1>5. ASSUME NEW m \in Memories, MemoryAllocate(m) \/ MemoryFree(m) PROVE Bounded(heap')
  BY <1>5, BoundedAllocated DEF MemoryAllocate, MemoryFree, Freed, Bounded, Safe
<1>6. ASSUME heap'.referenceCount = heap.referenceCount PROVE Bounded(heap')
  BY <1>6 DEF Bounded
<1>7. ASSUME NEW d \in Strings, NEW s \in Strings, Copy(d, s) PROVE Bounded(heap')
  BY <1>3, <1>6, <1>7 DEF Copy
<1>8. HeapMemories \subseteq Memories /\ heap.allocated \subseteq Memories
  BY DEF Safe, HeapOK
<1>9. ASSUME NEW c \in Contexts, ContextStart(c) PROVE heap'.referenceCount = heap.referenceCount
  BY <1>9 DEF ContextStart, WithTable
<1>10. ASSUME ContextEnd PROVE heap'.referenceCount = heap.referenceCount
  BY <1>10 DEF ContextEnd, WithTable
<1>11. CASE UNCHANGED stringVars
  BY <1>6, <1>11 DEF stringVars
<1>12. CASE Next
  <2>1. ASSUME NEW d \in Strings, NEW s \in Strings, ReplaceAllOfEmpty(d, s) \/ CopyToAllocator(s, d)
        PROVE  Bounded(heap')
    BY <1>4, <1>6, <2>1 DEF ReplaceAllOfEmpty, CopyToAllocator
  <2>2. ASSUME NEW s \in Strings, Free(s) \/ MoveToAllocator(s) PROVE Bounded(heap')
    BY <1>4, <2>2 DEF Free, MoveToAllocator
  <2>3. ASSUME NEW d \in Strings, NEW s \in Strings, NEW m \in HeapMemories,
               \/ Clone(d, s, m) \/ AppendTo(d, s, m) \/ Move(d, s, m)
               \/ AppendCharTo(s, m) \/ Change(s, m) \/ Join(s, m)
        PROVE  Bounded(heap')
    BY <1>1, <1>2, <1>8, <2>3 DEF Clone, AppendTo, AppendCharTo, Change, Join
  <2>4. QED
    BY <1>3, <1>5, <1>6, <1>7, <1>8, <1>9, <1>10, <1>12, <2>1, <2>2, <2>3 DEF Next
<1>13. QED
  BY <1>11, <1>12

CountsInv == Bounded(heap)

(* The variables keep their types: the kinds and values of the strings,    *)
(* the counts within their bound, the tables of the contexts.              *)
THEOREM StringTypesCorrect == Spec => []TypeOK
<1>1. Init => CountsInv
  BY MaxReferencesIsPositive DEF Init, Bounded, CountsInv
<1>2. Inv /\ CountsInv /\ [Next]_stringVars => CountsInv'
  BY BoundedStep DEF CountsInv
<1>3. Inv /\ TableInv /\ CountsInv => TypeOK
  <2> SUFFICES ASSUME Inv, TableInv, Bounded(heap) PROVE TypeOK
    BY DEF CountsInv
  <2>1. string \in [Strings -> Memories \cup {EmptyString, ConstString}]
    BY DEF Inv, Safe, Values
  <2>2. heap.referenceCount \in [Memories -> 0..MaxReferences]
    BY MaxReferencesIsPositive DEF Inv, Safe, HeapOK, Bounded
  <2>3. QED
    BY <2>1, <2>2 DEF TypeOK, TableInv, TablesOK, TablesTyped, ContextsTyped
<1>4. QED
  BY <1>1, <1>2, <1>3, TableInvariant, PTL DEF Spec

================================================================================
