---------------------------- MODULE ThreadIdsProofs ----------------------------
(***************************************************************************)
(* What holds of the thread-id pool for every set of threads and every     *)
(* value of AV_MAX_THREADS that fits an AvThreadID.                        *)
(***************************************************************************)
EXTENDS ThreadIds, FiniteSetTheorems, TLAPS

--------------------------------------------------------------------------------
(* How many ids are out. *)

LEMMA HoldersFinite == IsFiniteSet(Holders)
BY ThreadsFinite, FS_Subset DEF Holders

LEMMA HoldersPrimeFinite == IsFiniteSet(Holders')
BY ThreadsFinite, FS_Subset DEF Holders

(* The counter's invariant is inductive with the bounds of the local       *)
(* counters and the range of the ids.                                      *)
CountInv == TypeOK /\ Conserved /\ InBounds /\ NeverMainId

LEMMA CountInit == Init => CountInv
<1> SUFFICES ASSUME Init PROVE CountInv
  OBVIOUS
<1> USE MaxThreadsFits
<1>1. TypeOK
  <2>1. freeThreadIds \in [Slots -> Ids]
    BY DEF Init, Slots, Ids, InitialId
  <2>2. freeThreadTop \in 0..(MaxThreads - 1) /\ table \in {"intact", "clobbered"}
    BY DEF Init
  <2>3. pc \in [Threads -> PCs]
    BY DEF Init, PCs
  <2>4. /\ top \in [Threads -> 0..(MaxThreads - 1)]
        /\ currentThreadId \in [Threads -> Ids \cup {MainThreadId, InvalidThreadId}]
    BY DEF Init
  <2>5. QED
    BY <2>1, <2>2, <2>3, <2>4 DEF TypeOK
<1>2. Holders = {}
  BY DEF Init, Holders
<1>3. Conserved
  BY <1>2, FS_EmptySet DEF Init, Conserved
<1>4. InBounds /\ NeverMainId
  BY DEF Init, InBounds, NeverMainId, Knowing
<1>5. QED
  BY <1>1, <1>3, <1>4 DEF CountInv

(* A thread that joins, or leaves, the holders moves the counter by one.   *)
LEMMA OneMoreHolder ==
  ASSUME NEW t \in Threads, CountInv, t \notin Holders, Holders' = Holders \cup {t},
         freeThreadTop' = freeThreadTop - 1
  PROVE  Conserved'
<1> USE MaxThreadsFits
<1>1. Cardinality(Holders') = Cardinality(Holders) + 1
  BY HoldersFinite, FS_AddElement
<1>2. Cardinality(Holders) \in Nat
  BY HoldersFinite, FS_CardinalityType
<1>3. freeThreadTop \in Nat /\ freeThreadTop + Cardinality(Holders) = MaxThreads - 1
  BY DEF CountInv, TypeOK, Conserved
<1>4. QED
  BY <1>1, <1>2, <1>3 DEF Conserved

LEMMA OneLessHolder ==
  ASSUME NEW t \in Threads, CountInv, t \in Holders, Holders' = Holders \ {t},
         freeThreadTop' = freeThreadTop + 1
  PROVE  Conserved'
<1> USE MaxThreadsFits
<1>1. Cardinality(Holders') = Cardinality(Holders) - 1
  BY HoldersFinite, FS_RemoveElement
<1>2. Cardinality(Holders) \in Nat
  BY HoldersFinite, FS_CardinalityType
<1>3. freeThreadTop \in Nat /\ freeThreadTop + Cardinality(Holders) = MaxThreads - 1
  BY DEF CountInv, TypeOK, Conserved
<1>4. QED
  BY <1>1, <1>2, <1>3 DEF Conserved

(* While somebody holds an id the counter is below the number of slots.    *)
LEMMA RoomForHolder ==
  ASSUME NEW t \in Threads, CountInv, t \in Holders
  PROVE  freeThreadTop \in Slots
<1> USE MaxThreadsFits
<1>1. Cardinality(Holders \ {t}) = Cardinality(Holders) - 1
  BY HoldersFinite, FS_RemoveElement
<1>2. Cardinality(Holders) \in Nat /\ Cardinality(Holders \ {t}) \in Nat
  BY HoldersFinite, FS_RemoveElement, FS_CardinalityType
<1>3. QED
  BY <1>1, <1>2 DEF Conserved, CountInv, TypeOK, Slots

(* A step that leaves the counter and the holders alone. *)
LEMMA SameHolders ==
  ASSUME CountInv, Holders' = Holders, freeThreadTop' = freeThreadTop
  PROVE  Conserved'
BY DEF CountInv, Conserved

LEMMA CountStep == CountInv /\ [Next]_idVars => CountInv'
<1> SUFFICES ASSUME CountInv, [Next]_idVars PROVE CountInv'
  OBVIOUS
<1> USE MaxThreadsFits DEF Goto, Slots, Ids, MainThreadId, InvalidThreadId
<1>1. ASSUME NEW t \in Threads, Enter(t) PROVE CountInv'
  <2>1. TypeOK' /\ InBounds' /\ NeverMainId'
    BY <1>1 DEF Enter, CountInv, TypeOK, PCs, InBounds, NeverMainId, Knowing
  <2>2. Holders' = Holders
    BY <1>1 DEF Enter, CountInv, TypeOK, Holders
  <2>3. QED
    BY <1>1, <2>1, <2>2, SameHolders DEF Enter, CountInv
<1>2. ASSUME NEW t \in Threads, AllocLoad(t) PROVE CountInv'
  <2>1. TypeOK' /\ InBounds' /\ NeverMainId'
    BY <1>2 DEF AllocLoad, CountInv, TypeOK, PCs, InBounds, NeverMainId, Knowing
  <2>2. Holders' = Holders
    BY <1>2 DEF AllocLoad, CountInv, TypeOK, Holders
  <2>3. QED
    BY <1>2, <2>1, <2>2, SameHolders DEF AllocLoad, CountInv
<1>3. ASSUME NEW t \in Threads, AllocRefused(t) PROVE CountInv'
  <2>1. TypeOK' /\ InBounds' /\ NeverMainId'
    BY <1>3 DEF AllocRefused, CountInv, TypeOK, PCs, InBounds, NeverMainId, Knowing
  <2>2. Holders' = Holders
    BY <1>3 DEF AllocRefused, CountInv, TypeOK, Holders
  <2>3. QED
    BY <1>3, <2>1, <2>2, SameHolders DEF AllocRefused, CountInv
<1>4. ASSUME NEW t \in Threads, AllocCas(t) PROVE CountInv'
  <2>1. TypeOK' /\ InBounds' /\ NeverMainId'
    <3>1. TypeOK'
      BY <1>4 DEF AllocCas, CountInv, TypeOK, PCs, InBounds, NeverMainId, Knowing
    <3>2. InBounds'
      BY <1>4 DEF AllocCas, CountInv, TypeOK, InBounds
    <3>3. NeverMainId'
      BY <1>4 DEF AllocCas, CountInv, TypeOK, InBounds, NeverMainId, Knowing
    <3>4. QED
      BY <3>1, <3>2, <3>3
  <2>2. t \notin Holders /\ Holders' = Holders \cup {t}
    BY <1>4 DEF AllocCas, CountInv, TypeOK, Holders
  <2>3. Conserved'
    BY <1>4, <2>2, OneMoreHolder DEF AllocCas
  <2>4. QED
    BY <2>1, <2>3 DEF CountInv
<1>5. ASSUME NEW t \in Threads, AllocRetry(t) PROVE CountInv'
  <2>1. TypeOK' /\ InBounds' /\ NeverMainId'
    BY <1>5 DEF AllocRetry, CountInv, TypeOK, PCs, InBounds, NeverMainId, Knowing
  <2>2. Holders' = Holders
    BY <1>5 DEF AllocRetry, CountInv, TypeOK, Holders
  <2>3. QED
    BY <1>5, <2>1, <2>2, SameHolders DEF AllocRetry, CountInv
<1>6. ASSUME NEW t \in Threads, AllocRead(t) PROVE CountInv'
  <2>1. TypeOK' /\ InBounds' /\ NeverMainId'
    <3>1. TypeOK'
      BY <1>6 DEF AllocRead, CountInv, TypeOK, PCs, InBounds, NeverMainId, Knowing
    <3>2. InBounds'
      BY <1>6 DEF AllocRead, CountInv, TypeOK, InBounds
    <3>3. NeverMainId'
      BY <1>6 DEF AllocRead, CountInv, TypeOK, InBounds, NeverMainId, Knowing
    <3>4. QED
      BY <3>1, <3>2, <3>3
  <2>2. Holders' = Holders
    BY <1>6 DEF AllocRead, CountInv, TypeOK, Holders
  <2>3. QED
    BY <1>6, <2>1, <2>2, SameHolders DEF AllocRead, CountInv
<1>7. ASSUME NEW t \in Threads, EntryReturns(t) PROVE CountInv'
  <2>1. TypeOK' /\ InBounds' /\ NeverMainId'
    BY <1>7 DEF EntryReturns, CountInv, TypeOK, PCs, InBounds, NeverMainId, Knowing
  <2>2. Holders' = Holders
    BY <1>7 DEF EntryReturns, CountInv, TypeOK, Holders
  <2>3. QED
    BY <1>7, <2>1, <2>2, SameHolders DEF EntryReturns, CountInv
<1>8. ASSUME NEW t \in Threads, FreeLoad(t) PROVE CountInv'
  <2>1. freeThreadTop \in Slots
    <3>1. t \in Holders
      BY <1>8 DEF FreeLoad, Holders
    <3>2. QED
      BY <3>1, RoomForHolder
  <2>2. pc' = [pc EXCEPT ![t] = "freeWrite"]
    <3>1. ~(freeThreadTop >= MaxThreads)
      BY <2>1
    <3>2. QED
      BY <1>8, <3>1 DEF FreeLoad
  <2>3. TypeOK' /\ InBounds' /\ NeverMainId'
    <3>1. TypeOK'
      BY <1>8, <2>1, <2>2 DEF FreeLoad, CountInv, TypeOK, PCs, InBounds, NeverMainId, Knowing
    <3>2. InBounds'
      BY <1>8, <2>1, <2>2 DEF FreeLoad, CountInv, TypeOK, InBounds
    <3>3. NeverMainId'
      BY <1>8, <2>2 DEF FreeLoad, CountInv, TypeOK, NeverMainId, Knowing
    <3>4. QED
      BY <3>1, <3>2, <3>3
  <2>4. Holders' = Holders
    BY <1>8, <2>2 DEF FreeLoad, CountInv, TypeOK, Holders
  <2>5. QED
    BY <1>8, <2>3, <2>4, SameHolders DEF FreeLoad, CountInv
<1>9. ASSUME NEW t \in Threads, FreeWrite(t) PROVE CountInv'
  <2>1. TypeOK' /\ InBounds' /\ NeverMainId'
    <3>1. TypeOK'
      BY <1>9 DEF FreeWrite, CountInv, TypeOK, PCs, InBounds, NeverMainId, Knowing
    <3>2. InBounds'
      BY <1>9 DEF FreeWrite, CountInv, TypeOK, InBounds
    <3>3. NeverMainId'
      BY <1>9 DEF FreeWrite, CountInv, TypeOK, InBounds, NeverMainId, Knowing
    <3>4. QED
      BY <3>1, <3>2, <3>3
  <2>2. Holders' = Holders
    BY <1>9 DEF FreeWrite, CountInv, TypeOK, Holders
  <2>3. QED
    BY <1>9, <2>1, <2>2, SameHolders DEF FreeWrite, CountInv
<1>10. ASSUME NEW t \in Threads, FreeCas(t) PROVE CountInv'
  <2>1. TypeOK' /\ InBounds' /\ NeverMainId'
    <3>1. TypeOK'
      BY <1>10 DEF FreeCas, CountInv, TypeOK, PCs, InBounds, NeverMainId, Knowing
    <3>2. InBounds'
      BY <1>10 DEF FreeCas, CountInv, TypeOK, InBounds
    <3>3. NeverMainId'
      BY <1>10 DEF FreeCas, CountInv, TypeOK, InBounds, NeverMainId, Knowing
    <3>4. QED
      BY <3>1, <3>2, <3>3
  <2>2. t \in Holders /\ Holders' = Holders \ {t}
    BY <1>10 DEF FreeCas, CountInv, TypeOK, Holders
  <2>3. Conserved'
    BY <1>10, <2>2, OneLessHolder DEF FreeCas
  <2>4. QED
    BY <2>1, <2>3 DEF CountInv
<1>11. ASSUME NEW t \in Threads, FreeRetry(t) PROVE CountInv'
  <2>1. TypeOK' /\ InBounds' /\ NeverMainId'
    BY <1>11 DEF FreeRetry, CountInv, TypeOK, PCs, InBounds, NeverMainId, Knowing
  <2>2. Holders' = Holders
    BY <1>11 DEF FreeRetry, CountInv, TypeOK, Holders
  <2>3. QED
    BY <1>11, <2>1, <2>2, SameHolders DEF FreeRetry, CountInv
<1>12. ASSUME NEW t \in Threads, Leave(t) PROVE CountInv'
  <2>1. TypeOK' /\ InBounds' /\ NeverMainId'
    BY <1>12 DEF Leave, CountInv, TypeOK, PCs, InBounds, NeverMainId, Knowing
  <2>2. Holders' = Holders
    BY <1>12 DEF Leave, CountInv, TypeOK, Holders
  <2>3. QED
    BY <1>12, <2>1, <2>2, SameHolders DEF Leave, CountInv
<1>13. CASE UNCHANGED idVars
  <2>1. TypeOK' /\ InBounds' /\ NeverMainId' /\ Holders' = Holders
    BY <1>13 DEF idVars, CountInv, TypeOK, InBounds, NeverMainId, Knowing, Holders
  <2>2. QED
    BY <1>13, <2>1, SameHolders DEF idVars, CountInv
<1>14. QED
  BY <1>1, <1>2, <1>3, <1>4, <1>5, <1>6, <1>7, <1>8, <1>9, <1>10, <1>11, <1>12, <1>13
  DEF Next, PoolStep

(* The counter and the threads that hold an id add up to                   *)
(* AV_MAX_THREADS - 1 in every state of every interleaving ...             *)
THEOREM CountInvariant == Spec => []CountInv
BY CountInit, CountStep, PTL DEF Spec

THEOREM TypeCorrect == Spec => []TypeOK
BY CountInvariant, PTL DEF CountInv

THEOREM CountConserved == Spec => []Conserved
BY CountInvariant, PTL DEF CountInv

(* ... so that no access leaves the table ...                              *)
THEOREM AccessesInBounds == Spec => []InBounds
BY CountInvariant, PTL DEF CountInv

(* ... and the main thread's id is never handed out.                       *)
THEOREM MainIdReserved == Spec => []NeverMainId
BY CountInvariant, PTL DEF CountInv

--------------------------------------------------------------------------------
(* The lock-free loops implement the counted pool: an acquisition is the   *)
(* successful compare-and-swap of allocateThreadId, a release that of      *)
(* freeThreadId, a refusal the load of a counter that is 0.                *)

(* The instance brings its own copy of the standard definition. *)
LEMMA SameCardinality == Pool!Cardinality(Holders) = Cardinality(Holders)
BY Zenon DEF Pool!Cardinality, Cardinality

LEMMA PoolInit == Init => Pool!Init
BY DEF Init, Pool!Init, Holders, Refusing

LEMMA PoolNext == CountInv /\ [Next]_idVars => [Pool!Next]_(Pool!poolVars)
<1> SUFFICES ASSUME CountInv, [Next]_idVars PROVE [Pool!Next]_(Pool!poolVars)
  OBVIOUS
<1> USE MaxThreadsFits DEF Goto
<1>1. Cardinality(Holders) \in Nat /\ freeThreadTop \in Nat
      /\ Cardinality(Holders) = (MaxThreads - 1) - freeThreadTop
  BY HoldersFinite, FS_CardinalityType DEF CountInv, TypeOK, Conserved
<1>2. ASSUME NEW t \in Threads, AllocCas(t) PROVE Pool!Acquire(t)
  <2>1. t \notin Holders \cup Refusing
    BY <1>2 DEF AllocCas, Holders, Refusing
  <2>2. Cardinality(Holders) < MaxThreads - 1
    <3>1. freeThreadTop >= 1
      BY <1>2 DEF AllocCas, CountInv, InBounds, TypeOK, Slots
    <3>2. QED
      BY <1>1, <3>1
  <2>3. Holders' = Holders \cup {t} /\ Refusing' = Refusing
    BY <1>2 DEF AllocCas, CountInv, TypeOK, Holders, Refusing
  <2>4. QED
    BY <2>1, <2>2, <2>3, SameCardinality DEF Pool!Acquire
<1>3. ASSUME NEW t \in Threads, AllocRefused(t) PROVE Pool!Refuse(t)
  <2>1. t \notin Holders \cup Refusing
    BY <1>3 DEF AllocRefused, Holders, Refusing
  <2>2. Cardinality(Holders) = MaxThreads - 1
    BY <1>1, <1>3 DEF AllocRefused
  <2>3. Holders' = Holders /\ Refusing' = Refusing \cup {t}
    BY <1>3 DEF AllocRefused, CountInv, TypeOK, Holders, Refusing
  <2>4. QED
    BY <2>1, <2>2, <2>3, SameCardinality DEF Pool!Refuse
<1>4. ASSUME NEW t \in Threads, FreeCas(t) PROVE Pool!Release(t)
  <2>1. t \in Holders
    BY <1>4 DEF FreeCas, Holders
  <2>2. Holders' = Holders \ {t} /\ Refusing' = Refusing
    BY <1>4 DEF FreeCas, CountInv, TypeOK, Holders, Refusing
  <2>3. QED
    BY <2>1, <2>2 DEF Pool!Release
<1>5. ASSUME NEW t \in Threads, Leave(t) PROVE Pool!GiveUp(t) \/ UNCHANGED <<Holders, Refusing>>
  <2>1. Holders' = Holders /\ Refusing' = Refusing \ {t}
    BY <1>5 DEF Leave, CountInv, TypeOK, Holders, Refusing
  <2>2. CASE t \in Refusing
    BY <2>1, <2>2 DEF Pool!GiveUp
  <2>3. CASE t \notin Refusing
    BY <2>1, <2>3
  <2>4. QED
    BY <2>2, <2>3
<1>6. ASSUME NEW t \in Threads,
             \/ Enter(t) \/ AllocLoad(t) \/ AllocRetry(t) \/ AllocRead(t)
             \/ EntryReturns(t) \/ FreeWrite(t) \/ FreeRetry(t)
      PROVE  UNCHANGED <<Holders, Refusing>>
  BY <1>6 DEF Enter, AllocLoad, AllocRetry, AllocRead, EntryReturns, FreeWrite, FreeRetry,
              CountInv, TypeOK, Holders, Refusing
<1>7. ASSUME NEW t \in Threads, FreeLoad(t) PROVE UNCHANGED <<Holders, Refusing>>
  <2>1. ~(freeThreadTop >= MaxThreads)
    BY DEF CountInv, TypeOK
  <2>2. pc' = [pc EXCEPT ![t] = "freeWrite"]
    BY <1>7, <2>1 DEF FreeLoad
  <2>3. QED
    BY <1>7, <2>2 DEF FreeLoad, CountInv, TypeOK, Holders, Refusing
<1>8. CASE UNCHANGED idVars
  <2>1. UNCHANGED <<Holders, Refusing>>
    BY <1>8 DEF idVars, Holders, Refusing
  <2>2. QED
    BY <2>1 DEF Pool!poolVars
<1>9. CASE Next
  <2>1. PICK t \in Threads : Enter(t) \/ PoolStep(t) \/ EntryReturns(t) \/ Leave(t)
    BY <1>9 DEF Next
  <2>2. \/ Pool!Acquire(t) \/ Pool!Refuse(t) \/ Pool!Release(t) \/ Pool!GiveUp(t)
        \/ UNCHANGED <<Holders, Refusing>>
    BY <1>2, <1>3, <1>4, <1>5, <1>6, <1>7, <2>1 DEF PoolStep
  <2>3. Pool!Next \/ UNCHANGED <<Holders, Refusing>>
    BY <2>2 DEF Pool!Next
  <2>4. QED
    BY <2>3 DEF Pool!poolVars
<1>10. QED
  BY <1>8, <1>9

THEOREM PoolRefinement == Spec => ImplementsPool
BY PoolInit, PoolNext, CountInvariant, PTL DEF Spec, ImplementsPool, Pool!Spec

--------------------------------------------------------------------------------
(* Which ids are out.  A thread that has yet to read its id, or that has   *)
(* stored one and not yet published it, relies on a slot at or above the   *)
(* counter; while no store has hit a slot somebody relies on, these slots  *)
(* are different, and the ids below the counter and those of the holders   *)
(* are all of Ids, each in one place.                                      *)

Reserving == {t \in Threads : pc[t] \in {"allocRead", "freeCas"}}
Reserved(t) == IF pc[t] = "allocRead" THEN top[t] - 1 ELSE top[t]
Stack == 0..(freeThreadTop - 1)

SlotsApart ==
    /\ \A t \in Reserving : Reserved(t) >= freeThreadTop
    /\ \A t, u \in Reserving : Reserved(t) = Reserved(u) => t = u
    /\ \A t \in Threads : pc[t] = "freeCas" => freeThreadIds[top[t]] = currentThreadId[t]

IdsApart ==
    /\ \A i, j \in Stack : freeThreadIds[i] = freeThreadIds[j] => i = j
    /\ \A i \in Stack, t \in Holders : freeThreadIds[i] # Own(t)
    /\ \A t, u \in Holders : Own(t) = Own(u) => t = u

NoneLost == \A id \in Ids : \/ \E i \in Stack : freeThreadIds[i] = id
                            \/ \E t \in Holders : Own(t) = id

Partition == SlotsApart /\ IdsApart /\ NoneLost

PartitionInv == table = "intact" => Partition

LEMMA PartitionInit == Init => PartitionInv
<1> SUFFICES ASSUME Init PROVE Partition
  BY DEF PartitionInv
<1> USE MaxThreadsFits
<1>1. Holders = {} /\ Reserving = {} /\ \A t \in Threads : pc[t] # "freeCas"
  BY DEF Init, Holders, Reserving
<1>2. Stack = Slots
  BY DEF Init, Stack, Slots
<1>3. \A i \in Slots : freeThreadIds[i] = MaxThreads - 1 - i
  BY DEF Init, InitialId
<1>4. IdsApart
  <2>1. ASSUME NEW i \in Slots, NEW j \in Slots, freeThreadIds[i] = freeThreadIds[j] PROVE i = j
    BY <1>3, <2>1 DEF Slots
  <2>2. QED
    BY <1>1, <1>2, <2>1 DEF IdsApart
<1>5. NoneLost
  <2>1. ASSUME NEW id \in Ids PROVE \E i \in Slots : freeThreadIds[i] = id
    <3>1. MaxThreads - 1 - id \in Slots
      BY DEF Ids, Slots
    <3>2. freeThreadIds[MaxThreads - 1 - id] = id
      BY <1>3, <3>1 DEF Ids
    <3>3. QED
      BY <3>1, <3>2
  <2>2. QED
    BY <1>2, <2>1 DEF NoneLost
<1>6. QED
  BY <1>1, <1>4, <1>5 DEF Partition, SlotsApart

(* Steps that move no id and no slot from one place to another. *)
LEMMA QuietStep ==
  ASSUME Partition, freeThreadIds' = freeThreadIds, freeThreadTop' = freeThreadTop,
         Holders' = Holders, Reserving' \subseteq Reserving,
         \A u \in Holders : Own(u)' = Own(u),
         \A u \in Reserving' : Reserved(u)' = Reserved(u),
         \A u \in Threads : pc'[u] = "freeCas" =>
             pc[u] = "freeCas" /\ top'[u] = top[u] /\ currentThreadId'[u] = currentThreadId[u]
  PROVE  Partition'
<1>1. SlotsApart'
  BY DEF Partition, SlotsApart
<1>2. IdsApart'
  BY DEF Partition, IdsApart, Stack
<1>3. NoneLost'
  BY DEF Partition, NoneLost, Stack
<1>4. QED
  BY <1>1, <1>2, <1>3 DEF Partition

(* The top slot goes to t, which will read its id from there. *)
LEMMA PartitionAllocCas ==
  ASSUME CountInv, Partition, NEW t \in Threads, AllocCas(t)
  PROVE  Partition'
<1> USE MaxThreadsFits DEF Goto
<1>1. /\ freeThreadTop \in Nat /\ freeThreadTop >= 1 /\ freeThreadTop = top[t]
      /\ freeThreadTop' = freeThreadTop - 1
      /\ freeThreadIds' = freeThreadIds /\ top' = top /\ currentThreadId' = currentThreadId
      /\ top \in [Threads -> Nat]
  BY DEF AllocCas, CountInv, TypeOK, InBounds, Slots
<1>2. /\ Holders' = Holders \cup {t} /\ t \notin Holders
      /\ Reserving' = Reserving \cup {t} /\ t \notin Reserving
  BY DEF AllocCas, CountInv, TypeOK, Holders, Reserving
<1>3. /\ Own(t)' = freeThreadIds[freeThreadTop - 1]
      /\ Reserved(t)' = freeThreadTop - 1
      /\ \A u \in Holders : Own(u)' = Own(u)
      /\ \A u \in Reserving : Reserved(u)' = Reserved(u)
  BY <1>1, <1>2 DEF AllocCas, CountInv, TypeOK, Own, Reserved, Holders, Reserving
<1>4. /\ Stack' \subseteq Stack /\ freeThreadTop - 1 \in Stack /\ freeThreadTop - 1 \notin Stack'
      /\ Stack = Stack' \cup {freeThreadTop - 1}
  BY <1>1 DEF Stack
<1>5. SlotsApart'
  <2>1. \A u \in Reserving : Reserved(u) >= freeThreadTop /\ Reserved(u) \in Int
    BY <1>1 DEF Partition, SlotsApart, Reserving, Reserved
  <2>2. \A u \in Reserving' : Reserved(u)' >= freeThreadTop'
    BY <1>1, <1>2, <1>3, <2>1
  <2>3. ASSUME NEW u \in Reserving', NEW v \in Reserving', Reserved(u)' = Reserved(v)' PROVE u = v
    BY <1>1, <1>2, <1>3, <2>1, <2>3 DEF Partition, SlotsApart
  <2>4. \A u \in Threads : pc'[u] = "freeCas" => freeThreadIds'[top'[u]] = currentThreadId'[u]
    BY <1>1 DEF AllocCas, CountInv, TypeOK, Partition, SlotsApart
  <2>5. QED
    BY <2>2, <2>3, <2>4 DEF SlotsApart
<1>6. IdsApart'
  BY <1>1, <1>2, <1>3, <1>4 DEF Partition, IdsApart
<1>7. NoneLost'
  BY <1>1, <1>2, <1>3, <1>4 DEF Partition, NoneLost
<1>8. QED
  BY <1>5, <1>6, <1>7 DEF Partition

(* t stores its id in a slot nobody relies on, and relies on it from now.  *)
LEMMA PartitionFreeWrite ==
  ASSUME CountInv, Partition, NEW t \in Threads, FreeWrite(t), table' = "intact"
  PROVE  Partition'
<1> USE MaxThreadsFits DEF Goto
<1>1. ~InUse(t, top[t])
  BY DEF FreeWrite
<1>2. /\ freeThreadTop \in Nat /\ top \in [Threads -> Nat] /\ top[t] >= freeThreadTop
      /\ \A u \in Threads \ {t} : /\ pc[u] = "allocRead" => top[u] # top[t] + 1
                                  /\ pc[u] = "freeCas" => top[u] # top[t]
  BY <1>1 DEF CountInv, TypeOK, InUse
<1>3. /\ freeThreadIds' = [freeThreadIds EXCEPT ![top[t]] = currentThreadId[t]]
      /\ freeThreadTop' = freeThreadTop /\ top' = top /\ currentThreadId' = currentThreadId
      /\ pc[t] = "freeWrite" /\ pc' = [pc EXCEPT ![t] = "freeCas"]
      /\ top[t] \in Slots /\ freeThreadIds \in [Slots -> Ids] /\ pc \in [Threads -> PCs]
  BY DEF FreeWrite, CountInv, TypeOK, InBounds
<1>4. Holders' = Holders /\ Reserving' = Reserving \cup {t} /\ t \notin Reserving /\ Stack' = Stack
  BY <1>3 DEF Holders, Reserving, Stack
<1>5. \A i \in Slots : i # top[t] => freeThreadIds'[i] = freeThreadIds[i]
  BY <1>3
<1>6. freeThreadIds'[top[t]] = currentThreadId[t]
  BY <1>3
<1>7. \A i \in Stack : freeThreadIds'[i] = freeThreadIds[i]
  <2>1. ASSUME NEW i \in Stack PROVE i \in Slots /\ i # top[t]
    BY <1>2 DEF Stack, Slots, CountInv, TypeOK
  <2>2. QED
    BY <1>5, <2>1
<1>8. \A u \in Reserving : Reserved(u)' = Reserved(u) /\ Reserved(u) # top[t]
  BY <1>2, <1>3 DEF Reserving, Reserved
<1>9. Reserved(t)' = top[t]
  BY <1>3 DEF Reserved
<1>10. ASSUME NEW u \in Holders PROVE Own(u)' = Own(u)
  <2>1. CASE u = t
    BY <1>3, <2>1 DEF Own
  <2>2. CASE u # t /\ pc[u] = "allocRead"
    <3>1. top[u] - 1 \in Slots /\ top[u] - 1 # top[t]
      BY <1>2, <2>2 DEF CountInv, InBounds, Holders
    <3>2. QED
      BY <1>3, <1>5, <2>2, <3>1 DEF Own, Holders
  <2>3. CASE u # t /\ pc[u] # "allocRead"
    BY <1>3, <2>3 DEF Own, Holders
  <2>4. QED
    BY <2>1, <2>2, <2>3
<1>11. SlotsApart'
  <2>1. \A u \in Reserving' : Reserved(u)' >= freeThreadTop'
    BY <1>2, <1>3, <1>4, <1>8, <1>9 DEF Partition, SlotsApart
  <2>2. \A u, v \in Reserving' : Reserved(u)' = Reserved(v)' => u = v
    BY <1>4, <1>8, <1>9 DEF Partition, SlotsApart
  <2>3. ASSUME NEW u \in Threads, pc'[u] = "freeCas"
        PROVE  freeThreadIds'[top'[u]] = currentThreadId'[u]
    <3>1. CASE u = t
      BY <1>3, <1>6, <3>1
    <3>2. CASE u # t
      <4>1. pc[u] = "freeCas" /\ top[u] \in Slots /\ top[u] # top[t]
        BY <1>2, <1>3, <2>3, <3>2 DEF CountInv, InBounds
      <4>2. freeThreadIds[top[u]] = currentThreadId[u]
        BY <4>1 DEF Partition, SlotsApart
      <4>3. QED
        BY <1>3, <1>5, <4>1, <4>2
    <3>3. QED
      BY <3>1, <3>2
  <2>4. QED
    BY <2>1, <2>2, <2>3 DEF SlotsApart
<1>12. IdsApart'
  BY <1>4, <1>7, <1>10 DEF Partition, IdsApart
<1>13. NoneLost'
  BY <1>4, <1>7, <1>10 DEF Partition, NoneLost
<1>14. QED
  BY <1>11, <1>12, <1>13 DEF Partition

(* The slot t has written becomes the top of the stack. *)
LEMMA PartitionFreeCas ==
  ASSUME CountInv, Partition, NEW t \in Threads, FreeCas(t)
  PROVE  Partition'
<1> USE MaxThreadsFits DEF Goto
<1>1. /\ freeThreadTop \in Nat /\ top \in [Threads -> Nat] /\ top[t] = freeThreadTop
      /\ freeThreadTop' = freeThreadTop + 1 /\ top' = top
      /\ freeThreadIds' = freeThreadIds /\ currentThreadId' = currentThreadId
      /\ pc[t] = "freeCas" /\ pc' = [pc EXCEPT ![t] = "freed"] /\ pc \in [Threads -> PCs]
  BY DEF FreeCas, CountInv, TypeOK
<1>2. /\ Holders' = Holders \ {t} /\ t \in Holders
      /\ Reserving' = Reserving \ {t} /\ t \in Reserving
  BY <1>1 DEF Holders, Reserving
<1>3. Stack' = Stack \cup {freeThreadTop} /\ freeThreadTop \notin Stack
  BY <1>1 DEF Stack
<1>4. /\ \A u \in Holders' : Own(u)' = Own(u)
      /\ \A u \in Reserving' : Reserved(u)' = Reserved(u)
  BY <1>1, <1>2 DEF Own, Reserved, Holders, Reserving
<1>5. freeThreadIds[freeThreadTop] = Own(t) /\ Reserved(t) = freeThreadTop
  BY <1>1 DEF Partition, SlotsApart, Own, Reserved
<1>6. SlotsApart'
  <2>1. ASSUME NEW u \in Reserving' PROVE Reserved(u)' >= freeThreadTop'
    <3>1. Reserved(u) >= freeThreadTop /\ Reserved(u) # freeThreadTop
      BY <1>2, <1>5 DEF Partition, SlotsApart
    <3>2. Reserved(u) \in Int
      BY <1>1, <1>2 DEF Reserved, Reserving
    <3>3. QED
      BY <1>1, <1>4, <3>1, <3>2
  <2>2. \A u, v \in Reserving' : Reserved(u)' = Reserved(v)' => u = v
    BY <1>2, <1>4 DEF Partition, SlotsApart
  <2>3. \A u \in Threads : pc'[u] = "freeCas" => freeThreadIds'[top'[u]] = currentThreadId'[u]
    BY <1>1 DEF Partition, SlotsApart
  <2>4. QED
    BY <2>1, <2>2, <2>3 DEF SlotsApart
<1>7. IdsApart'
  BY <1>1, <1>2, <1>3, <1>4, <1>5 DEF Partition, IdsApart
<1>8. NoneLost'
  BY <1>1, <1>2, <1>3, <1>4, <1>5 DEF Partition, NoneLost
<1>9. QED
  BY <1>6, <1>7, <1>8 DEF Partition

(* The steps that QuietStep covers, in the form it wants. *)
LEMMA PartitionQuiet ==
  ASSUME CountInv, Partition, NEW t \in Threads,
         \/ Enter(t) \/ AllocLoad(t) \/ AllocRefused(t) \/ AllocRetry(t) \/ AllocRead(t)
         \/ EntryReturns(t) \/ FreeLoad(t) \/ FreeRetry(t) \/ Leave(t)
  PROVE  Partition'
<1> USE DEF Goto
<1>1. /\ freeThreadIds' = freeThreadIds /\ freeThreadTop' = freeThreadTop
      /\ \A u \in Threads : u # t => /\ pc'[u] = pc[u] /\ top'[u] = top[u]
                                    /\ currentThreadId'[u] = currentThreadId[u]
  BY DEF Enter, AllocLoad, AllocRefused, AllocRetry, AllocRead, EntryReturns, FreeLoad,
         FreeRetry, Leave, CountInv, TypeOK
<1>2. CASE FreeLoad(t)
  <2>1. ~(freeThreadTop >= MaxThreads)
    BY MaxThreadsFits DEF CountInv, TypeOK
  <2>2. pc[t] = "freeLoad" /\ pc'[t] = "freeWrite" /\ currentThreadId' = currentThreadId
    BY <1>2, <2>1 DEF FreeLoad, CountInv, TypeOK
  <2>3. Holders' = Holders /\ Reserving' = Reserving
    BY <1>1, <2>2 DEF Holders, Reserving
  <2>4. \A u \in Holders : Own(u)' = Own(u)
    BY <1>1, <2>2 DEF Own, Holders
  <2>5. \A u \in Reserving' : Reserved(u)' = Reserved(u)
    BY <1>1, <2>2 DEF Reserved, Reserving
  <2>6. \A u \in Threads : pc'[u] = "freeCas" => pc[u] = "freeCas" /\ top'[u] = top[u]
    BY <1>1, <2>2
  <2>7. QED
    BY <1>1, <2>2, <2>3, <2>4, <2>5, <2>6, QuietStep
<1>3. CASE AllocRead(t)
  <2>1. /\ pc[t] = "allocRead" /\ pc'[t] = "held" /\ top' = top
        /\ currentThreadId'[t] = freeThreadIds[top[t] - 1]
    BY <1>3 DEF AllocRead, CountInv, TypeOK
  <2>2. Holders' = Holders /\ Reserving' \subseteq Reserving
    BY <1>1, <2>1 DEF Holders, Reserving
  <2>3. /\ \A u \in Holders : Own(u)' = Own(u)
        /\ \A u \in Reserving' : Reserved(u)' = Reserved(u)
        /\ \A u \in Threads : pc'[u] = "freeCas" =>
              pc[u] = "freeCas" /\ currentThreadId'[u] = currentThreadId[u]
    BY <1>1, <2>1 DEF Own, Reserved, Holders, Reserving
  <2>4. QED
    BY <1>1, <2>1, <2>2, <2>3, QuietStep
<1>4. CASE FreeRetry(t) \/ EntryReturns(t)
  <2>1. /\ pc[t] \in {"freeCas", "held"} /\ pc'[t] = "freeLoad"
        /\ top' = top /\ currentThreadId' = currentThreadId
    BY <1>4 DEF FreeRetry, EntryReturns, CountInv, TypeOK
  <2>2. Holders' = Holders /\ Reserving' \subseteq Reserving
    BY <1>1, <2>1 DEF Holders, Reserving
  <2>3. /\ \A u \in Holders : Own(u)' = Own(u)
        /\ \A u \in Reserving' : Reserved(u)' = Reserved(u)
        /\ \A u \in Threads : pc'[u] = "freeCas" => pc[u] = "freeCas"
    BY <1>1, <2>1 DEF Own, Reserved, Holders, Reserving
  <2>4. QED
    BY <1>1, <2>1, <2>2, <2>3, QuietStep
<1>5. CASE Enter(t) \/ AllocLoad(t) \/ AllocRefused(t) \/ AllocRetry(t) \/ Leave(t)
  <2>1. /\ t \notin Holders /\ t \notin Holders' /\ t \notin Reserving /\ t \notin Reserving'
        /\ pc'[t] # "freeCas"
    BY <1>5 DEF Enter, AllocLoad, AllocRefused, AllocRetry, Leave, Holders, Reserving,
                CountInv, TypeOK
  <2>2. Holders' = Holders /\ Reserving' = Reserving
    BY <1>1, <2>1 DEF Holders, Reserving
  <2>3. /\ \A u \in Holders : Own(u)' = Own(u)
        /\ \A u \in Reserving' : Reserved(u)' = Reserved(u)
    BY <1>1, <2>1, <2>2 DEF Own, Reserved, Holders, Reserving
  <2>4. \A u \in Threads : pc'[u] = "freeCas" =>
           pc[u] = "freeCas" /\ top'[u] = top[u] /\ currentThreadId'[u] = currentThreadId[u]
    BY <1>1, <2>1
  <2>5. QED
    BY <1>1, <2>2, <2>3, <2>4, QuietStep
<1>6. QED
  BY <1>2, <1>3, <1>4, <1>5

LEMMA PartitionStep == CountInv /\ PartitionInv /\ [Next]_idVars => PartitionInv'
<1> SUFFICES ASSUME CountInv, PartitionInv, [Next]_idVars, table' = "intact" PROVE Partition'
  BY DEF PartitionInv
<1>1. table = "intact"
  BY DEF Next, PoolStep, Enter, AllocLoad, AllocRefused, AllocCas, AllocRetry, AllocRead,
         EntryReturns, FreeLoad, FreeWrite, FreeCas, FreeRetry, Leave, idVars
<1>2. Partition
  BY <1>1 DEF PartitionInv
<1>3. CASE UNCHANGED idVars
  BY <1>2, <1>3 DEF idVars, Partition, SlotsApart, IdsApart, NoneLost, Stack, Holders, Reserving,
                    Own, Reserved
<1>4. CASE Next
  BY <1>2, <1>4, PartitionQuiet, PartitionAllocCas, PartitionFreeWrite, PartitionFreeCas
  DEF Next, PoolStep
<1>5. QED
  BY <1>3, <1>4

THEOREM PartitionInvariant == Spec => []PartitionInv
BY PartitionInit, PartitionStep, CountInvariant, PTL DEF Spec

(* Until a store of freeThreadId hits a slot in use, running entries have  *)
(* different ids, for every number of threads and every interleaving.      *)
THEOREM IdsUnique == Spec => []UniqueUnlessClobbered
<1>1. CountInv /\ PartitionInv => UniqueUnlessClobbered
  BY DEF PartitionInv, Partition, IdsApart, UniqueUnlessClobbered, UniqueIds, Own, Holders
<1>2. QED
  BY <1>1, CountInvariant, PartitionInvariant, PTL

(* Until then no id disappears either. *)
THEOREM IdsNotLost == Spec => []NoneLostUnlessClobbered
<1>1. CountInv /\ PartitionInv => NoneLostUnlessClobbered
  <2> SUFFICES ASSUME CountInv, Partition PROVE StackIds \cup {Own(t) : t \in Holders} = Ids
    BY DEF PartitionInv, NoneLostUnlessClobbered
  <2> USE MaxThreadsFits
  <2>1. StackIds \subseteq Ids
    BY DEF StackIds, CountInv, TypeOK, Slots
  <2>2. ASSUME NEW t \in Holders PROVE Own(t) \in Ids
    <3>1. CASE pc[t] = "allocRead"
      BY <3>1 DEF Own, Holders, CountInv, InBounds, TypeOK
    <3>2. CASE pc[t] # "allocRead"
      BY <3>2 DEF Own, Holders, CountInv, NeverMainId, Knowing
    <3>3. QED
      BY <3>1, <3>2
  <2>3. Ids \subseteq StackIds \cup {Own(t) : t \in Holders}
    BY DEF Partition, NoneLost, StackIds, Stack
  <2>4. QED
    BY <2>1, <2>2, <2>3
<1>2. QED
  BY <1>1, CountInvariant, PartitionInvariant, PTL
================================================================================
