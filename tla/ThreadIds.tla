------------------------------- MODULE ThreadIds -------------------------------
(***************************************************************************)
(* The lock-free pool of thread ids of src/threading/avThread.c:           *)
(* freeThreadIds is a stack of ids, freeThreadTop the atomic number of ids *)
(* on it.  run() takes an id before it calls the thread's entry and gives  *)
(* it back afterwards.  Every atomic operation, and every plain access to  *)
(* the table between two of them, is a step of its own, so that the        *)
(* threads interleave as the code lets them.                               *)
(*                                                                         *)
(* The table starts filled: initThreadIDs has run.  AvThread.tla models    *)
(* who runs it and when.                                                   *)
(***************************************************************************)
EXTENDS Naturals, FiniteSets

CONSTANTS Threads,    (* the operating-system threads that execute run()      *)
          MaxThreads  (* AV_MAX_THREADS: id 0 is the main thread's, so there  *)
                      (* are MaxThreads - 1 ids to hand out                   *)

ASSUME ThreadsFinite == IsFiniteSet(Threads)
(* An AvThreadID is a uint16 and 65535 is AV_INVALID_THREAD_ID. *)
ASSUME MaxThreadsFits == MaxThreads \in Nat /\ 2 <= MaxThreads /\ MaxThreads <= 65535

MainThreadId    == 0
InvalidThreadId == 65535
Slots == 0..(MaxThreads - 2)
Ids   == 1..(MaxThreads - 1)

VARIABLES
  freeThreadIds,    (* the table; the free ids are in the slots below freeThreadTop *)
  freeThreadTop,    (* the atomic counter                                           *)
  pc,               (* where each thread is in run()                                *)
  top,              (* the local variable top of allocateThreadId and freeThreadId  *)
  currentThreadId,  (* the thread-local id                                          *)
  table             (* history: "clobbered" once a store hit a slot that was in use *)

idVars == <<freeThreadIds, freeThreadTop, pc, top, currentThreadId, table>>

--------------------------------------------------------------------------------

Goto(t, from, to) == pc[t] = from /\ pc' = [pc EXCEPT ![t] = to]

(* Mutation: as if the main thread's id had been taken from the table too. *)
InitialIdLessTwo(i) == MaxThreads - 2 - i
(* Mutation: one too many. *)
InitialIdFromMax(i) == MaxThreads - i

(* What initThreadIDs writes in slot i. *)
InitialId(i) == MaxThreads - 1 - i

Init ==
    /\ freeThreadIds = [i \in Slots |-> InitialId(i)]
    /\ freeThreadTop = MaxThreads - 1
    /\ pc = [t \in Threads |-> "idle"]
    /\ top = [t \in Threads |-> 0]
    /\ currentThreadId = [t \in Threads |-> MainThreadId]
    /\ table = "intact"

(* The operating system runs run() in t; its thread-local id starts as 0. *)
Enter(t) ==
    /\ Goto(t, "idle", "allocLoad")
    /\ currentThreadId' = [currentThreadId EXCEPT ![t] = MainThreadId]
    /\ UNCHANGED <<freeThreadIds, freeThreadTop, top, table>>

(* allocateThreadId *)

(* Mutation: the counter is not tested for 0. *)
AllocLoadUntested(t) ==
    /\ Goto(t, "allocLoad", "allocCas")
    /\ top' = [top EXCEPT ![t] = freeThreadTop]
    /\ UNCHANGED <<freeThreadIds, freeThreadTop, currentThreadId, table>>

AllocLoad(t) ==
    /\ freeThreadTop # 0
    /\ Goto(t, "allocLoad", "allocCas")
    /\ top' = [top EXCEPT ![t] = freeThreadTop]
    /\ UNCHANGED <<freeThreadIds, freeThreadTop, currentThreadId, table>>

(* Mutation: the last id is never handed out. *)
AllocRefusedEarly(t) ==
    /\ freeThreadTop <= 1
    /\ Goto(t, "allocLoad", "refused")
    /\ top' = [top EXCEPT ![t] = 0]
    /\ currentThreadId' = [currentThreadId EXCEPT ![t] = InvalidThreadId]
    /\ UNCHANGED <<freeThreadIds, freeThreadTop, table>>

AllocRefused(t) ==
    /\ freeThreadTop = 0
    /\ Goto(t, "allocLoad", "refused")
    /\ top' = [top EXCEPT ![t] = 0]
    /\ currentThreadId' = [currentThreadId EXCEPT ![t] = InvalidThreadId]
    /\ UNCHANGED <<freeThreadIds, freeThreadTop, table>>

(* Mutation: a plain store instead of the compare-and-swap. *)
AllocStore(t) ==
    /\ Goto(t, "allocCas", "allocRead")
    /\ freeThreadTop' = top[t] - 1
    /\ UNCHANGED <<freeThreadIds, top, currentThreadId, table>>

AllocCas(t) ==
    /\ freeThreadTop = top[t]
    /\ Goto(t, "allocCas", "allocRead")
    /\ freeThreadTop' = top[t] - 1
    /\ UNCHANGED <<freeThreadIds, top, currentThreadId, table>>

(* Mutation: the loop does not load the counter again. *)
AllocRetryStale(t) ==
    /\ Goto(t, "allocCas", "allocCas")
    /\ UNCHANGED <<freeThreadIds, freeThreadTop, top, currentThreadId, table>>

(* The weak compare-and-swap fails: the counter moved, or spuriously. *)
AllocRetry(t) ==
    /\ Goto(t, "allocCas", "allocLoad")
    /\ UNCHANGED <<freeThreadIds, freeThreadTop, top, currentThreadId, table>>

(* The id is read from the table only after the counter has given it away. *)
AllocRead(t) ==
    /\ Goto(t, "allocRead", "held")
    /\ currentThreadId' = [currentThreadId EXCEPT ![t] = freeThreadIds[top[t] - 1]]
    /\ UNCHANGED <<freeThreadIds, freeThreadTop, top, table>>

(* Mutation: the thread ends before freeThreadId, as with the              *)
(* _endthreadex of the Windows run().                                      *)
EntryEndsThread(t) ==
    /\ Goto(t, "held", "freed")
    /\ UNCHANGED <<freeThreadIds, freeThreadTop, top, currentThreadId, table>>

(* thread->entry has run with the id, and returns. *)
EntryReturns(t) ==
    /\ Goto(t, "held", "freeLoad")
    /\ UNCHANGED <<freeThreadIds, freeThreadTop, top, currentThreadId, table>>

(* freeThreadId *)

(* Mutation: the limit is two too low. *)
FreeLoadLow(t) ==
    /\ Goto(t, "freeLoad", IF freeThreadTop >= MaxThreads - 2 THEN "freed" ELSE "freeWrite")
    /\ top' = [top EXCEPT ![t] = freeThreadTop]
    /\ UNCHANGED <<freeThreadIds, freeThreadTop, currentThreadId, table>>

FreeLoad(t) ==
    /\ Goto(t, "freeLoad", IF freeThreadTop >= MaxThreads THEN "freed" ELSE "freeWrite")
    /\ top' = [top EXCEPT ![t] = freeThreadTop]
    /\ UNCHANGED <<freeThreadIds, freeThreadTop, currentThreadId, table>>

(* Slot i holds a free id, or an id another thread is about to read, or    *)
(* the id another thread has stored and is about to publish.               *)
InUse(t, i) ==
    \/ i < freeThreadTop
    \/ \E u \in Threads \ {t} : \/ pc[u] = "allocRead" /\ top[u] = i + 1
                                \/ pc[u] = "freeCas" /\ top[u] = i

(* Mutation: the id is not stored. *)
FreeWriteNothing(t) ==
    /\ Goto(t, "freeWrite", "freeCas")
    /\ table' = IF InUse(t, top[t]) THEN "clobbered" ELSE table
    /\ UNCHANGED <<freeThreadIds, freeThreadTop, top, currentThreadId>>

(* The id is stored in the table before the counter has granted the slot. *)
FreeWrite(t) ==
    /\ Goto(t, "freeWrite", "freeCas")
    /\ freeThreadIds' = [freeThreadIds EXCEPT ![top[t]] = currentThreadId[t]]
    /\ table' = IF InUse(t, top[t]) THEN "clobbered" ELSE table
    /\ UNCHANGED <<freeThreadTop, top, currentThreadId>>

FreeCas(t) ==
    /\ freeThreadTop = top[t]
    /\ Goto(t, "freeCas", "freed")
    /\ freeThreadTop' = top[t] + 1
    /\ UNCHANGED <<freeThreadIds, top, currentThreadId, table>>

FreeRetry(t) ==
    /\ Goto(t, "freeCas", "freeLoad")
    /\ UNCHANGED <<freeThreadIds, freeThreadTop, top, currentThreadId, table>>

(* run() ends: after freeThreadId, or at once when there was no id. *)
Leave(t) ==
    /\ pc[t] \in {"freed", "refused"}
    /\ pc' = [pc EXCEPT ![t] = "idle"]
    /\ currentThreadId' = [currentThreadId EXCEPT ![t] = InvalidThreadId]
    /\ UNCHANGED <<freeThreadIds, freeThreadTop, top, table>>

--------------------------------------------------------------------------------

(* One step of a call in progress. *)
PoolStep(t) ==
    \/ AllocLoad(t) \/ AllocRefused(t) \/ AllocCas(t) \/ AllocRetry(t) \/ AllocRead(t)
    \/ FreeLoad(t) \/ FreeWrite(t) \/ FreeCas(t) \/ FreeRetry(t)

Cas == \E t \in Threads : AllocCas(t) \/ FreeCas(t)

Next == \E t \in Threads : Enter(t) \/ PoolStep(t) \/ EntryReturns(t) \/ Leave(t)

Spec == Init /\ [][Next]_idVars

(* Every thread inside a call keeps being scheduled, and a weak            *)
(* compare-and-swap does not fail spuriously for ever: if time and again   *)
(* some thread's comparison would succeed, some compare-and-swap does.     *)
PoolFairness == /\ \A t \in Threads : WF_idVars(PoolStep(t))
                /\ SF_idVars(Cas)

LiveSpec == Spec /\ PoolFairness

--------------------------------------------------------------------------------

PCs == {"idle", "allocLoad", "allocCas", "allocRead", "refused", "held",
        "freeLoad", "freeWrite", "freeCas", "freed"}

TypeOK ==
    /\ freeThreadIds \in [Slots -> Ids]
    /\ freeThreadTop \in 0..(MaxThreads - 1)
    /\ pc \in [Threads -> PCs]
    /\ top \in [Threads -> 0..(MaxThreads - 1)]
    /\ currentThreadId \in [Threads -> Ids \cup {MainThreadId, InvalidThreadId}]
    /\ table \in {"intact", "clobbered"}

(* The threads an id has been given to and that have not given it back.   *)
Holders == {t \in Threads :
              pc[t] \in {"allocRead", "held", "freeLoad", "freeWrite", "freeCas"}}

(* Those of them that know which id it is. *)
Knowing == {t \in Threads : pc[t] \in {"held", "freeLoad", "freeWrite", "freeCas"}}

(* No id is created or lost in number, however the calls interleave: the   *)
(* counter and the threads that hold an id always add up to                *)
(* AV_MAX_THREADS - 1.  With it, the test `top >= AV_MAX_THREADS` of       *)
(* freeThreadId, which is off by one for a table of AV_MAX_THREADS - 1     *)
(* slots, is never needed.                                                 *)
Conserved == freeThreadTop + Cardinality(Holders) = MaxThreads - 1

(* Every access to the table is inside it: allocateThreadId never reads    *)
(* below slot 0 and freeThreadId, which stores before it owns the slot,    *)
(* never stores past the last one.                                         *)
InBounds ==
    \A t \in Threads :
        /\ pc[t] \in {"allocCas", "allocRead"} => top[t] - 1 \in Slots
        /\ pc[t] \in {"freeWrite", "freeCas"} => top[t] \in Slots

(* "MAIN_THREAD WILL always be 0": a thread whose entry runs has an id     *)
(* that is neither the main thread's nor the invalid one, even after ids   *)
(* were overwritten in the table.                                          *)
NeverMainId == \A t \in Knowing : currentThreadId[t] \in Ids

(* Two threads that run their entries at the same time have two ids.       *)
UniqueIds ==
    \A t, u \in Threads :
        pc[t] = "held" /\ pc[u] = "held" /\ currentThreadId[t] = currentThreadId[u] => t = u

(* Where the ids are: in the slots below the counter, and with the         *)
(* holders, one of which may still have to read its id from the table.     *)
StackIds == {freeThreadIds[i] : i \in 0..(freeThreadTop - 1)}
Own(t) == IF pc[t] = "allocRead" THEN freeThreadIds[top[t] - 1] ELSE currentThreadId[t]

(* As long as no freeThreadId has stored into a slot that was in use, no   *)
(* two running entries have the same id ...                                *)
UniqueUnlessClobbered == table = "intact" => UniqueIds

(* ... and no id is lost: each one can still be handed out, or is held.    *)
NoneLostUnlessClobbered == table = "intact" => StackIds \cup {Own(t) : t \in Holders} = Ids

(* The threads whose avThreadStart succeeded but whose entry is not run.   *)
Refusing == {t \in Threads : pc[t] = "refused"}

(* The abstract pool: an id changes hands when the compare-and-swap that   *)
(* gives it away, or takes it back, succeeds.                              *)
Pool == INSTANCE CountedPool
          WITH Users <- Threads, Total <- MaxThreads - 1,
               holders <- Holders, refused <- Refusing

(* The lock-free loops implement the counted pool: more than               *)
(* AV_MAX_THREADS - 1 threads never hold an id, and AV_INVALID_THREAD_ID   *)
(* is returned only if at some instant of the call every id was out.       *)
ImplementsPool == Pool!Spec

Busy == \E t \in Threads : pc[t] \in {"allocLoad", "allocCas", "allocRead",
                                      "freeLoad", "freeWrite", "freeCas"}

(* The loops are lock-free: as long as calls are in progress, calls end.   *)
(* (They are not wait-free: one thread may lose every compare-and-swap.)   *)
LockFree ==
    []<>~Busy \/ []<><<\E t \in Threads : AllocRead(t) \/ AllocRefused(t) \/ FreeCas(t)>>_idVars
================================================================================
