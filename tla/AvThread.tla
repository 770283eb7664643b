-------------------------------- MODULE AvThread --------------------------------
(***************************************************************************)
(* src/threading/avThread.c on POSIX: the thread handles that clients      *)
(* create, start, join and destroy, the pthread that executes run() for a  *)
(* started handle, and the pool of ids run() takes its id from             *)
(* (ThreadIds.tla), filled by the first avThreadCreate.                    *)
(*                                                                         *)
(* An element of Threads is a handle and the pthread started for it.  A    *)
(* handle is used by one client only (the header asks for no more), so     *)
(* that a call on a handle is one step wherever it does not wait.  A call  *)
(* that is refused (start of a running handle, join of a stopped one,      *)
(* failure of pthread_create) returns an error and changes nothing.        *)
(***************************************************************************)
EXTENDS ThreadIds

CONSTANTS Clients,   (* the threads that call avThreadCreate, Start, Join, Destroy *)
          Owner,     (* Owner[t]: the client that uses handle t                    *)
          NoThread,  (* what a client that is in no call works on                   *)
          MaxStarts  (* bound: how often one handle is started                     *)

ASSUME OwnerIsClient == Owner \in [Threads -> Clients]
ASSUME ClientsAreNotThreads == Clients \cap Threads = {}
ASSUME NoThreadIsNone == NoThread \notin Threads
ASSUME MaxStartsIsNat == MaxStarts \in Nat

VARIABLES
  threadIDsInitialized,
  state,     (* thread->state                                                   *)
  pthread,   (* the pthread behind the handle: "none", "live" or "ended"        *)
  result,    (* what run() returned: nothing yet, the entry's value, or NULL    *)
  call,      (* what each client is in: [at, thread, i]                         *)
  starts,    (* history: successful avThreadStart calls of each handle          *)
  entries,   (* history: calls of each handle's entry                           *)
  refusals   (* history: runs that ended without calling the entry              *)

handleVars == <<threadIDsInitialized, state, pthread, result, call, starts, entries, refusals>>
threadVars == <<idVars, handleVars>>

Ready == [at |-> "ready", thread |-> NoThread, i |-> 0]

--------------------------------------------------------------------------------

ThreadInit ==
    /\ freeThreadIds = [i \in Slots |-> 0]
    /\ freeThreadTop = MaxThreads - 1
    /\ pc = [t \in Threads |-> "idle"]
    /\ top = [t \in Threads |-> 0]
    /\ currentThreadId = [t \in Threads |-> MainThreadId]
    /\ table = "intact"
    /\ threadIDsInitialized = FALSE
    /\ state = [t \in Threads |-> "uninitialized"]
    /\ pthread = [t \in Threads |-> "none"]
    /\ result = [t \in Threads |-> "none"]
    /\ call = [c \in Clients |-> Ready]
    /\ starts = [t \in Threads |-> 0]
    /\ entries = [t \in Threads |-> 0]
    /\ refusals = [t \in Threads |-> 0]

Calls(t) == call[Owner[t]] = Ready
Enters(t, at) == call' = [call EXCEPT ![Owner[t]] = [at |-> at, thread |-> t, i |-> 0]]
Returns(c) == call' = [call EXCEPT ![c] = Ready]

(* avThreadCreate, when the table is filled and when it is not: the flag   *)
(* is tested without synchronisation.                                      *)
Create(t) ==
    /\ Calls(t)
    /\ state[t] = "uninitialized"
    /\ threadIDsInitialized
    /\ state' = [state EXCEPT ![t] = "stopped"]
    /\ UNCHANGED <<idVars, threadIDsInitialized, pthread, result, call, starts, entries, refusals>>

(* Mutation: every avThreadCreate fills the table. *)
CreateAlwaysFills(t) ==
    /\ Calls(t)
    /\ state[t] = "uninitialized"
    /\ Enters(t, "fill")
    /\ UNCHANGED <<idVars, threadIDsInitialized, state, pthread, result, starts, entries, refusals>>

CreateFirst(t) ==
    /\ Calls(t)
    /\ state[t] = "uninitialized"
    /\ ~threadIDsInitialized
    /\ Enters(t, "fill")
    /\ UNCHANGED <<idVars, threadIDsInitialized, state, pthread, result, starts, entries, refusals>>

(* initThreadIDs: one slot per step, the flag last; the counter is left    *)
(* alone.                                                                  *)
FillSlot(c) ==
    LET i == call[c].i IN
    /\ call[c].at = "fill"
    /\ i \in Slots
    /\ freeThreadIds' = [freeThreadIds EXCEPT ![i] = InitialId(i)]
    /\ table' = IF threadIDsInitialized /\ freeThreadIds[i] # InitialId(i) /\ InUse(c, i)
                   THEN "clobbered" ELSE table
    /\ call' = [call EXCEPT ![c].i = i + 1]
    /\ UNCHANGED <<freeThreadTop, pc, top, currentThreadId, threadIDsInitialized,
                   state, pthread, result, starts, entries, refusals>>

(* Mutation: the counter is reset with the table. *)
FinishFillResets(c) ==
    /\ call[c].at = "fill"
    /\ call[c].i \notin Slots
    /\ threadIDsInitialized' = TRUE
    /\ freeThreadTop' = MaxThreads - 1
    /\ state' = [state EXCEPT ![call[c].thread] = "stopped"]
    /\ Returns(c)
    /\ UNCHANGED <<freeThreadIds, pc, top, currentThreadId, table, pthread, result,
                   starts, entries, refusals>>

FinishFill(c) ==
    /\ call[c].at = "fill"
    /\ call[c].i \notin Slots
    /\ threadIDsInitialized' = TRUE
    /\ state' = [state EXCEPT ![call[c].thread] = "stopped"]
    /\ Returns(c)
    /\ UNCHANGED <<idVars, pthread, result, starts, entries, refusals>>

(* avThreadStart with a pthread_create that succeeds. *)
Start(t) ==
    /\ Calls(t)
    /\ starts[t] < MaxStarts
    /\ state[t] = "stopped"
    /\ state' = [state EXCEPT ![t] = "running"]
    /\ pthread' = [pthread EXCEPT ![t] = "live"]
    /\ result' = [result EXCEPT ![t] = "none"]
    /\ starts' = [starts EXCEPT ![t] = @ + 1]
    /\ UNCHANGED <<idVars, threadIDsInitialized, call, entries, refusals>>

(* avThreadJoin, and avThreadDestroy of a running handle, wait for the     *)
(* pthread to end.                                                         *)
Join(t) ==
    /\ Calls(t)
    /\ state[t] = "running"
    /\ Enters(t, "join")
    /\ UNCHANGED <<idVars, threadIDsInitialized, state, pthread, result, starts, entries, refusals>>

(* Mutation: the join does not wait. *)
JoinReturnsAtOnce(c) ==
    LET t == call[c].thread IN
    /\ call[c].at = "join"
    /\ state' = [state EXCEPT ![t] = "stopped"]
    /\ Returns(c)
    /\ UNCHANGED <<idVars, threadIDsInitialized, pthread, result, starts, entries, refusals>>

JoinReturns(c) ==
    LET t == call[c].thread IN
    /\ call[c].at = "join"
    /\ pthread[t] = "ended"
    /\ pthread' = [pthread EXCEPT ![t] = "none"]
    /\ state' = [state EXCEPT ![t] = "stopped"]
    /\ Returns(c)
    /\ UNCHANGED <<idVars, threadIDsInitialized, result, starts, entries, refusals>>

(* Mutation: a running handle is freed without joining it. *)
DestroyAtOnce(t) ==
    /\ Calls(t)
    /\ state[t] = "running"
    /\ state' = [state EXCEPT ![t] = "uninitialized"]
    /\ UNCHANGED <<idVars, threadIDsInitialized, pthread, result, call, starts, entries, refusals>>

DestroyRunning(t) ==
    /\ Calls(t)
    /\ state[t] = "running"
    /\ Enters(t, "destroy")
    /\ UNCHANGED <<idVars, threadIDsInitialized, state, pthread, result, starts, entries, refusals>>

DestroyReturns(c) ==
    LET t == call[c].thread IN
    /\ call[c].at = "destroy"
    /\ pthread[t] = "ended"
    /\ pthread' = [pthread EXCEPT ![t] = "none"]
    /\ state' = [state EXCEPT ![t] = "uninitialized"]
    /\ Returns(c)
    /\ UNCHANGED <<idVars, threadIDsInitialized, result, starts, entries, refusals>>

DestroyStopped(t) ==
    /\ Calls(t)
    /\ state[t] = "stopped"
    /\ state' = [state EXCEPT ![t] = "uninitialized"]
    /\ UNCHANGED <<idVars, threadIDsInitialized, pthread, result, call, starts, entries, refusals>>

--------------------------------------------------------------------------------
(* run(), in the pthread of a started handle.                              *)

Begin(t) ==
    /\ pthread[t] = "live"
    /\ Enter(t)
    /\ UNCHANGED handleVars

Refused(t) ==
    /\ AllocRefused(t)
    /\ result' = [result EXCEPT ![t] = "NULL"]
    /\ refusals' = [refusals EXCEPT ![t] = @ + 1]
    /\ UNCHANGED <<threadIDsInitialized, state, pthread, call, starts, entries>>

(* The calls on the pool, the refusal apart. *)
PoolCall(t) == PoolStep(t) /\ pc'[t] # "refused" /\ UNCHANGED handleVars

(* thread->entry(thread->buffer, thread->bufferSize) *)
CallEntry(t) ==
    /\ EntryReturns(t)
    /\ result' = [result EXCEPT ![t] = "value"]
    /\ entries' = [entries EXCEPT ![t] = @ + 1]
    /\ UNCHANGED <<threadIDsInitialized, state, pthread, call, starts, refusals>>

(* Mutation: a thread that got no id spins instead of ending. *)
ExitSpins(t) ==
    IF pc[t] = "refused"
    THEN UNCHANGED threadVars
    ELSE /\ Leave(t)
         /\ pthread' = [pthread EXCEPT ![t] = "ended"]
         /\ UNCHANGED <<threadIDsInitialized, state, result, call, starts, entries, refusals>>

Exit(t) ==
    /\ Leave(t)
    /\ pthread' = [pthread EXCEPT ![t] = "ended"]
    /\ UNCHANGED <<threadIDsInitialized, state, result, call, starts, entries, refusals>>

Run(t) == Begin(t) \/ Refused(t) \/ PoolCall(t) \/ CallEntry(t) \/ Exit(t)

Client(c) ==
    \/ FillSlot(c) \/ FinishFill(c) \/ JoinReturns(c) \/ DestroyReturns(c)
    \/ \E t \in Threads :
          /\ Owner[t] = c
          /\ \/ Create(t) \/ CreateFirst(t) \/ Start(t) \/ Join(t)
             \/ DestroyRunning(t) \/ DestroyStopped(t)

ThreadNext == (\E t \in Threads : Run(t)) \/ (\E c \in Clients : Client(c))

ThreadSpec == ThreadInit /\ [][ThreadNext]_threadVars

(* The scheduler runs every pthread, entries return, weak compare-and-swap *)
(* does not fail spuriously for ever, and a client that is inside a call   *)
(* goes on with it.  Nothing makes a client call.                          *)
ThreadFairness ==
    /\ \A t \in Threads : WF_threadVars(Run(t))
    /\ SF_threadVars(\E t \in Threads : (AllocCas(t) \/ FreeCas(t)) /\ UNCHANGED handleVars)
    /\ \A c \in Clients : WF_threadVars(FillSlot(c) \/ FinishFill(c) \/ JoinReturns(c) \/ DestroyReturns(c))

ThreadLiveSpec == ThreadSpec /\ ThreadFairness

--------------------------------------------------------------------------------

ThreadTypeOK ==
    /\ freeThreadIds \in [Slots -> Ids \cup {0}]
    /\ freeThreadTop \in 0..(MaxThreads - 1)
    /\ pc \in [Threads -> PCs]
    /\ top \in [Threads -> 0..(MaxThreads - 1)]
    /\ currentThreadId \in [Threads -> Ids \cup {MainThreadId, InvalidThreadId}]
    /\ threadIDsInitialized \in BOOLEAN
    /\ state \in [Threads -> {"uninitialized", "stopped", "running"}]
    /\ pthread \in [Threads -> {"none", "live", "ended"}]
    /\ result \in [Threads -> {"none", "value", "NULL"}]
    /\ call \in [Clients -> [at : {"ready", "fill", "join", "destroy"},
                             thread : Threads \cup {NoThread}, i : 0..(MaxThreads - 1)]]
    /\ starts \in [Threads -> 0..MaxStarts]

(* A handle's memory, which run() reads until it has called the entry, is  *)
(* not freed under a live pthread, and no second pthread is started for it.*)
HandleOutlivesRun ==
    \A t \in Threads : pthread[t] = "live" \/ pc[t] # "idle" => state[t] = "running"

(* A start that has been joined called the entry exactly once, or not at   *)
(* all because no id was left; avThreadStart returned true either way, and *)
(* only the join's value (0 for the latter) can tell.                      *)
JoinedStartsAreSettled ==
    \A t \in Threads :
        state[t] # "running" => /\ starts[t] = entries[t] + refusals[t]
                                /\ starts[t] > 0 => result[t] \in {"value", "NULL"}

(* When no pthread is left every id is back in the table: avThreadJoin     *)
(* returns only after freeThreadId, so a program that joins its threads    *)
(* can start AV_MAX_THREADS - 1 more.                                      *)
PoolWholeWhenJoined ==
    (\A t \in Threads : pthread[t] # "live")
      => freeThreadTop = MaxThreads - 1 /\ (table = "intact" /\ threadIDsInitialized => StackIds = Ids)

(* While only one client creates threads the table is filled once, before  *)
(* any thread runs, so that handles and pthreads use the pool as           *)
(* ThreadIds.tla describes it.                                             *)
FilledTable == IF threadIDsInitialized THEN freeThreadIds ELSE [i \in Slots |-> InitialId(i)]
FilledPool == INSTANCE ThreadIds WITH freeThreadIds <- FilledTable
ImplementsThreadIds == FilledPool!Spec

(* A started thread ends: nobody waits for ever in allocateThreadId or     *)
(* freeThreadId, and an avThreadJoin or avThreadDestroy returns.           *)
StartedThreadEnds == \A t \in Threads : pthread[t] = "live" ~> pthread[t] = "ended"
CallsReturn == \A c \in Clients : call[c].at # "ready" ~> call[c].at = "ready"
NobodyWaitsForEver == StartedThreadEnds /\ CallsReturn

(* Two clients may fill the table one after the other, under a started     *)
(* thread: the counter still adds up, no thread gets the id of the main    *)
(* thread, and no id is given twice by the pool itself.                    *)
PoolSound == Conserved /\ NeverMainId /\ UniqueUnlessClobbered
================================================================================
