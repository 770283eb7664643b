----------------------------- MODULE AvThreadProofs -----------------------------
(***************************************************************************)
(* What holds of the thread handles for every number of handles and of     *)
(* clients, every assignment of handles to clients, and every value of     *)
(* AV_MAX_THREADS; that the handles use the pool as ThreadIds.tla          *)
(* describes it is proved for one client.                                  *)
(***************************************************************************)
EXTENDS AvThread, ThreadIdsProofs

--------------------------------------------------------------------------------
(* The invariant.                                                          *)

HandleTypeOK ==
    /\ threadIDsInitialized \in BOOLEAN
    /\ state \in [Threads -> {"uninitialized", "stopped", "running"}]
    /\ pthread \in [Threads -> {"none", "live", "ended"}]
    /\ result \in [Threads -> {"none", "value", "NULL"}]
    /\ call \in [Clients -> [at : {"ready", "fill", "join", "destroy"},
                             thread : Threads \cup {NoThread}, i : 0..(MaxThreads - 1)]]
    /\ starts \in [Threads -> 0..MaxStarts]
    /\ entries \in [Threads -> Nat]
    /\ refusals \in [Threads -> Nat]

(* A client inside a call works on a handle of its own, whose state it     *)
(* tested when it entered the call.                                        *)
CallsOwnHandle ==
    \A c \in Clients : call[c].at # "ready" =>
        /\ call[c].thread \in Threads
        /\ Owner[call[c].thread] = c
        /\ state[call[c].thread] = IF call[c].at = "fill" THEN "uninitialized" ELSE "running"

Lifecycle ==
    \A t \in Threads :
        /\ state[t] = "running" <=> pthread[t] # "none"
        /\ pc[t] # "idle" => pthread[t] = "live"
        /\ state[t] # "uninitialized" => threadIDsInitialized

(* A pthread that has neither called the entry nor been refused an id.     *)
Pending(t) ==
    pthread[t] = "live" /\ pc[t] \in {"idle", "allocLoad", "allocCas", "allocRead", "held"}

Settled ==
    \A t \in Threads :
        /\ starts[t] = entries[t] + refusals[t] + (IF Pending(t) THEN 1 ELSE 0)
        /\ ~Pending(t) /\ starts[t] > 0 => result[t] # "none"

HandleInv == HandleTypeOK /\ CallsOwnHandle /\ Lifecycle /\ Settled

(* Until the flag is set nobody has touched the pool, and every client     *)
(* that is filling the table has filled the slots it has passed.           *)
Filling ==
    /\ freeThreadIds \in [Slots -> Ids \cup {0}]
    /\ freeThreadTop = MaxThreads - 1
    /\ pc = [t \in Threads |-> "idle"]
    /\ top = [t \in Threads |-> 0]
    /\ currentThreadId = [t \in Threads |-> MainThreadId]
    /\ table = "intact"
    /\ \A c \in Clients, j \in Slots :
          call[c].at = "fill" /\ j < call[c].i => freeThreadIds[j] = InitialId(j)

(* From then on the invariants of ThreadIdsProofs hold, although other     *)
(* clients may still be filling.                                           *)
PoolInv == IF threadIDsInitialized THEN CountInv /\ PartitionInv ELSE Filling

ThreadInv == HandleInv /\ PoolInv

LEMMA PoolTypes ==
  ASSUME PoolInv
  PROVE  /\ pc \in [Threads -> PCs]
         /\ freeThreadIds \in [Slots -> Ids \cup {0}]
         /\ freeThreadTop \in 0..(MaxThreads - 1)
         /\ top \in [Threads -> 0..(MaxThreads - 1)]
         /\ currentThreadId \in [Threads -> Ids \cup {MainThreadId, InvalidThreadId}]
<1> USE MaxThreadsFits DEF PoolInv
<1>1. CASE threadIDsInitialized
  BY <1>1 DEF CountInv, TypeOK
<1>2. CASE ~threadIDsInitialized
  BY <1>2 DEF Filling, PCs
<1>3. QED
  BY <1>1, <1>2

LEMMA ThreadInvInit == ThreadInit => ThreadInv
<1> SUFFICES ASSUME ThreadInit PROVE ThreadInv
  OBVIOUS
<1> USE MaxThreadsFits, MaxStartsIsNat DEF ThreadInit
<1>1. HandleTypeOK
  <2>1. Ready \in [at : {"ready", "fill", "join", "destroy"},
                   thread : Threads \cup {NoThread}, i : 0..(MaxThreads - 1)]
    BY DEF Ready
  <2>2. call \in [Clients -> [at : {"ready", "fill", "join", "destroy"},
                             thread : Threads \cup {NoThread}, i : 0..(MaxThreads - 1)]]
    BY <2>1
  <2>3. threadIDsInitialized \in BOOLEAN
    <3>1. threadIDsInitialized = FALSE
      OBVIOUS
    <3>2. QED
      BY ONLY <3>1, Zenon
  <2>4. QED
    BY <2>2, <2>3 DEF HandleTypeOK
<1>2. CallsOwnHandle
  BY DEF CallsOwnHandle, Ready
<1>3. Lifecycle /\ Settled
  BY DEF Lifecycle, Settled, Pending
<1>4. PoolInv
  BY DEF PoolInv, Filling, Ready
<1>5. QED
  BY <1>1, <1>2, <1>3, <1>4 DEF ThreadInv, HandleInv

--------------------------------------------------------------------------------
(* The handles, action by action.                                          *)

(* The calls that one step completes, on a handle whose client is in none. *)
LEMMA HandleAtomicCall ==
  ASSUME ThreadInv, NEW t \in Threads, Create(t) \/ Start(t) \/ DestroyStopped(t)
  PROVE  HandleInv'
<1> USE MaxStartsIsNat DEF ThreadInv, HandleInv
<1>1. HandleTypeOK'
  BY DEF Create, Start, DestroyStopped, HandleTypeOK
<1>2. CallsOwnHandle'
  <2> SUFFICES ASSUME NEW c \in Clients, call[c].at # "ready"
      PROVE  /\ call[c].thread \in Threads
             /\ Owner[call[c].thread] = c
             /\ state'[call[c].thread] = IF call[c].at = "fill" THEN "uninitialized" ELSE "running"
    BY DEF Create, Start, DestroyStopped, CallsOwnHandle
  <2>1. call[c].thread \in Threads /\ Owner[call[c].thread] = c /\ call[c].thread # t
    BY DEF CallsOwnHandle, Create, Start, DestroyStopped, Calls, Ready
  <2>2. state'[call[c].thread] = state[call[c].thread]
    BY <2>1 DEF Create, Start, DestroyStopped, HandleTypeOK
  <2>3. QED
    BY <2>1, <2>2 DEF CallsOwnHandle
<1>3. Lifecycle'
  BY DEF Lifecycle, Create, Start, DestroyStopped, HandleTypeOK, idVars
<1>4. Settled'
  <2>1. CASE Create(t) \/ DestroyStopped(t)
    BY <2>1 DEF Create, DestroyStopped, Settled, Pending, HandleTypeOK, idVars
  <2>2. CASE Start(t)
    <3>1. /\ pthread[t] = "none" /\ pc[t] = "idle" /\ ~Pending(t) /\ Pending(t)'
          /\ starts'[t] = starts[t] + 1
      BY <2>2 DEF Start, Lifecycle, Pending, HandleTypeOK, idVars
    <3>2. ASSUME NEW u \in Threads, u # t
          PROVE  /\ Pending(u)' <=> Pending(u)
                 /\ starts'[u] = starts[u] /\ result'[u] = result[u]
      BY <2>2, <3>2 DEF Start, Pending, HandleTypeOK, idVars
    <3>3. entries' = entries /\ refusals' = refusals
      BY <2>2 DEF Start
    <3>4. starts[t] \in Nat /\ entries[t] \in Nat /\ refusals[t] \in Nat
          /\ starts[t] = entries[t] + refusals[t]
      BY <3>1, MaxStartsIsNat DEF Settled, HandleTypeOK
    <3>5. /\ starts'[t] = entries'[t] + refusals'[t] + (IF Pending(t)' THEN 1 ELSE 0)
          /\ ~Pending(t)' /\ starts'[t] > 0 => result'[t] # "none"
      BY <3>1, <3>3, <3>4
    <3>6. \A u \in Threads : u # t =>
            /\ starts'[u] = entries'[u] + refusals'[u] + (IF Pending(u)' THEN 1 ELSE 0)
            /\ ~Pending(u)' /\ starts'[u] > 0 => result'[u] # "none"
      BY <3>2, <3>3 DEF Settled
    <3>7. QED
      BY <3>5, <3>6 DEF Settled
  <2>3. QED
    BY <2>1, <2>2
<1>5. QED
  BY <1>1, <1>2, <1>3, <1>4

(* A client enters a call on a handle of its own. *)
LEMMA HandleEnterCall ==
  ASSUME ThreadInv, NEW t \in Threads, CreateFirst(t) \/ Join(t) \/ DestroyRunning(t)
  PROVE  HandleInv'
<1> USE DEF ThreadInv, HandleInv
<1>1. Owner[t] \in Clients /\ 0 \in 0..(MaxThreads - 1)
  BY OwnerIsClient, MaxThreadsFits
<1>2. PICK at \in {"fill", "join", "destroy"} :
        /\ call' = [call EXCEPT ![Owner[t]] = [at |-> at, thread |-> t, i |-> 0]]
        /\ state[t] = IF at = "fill" THEN "uninitialized" ELSE "running"
  BY DEF CreateFirst, Join, DestroyRunning, Enters
<1>3. /\ threadIDsInitialized' = threadIDsInitialized /\ state' = state /\ pthread' = pthread
      /\ result' = result /\ starts' = starts /\ entries' = entries /\ refusals' = refusals
      /\ pc' = pc
  BY DEF CreateFirst, Join, DestroyRunning, idVars
<1>4. HandleTypeOK'
  BY <1>1, <1>2, <1>3 DEF HandleTypeOK
<1>5. CallsOwnHandle'
  BY <1>1, <1>2, <1>3 DEF CallsOwnHandle, HandleTypeOK
<1>6. Lifecycle' /\ Settled'
  BY <1>3 DEF Lifecycle, Settled, Pending
<1>7. QED
  BY <1>4, <1>5, <1>6

(* A call that was waiting, or filling, returns. *)
LEMMA HandleReturn ==
  ASSUME ThreadInv, NEW c \in Clients, FinishFill(c) \/ JoinReturns(c) \/ DestroyReturns(c)
  PROVE  HandleInv'
<1> USE DEF ThreadInv, HandleInv
<1> DEFINE t == call[c].thread
<1>1. /\ t \in Threads /\ Owner[t] = c
      /\ state[t] = IF call[c].at = "fill" THEN "uninitialized" ELSE "running"
  BY DEF CallsOwnHandle, FinishFill, JoinReturns, DestroyReturns
<1>2. /\ call' = [call EXCEPT ![c] = Ready] /\ pc' = pc /\ result' = result
      /\ starts' = starts /\ entries' = entries /\ refusals' = refusals
  BY DEF FinishFill, JoinReturns, DestroyReturns, Returns, idVars
<1>3. PICK s \in {"uninitialized", "stopped"} : state' = [state EXCEPT ![t] = s]
  BY DEF FinishFill, JoinReturns, DestroyReturns
<1>4. pthread' = [pthread EXCEPT ![t] = "none"] /\ pthread[t] # "live"
  BY <1>1 DEF FinishFill, JoinReturns, DestroyReturns, Lifecycle, HandleTypeOK
<1>5. threadIDsInitialized' \in BOOLEAN /\ (threadIDsInitialized => threadIDsInitialized')
  <2>1. CASE FinishFill(c)
    BY <2>1 DEF FinishFill
  <2>2. CASE JoinReturns(c) \/ DestroyReturns(c)
    BY <2>2 DEF JoinReturns, DestroyReturns, HandleTypeOK
  <2>3. QED
    BY <2>1, <2>2
<1>6. HandleTypeOK'
  <2>1. Ready \in [at : {"ready", "fill", "join", "destroy"},
                   thread : Threads \cup {NoThread}, i : 0..(MaxThreads - 1)]
    BY MaxThreadsFits DEF Ready
  <2>2. QED
    BY <1>1, <1>2, <1>3, <1>4, <1>5, <2>1 DEF HandleTypeOK
<1>7. CallsOwnHandle'
  <2> SUFFICES ASSUME NEW d \in Clients, call'[d].at # "ready"
      PROVE  /\ call'[d].thread \in Threads
             /\ Owner[call'[d].thread] = d
             /\ state'[call'[d].thread] = IF call'[d].at = "fill" THEN "uninitialized" ELSE "running"
    BY DEF CallsOwnHandle
  <2>1. d # c /\ call'[d] = call[d]
    BY <1>2 DEF HandleTypeOK, Ready
  <2>2. call[d].thread \in Threads /\ Owner[call[d].thread] = d /\ call[d].thread # t
    BY <1>1, <2>1 DEF CallsOwnHandle
  <2>3. state'[call[d].thread] = state[call[d].thread]
    BY <1>3, <2>2 DEF HandleTypeOK
  <2>4. QED
    BY <2>1, <2>2, <2>3 DEF CallsOwnHandle
<1>8. Lifecycle'
  <2>1. \A u \in Threads : pc[u] # "idle" => pthread[u] = "live" /\ u # t
    BY <1>4 DEF Lifecycle
  <2>2. ASSUME NEW u \in Threads, state'[u] # "uninitialized" PROVE threadIDsInitialized'
    <3>1. CASE u = t
      BY <1>3, <1>5, <2>2, <3>1, <1>1 DEF FinishFill, JoinReturns, DestroyReturns, Lifecycle, HandleTypeOK
    <3>2. CASE u # t
      BY <1>3, <1>5, <2>2, <3>2 DEF Lifecycle, HandleTypeOK
    <3>3. QED
      BY <3>1, <3>2
  <2>3. \A u \in Threads : state'[u] = "running" <=> pthread'[u] # "none"
    BY <1>1, <1>3, <1>4 DEF Lifecycle, HandleTypeOK
  <2>4. QED
    BY <1>2, <1>4, <2>1, <2>2, <2>3 DEF Lifecycle, HandleTypeOK
<1>9. Settled'
  <2>1. \A u \in Threads : Pending(u)' <=> Pending(u)
    BY <1>1, <1>2, <1>4 DEF Pending, HandleTypeOK
  <2>2. QED
    BY <1>2, <2>1 DEF Settled
<1>10. QED
  BY <1>6, <1>7, <1>8, <1>9

LEMMA HandleFillSlot ==
  ASSUME ThreadInv, NEW c \in Clients, FillSlot(c)
  PROVE  HandleInv'
<1> USE DEF ThreadInv, HandleInv
<1>1. /\ threadIDsInitialized' = threadIDsInitialized /\ state' = state /\ pthread' = pthread
      /\ result' = result /\ starts' = starts /\ entries' = entries /\ refusals' = refusals
      /\ pc' = pc
  BY DEF FillSlot
<1>2. call[c].i + 1 \in 0..(MaxThreads - 1)
  BY MaxThreadsFits DEF FillSlot, Slots
<1>3. call' = [call EXCEPT ![c].i = call[c].i + 1]
  BY DEF FillSlot
<1>4. HandleTypeOK'
  BY <1>1, <1>2, <1>3 DEF HandleTypeOK
<1>5. \A d \in Clients : call'[d].at = call[d].at /\ call'[d].thread = call[d].thread
  BY <1>3 DEF HandleTypeOK
<1>6. CallsOwnHandle' /\ Lifecycle' /\ Settled'
  BY <1>1, <1>5 DEF CallsOwnHandle, Lifecycle, Settled, Pending
<1>7. QED
  BY <1>4, <1>6

(* run(): what a step of the pool does to the place where its thread is.   *)
LEMMA PoolCallMoves ==
  ASSUME ThreadInv, NEW t \in Threads, PoolCall(t)
  PROVE  /\ pc[t] # "idle"
         /\ \E to \in PCs : /\ pc' = [pc EXCEPT ![t] = to]
                            /\ LET waits == {"idle", "allocLoad", "allocCas", "allocRead", "held"}
                               IN  to \in waits <=> pc[t] \in waits
<1> USE DEF PoolCall, PoolStep, Goto, PCs
<1>0. pc \in [Threads -> PCs]
  BY PoolTypes DEF ThreadInv
<1>1. CASE AllocLoad(t)
  BY <1>1 DEF AllocLoad
<1>2. CASE AllocRefused(t)
  BY <1>0, <1>2 DEF AllocRefused
<1>3. CASE AllocCas(t) \/ AllocRetry(t) \/ AllocRead(t)
  BY <1>3 DEF AllocCas, AllocRetry, AllocRead
<1>4. CASE FreeLoad(t)
  <2>1. PICK to \in {"freed", "freeWrite"} : pc' = [pc EXCEPT ![t] = to]
    BY <1>4 DEF FreeLoad
  <2>2. QED
    BY <1>4, <2>1 DEF FreeLoad
<1>5. CASE FreeWrite(t) \/ FreeCas(t) \/ FreeRetry(t)
  BY <1>5 DEF FreeWrite, FreeCas, FreeRetry
<1>6. QED
  BY <1>1, <1>2, <1>3, <1>4, <1>5

LEMMA HandleRun ==
  ASSUME ThreadInv, NEW t \in Threads, Run(t)
  PROVE  HandleInv'
<1> USE DEF ThreadInv, HandleInv
<1>0. pc \in [Threads -> PCs]
  BY PoolTypes
<1>1. CASE Begin(t)
  <2>1. UNCHANGED handleVars /\ pc[t] = "idle" /\ pthread[t] = "live"
        /\ pc' = [pc EXCEPT ![t] = "allocLoad"]
    BY <1>1 DEF Begin, Enter, Goto
  <2>2. HandleTypeOK' /\ CallsOwnHandle'
    BY <2>1 DEF handleVars, HandleTypeOK, CallsOwnHandle
  <2>3. Lifecycle'
    BY <1>0, <2>1 DEF handleVars, Lifecycle
  <2>4. \A u \in Threads : Pending(u)' <=> Pending(u)
    BY <1>0, <2>1 DEF handleVars, Pending
  <2>5. Settled'
    BY <2>1, <2>4 DEF handleVars, Settled
  <2>6. QED
    BY <2>2, <2>3, <2>5
<1>2. CASE Refused(t)
  <2>1. /\ pc[t] = "allocLoad" /\ pc' = [pc EXCEPT ![t] = "refused"]
        /\ result' = [result EXCEPT ![t] = "NULL"]
        /\ refusals' = [refusals EXCEPT ![t] = refusals[t] + 1]
        /\ UNCHANGED <<threadIDsInitialized, state, pthread, call, starts, entries>>
    BY <1>2 DEF Refused, AllocRefused, Goto
  <2>2. HandleTypeOK' /\ CallsOwnHandle'
    BY <2>1 DEF HandleTypeOK, CallsOwnHandle
  <2>3. Lifecycle'
    BY <1>0, <2>1 DEF Lifecycle
  <2>4. Pending(t) /\ ~Pending(t)'
    BY <1>0, <2>1 DEF Pending, Lifecycle
  <2>5. \A u \in Threads : u # t => (Pending(u)' <=> Pending(u))
    BY <1>0, <2>1 DEF Pending
  <2>6. /\ starts'[t] = entries'[t] + refusals'[t] + (IF Pending(t)' THEN 1 ELSE 0)
        /\ result'[t] # "none"
    BY <2>1, <2>4, MaxStartsIsNat DEF Settled, HandleTypeOK
  <2>7. \A u \in Threads : u # t =>
           /\ starts'[u] = entries'[u] + refusals'[u] + (IF Pending(u)' THEN 1 ELSE 0)
           /\ ~Pending(u)' /\ starts'[u] > 0 => result'[u] # "none"
    BY <2>1, <2>5 DEF Settled, HandleTypeOK
  <2>8. QED
    BY <2>2, <2>3, <2>6, <2>7 DEF Settled
<1>3. CASE PoolCall(t)
  <2>1. UNCHANGED handleVars /\ pthread[t] = "live"
    BY <1>3, PoolCallMoves DEF PoolCall, Lifecycle
  <2>2. PICK to \in PCs : /\ pc' = [pc EXCEPT ![t] = to]
                          /\ LET waits == {"idle", "allocLoad", "allocCas", "allocRead", "held"}
                             IN  to \in waits <=> pc[t] \in waits
    BY <1>3, PoolCallMoves
  <2>3. HandleTypeOK' /\ CallsOwnHandle'
    BY <2>1 DEF handleVars, HandleTypeOK, CallsOwnHandle
  <2>4. Lifecycle'
    BY <1>0, <2>1, <2>2 DEF handleVars, Lifecycle
  <2>5. \A u \in Threads : Pending(u)' <=> Pending(u)
    BY <1>0, <2>1, <2>2 DEF handleVars, Pending
  <2>6. Settled'
    BY <2>1, <2>5 DEF handleVars, Settled
  <2>7. QED
    BY <2>3, <2>4, <2>6
<1>4. CASE CallEntry(t)
  <2>1. /\ pc[t] = "held" /\ pc' = [pc EXCEPT ![t] = "freeLoad"]
        /\ result' = [result EXCEPT ![t] = "value"]
        /\ entries' = [entries EXCEPT ![t] = entries[t] + 1]
        /\ UNCHANGED <<threadIDsInitialized, state, pthread, call, starts, refusals>>
    BY <1>4 DEF CallEntry, EntryReturns, Goto
  <2>2. HandleTypeOK' /\ CallsOwnHandle'
    BY <2>1 DEF HandleTypeOK, CallsOwnHandle
  <2>3. Lifecycle'
    BY <1>0, <2>1 DEF Lifecycle
  <2>4. Pending(t) /\ ~Pending(t)'
    BY <1>0, <2>1 DEF Pending, Lifecycle
  <2>5. \A u \in Threads : u # t => (Pending(u)' <=> Pending(u))
    BY <1>0, <2>1 DEF Pending
  <2>6. /\ starts'[t] = entries'[t] + refusals'[t] + (IF Pending(t)' THEN 1 ELSE 0)
        /\ result'[t] # "none"
    BY <2>1, <2>4, MaxStartsIsNat DEF Settled, HandleTypeOK
  <2>7. \A u \in Threads : u # t =>
           /\ starts'[u] = entries'[u] + refusals'[u] + (IF Pending(u)' THEN 1 ELSE 0)
           /\ ~Pending(u)' /\ starts'[u] > 0 => result'[u] # "none"
    BY <2>1, <2>5 DEF Settled, HandleTypeOK
  <2>8. QED
    BY <2>2, <2>3, <2>6, <2>7 DEF Settled
<1>5. CASE Exit(t)
  <2>1. /\ pc[t] \in {"freed", "refused"} /\ pc' = [pc EXCEPT ![t] = "idle"]
        /\ pthread' = [pthread EXCEPT ![t] = "ended"]
        /\ UNCHANGED <<threadIDsInitialized, state, result, call, starts, entries, refusals>>
    BY <1>5 DEF Exit, Leave
  <2>2. HandleTypeOK' /\ CallsOwnHandle'
    BY <2>1 DEF HandleTypeOK, CallsOwnHandle
  <2>3. pthread[t] = "live"
    BY <2>1 DEF Lifecycle
  <2>4. Lifecycle'
    BY <1>0, <2>1, <2>3 DEF Lifecycle, HandleTypeOK
  <2>5. \A u \in Threads : Pending(u)' <=> Pending(u)
    BY <1>0, <2>1 DEF Pending, HandleTypeOK
  <2>6. Settled'
    BY <2>1, <2>5 DEF Settled
  <2>7. QED
    BY <2>2, <2>4, <2>6
<1>6. QED
  BY <1>1, <1>2, <1>3, <1>4, <1>5 DEF Run

LEMMA HandleStep == ThreadInv /\ [ThreadNext]_threadVars => HandleInv'
<1> SUFFICES ASSUME ThreadInv, [ThreadNext]_threadVars PROVE HandleInv'
  OBVIOUS
<1>1. CASE UNCHANGED threadVars
  BY <1>1 DEF threadVars, handleVars, idVars, ThreadInv, HandleInv, HandleTypeOK, CallsOwnHandle,
              Lifecycle, Settled, Pending
<1>2. CASE ThreadNext
  BY <1>2, HandleRun, HandleAtomicCall, HandleEnterCall, HandleReturn, HandleFillSlot
  DEF ThreadNext, Client
<1>3. QED
  BY <1>1, <1>2

--------------------------------------------------------------------------------
(* The pool: before the flag is set, and after it.                         *)

(* A pthread runs only when the table has been filled, and its steps are   *)
(* the steps of ThreadIds.tla.                                             *)
LEMMA RunIsPoolStep ==
  ASSUME ThreadInv, NEW t \in Threads, Run(t)
  PROVE  threadIDsInitialized /\ threadIDsInitialized' /\ Next
<1>1. pthread[t] = "live"
  <2>1. CASE Begin(t)
    BY <2>1 DEF Begin
  <2>2. CASE Refused(t) \/ CallEntry(t) \/ Exit(t)
    BY <2>2 DEF Refused, AllocRefused, CallEntry, EntryReturns, Exit, Leave, Goto,
                ThreadInv, HandleInv, Lifecycle
  <2>3. CASE PoolCall(t)
    BY <2>3, PoolCallMoves DEF ThreadInv, HandleInv, Lifecycle
  <2>4. QED
    BY <2>1, <2>2, <2>3 DEF Run
<1>2. threadIDsInitialized
  BY <1>1 DEF ThreadInv, HandleInv, HandleTypeOK, Lifecycle
<1>3. threadIDsInitialized' = threadIDsInitialized
  BY DEF Run, Begin, Refused, PoolCall, CallEntry, Exit, handleVars
<1>4. Next
  BY DEF Run, Begin, Refused, PoolCall, CallEntry, Exit, Next, PoolStep
<1>5. QED
  BY <1>2, <1>3, <1>4

LEMMA FillingStep ==
  ASSUME ThreadInv, ~threadIDsInitialized, ThreadNext, ~threadIDsInitialized'
  PROVE  Filling'
<1> USE MaxThreadsFits DEF ThreadInv, PoolInv, HandleInv
<1>1. \A t \in Threads : state[t] = "uninitialized"
  BY DEF Lifecycle
<1>2. CASE \E t \in Threads : CreateFirst(t)
  <2>1. PICK t \in Threads : CreateFirst(t)
    BY <1>2
  <2>2. UNCHANGED idVars /\ call' = [call EXCEPT ![Owner[t]] = [at |-> "fill", thread |-> t, i |-> 0]]
    BY <2>1 DEF CreateFirst, Enters
  <2>3. \A c \in Clients : \/ call'[c] = call[c]
                           \/ call'[c].i = 0
    BY <2>2 DEF HandleTypeOK
  <2>4. QED
    BY <2>2, <2>3 DEF Filling, idVars, Slots
<1>3. CASE \E c \in Clients : FillSlot(c)
  <2>1. PICK c \in Clients : FillSlot(c)
    BY <1>3
  <2>2. /\ call[c].at = "fill" /\ call[c].i \in Slots
        /\ freeThreadIds' = [freeThreadIds EXCEPT ![call[c].i] = InitialId(call[c].i)]
        /\ call' = [call EXCEPT ![c].i = call[c].i + 1]
        /\ table' = table
        /\ UNCHANGED <<freeThreadTop, pc, top, currentThreadId>>
    BY <2>1 DEF FillSlot
  <2>3. InitialId(call[c].i) \in Ids
    BY <2>2 DEF InitialId, Ids, Slots
  <2>4. freeThreadIds' \in [Slots -> Ids \cup {0}]
    BY <2>2, <2>3 DEF Filling
  <2>5. ASSUME NEW d \in Clients, NEW j \in Slots, call'[d].at = "fill", j < call'[d].i
        PROVE  freeThreadIds'[j] = InitialId(j)
    <3>1. CASE j = call[c].i
      BY <2>2, <3>1 DEF Filling
    <3>2. CASE j # call[c].i /\ d = c
      <4>1. call'[d].i = call[c].i + 1 /\ call[c].i \in Nat
        BY <2>2, <3>2 DEF HandleTypeOK
      <4>2. j < call[c].i
        BY <2>5, <3>2, <4>1 DEF Slots
      <4>3. QED
        BY <2>2, <3>2, <4>2 DEF Filling
    <3>3. CASE j # call[c].i /\ d # c
      BY <2>2, <2>5, <3>3 DEF Filling, HandleTypeOK
    <3>4. QED
      BY <3>1, <3>2, <3>3
  <2>6. QED
    BY <2>2, <2>4, <2>5 DEF Filling
<1>4. ~\E t \in Threads : Run(t) \/ Create(t) \/ Start(t) \/ Join(t) \/ DestroyRunning(t) \/ DestroyStopped(t)
  BY <1>1, RunIsPoolStep DEF Create, Start, Join, DestroyRunning, DestroyStopped
<1>5. ~\E c \in Clients : FinishFill(c) \/ JoinReturns(c) \/ DestroyReturns(c)
  BY <1>1 DEF FinishFill, JoinReturns, DestroyReturns, CallsOwnHandle
<1>6. QED
  BY <1>2, <1>3, <1>4, <1>5 DEF ThreadNext, Client

(* Only the end of initThreadIDs changes the flag. *)
LEMMA FlagIsSetOnce ==
  ASSUME ThreadNext, ~\E t \in Threads : Run(t), ~\E c \in Clients : FinishFill(c)
  PROVE  threadIDsInitialized' = threadIDsInitialized
<1>1. ASSUME NEW c \in Clients, FillSlot(c) \/ JoinReturns(c) \/ DestroyReturns(c)
      PROVE  threadIDsInitialized' = threadIDsInitialized
  BY <1>1 DEF FillSlot, JoinReturns, DestroyReturns
<1>2. ASSUME NEW t \in Threads,
             \/ Create(t) \/ CreateFirst(t) \/ Start(t) \/ Join(t)
             \/ DestroyRunning(t) \/ DestroyStopped(t)
      PROVE  threadIDsInitialized' = threadIDsInitialized
  BY <1>2 DEF Create, CreateFirst, Start, Join, DestroyRunning, DestroyStopped
<1>3. QED
  BY <1>1, <1>2 DEF ThreadNext, Client

(* The call that sets the flag first leaves the pool as ThreadIds.tla      *)
(* starts it.                                                              *)
LEMMA FirstFillEnds ==
  ASSUME ThreadInv, ~threadIDsInitialized, ThreadNext, threadIDsInitialized'
  PROVE  Init' /\ UNCHANGED idVars /\ freeThreadIds = [i \in Slots |-> InitialId(i)]
<1> USE MaxThreadsFits DEF ThreadInv, PoolInv, HandleInv
<1>1. PICK c \in Clients : FinishFill(c)
  <2>1. ~\E t \in Threads : Run(t)
    BY RunIsPoolStep
  <2>2. ~(threadIDsInitialized' = threadIDsInitialized)
    BY ONLY ~threadIDsInitialized, threadIDsInitialized', Zenon
  <2>3. QED
    BY ONLY <2>1, <2>2, ThreadNext, FlagIsSetOnce
<1>2. UNCHANGED idVars /\ call[c].at = "fill" /\ call[c].i = MaxThreads - 1
  BY <1>1 DEF FinishFill, HandleTypeOK, Slots
<1>3. freeThreadIds = [i \in Slots |-> InitialId(i)]
  <2>1. \A j \in Slots : freeThreadIds[j] = InitialId(j)
    BY <1>2 DEF Filling, Slots
  <2>2. QED
    BY <2>1 DEF Filling
<1>4. Init'
  BY <1>2, <1>3 DEF Filling, Init, idVars
<1>5. QED
  BY <1>2, <1>3, <1>4

(* A client that saw the flag unset may fill the table under running       *)
(* threads; as long as it changes no slot in use, the ids stay apart.      *)
LEMMA LateFill ==
  ASSUME CountInv, PartitionInv, threadIDsInitialized, NEW c \in Clients, FillSlot(c)
  PROVE  CountInv' /\ PartitionInv'
<1> USE MaxThreadsFits DEF CountInv
<1> DEFINE i == call[c].i
<1>1. /\ i \in Slots
      /\ freeThreadIds' = [freeThreadIds EXCEPT ![i] = InitialId(i)]
      /\ table' = IF freeThreadIds[i] # InitialId(i) /\ InUse(c, i) THEN "clobbered" ELSE table
      /\ UNCHANGED <<freeThreadTop, pc, top, currentThreadId>>
  BY DEF FillSlot
<1>2. InitialId(i) \in Ids
  BY <1>1 DEF InitialId, Slots, Ids
<1>3. CountInv'
  BY <1>1, <1>2 DEF TypeOK, Conserved, Holders, InBounds, NeverMainId, Knowing
<1>4. ASSUME table' = "intact" PROVE Partition'
  <2>1. Partition
    BY <1>1, <1>4 DEF PartitionInv
  <2>2. Holders' = Holders /\ Reserving' = Reserving /\ Stack' = Stack
    BY <1>1 DEF Holders, Reserving, Stack
  <2>3. CASE freeThreadIds[i] = InitialId(i)
    <3>1. freeThreadIds' = freeThreadIds
      BY <1>1, <2>3 DEF TypeOK
    <3>2. QED
      BY <1>1, <2>1, <2>2, <3>1 DEF Partition, SlotsApart, IdsApart, NoneLost, Own, Reserved
  <2>4. CASE freeThreadIds[i] # InitialId(i)
    <3>1. ~InUse(c, i)
      BY <1>1, <1>4, <2>4
    <3>2. c \notin Threads
      BY ClientsAreNotThreads
    <3>3. /\ i >= freeThreadTop
          /\ \A u \in Threads : /\ pc[u] = "allocRead" => top[u] # i + 1
                                /\ pc[u] = "freeCas" => top[u] # i
      BY <1>1, <3>1, <3>2 DEF InUse, TypeOK, Slots
    <3>4. \A j \in Slots : j # i => freeThreadIds'[j] = freeThreadIds[j]
      BY <1>1 DEF TypeOK
    <3>5. \A j \in Stack : freeThreadIds'[j] = freeThreadIds[j]
      <4>1. ASSUME NEW j \in Stack PROVE j \in Slots /\ j # i
        BY <3>3 DEF Stack, Slots, TypeOK
      <4>2. QED
        BY <3>4, <4>1
    <3>6. ASSUME NEW u \in Holders PROVE Own(u)' = Own(u)
      <4>1. CASE pc[u] = "allocRead"
        <5>1. top[u] \in Nat /\ top[u] - 1 \in Slots /\ top[u] # i + 1
          BY <3>3, <4>1 DEF Holders, TypeOK, InBounds
        <5>2. top[u] - 1 # i
          BY <1>1, <5>1 DEF Slots
        <5>3. QED
          BY <1>1, <3>4, <4>1, <5>1, <5>2 DEF Own
      <4>2. CASE pc[u] # "allocRead"
        BY <1>1, <4>2 DEF Own
      <4>3. QED
        BY <4>1, <4>2
    <3>7. SlotsApart'
      <4>1. \A u \in Threads : pc[u] = "freeCas" => top[u] \in Slots /\ top[u] # i
        BY <3>3 DEF InBounds
      <4>2. QED
        BY <1>1, <2>1, <2>2, <3>4, <4>1 DEF Partition, SlotsApart, Reserved
    <3>8. IdsApart' /\ NoneLost'
      BY <2>1, <2>2, <3>5, <3>6 DEF Partition, IdsApart, NoneLost
    <3>9. QED
      BY <3>7, <3>8 DEF Partition
  <2>5. QED
    BY <2>3, <2>4
<1>5. QED
  BY <1>3, <1>4 DEF PartitionInv

LEMMA InitGivesPoolInv == Init' => CountInv' /\ PartitionInv'
BY CountInit, PartitionInit, PTL

LEMMA PoolInvStep == ThreadInv /\ [ThreadNext]_threadVars => PoolInv'
<1> SUFFICES ASSUME ThreadInv, [ThreadNext]_threadVars PROVE PoolInv'
  OBVIOUS
<1>1. CASE UNCHANGED threadVars
  <2>1. UNCHANGED <<idVars, threadIDsInitialized, call>>
    BY <1>1 DEF threadVars, handleVars
  <2>2. CASE ~threadIDsInitialized
    BY <2>1, <2>2 DEF ThreadInv, PoolInv, Filling, idVars
  <2>3. CASE threadIDsInitialized
    BY <2>1, <2>3, CountStep, PartitionStep DEF ThreadInv, PoolInv
  <2>4. QED
    BY <2>2, <2>3
<1>2. CASE ThreadNext /\ ~threadIDsInitialized
  BY <1>2, FillingStep, FirstFillEnds, InitGivesPoolInv DEF PoolInv
<1>3. CASE ThreadNext /\ threadIDsInitialized
  <2>1. CountInv /\ PartitionInv
    BY <1>3 DEF ThreadInv, PoolInv
  <2>2. threadIDsInitialized'
    BY <1>3, RunIsPoolStep DEF ThreadNext, Client, FillSlot, FinishFill, JoinReturns, DestroyReturns,
            Create, CreateFirst, Start, Join, DestroyRunning, DestroyStopped
  <2>3. CASE \E c \in Clients : FillSlot(c)
    BY <1>3, <2>1, <2>2, <2>3, LateFill DEF PoolInv
  <2>4. CASE ~\E c \in Clients : FillSlot(c)
    <3>1. [Next]_idVars
      BY <1>3, <2>4, RunIsPoolStep DEF ThreadNext, Client, FinishFill, JoinReturns, DestroyReturns,
              Create, CreateFirst, Start, Join, DestroyRunning, DestroyStopped
    <3>2. QED
      BY <2>1, <2>2, <3>1, CountStep, PartitionStep DEF PoolInv
  <2>5. QED
    BY <2>3, <2>4
<1>4. QED
  BY <1>1, <1>2, <1>3

THEOREM ThreadInvariant == ThreadSpec => []ThreadInv
<1>1. ThreadInv /\ [ThreadNext]_threadVars => ThreadInv'
  BY HandleStep, PoolInvStep DEF ThreadInv
<1>2. QED
  BY <1>1, ThreadInvInit, PTL DEF ThreadSpec

--------------------------------------------------------------------------------
(* What the invariant says.                                                *)

(* The variables keep their types. *)
THEOREM ThreadTypeCorrect == ThreadSpec => []ThreadTypeOK
<1>1. ThreadInv => ThreadTypeOK
  BY PoolTypes DEF ThreadInv, HandleInv, HandleTypeOK, ThreadTypeOK
<1>2. QED
  BY <1>1, ThreadInvariant, PTL

(* The memory of a handle, which run() reads until it has called the       *)
(* entry, is never freed under a live pthread.                             *)
THEOREM HandleOutlives == ThreadSpec => []HandleOutlivesRun
<1>1. ThreadInv => HandleOutlivesRun
  BY DEF ThreadInv, HandleInv, HandleTypeOK, Lifecycle, HandleOutlivesRun
<1>2. QED
  BY <1>1, ThreadInvariant, PTL

(* Each avThreadStart that has been joined called the entry once, or was   *)
(* refused an id.                                                          *)
THEOREM JoinSettles == ThreadSpec => []JoinedStartsAreSettled
<1>1. ThreadInv => JoinedStartsAreSettled
  <2> SUFFICES ASSUME ThreadInv, NEW t \in Threads, state[t] # "running"
               PROVE  /\ starts[t] = entries[t] + refusals[t]
                      /\ starts[t] > 0 => result[t] \in {"value", "NULL"}
    BY DEF JoinedStartsAreSettled
  <2>1. ~Pending(t)
    BY DEF ThreadInv, HandleInv, Lifecycle, Pending
  <2>2. QED
    BY <2>1 DEF ThreadInv, HandleInv, HandleTypeOK, Settled
<1>2. QED
  BY <1>1, ThreadInvariant, PTL

(* When every pthread has been joined, or has ended, the counter is back   *)
(* at AV_MAX_THREADS - 1 and, unless a slot in use was overwritten, every  *)
(* id is back in the table: for several clients too.                       *)
THEOREM PoolWhole == ThreadSpec => []PoolWholeWhenJoined
<1>1. ThreadInv => PoolWholeWhenJoined
  <2> SUFFICES ASSUME ThreadInv, \A t \in Threads : pthread[t] # "live"
               PROVE  /\ freeThreadTop = MaxThreads - 1
                      /\ table = "intact" /\ threadIDsInitialized => StackIds = Ids
    BY DEF PoolWholeWhenJoined
  <2>1. \A t \in Threads : pc[t] = "idle"
    BY DEF ThreadInv, HandleInv, Lifecycle
  <2>2. Holders = {}
    BY <2>1 DEF Holders
  <2>3. freeThreadTop = MaxThreads - 1
    <3>1. CASE threadIDsInitialized
      <4>1. CountInv
        BY <3>1 DEF ThreadInv, PoolInv
      <4>2. freeThreadTop + 0 = MaxThreads - 1 /\ freeThreadTop \in Nat
        BY <2>2, <4>1, FS_EmptySet, MaxThreadsFits DEF CountInv, TypeOK, Conserved
      <4>3. QED
        BY <4>2
    <3>2. CASE ~threadIDsInitialized
      BY <3>2 DEF ThreadInv, PoolInv, Filling
    <3>3. QED
      BY <3>1, <3>2
  <2>4. ASSUME table = "intact", threadIDsInitialized PROVE StackIds = Ids
    <3>1. CountInv /\ Partition
      BY <2>4 DEF ThreadInv, PoolInv, PartitionInv
    <3>2. \A id \in Ids : \E i \in Stack : freeThreadIds[i] = id
      BY <2>2, <3>1 DEF Partition, NoneLost
    <3>3. \A i \in Stack : freeThreadIds[i] \in Ids
      BY <2>3, <3>1, MaxThreadsFits DEF CountInv, TypeOK, Stack, Slots
    <3>4. QED
      BY <3>2, <3>3 DEF StackIds, Stack
  <2>5. QED
    BY <2>3, <2>4
<1>2. QED
  BY <1>1, ThreadInvariant, PTL

(* Even if several clients fill the table one after the other, under       *)
(* started threads, the counter adds up, no entry runs with the id of the  *)
(* main thread, and ids differ until a slot in use is overwritten.         *)
THEOREM PoolStaysSound == ThreadSpec => []PoolSound
<1>1. ThreadInv => PoolSound
  <2> SUFFICES ASSUME ThreadInv PROVE PoolSound
    OBVIOUS
  <2>1. CASE threadIDsInitialized
    <3>1. CountInv /\ PartitionInv
      BY <2>1 DEF ThreadInv, PoolInv
    <3>2. UniqueUnlessClobbered
      BY <3>1 DEF PartitionInv, Partition, IdsApart, UniqueUnlessClobbered, UniqueIds, Own, Holders
    <3>3. QED
      BY <3>1, <3>2 DEF CountInv, PoolSound
  <2>2. CASE ~threadIDsInitialized
    <3>1. Filling
      BY <2>2 DEF ThreadInv, PoolInv
    <3>2. Holders = {} /\ Knowing = {} /\ \A t \in Threads : pc[t] # "held"
      BY <3>1 DEF Filling, Holders, Knowing
    <3>3. Conserved
      BY <3>1, <3>2, FS_EmptySet, MaxThreadsFits DEF Filling, Conserved
    <3>4. QED
      BY <3>2, <3>3 DEF PoolSound, NeverMainId, UniqueUnlessClobbered, UniqueIds
  <2>3. QED
    BY <2>1, <2>2
<1>2. QED
  BY <1>1, ThreadInvariant, PTL

--------------------------------------------------------------------------------
(* With one client the flag is set before any other call looks at it.      *)

OneFiller == \A c \in Clients : call[c].at = "fill" => ~threadIDsInitialized

LEMMA OneFillerStep ==
  ASSUME \A c, d \in Clients : c = d,
         ThreadInv, OneFiller, [ThreadNext]_threadVars
  PROVE  OneFiller'
<1> USE OwnerIsClient DEF ThreadInv, HandleInv, HandleTypeOK
<1>1. CASE UNCHANGED threadVars
  BY <1>1 DEF threadVars, handleVars, OneFiller
<1>2. ASSUME NEW t \in Threads, Run(t) PROVE OneFiller'
  <2>1. call' = call /\ threadIDsInitialized' = threadIDsInitialized
    BY <1>2 DEF Run, Begin, Refused, PoolCall, CallEntry, Exit, handleVars
  <2>2. QED
    BY ONLY <2>1, OneFiller DEF OneFiller
<1>3. ASSUME NEW t \in Threads, CreateFirst(t) PROVE OneFiller'
  <2>1. ~threadIDsInitialized'
    BY <1>3 DEF CreateFirst
  <2>2. QED
    BY <2>1 DEF OneFiller
<1>4. ASSUME NEW t \in Threads, Create(t) \/ Start(t) \/ DestroyStopped(t) PROVE OneFiller'
  <2>1. call' = call /\ threadIDsInitialized' = threadIDsInitialized
    BY <1>4 DEF Create, Start, DestroyStopped
  <2>2. QED
    BY ONLY <2>1, OneFiller DEF OneFiller
<1>5. ASSUME NEW t \in Threads, Join(t) \/ DestroyRunning(t) PROVE OneFiller'
  <2>1. \A c \in Clients : call'[c].at # "fill"
    BY <1>5 DEF Join, DestroyRunning, Enters
  <2>2. QED
    BY <2>1 DEF OneFiller
<1>6. ASSUME NEW c \in Clients, FillSlot(c) PROVE OneFiller'
  <2>1. ~threadIDsInitialized'
    BY <1>6 DEF OneFiller, FillSlot
  <2>2. QED
    BY <2>1 DEF OneFiller
<1>7. ASSUME NEW c \in Clients, FinishFill(c) \/ JoinReturns(c) \/ DestroyReturns(c) PROVE OneFiller'
  <2>1. \A d \in Clients : call'[d].at # "fill"
    BY <1>7 DEF FinishFill, JoinReturns, DestroyReturns, Returns, Ready
  <2>2. QED
    BY <2>1 DEF OneFiller
<1>8. QED
  BY <1>1, <1>2, <1>3, <1>4, <1>5, <1>6, <1>7 DEF ThreadNext, Client

(* Steps on the table that is filled are steps on the table the refinement *)
(* maps to.                                                                *)
LEMMA FilledPoolStep ==
  ASSUME Next, FilledTable = freeThreadIds, FilledTable' = freeThreadIds'
  PROVE  FilledPool!Next
<1> PICK t \in Threads : Enter(t) \/ PoolStep(t) \/ EntryReturns(t) \/ Leave(t)
  BY DEF Next
<1> USE DEF Goto, FilledPool!Goto, FilledPool!Next
<1>0. FilledPool!InvalidThreadId = InvalidThreadId
  BY DEF FilledPool!InvalidThreadId, InvalidThreadId
<1>1. CASE Enter(t)
  BY <1>1 DEF Enter, FilledPool!Enter, FilledPool!MainThreadId, MainThreadId
<1>2. CASE EntryReturns(t)
  BY <1>2 DEF EntryReturns, FilledPool!EntryReturns
<1>3. CASE Leave(t)
  BY <1>0, <1>3 DEF Leave, FilledPool!Leave
<1>4. CASE PoolStep(t)
  <2>1. CASE AllocLoad(t)
    BY <2>1 DEF AllocLoad, FilledPool!PoolStep, FilledPool!AllocLoad
  <2>2. CASE AllocRefused(t)
    BY <1>0, <2>2 DEF AllocRefused, FilledPool!PoolStep, FilledPool!AllocRefused
  <2>3. CASE AllocCas(t)
    BY <2>3 DEF AllocCas, FilledPool!PoolStep, FilledPool!AllocCas
  <2>4. CASE AllocRetry(t)
    BY <2>4 DEF AllocRetry, FilledPool!PoolStep, FilledPool!AllocRetry
  <2>5. CASE AllocRead(t)
    BY <2>5 DEF AllocRead, FilledPool!PoolStep, FilledPool!AllocRead
  <2>6. CASE FreeLoad(t)
    BY <2>6 DEF FreeLoad, FilledPool!PoolStep, FilledPool!FreeLoad
  <2>7. CASE FreeWrite(t)
    <3>1. FilledPool!InUse(t, top[t]) <=> InUse(t, top[t])
      BY DEF FilledPool!InUse, InUse
    <3>2. QED
      BY <2>7, <3>1 DEF FreeWrite, FilledPool!PoolStep, FilledPool!FreeWrite
  <2>8. CASE FreeCas(t)
    BY <2>8 DEF FreeCas, FilledPool!PoolStep, FilledPool!FreeCas
  <2>9. CASE FreeRetry(t)
    BY <2>9 DEF FreeRetry, FilledPool!PoolStep, FilledPool!FreeRetry
  <2>10. QED
    BY <1>4, <2>1, <2>2, <2>3, <2>4, <2>5, <2>6, <2>7, <2>8, <2>9 DEF PoolStep
<1>5. QED
  BY <1>1, <1>2, <1>3, <1>4

LEMMA FilledInit == ThreadInit => FilledPool!Init
<1>1. ThreadInit => FilledTable = [i \in Slots |-> InitialId(i)]
  BY DEF ThreadInit, FilledTable
<1>2. QED
  BY <1>1 DEF ThreadInit, FilledPool!Init, FilledPool!Slots, Slots, FilledPool!InitialId, InitialId,
              FilledPool!MainThreadId, MainThreadId

LEMMA FilledNext ==
  ASSUME \A c, d \in Clients : c = d,
         ThreadInv, OneFiller, [ThreadNext]_threadVars
  PROVE  [FilledPool!Next]_(FilledPool!idVars)
<1>1. CASE UNCHANGED threadVars
  BY <1>1 DEF threadVars, handleVars, idVars, FilledTable, FilledPool!idVars
<1>2. ASSUME NEW t \in Threads, Run(t) PROVE FilledPool!Next
  <2>1. threadIDsInitialized /\ threadIDsInitialized' /\ Next
    BY <1>2, RunIsPoolStep
  <2>2. FilledTable = freeThreadIds /\ FilledTable' = freeThreadIds'
    BY ONLY <2>1 DEF FilledTable
  <2>3. QED
    BY <2>1, <2>2, FilledPoolStep
<1>3. ASSUME UNCHANGED idVars, UNCHANGED threadIDsInitialized PROVE UNCHANGED FilledPool!idVars
  BY <1>3 DEF FilledPool!idVars, idVars, FilledTable
<1>4. ASSUME NEW t \in Threads,
             \/ Create(t) \/ CreateFirst(t) \/ Start(t) \/ Join(t)
             \/ DestroyRunning(t) \/ DestroyStopped(t)
      PROVE  UNCHANGED FilledPool!idVars
  BY <1>3, <1>4 DEF Create, CreateFirst, Start, Join, DestroyRunning, DestroyStopped
<1>5. ASSUME NEW c \in Clients, JoinReturns(c) \/ DestroyReturns(c)
      PROVE  UNCHANGED FilledPool!idVars
  BY <1>3, <1>5 DEF JoinReturns, DestroyReturns
<1>6. ASSUME NEW c \in Clients, FillSlot(c) PROVE UNCHANGED FilledPool!idVars
  <2>1. ~threadIDsInitialized /\ ~threadIDsInitialized'
    BY <1>6 DEF OneFiller, FillSlot
  <2>2. FilledTable' = FilledTable
    BY ONLY <2>1 DEF FilledTable
  <2>3. table' = table /\ UNCHANGED <<freeThreadTop, pc, top, currentThreadId>>
    BY <1>6, <2>1 DEF FillSlot
  <2>4. QED
    BY <2>2, <2>3 DEF FilledPool!idVars
<1>7. ASSUME NEW c \in Clients, FinishFill(c) PROVE UNCHANGED FilledPool!idVars
  <2>1. ~threadIDsInitialized /\ threadIDsInitialized' /\ ThreadNext
    BY <1>7 DEF OneFiller, FinishFill, ThreadNext, Client
  <2>2. UNCHANGED idVars /\ freeThreadIds = [i \in Slots |-> InitialId(i)]
    BY <2>1, FirstFillEnds
  <2>3. FilledTable' = freeThreadIds'
    BY ONLY <2>1 DEF FilledTable
  <2>4. FilledTable = [i \in Slots |-> InitialId(i)]
    BY ONLY <2>1 DEF FilledTable
  <2>5. QED
    BY <2>2, <2>3, <2>4 DEF FilledPool!idVars, idVars
<1>8. QED
  BY <1>1, <1>2, <1>4, <1>5, <1>6, <1>7 DEF ThreadNext, Client

(* While only one client creates threads, the handles and the pthreads use *)
(* the pool as ThreadIds.tla describes it, table filled from the start, so *)
(* that everything ThreadIdsProofs proves holds of them.                   *)
THEOREM ThreadRefinement ==
  ASSUME \A c, d \in Clients : c = d
  PROVE  ThreadSpec => ImplementsThreadIds
<1>1. ThreadInit => OneFiller
  BY DEF ThreadInit, OneFiller, Ready
<1>2. ThreadInv /\ OneFiller /\ [ThreadNext]_threadVars => OneFiller'
  BY OneFillerStep
<1>3. ThreadInv /\ OneFiller /\ [ThreadNext]_threadVars => [FilledPool!Next]_(FilledPool!idVars)
  BY FilledNext
<1>4. QED
  BY <1>1, <1>2, <1>3, FilledInit, ThreadInvariant, PTL
  DEF ThreadSpec, ImplementsThreadIds, FilledPool!Spec

================================================================================
