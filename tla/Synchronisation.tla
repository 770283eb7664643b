----------------------------- MODULE Synchronisation -----------------------------
(***************************************************************************)
(* src/threading/avSemaphore.c and avMutex.c (mutexes and condition        *)
(* variables), POSIX: the library's calls over the primitives of the       *)
(* operating system, which are external.  The timed waits answer false at  *)
(* once, whatever the timeout: nothing is stated of what their interface   *)
(* promises, only that they do no harm to the other calls.                 *)
(*                                                                         *)
(* Semaphore: threads wait and post in any order.  Condition variable: one *)
(* thread waits in a loop for a flag, as the interface asks, with one or   *)
(* the other kind of wait, and the others set it and signal or broadcast.  *)
(***************************************************************************)
EXTENDS Integers, FiniteSets

CONSTANTS Threads, Waiter,  (* the threads, the one that waits for the flag *)
          InitialCount,     (* the semaphore's initialCount                 *)
          MaxPosted,        (* bound: how much is posted in all             *)
          MaxInterrupts     (* bound: signals that arrive during sem_wait   *)

ASSUME ThreadsAreFinite == IsFiniteSet(Threads)
ASSUME WaiterIsThread == Waiter \in Threads
ASSUME NobodyIsNoThread == "nobody" \notin Threads
ASSUME CountsAreNatural == InitialCount \in Nat /\ MaxPosted \in Nat

VARIABLES value,     (* the semaphore's value                               *)
          posting,   (* posting[t]: what is left of t's PostCount           *)
          sum,       (* totals: asked to post, waits returned, interrupted  *)
          holder,    (* who holds the mutex, or "nobody"                    *)
          waiting,   (* the threads in pthread_cond_wait                    *)
          ready,     (* the flag                                            *)
          kind,      (* how the waiter waits; "none": there is no waiter    *)
          place      (* place[t]: where t is in its use of the condition    *)

semaphoreVars == <<value, posting, sum>>
conditionVars == <<holder, waiting, ready, kind, place>>
syncVars == <<semaphoreVars, conditionVars>>

SyncInit ==
    /\ value = InitialCount
    /\ posting = [t \in Threads |-> 0]
    /\ sum = [asked |-> 0, taken |-> 0, interrupted |-> 0]
    /\ holder = "nobody"
    /\ waiting = {}
    /\ ready = FALSE
    /\ kind \in {"none", "wait", "timed"}
    /\ place = [t \in Threads |-> "start"]

--------------------------------------------------------------------------------
(* avSemaphoreWait and a successful avSemaphoreTryWait.                    *)
SemaphoreWait(t) ==
    /\ posting[t] = 0
    /\ value > 0
    /\ value' = value - 1
    /\ sum' = [sum EXCEPT !.taken = @ + 1]
    /\ UNCHANGED <<posting, conditionVars>>

(* avSemaphoreTryWait that finds no permit.                                *)
TryWaitFails(t) ==
    /\ posting[t] = 0
    /\ value = 0
    /\ UNCHANGED syncVars

(* avSemaphoreTimedWait returns false at once, also when there is a permit. *)
SemaphoreTimedWait(t) ==
    /\ posting[t] = 0
    /\ UNCHANGED syncVars

(* sem_wait returns -1 with EINTR; waitSemaphore does not look at it.      *)
WaitInterrupted(t) ==
    /\ posting[t] = 0
    /\ sum.interrupted < MaxInterrupts
    /\ sum' = [sum EXCEPT !.taken = @ + 1, !.interrupted = @ + 1]
    /\ UNCHANGED <<value, posting, conditionVars>>

(* avSemaphorePost is avSemaphorePostCount of one.                         *)
PostCount(t, n) ==
    /\ posting[t] = 0
    /\ sum.asked + n <= MaxPosted
    /\ posting' = [posting EXCEPT ![t] = n]
    /\ sum' = [sum EXCEPT !.asked = @ + n]
    /\ UNCHANGED <<value, conditionVars>>

PostOne(t) ==
    /\ posting[t] > 0
    /\ value' = value + 1
    /\ posting' = [posting EXCEPT ![t] = @ - 1]
    /\ UNCHANGED <<sum, conditionVars>>

--------------------------------------------------------------------------------
Goes(t, to) == place' = [place EXCEPT ![t] = to]

(* avMutexLock *)
MutexLock(t) ==
    /\ kind # "none" /\ place[t] \in {"start", "woken"}
    /\ holder = "nobody"
    /\ holder' = t
    /\ Goes(t, "locked")
    /\ UNCHANGED <<waiting, ready, kind, semaphoreVars>>

(* avMutexUnlock, when the thread has found or set the flag.               *)
MutexUnlock(t) ==
    /\ place[t] = "locked" /\ holder = t
    /\ ready
    /\ holder' = "nobody"
    /\ Goes(t, "done")
    /\ UNCHANGED <<waiting, ready, kind, semaphoreVars>>

(* avConditionVariableWait releases the mutex and waits in one step.       *)
ConditionWait ==
    /\ kind = "wait"
    /\ place[Waiter] = "locked" /\ ~ready
    /\ holder' = "nobody"
    /\ waiting' = waiting \cup {Waiter}
    /\ Goes(Waiter, "waiting")
    /\ UNCHANGED <<ready, kind, semaphoreVars>>

(* avConditionVariableTimedWait returns 0 at once and keeps the mutex.     *)
TimedWait ==
    /\ kind = "timed"
    /\ place[Waiter] = "locked" /\ ~ready
    /\ UNCHANGED syncVars

(* Mutation: the call on the condition variable does nothing. *)
SignalNobody(t) ==
    /\ t # Waiter
    /\ place[t] = "locked" /\ holder = t /\ ~ready
    /\ ready' = TRUE
    /\ UNCHANGED <<holder, waiting, place, kind, semaphoreVars>>

(* The flag is set under the mutex; then avConditionVariableSignal wakes a *)
(* waiting thread, avConditionVariableBroadcast all.                       *)
SetAndSignal(t) ==
    /\ t # Waiter
    /\ place[t] = "locked" /\ holder = t /\ ~ready
    /\ ready' = TRUE
    /\ \E woken \in SUBSET waiting :
          /\ woken # {} \/ waiting = {}
          /\ waiting' = waiting \ woken
          /\ place' = [u \in Threads |-> IF u \in woken THEN "woken" ELSE place[u]]
    /\ UNCHANGED <<holder, kind, semaphoreVars>>

(* pthread_cond_wait may return without a signal.                          *)
WakesByItself ==
    /\ Waiter \in waiting
    /\ waiting' = waiting \ {Waiter}
    /\ Goes(Waiter, "woken")
    /\ UNCHANGED <<holder, ready, kind, semaphoreVars>>

ConditionStep(t) ==
    \/ MutexLock(t) \/ MutexUnlock(t) \/ SetAndSignal(t)
    \/ t = Waiter /\ (ConditionWait \/ TimedWait)

SyncNext ==
    \/ WakesByItself
    \/ (kind = "none" \/ \A t \in Threads : place[t] = "done") /\ UNCHANGED syncVars
    \/ \E t \in Threads :
          \/ SemaphoreWait(t) \/ TryWaitFails(t) \/ SemaphoreTimedWait(t)
          \/ WaitInterrupted(t) \/ PostOne(t)
          \/ \E n \in 1..MaxPosted : PostCount(t, n)
          \/ ConditionStep(t)

(* Threads are scheduled, and a mutex that is released again and again is  *)
(* given to every thread that wants it; nothing wakes a thread by itself.  *)
SyncFairness ==
    \A t \in Threads : WF_syncVars(ConditionStep(t)) /\ SF_syncVars(MutexLock(t))

--------------------------------------------------------------------------------

(* Every wait that returned took one of the permits that were posted,      *)
(* however the posts of several threads mix, unless a signal ended it.     *)
PermitsConserved ==
    (\A t \in Threads : posting[t] = 0)
       => value + sum.taken = InitialCount + sum.asked + sum.interrupted

(* Through waits, signals, broadcasts and wake-ups without a signal, the   *)
(* thread that holds the mutex is the only one between its lock and its    *)
(* unlock, and a thread in avConditionVariableWait is not.                 *)
MutexExcludes ==
    /\ \A t \in Threads : place[t] = "locked" <=> holder = t
    /\ waiting = {t \in Threads : place[t] = "waiting"}

(* avConditionVariableWait lets the others set the flag, and returns when  *)
(* they have: no signal is lost between its unlock and its wait.           *)
WaitersProceed == kind = "wait" => <>(place[Waiter] = "done")

(* Semaphores count, and conditions wake those who wait for them.          *)
SyncSound == []PermitsConserved /\ []MutexExcludes /\ WaitersProceed
================================================================================
