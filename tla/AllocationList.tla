----------------------------- MODULE AllocationList -----------------------------
(***************************************************************************)
(* src/memory/avMemory.c with AV_DEBUG_ALLOC: the list of live allocations *)
(* (g_allocList) that avDumpLeaks reports at exit.  Threads use it without *)
(* a lock, so every access to a shared pointer is a step of its own.       *)
(*                                                                         *)
(* malloc, calloc, realloc and free are external and take effect at once;  *)
(* they do not fail, because the code leaves the program when they do.     *)
(* Records that were freed keep their next pointer, as with the allocators *)
(* the library is used with, and show any ptr.                             *)
(***************************************************************************)
EXTENDS Integers, Sequences, FiniteSets

CONSTANTS Tasks,     (* the threads that allocate and free                *)
          Blocks,    (* addresses malloc may return to the program        *)
          Records,   (* addresses malloc may return for an AvAllocRecord  *)
          NULL,
          MaxAllocations  (* bound: how many blocks are allocated in all  *)

ASSUME MemoryIsFinite == IsFiniteSet(Tasks) /\ IsFiniteSet(Records)
ASSUME NullIsNoAddress == NULL \notin Blocks \cup Records
ASSUME MaxAllocationsIsNat == MaxAllocations \in Nat

VARIABLES owner,     (* owner[p]: which allocation p is the block of; 0 when it is free *)
          record,    (* record[r]: the AvAllocRecord at r                 *)
          live,      (* the records that are allocated                    *)
          list,      (* g_allocList                                       *)
          task,      (* task[t]: where t is and its locals                *)
          count,     (* allocations so far: names them                    *)
          raced,     (* which calls were in the list at once              *)
          reissued,  (* blocks freed and allocated again before the free removed its record *)
          end        (* whether the program runs, and what it reported     *)

listVars == <<owner, record, live, list, task, count, raced, reissued, end>>

Allocated == {p \in Blocks : owner[p] # 0}
Outside == [at |-> "idle", old |-> NULL, new |-> NULL, item |-> NULL, link |-> NULL]
Pushing(t) == task[t].at = "publish"
Removing(t) == task[t].at \in {"walk", "unlink"}

(* The head of the list is the link of no record.                          *)
Deref(link) == IF link = NULL THEN list ELSE record[link].next

ListInit ==
    /\ owner = [p \in Blocks |-> 0]
    /\ record = [r \in Records |-> [ptr |-> NULL, of |-> 0, next |-> NULL]]
    /\ live = {}
    /\ list = NULL
    /\ task = [t \in Tasks |-> Outside]
    /\ count = 0
    /\ raced = {}
    /\ reissued = {}
    /\ end = [how |-> "running", leaks |-> <<>>]

At(t, place) == task[t].at = place
Becomes(t, r) == task' = [task EXCEPT ![t] = r]
Meets(t, kind) ==
    raced' = raced \cup {<<kind, "push">> : u \in {u \in Tasks \ {t} : Pushing(u)}}
                   \cup {<<kind, "remove">> : u \in {u \in Tasks \ {t} : Removing(u)}}

(* p becomes the block of a new allocation.                                *)
Issued(p, freed) ==
    /\ count < MaxAllocations
    /\ count' = count + 1
    /\ owner' = [x \in Blocks |-> IF x = p THEN count + 1 ELSE IF x = freed THEN 0 ELSE owner[x]]
    /\ reissued' = IF \E t \in Tasks : task[t].old = p THEN reissued \cup {p} ELSE reissued

(* avAllocateDebug_, avCallocateDebug_ *)
Allocate(t, p) ==
    /\ At(t, "idle")
    /\ p \notin Allocated
    /\ Issued(p, NULL)
    /\ Becomes(t, [Outside EXCEPT !.at = "link", !.new = p])
    /\ UNCHANGED <<record, live, list, raced, end>>

(* avFreeDebug_: the memory is free before its record is looked for.  A    *)
(* block is not freed while a call that returns it is still under way.     *)
Free(t, p) ==
    /\ At(t, "idle")
    /\ p \in Allocated
    /\ \A u \in Tasks : task[u].new # p
    /\ owner' = [owner EXCEPT ![p] = 0]
    /\ Becomes(t, [Outside EXCEPT !.at = "enter", !.old = p])
    /\ UNCHANGED <<record, live, list, count, raced, reissued, end>>

(* avReallocateDebug_ with a size: realloc moves the block or not, then    *)
(* avTrackRealloc removes the old record and adds one.                     *)
Reallocate(t, p, q) ==
    /\ At(t, "idle")
    /\ p \in Allocated
    /\ \A u \in Tasks : task[u].new # p
    /\ q = p \/ q \notin Allocated
    /\ Issued(q, p)
    /\ Becomes(t, [Outside EXCEPT !.at = "enter", !.old = p, !.new = q])
    /\ UNCHANGED <<record, live, list, raced, end>>

--------------------------------------------------------------------------------

(* avTrackAlloc: a record is filled in, its next read from the head.       *)
Link(t, r) ==
    /\ At(t, "link")
    /\ r \notin live
    /\ live' = live \cup {r}
    /\ record' = [record EXCEPT ![r] = [ptr |-> task[t].new, of |-> owner[task[t].new], next |-> list]]
    /\ Becomes(t, [task[t] EXCEPT !.at = "publish", !.item = r])
    /\ Meets(t, "push")
    /\ UNCHANGED <<owner, list, count, reissued, end>>

Publish(t) ==
    /\ At(t, "publish")
    /\ list' = task[t].item
    /\ Becomes(t, Outside)
    /\ UNCHANGED <<owner, record, live, count, raced, reissued, end>>

(* avTrackFree returns; a realloc goes on to avTrackAlloc.                 *)
Untracked(t) ==
    IF task[t].new = NULL THEN Outside ELSE [Outside EXCEPT !.at = "link", !.new = task[t].new]

EnterWalk(t) ==
    /\ At(t, "enter")
    /\ Becomes(t, [task[t] EXCEPT !.at = "walk", !.link = NULL])
    /\ Meets(t, "remove")
    /\ UNCHANGED <<owner, record, live, list, count, reissued, end>>

(* The end of the list: the pointer is not tracked.                        *)
WalkEnds(t) ==
    /\ At(t, "walk")
    /\ Deref(task[t].link) = NULL
    /\ Becomes(t, Untracked(t))
    /\ UNCHANGED <<owner, record, live, list, count, raced, reissued, end>>

WalkFinds(t) ==
    LET r == Deref(task[t].link) IN
    /\ At(t, "walk")
    /\ r # NULL
    /\ r \in live => record[r].ptr = task[t].old
    /\ Becomes(t, [task[t] EXCEPT !.at = "unlink"])
    /\ UNCHANGED <<owner, record, live, list, count, raced, reissued, end>>

(* Mutation: the walk does not move on. *)
WalkStays(t) == At(t, "walk") /\ Deref(task[t].link) # NULL /\ UNCHANGED listVars

WalkPasses(t) ==
    LET r == Deref(task[t].link) IN
    /\ At(t, "walk")
    /\ r # NULL
    /\ r \in live => record[r].ptr # task[t].old
    /\ Becomes(t, [task[t] EXCEPT !.link = r])
    /\ UNCHANGED <<owner, record, live, list, count, raced, reissued, end>>

(* toDelete = *current; *current = ( *current)->next; free(toDelete)        *)
Unlink(t) ==
    LET link == task[t].link
        toDelete == Deref(link)
    IN
    /\ At(t, "unlink")
    /\ toDelete \in live
    /\ IF link = NULL THEN list' = record[toDelete].next /\ UNCHANGED record
       ELSE record' = [record EXCEPT ![link].next = record[toDelete].next] /\ UNCHANGED list
    /\ live' = live \ {toDelete}
    /\ Becomes(t, Untracked(t))
    /\ UNCHANGED <<owner, count, raced, reissued, end>>

(* The record is gone, or was freed by another thread.                     *)
UnlinkCrashes(t) ==
    /\ At(t, "unlink")
    /\ Deref(task[t].link) \notin live
    /\ end' = [end EXCEPT !.how = "crash"]
    /\ UNCHANGED <<owner, record, live, list, task, count, raced, reissued>>

ListStep(t) ==
    \/ \E r \in Records : Link(t, r)
    \/ Publish(t) \/ EnterWalk(t) \/ WalkEnds(t) \/ WalkFinds(t) \/ WalkPasses(t) \/ Unlink(t)
    \/ UnlinkCrashes(t)

ListCall(t) ==
    \E p \in Blocks :
        \/ Allocate(t, p) \/ Free(t, p)
        \/ \E q \in Blocks : Reallocate(t, p, q)

(* The records avDumpLeaks visits, up to one round if they form a cycle.   *)
DumpLeaks ==
    LET Walk[n \in 0..Cardinality(Records)] ==
            IF n = 0 THEN IF list = NULL THEN <<>> ELSE <<list>>
            ELSE LET s == Walk[n - 1]
                 IN  IF s = <<>> \/ Len(s) <= n - 1 \/ record[s[Len(s)]].next = NULL THEN s
                     ELSE s \o <<record[s[Len(s)]].next>>
    IN  Walk[Cardinality(Records)]

Quiet == \A t \in Tasks : At(t, "idle")

(* avDumpLeaksImpl runs when the program exits.                            *)
Exit ==
    /\ Quiet
    /\ end' = [how |-> "exit", leaks |-> [i \in DOMAIN DumpLeaks |-> record[DumpLeaks[i]]]]
    /\ UNCHANGED <<owner, record, live, list, task, count, raced, reissued>>

ListNext ==
    \/ end.how = "running" /\ (Exit \/ \E t \in Tasks : ListCall(t) \/ ListStep(t))
    \/ end.how # "running" /\ UNCHANGED listVars

(* Every thread inside a call is scheduled.                                *)
ListFairness == \A t \in Tasks : WF_listVars(end.how = "running" /\ ListStep(t))

--------------------------------------------------------------------------------

Exited == end.how = "exit"
Reported == {end.leaks[i].ptr : i \in DOMAIN end.leaks}

(* Unless two threads were in the list at once, the report names every     *)
(* allocated block once and nothing else.                                  *)
ReportIsComplete ==
    Exited /\ raced = {} => Reported = Allocated /\ Len(end.leaks) = Cardinality(Allocated)

(* What it says of a block (size, message, place) is about the allocation  *)
(* that holds the block now, unless the block was allocated again by one   *)
(* thread while another was between free and avTrackFree.                  *)
ReportIsCurrent ==
    Exited /\ raced = {} =>
        \A i \in DOMAIN end.leaks :
            LET leak == end.leaks[i] IN leak.ptr \in reissued \/ leak.of = owner[leak.ptr]

(* Threads that race only to add records lose some of them: a leak may go  *)
(* unreported, but what is reported is a leak and no freed record is used. *)
AddRacesOnlyLose ==
    raced \subseteq {<<"push", "push">>} =>
        /\ end.how # "crash"
        /\ Exited => Reported \subseteq Allocated
        /\ \A t \in Tasks : Removing(t) => task[t].link = NULL \/ task[t].link \in live

ListSound == ReportIsComplete /\ ReportIsCurrent /\ AddRacesOnlyLose

(* Every call ends, unless a thread that removes a record meets another:   *)
(* the list can become a cycle then.                                       *)
ListCallsEnd ==
    \A t \in Tasks : ~At(t, "idle") ~> (At(t, "idle") \/ raced \ {<<"push", "push">>} # {})
================================================================================
