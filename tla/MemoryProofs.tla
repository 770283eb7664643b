------------------------------ MODULE MemoryProofs ------------------------------
(***************************************************************************)
(* What the components that allocate memory rest on: the list of           *)
(* allocations, for every number of threads, blocks and records, and the   *)
(* allocators, for every number of pages and all sizes.  ContainersProofs  *)
(* has the theorems, about the behaviours that TLC checks.                 *)
(***************************************************************************)
EXTENDS AllocationList, Allocators, InductionLemmas, FiniteSetTheorems

--------------------------------------------------------------------------------
(* The list of allocations.  Threads may only meet while they add records: *)
(* then what is reached from the head, and from the record a thread is     *)
(* about to publish, is a chain of live records without a repetition.      *)

Harmless == raced \subseteq {<<"push", "push">>}
Running == end = [how |-> "running", leaks |-> <<>>]
InList(t) == Pushing(t) \/ Removing(t)

TaskType == [at : {"idle", "link", "publish", "enter", "walk", "unlink"},
             old : Blocks \cup {NULL}, new : Blocks \cup {NULL},
             item : Records \cup {NULL}, link : Records \cup {NULL}]
RecordType == [ptr : Blocks \cup {NULL}, of : Nat, next : Records \cup {NULL}]

ListTypeOK ==
    /\ owner \in [Blocks -> Nat]
    /\ record \in [Records -> RecordType]
    /\ live \subseteq Records
    /\ list \in Records \cup {NULL}
    /\ task \in [Tasks -> TaskType]
    /\ count \in Nat
    /\ reissued \subseteq Blocks

(* What a thread knows where it is: the block it frees, the block it adds. *)
PlaceFits(t) ==
    /\ task[t].old # NULL <=> task[t].at \in {"enter", "walk", "unlink"}
    /\ task[t].at \in {"link", "publish"} => task[t].new # NULL
    /\ At(t, "idle") => task[t].new = NULL
    /\ Pushing(t) => task[t].item # NULL

(* A block that is on its way to the list is allocated, by one thread.     *)
NewIsOwned ==
    \A t \in Tasks : task[t].new # NULL =>
        /\ owner[task[t].new] # 0
        /\ \A u \in Tasks : task[u].new = task[t].new => u = t

(* A block that was not reissued is being freed by one thread, which may   *)
(* be the one that has it again.                                           *)
FreedOnce ==
    \A t \in Tasks : task[t].old # NULL /\ task[t].old \notin reissued =>
        /\ \A u \in Tasks : task[u].old = task[t].old => u = t
        /\ owner[task[t].old] # 0 => task[t].new = task[t].old

(* Nobody is in the list with a thread that removes a record, and nobody   *)
(* is there with anybody if no two have met.                               *)
Separate ==
    \A t, u \in Tasks : t # u /\ InList(t) /\ InList(u) =>
        raced # {} /\ (Harmless => ~Removing(t))

TasksInv ==
    /\ ListTypeOK
    /\ \A t \in Tasks : PlaceFits(t)
    /\ NewIsOwned
    /\ FreedOnce
    /\ Separate

LEMMA TasksInvInit == ListInit => TasksInv /\ Running
BY NullIsNoAddress
   DEF ListInit, TasksInv, Running, ListTypeOK, PlaceFits, NewIsOwned, FreedOnce, Separate, Outside, At, InList, Pushing,
       Removing, TaskType, RecordType

(* A step of t gives t the record r, and no other thread.                  *)
LEMMA BecomesFacts ==
  ASSUME ListTypeOK, NEW t \in Tasks, NEW r \in TaskType, Becomes(t, r)
  PROVE  /\ task' \in [Tasks -> TaskType]
         /\ task'[t] = r
         /\ \A u \in Tasks : u # t => task'[u] = task[u]
BY DEF ListTypeOK, Becomes

LEMMA OutsideIsTask ==
  /\ Outside \in TaskType
  /\ \A p \in Blocks : [Outside EXCEPT !.at = "link", !.new = p] \in TaskType
  /\ Outside.old = NULL /\ Outside.new = NULL /\ Outside.at = "idle"
BY DEF Outside, TaskType


(* The calls: a block gets an owner or loses it, outside of the list.      *)
LEMMA IssuedFacts ==
  ASSUME ListTypeOK, NEW p \in Blocks, NEW freed \in Blocks \cup {NULL}, Issued(p, freed)
  PROVE  /\ owner' \in [Blocks -> Nat] /\ count' \in Nat /\ reissued' \subseteq Blocks
         /\ owner'[p] # 0
         /\ freed # p /\ freed # NULL => owner'[freed] = 0
         /\ \A x \in Blocks : x # p /\ x # freed => owner'[x] = owner[x]
         /\ reissued \subseteq reissued'
         /\ \A u \in Tasks : task[u].old = p => p \in reissued'
BY DEF ListTypeOK, Issued

LEMMA AllocateFacts ==
  ASSUME TasksInv, NEW t \in Tasks, NEW p \in Blocks, Allocate(t, p)
  PROVE  /\ At(t, "idle") /\ owner[p] = 0
         /\ task' \in [Tasks -> TaskType] /\ (\A u \in Tasks : u # t => task'[u] = task[u])
         /\ task'[t].at = "link" /\ task'[t].old = NULL /\ task'[t].new = p
         /\ Issued(p, NULL)
         /\ record' = record /\ live' = live /\ list' = list /\ raced' = raced /\ end' = end
<1>1. [Outside EXCEPT !.at = "link", !.new = p] \in TaskType
  BY OutsideIsTask
<1>2. task'[t] = [Outside EXCEPT !.at = "link", !.new = p]
      /\ task' \in [Tasks -> TaskType] /\ (\A u \in Tasks : u # t => task'[u] = task[u])
  BY <1>1, BecomesFacts DEF Allocate, TasksInv
<1>3. task'[t].at = "link" /\ task'[t].old = NULL /\ task'[t].new = p
  BY <1>2 DEF Outside
<1>4. QED
  BY <1>2, <1>3 DEF Allocate, Allocated

LEMMA FreeFacts ==
  ASSUME TasksInv, NEW t \in Tasks, NEW p \in Blocks, Free(t, p)
  PROVE  /\ At(t, "idle") /\ owner[p] # 0 /\ (\A u \in Tasks : task[u].new # p)
         /\ task' \in [Tasks -> TaskType] /\ (\A u \in Tasks : u # t => task'[u] = task[u])
         /\ task'[t].at = "enter" /\ task'[t].old = p /\ task'[t].new = NULL
         /\ owner' = [owner EXCEPT ![p] = 0] /\ reissued' = reissued /\ count' = count
         /\ record' = record /\ live' = live /\ list' = list /\ raced' = raced /\ end' = end
<1>1. [Outside EXCEPT !.at = "enter", !.old = p] \in TaskType
  BY DEF Outside, TaskType
<1>2. task'[t] = [Outside EXCEPT !.at = "enter", !.old = p]
      /\ task' \in [Tasks -> TaskType] /\ (\A u \in Tasks : u # t => task'[u] = task[u])
  BY <1>1, BecomesFacts DEF Free, TasksInv
<1>3. task'[t].at = "enter" /\ task'[t].old = p /\ task'[t].new = NULL
  BY <1>2 DEF Outside
<1>4. QED
  BY <1>2, <1>3 DEF Free, Allocated

LEMMA ReallocateFacts ==
  ASSUME TasksInv, NEW t \in Tasks, NEW p \in Blocks, NEW q \in Blocks, Reallocate(t, p, q)
  PROVE  /\ At(t, "idle") /\ owner[p] # 0 /\ (\A u \in Tasks : task[u].new # p)
         /\ q = p \/ owner[q] = 0
         /\ task' \in [Tasks -> TaskType] /\ (\A u \in Tasks : u # t => task'[u] = task[u])
         /\ task'[t].at = "enter" /\ task'[t].old = p /\ task'[t].new = q
         /\ Issued(q, p)
         /\ record' = record /\ live' = live /\ list' = list /\ raced' = raced /\ end' = end
<1>1. [Outside EXCEPT !.at = "enter", !.old = p, !.new = q] \in TaskType
  BY DEF Outside, TaskType
<1>2. task'[t] = [Outside EXCEPT !.at = "enter", !.old = p, !.new = q]
      /\ task' \in [Tasks -> TaskType] /\ (\A u \in Tasks : u # t => task'[u] = task[u])
  BY <1>1, BecomesFacts DEF Reallocate, TasksInv
<1>3. task'[t].at = "enter" /\ task'[t].old = p /\ task'[t].new = q
  BY <1>2 DEF Outside
<1>4. QED
  BY <1>2, <1>3 DEF Reallocate, Allocated

LEMMA CallTasks ==
  ASSUME TasksInv, NEW t \in Tasks, ListCall(t)
  PROVE  TasksInv' /\ end' = end
<1>1. ASSUME NEW p \in Blocks, Allocate(t, p) PROVE TasksInv' /\ end' = end
  <2> USE NullIsNoAddress
  <2>1. ListTypeOK'
    BY <1>1, AllocateFacts, IssuedFacts DEF TasksInv, ListTypeOK
  <2>2. \A u \in Tasks : PlaceFits(u)'
    BY <1>1, AllocateFacts DEF TasksInv, PlaceFits, At, Pushing
  <2>3. NewIsOwned'
    <3>1. \A u \in Tasks : task[u].new # p
      BY <1>1, AllocateFacts DEF TasksInv, NewIsOwned
    <3>2. \A u \in Tasks : task'[u].new \in Blocks \cup {NULL}
      BY <2>1 DEF ListTypeOK, TaskType
    <3>3. owner'[p] # 0 /\ \A x \in Blocks : x # p => owner'[x] = owner[x]
      BY <1>1, AllocateFacts, IssuedFacts DEF TasksInv
    <3>4. QED
      BY <1>1, <3>1, <3>2, <3>3, AllocateFacts DEF TasksInv, NewIsOwned
  <2>4. FreedOnce'
    <3>1. \A u \in Tasks : task'[u].old = task[u].old \/ (u = t /\ task'[u].old = NULL)
      BY <1>1, AllocateFacts
    <3>2. \A u \in Tasks : task'[u].old \in Blocks \cup {NULL}
      BY <2>1 DEF ListTypeOK, TaskType
    <3>3. \A u \in Tasks : task[u].old = p => p \in reissued'
      BY <1>1, AllocateFacts, IssuedFacts DEF TasksInv
    <3>4. reissued \subseteq reissued' /\ \A x \in Blocks : x # p => owner'[x] = owner[x]
      BY <1>1, AllocateFacts, IssuedFacts DEF TasksInv
    <3>5. QED
      BY <1>1, <3>1, <3>2, <3>3, <3>4, AllocateFacts DEF TasksInv, FreedOnce
  <2>5. Separate'
    BY <1>1, AllocateFacts DEF TasksInv, Separate, InList, Pushing, Removing, Harmless
  <2>6. QED
    BY <1>1, <2>1, <2>2, <2>3, <2>4, <2>5, AllocateFacts DEF TasksInv
<1>2. ASSUME NEW p \in Blocks, Free(t, p) PROVE TasksInv' /\ end' = end
  <2> USE NullIsNoAddress
  <2>1. ListTypeOK'
    BY <1>2, FreeFacts DEF TasksInv, ListTypeOK
  <2>2. \A u \in Tasks : PlaceFits(u)'
    BY <1>2, FreeFacts DEF TasksInv, PlaceFits, At, Pushing
  <2>3. NewIsOwned'
    <3>1. \A x \in Blocks : x # p => owner'[x] = owner[x]
      BY <1>2, FreeFacts DEF TasksInv, ListTypeOK
    <3>2. \A u \in Tasks : task'[u].new \in Blocks \cup {NULL}
      BY <2>1 DEF ListTypeOK, TaskType
    <3>3. QED
      BY <1>2, <3>1, <3>2, FreeFacts DEF TasksInv, NewIsOwned
  <2>4. FreedOnce'
    <3>1. \A u \in Tasks : task[u].old = p => p \in reissued
      BY <1>2, FreeFacts DEF TasksInv, FreedOnce
    <3>2. owner'[p] = 0 /\ \A x \in Blocks : x # p => owner'[x] = owner[x]
      BY <1>2, FreeFacts DEF TasksInv, ListTypeOK
    <3>3. \A u \in Tasks : task'[u].old \in Blocks \cup {NULL}
      BY <2>1 DEF ListTypeOK, TaskType
    <3>4. QED
      BY <1>2, <3>1, <3>2, <3>3, FreeFacts DEF TasksInv, FreedOnce
  <2>5. Separate'
    BY <1>2, FreeFacts DEF TasksInv, Separate, InList, Pushing, Removing, Harmless
  <2>6. QED
    BY <1>2, <2>1, <2>2, <2>3, <2>4, <2>5, FreeFacts DEF TasksInv
<1>3. ASSUME NEW p \in Blocks, NEW q \in Blocks, Reallocate(t, p, q) PROVE TasksInv' /\ end' = end
  <2> USE NullIsNoAddress
  <2>1. ListTypeOK'
    BY <1>3, ReallocateFacts, IssuedFacts DEF TasksInv, ListTypeOK
  <2>2. \A u \in Tasks : PlaceFits(u)'
    BY <1>3, ReallocateFacts DEF TasksInv, PlaceFits, At, Pushing
  <2>3. /\ owner'[q] # 0 /\ (q # p => owner'[p] = 0)
        /\ \A x \in Blocks : x # p /\ x # q => owner'[x] = owner[x]
    BY <1>3, ReallocateFacts, IssuedFacts DEF TasksInv
  <2>4. /\ reissued \subseteq reissued'
        /\ \A u \in Tasks : task[u].old = q => q \in reissued'
    BY <1>3, ReallocateFacts, IssuedFacts DEF TasksInv
  <2>5. NewIsOwned'
    <3>1. \A u \in Tasks : task[u].new # q
      BY <1>3, ReallocateFacts DEF TasksInv, NewIsOwned
    <3>2. \A u \in Tasks : task'[u].new \in Blocks \cup {NULL}
      BY <2>1 DEF ListTypeOK, TaskType
    <3>3. QED
      BY <1>3, <2>3, <3>1, <3>2, ReallocateFacts DEF TasksInv, NewIsOwned
  <2>6. FreedOnce'
    <3>1. \A u \in Tasks : task[u].old = p => p \in reissued
      BY <1>3, ReallocateFacts DEF TasksInv, FreedOnce
    <3>2. \A u \in Tasks : task'[u].old \in Blocks \cup {NULL}
      BY <2>1 DEF ListTypeOK, TaskType
    <3>3. QED
      BY <1>3, <2>3, <2>4, <3>1, <3>2, ReallocateFacts DEF TasksInv, FreedOnce
  <2>7. Separate'
    BY <1>3, ReallocateFacts DEF TasksInv, Separate, InList, Pushing, Removing, Harmless
  <2>8. QED
    BY <1>3, <2>1, <2>2, <2>5, <2>6, <2>7, ReallocateFacts DEF TasksInv
<1>4. QED
  BY <1>1, <1>2, <1>3 DEF ListCall

(* The steps inside of the list.                                           *)
LEMMA UntrackedFacts ==
  ASSUME ListTypeOK, NEW t \in Tasks
  PROVE  /\ Untracked(t) \in TaskType
         /\ Untracked(t).old = NULL /\ Untracked(t).new = task[t].new
         /\ Untracked(t).at = IF task[t].new = NULL THEN "idle" ELSE "link"
BY OutsideIsTask DEF Untracked, Outside, ListTypeOK, TaskType

LEMMA LinkFacts ==
  ASSUME TasksInv, NEW t \in Tasks, NEW r \in Records, Link(t, r)
  PROVE  /\ At(t, "link") /\ r \notin live /\ live' = live \cup {r}
         /\ record' = [record EXCEPT ![r] = [ptr |-> task[t].new, of |-> owner[task[t].new], next |-> list]]
         /\ task' \in [Tasks -> TaskType] /\ (\A u \in Tasks : u # t => task'[u] = task[u])
         /\ task'[t].at = "publish" /\ task'[t].item = r
         /\ task'[t].old = task[t].old /\ task'[t].new = task[t].new
         /\ Meets(t, "push")
         /\ owner' = owner /\ list' = list /\ count' = count /\ reissued' = reissued /\ end' = end
<1>1. task[t] \in TaskType
  BY DEF TasksInv, ListTypeOK
<1>2. [task[t] EXCEPT !.at = "publish", !.item = r] \in TaskType
  BY <1>1 DEF TaskType
<1>3. task'[t] = [task[t] EXCEPT !.at = "publish", !.item = r]
      /\ task' \in [Tasks -> TaskType] /\ (\A u \in Tasks : u # t => task'[u] = task[u])
  BY <1>2, BecomesFacts DEF Link, TasksInv
<1>4. task'[t].at = "publish" /\ task'[t].item = r /\ task'[t].old = task[t].old /\ task'[t].new = task[t].new
  BY <1>1, <1>3 DEF TaskType
<1>5. QED
  BY <1>3, <1>4 DEF Link

LEMMA PublishFacts ==
  ASSUME TasksInv, NEW t \in Tasks, Publish(t)
  PROVE  /\ At(t, "publish") /\ list' = task[t].item
         /\ task' \in [Tasks -> TaskType] /\ (\A u \in Tasks : u # t => task'[u] = task[u])
         /\ task'[t].at = "idle" /\ task'[t].old = NULL /\ task'[t].new = NULL
         /\ owner' = owner /\ record' = record /\ live' = live /\ count' = count /\ raced' = raced
         /\ reissued' = reissued /\ end' = end
<1>1. task'[t] = Outside /\ task' \in [Tasks -> TaskType] /\ (\A u \in Tasks : u # t => task'[u] = task[u])
  BY OutsideIsTask, BecomesFacts DEF Publish, TasksInv
<1>2. QED
  BY <1>1, OutsideIsTask DEF Publish

(* A step of the walk moves t to a place in the list.                      *)
Walks(t, place, link) ==
    /\ task' \in [Tasks -> TaskType] /\ (\A u \in Tasks : u # t => task'[u] = task[u])
    /\ task'[t].at = place /\ task'[t].link = link
    /\ task'[t].old = task[t].old /\ task'[t].new = task[t].new
    /\ owner' = owner /\ record' = record /\ live' = live /\ list' = list
    /\ count' = count /\ reissued' = reissued /\ end' = end

(* It leaves the list for good, or to link the block it has now.           *)
Leaves(t) ==
    /\ task' \in [Tasks -> TaskType] /\ (\A u \in Tasks : u # t => task'[u] = task[u])
    /\ task'[t].at = IF task[t].new = NULL THEN "idle" ELSE "link"
    /\ task'[t].old = NULL /\ task'[t].new = task[t].new
    /\ owner' = owner /\ count' = count /\ raced' = raced /\ reissued' = reissued /\ end' = end

LEMMA DerefType == ASSUME ListTypeOK, NEW t \in Tasks PROVE Deref(task[t].link) \in Records \cup {NULL}
BY DEF ListTypeOK, TaskType, RecordType, Deref

LEMMA EnterFacts ==
  ASSUME TasksInv, NEW t \in Tasks, EnterWalk(t)
  PROVE  At(t, "enter") /\ Walks(t, "walk", NULL) /\ Meets(t, "remove")
<1>1. task[t] \in TaskType
  BY DEF TasksInv, ListTypeOK
<1>2. [task[t] EXCEPT !.at = "walk", !.link = NULL] \in TaskType
  BY <1>1 DEF TaskType
<1>3. task'[t] = [task[t] EXCEPT !.at = "walk", !.link = NULL]
      /\ task' \in [Tasks -> TaskType] /\ (\A u \in Tasks : u # t => task'[u] = task[u])
  BY <1>2, BecomesFacts DEF EnterWalk, TasksInv
<1>4. task'[t].at = "walk" /\ task'[t].link = NULL /\ task'[t].old = task[t].old /\ task'[t].new = task[t].new
  BY <1>1, <1>3 DEF TaskType
<1>5. QED
  BY <1>3, <1>4 DEF EnterWalk, Walks

LEMMA FindsFacts ==
  ASSUME TasksInv, NEW t \in Tasks, WalkFinds(t)
  PROVE  /\ At(t, "walk") /\ Walks(t, "unlink", task[t].link) /\ raced' = raced
         /\ Deref(task[t].link) \in Records
         /\ Deref(task[t].link) \in live => record[Deref(task[t].link)].ptr = task[t].old
<1>1. task[t] \in TaskType
  BY DEF TasksInv, ListTypeOK
<1>2. [task[t] EXCEPT !.at = "unlink"] \in TaskType
  BY <1>1 DEF TaskType
<1>3. task'[t] = [task[t] EXCEPT !.at = "unlink"]
      /\ task' \in [Tasks -> TaskType] /\ (\A u \in Tasks : u # t => task'[u] = task[u])
  BY <1>2, BecomesFacts DEF WalkFinds, TasksInv
<1>4. /\ task'[t].at = "unlink" /\ task'[t].link = task[t].link /\ task'[t].old = task[t].old
      /\ task'[t].new = task[t].new
  BY <1>1, <1>3 DEF TaskType
<1>5. QED
  BY <1>3, <1>4, DerefType DEF WalkFinds, Walks, TasksInv

LEMMA PassesFacts ==
  ASSUME TasksInv, NEW t \in Tasks, WalkPasses(t)
  PROVE  /\ At(t, "walk") /\ Walks(t, "walk", Deref(task[t].link)) /\ raced' = raced
         /\ Deref(task[t].link) \in Records
         /\ Deref(task[t].link) \in live => record[Deref(task[t].link)].ptr # task[t].old
<1> DEFINE r == Deref(task[t].link)
<1>1. task[t] \in TaskType /\ r \in Records
  BY DerefType DEF TasksInv, ListTypeOK, WalkPasses
<1> HIDE DEF r
<1>2. [task[t] EXCEPT !.link = r] \in TaskType
  BY <1>1 DEF TaskType
<1>3. Becomes(t, [task[t] EXCEPT !.link = r])
  BY DEF WalkPasses, r
<1>4. task'[t] = [task[t] EXCEPT !.link = r]
      /\ task' \in [Tasks -> TaskType] /\ (\A u \in Tasks : u # t => task'[u] = task[u])
  BY <1>2, <1>3, BecomesFacts DEF TasksInv
<1>5. /\ task'[t].at = task[t].at /\ task'[t].link = r /\ task'[t].old = task[t].old
      /\ task'[t].new = task[t].new
  BY <1>1, <1>4 DEF TaskType
<1>6. QED
  BY <1>1, <1>4, <1>5 DEF WalkPasses, Walks, At, r

LEMMA EndsFacts ==
  ASSUME TasksInv, NEW t \in Tasks, WalkEnds(t)
  PROVE  /\ At(t, "walk") /\ Deref(task[t].link) = NULL /\ Leaves(t)
         /\ record' = record /\ live' = live /\ list' = list
<1>1. task'[t] = Untracked(t) /\ task' \in [Tasks -> TaskType] /\ (\A u \in Tasks : u # t => task'[u] = task[u])
  BY UntrackedFacts, BecomesFacts DEF WalkEnds, TasksInv
<1>2. QED
  BY <1>1, UntrackedFacts DEF WalkEnds, Leaves, TasksInv

LEMMA UnlinkFacts ==
  ASSUME TasksInv, NEW t \in Tasks, Unlink(t)
  PROVE  /\ At(t, "unlink") /\ Leaves(t)
         /\ Deref(task[t].link) \in live /\ live' = live \ {Deref(task[t].link)}
         /\ task[t].link = NULL => list' = record[Deref(task[t].link)].next /\ record' = record
         /\ task[t].link # NULL =>
              list' = list /\ record' = [record EXCEPT ![task[t].link].next = record[Deref(task[t].link)].next]
<1>1. task'[t] = Untracked(t) /\ task' \in [Tasks -> TaskType] /\ (\A u \in Tasks : u # t => task'[u] = task[u])
  BY UntrackedFacts, BecomesFacts DEF Unlink, TasksInv
<1>2. QED
  BY <1>1, UntrackedFacts DEF Unlink, Leaves, TasksInv

LEMMA BlocksStay ==
  ASSUME TasksInv, NEW t \in Tasks, task' \in [Tasks -> TaskType],
         \A u \in Tasks : u # t => task'[u] = task[u],
         owner' = owner, reissued' = reissued,
         task'[t].new = task[t].new \/ (task'[t].new = NULL /\ task'[t].old = NULL),
         task'[t].old = task[t].old \/ task'[t].old = NULL
  PROVE  NewIsOwned' /\ FreedOnce'
<1>1. NewIsOwned'
  BY DEF TasksInv, NewIsOwned
<1>2. FreedOnce'
  BY DEF TasksInv, FreedOnce
<1>3. QED
  BY <1>1, <1>2

(* Whoever enters the list meets those who are in it.                      *)
LEMMA MeetsFacts ==
  ASSUME NEW t \in Tasks, NEW kind \in {"push", "remove"}, Meets(t, kind)
  PROVE  /\ raced \subseteq raced'
         /\ \A u \in Tasks : u # t /\ Pushing(u) => <<kind, "push">> \in raced'
         /\ \A u \in Tasks : u # t /\ Removing(u) => <<kind, "remove">> \in raced'
BY DEF Meets

LEMMA ApartStays ==
  ASSUME TasksInv, NEW t \in Tasks, raced \subseteq raced',
         \A u \in Tasks : u # t => task'[u] = task[u],
         Removing(t)' => Removing(t), Pushing(t)' => Pushing(t)
  PROVE  Separate'
BY DEF TasksInv, Separate, InList, Pushing, Removing, Harmless

LEMMA WalksTasks ==
  ASSUME TasksInv, NEW t \in Tasks, NEW place \in {"walk", "unlink"}, NEW link \in Records \cup {NULL},
         Walks(t, place, link), task[t].at \in {"enter", "walk", "unlink"}, Separate'
  PROVE  TasksInv'
<1>1. ListTypeOK'
  BY DEF TasksInv, ListTypeOK, Walks
<1>2. \A u \in Tasks : PlaceFits(u)'
  BY DEF TasksInv, PlaceFits, Walks, At, Pushing
<1>3. NewIsOwned' /\ FreedOnce'
  BY BlocksStay DEF Walks
<1>4. QED
  BY <1>1, <1>2, <1>3 DEF TasksInv

LEMMA LeavesTasks ==
  ASSUME TasksInv, NEW t \in Tasks, Leaves(t),
         record' \in [Records -> RecordType], live' \subseteq Records, list' \in Records \cup {NULL}
  PROVE  TasksInv'
<1>1. ListTypeOK'
  BY DEF TasksInv, ListTypeOK, Leaves
<1>2. \A u \in Tasks : PlaceFits(u)'
  BY DEF TasksInv, PlaceFits, Leaves, At, Pushing
<1>3. NewIsOwned' /\ FreedOnce'
  BY BlocksStay DEF Leaves
<1>4. Separate'
  BY ApartStays DEF Leaves, Removing, Pushing
<1>5. QED
  BY <1>1, <1>2, <1>3, <1>4 DEF TasksInv

LEMMA StepTasks ==
  ASSUME TasksInv, NEW t \in Tasks, ListStep(t), ~UnlinkCrashes(t)
  PROVE  TasksInv' /\ end' = end
<1>1. ASSUME NEW r \in Records, Link(t, r) PROVE TasksInv' /\ end' = end
  <2>1. [ptr |-> task[t].new, of |-> owner[task[t].new], next |-> list] \in RecordType
    <3>1. task[t].new \in Blocks
      BY <1>1, LinkFacts DEF TasksInv, PlaceFits, ListTypeOK, TaskType, At
    <3>2. owner[task[t].new] \in Nat /\ list \in Records \cup {NULL}
      BY <3>1 DEF TasksInv, ListTypeOK
    <3>3. QED
      BY <3>1, <3>2 DEF RecordType
  <2>2. record' \in [Records -> RecordType]
    BY <1>1, <2>1, LinkFacts DEF TasksInv, ListTypeOK
  <2>3. ListTypeOK'
    BY <1>1, <2>2, LinkFacts DEF TasksInv, ListTypeOK
  <2>4. \A u \in Tasks : PlaceFits(u)'
    BY <1>1, LinkFacts, NullIsNoAddress DEF TasksInv, PlaceFits, At, Pushing
  <2>5. NewIsOwned' /\ FreedOnce'
    BY <1>1, LinkFacts, BlocksStay
  <2>6. Separate'
    <3>1. /\ raced \subseteq raced'
          /\ \A u \in Tasks : u # t /\ Pushing(u) => <<"push", "push">> \in raced'
          /\ \A u \in Tasks : u # t /\ Removing(u) => <<"push", "remove">> \in raced'
      BY <1>1, LinkFacts, MeetsFacts
    <3>2. <<"push", "remove">> # <<"push", "push">>
      OBVIOUS
    <3>3. \A u \in Tasks : u # t => task'[u] = task[u]
      BY <1>1, LinkFacts
    <3>4. ~Removing(t)'
      BY <1>1, LinkFacts DEF Removing
    <3>5. QED
      BY <3>1, <3>2, <3>3, <3>4 DEF TasksInv, Separate, InList, Pushing, Removing, Harmless
  <2>7. QED
    BY <1>1, <2>3, <2>4, <2>5, <2>6, LinkFacts DEF TasksInv
<1>2. CASE Publish(t)
  <2>1. list' \in Records
    BY <1>2, PublishFacts DEF TasksInv, ListTypeOK, TaskType, PlaceFits, At, Pushing
  <2>2. ListTypeOK'
    BY <1>2, <2>1, PublishFacts DEF TasksInv, ListTypeOK
  <2>3. \A u \in Tasks : PlaceFits(u)'
    BY <1>2, PublishFacts DEF TasksInv, PlaceFits, At, Pushing
  <2>4. NewIsOwned' /\ FreedOnce'
    BY <1>2, PublishFacts, BlocksStay
  <2>5. Separate'
    BY <1>2, PublishFacts, ApartStays DEF Removing, Pushing
  <2>6. QED
    BY <1>2, <2>2, <2>3, <2>4, <2>5, PublishFacts DEF TasksInv
<1>3. CASE EnterWalk(t)
  <2>1. At(t, "enter") /\ Walks(t, "walk", NULL)
    BY <1>3, EnterFacts
  <2>2. Separate'
    <3>1. /\ raced \subseteq raced'
          /\ \A u \in Tasks : u # t /\ Pushing(u) => <<"remove", "push">> \in raced'
          /\ \A u \in Tasks : u # t /\ Removing(u) => <<"remove", "remove">> \in raced'
      BY <1>3, EnterFacts, MeetsFacts
    <3>2. <<"remove", "remove">> # <<"push", "push">> /\ <<"remove", "push">> # <<"push", "push">>
      OBVIOUS
    <3>3. \A u \in Tasks : u # t => task'[u] = task[u]
      BY <2>1 DEF Walks
    <3>4. QED
      BY <3>1, <3>2, <3>3 DEF TasksInv, Separate, InList, Pushing, Removing, Harmless
  <2>3. QED
    BY <2>1, <2>2, WalksTasks DEF At, Walks
<1>4. CASE WalkFinds(t)
  <2>1. At(t, "walk") /\ Walks(t, "unlink", task[t].link) /\ raced' = raced
    BY <1>4, FindsFacts
  <2>2. Separate'
    BY <2>1, ApartStays DEF Walks, Removing, Pushing, At
  <2>3. task[t].link \in Records \cup {NULL}
    BY DEF TasksInv, ListTypeOK, TaskType
  <2>4. QED
    BY <2>1, <2>2, <2>3, WalksTasks DEF At, Walks
<1>5. CASE WalkPasses(t)
  <2>1. At(t, "walk") /\ Walks(t, "walk", Deref(task[t].link)) /\ raced' = raced
        /\ Deref(task[t].link) \in Records
    BY <1>5, PassesFacts
  <2>2. Separate'
    BY <2>1, ApartStays DEF Walks, Removing, Pushing, At
  <2>3. QED
    BY <2>1, <2>2, WalksTasks DEF At, Walks
<1>6. CASE WalkEnds(t)
  BY <1>6, EndsFacts, LeavesTasks DEF TasksInv, ListTypeOK, Leaves
<1>7. CASE Unlink(t)
  <2> DEFINE r == Deref(task[t].link)
  <2>1. r \in Records /\ r \in live
    BY <1>7, UnlinkFacts DEF TasksInv, ListTypeOK
  <2>2. record[r] \in RecordType /\ record[r].next \in Records \cup {NULL}
    BY <2>1 DEF TasksInv, ListTypeOK, RecordType
  <2>3. \A l \in Records : [record[l] EXCEPT !.next = record[r].next] \in RecordType
    <3> DEFINE n == record[r].next
    <3> HIDE DEF n
    <3>1. ASSUME NEW x \in RecordType, n \in Records \cup {NULL} PROVE [x EXCEPT !.next = n] \in RecordType
      BY <3>1 DEF RecordType
    <3>2. QED
      BY <2>2, <3>1 DEF TasksInv, ListTypeOK, n
  <2>4. task[t].link \in Records \cup {NULL}
    BY DEF TasksInv, ListTypeOK, TaskType
  <2> HIDE DEF r
  <2>5. record' \in [Records -> RecordType]
    <3>1. CASE task[t].link = NULL
      BY <1>7, <3>1, UnlinkFacts DEF TasksInv, ListTypeOK
    <3>2. CASE task[t].link # NULL
      <4>1. record' = [record EXCEPT ![task[t].link] = [record[task[t].link] EXCEPT !.next = record[r].next]]
        BY <1>7, <3>2, UnlinkFacts DEF r
      <4>2. QED
        BY <2>3, <2>4, <4>1 DEF TasksInv, ListTypeOK
    <3>3. QED
      BY <3>1, <3>2
  <2>6. live' \subseteq Records /\ list' \in Records \cup {NULL}
    BY <1>7, <2>2, UnlinkFacts DEF TasksInv, ListTypeOK, r
  <2>7. QED
    BY <1>7, <2>5, <2>6, UnlinkFacts, LeavesTasks DEF Leaves
<1>8. QED
  BY <1>1, <1>2, <1>3, <1>4, <1>5, <1>6, <1>7 DEF ListStep

(* How many records may name a block p: one for each thread that has freed *)
(* it and not looked for the record yet, and one for the allocation that   *)
(* holds it, once its record is in the list.                               *)
Freeing(p) == {t \in Tasks : task[t].old = p}
Settled(p) == owner[p] # 0 /\ \A t \in Tasks : task[t].new # p
Owed(p) == Cardinality(Freeing(p)) + (IF Settled(p) THEN 1 ELSE 0)

Named(S, p) == {r \in S : record[r].ptr = p}
Balanced(S) ==
    \A p \in Blocks :
        /\ Cardinality(Named(S, p)) <= Owed(p)
        /\ raced = {} => Cardinality(Named(S, p)) = Owed(p)
Current(S) ==
    \A r \in S : LET p == record[r].ptr IN
        p \in reissued \/ Freeing(p) # {} \/ record[r].of = owner[p]

(* The chain s of n records from head.                                     *)
Follows(s, n, i) == IF i = n THEN NULL ELSE s[i + 1]
Of(s, n) == {s[i] : i \in 1..n}
IsChain(s, n, head) ==
    /\ s \in [1..n -> live]
    /\ \A i, j \in 1..n : s[i] = s[j] => i = j
    /\ head = Follows(s, n, 0)
    /\ \A i \in 1..n : record[s[i]].next = Follows(s, n, i) /\ record[s[i]].ptr \in Blocks
    /\ \A t \in Tasks : Pushing(t) => task[t].item \notin Of(s, n)
Good(s, n, head) ==
    IsChain(s, n, head) /\ Balanced(Of(s, n)) /\ (raced = {} => Current(Of(s, n)))

(* How far t has come along the chain.                                     *)
WalkFits(t, s, n) ==
    \E k \in 0..n :
        /\ task[t].link = IF k = 0 THEN NULL ELSE s[k]
        /\ \A j \in 1..k : record[s[j]].ptr # task[t].old
        /\ At(t, "unlink") => k < n /\ record[s[k + 1]].ptr = task[t].old

ItemFits(t) ==
    LET item == task[t].item IN
    /\ item \in live
    /\ record[item].ptr = task[t].new
    /\ raced = {} => record[item].next = list /\ record[item].of = owner[task[t].new]
    /\ \A u \in Tasks : Pushing(u) /\ task[u].item = item => u = t
    /\ \E n \in Nat : \E s \in [1..n -> live] : Good(s, n, record[item].next)

HeadFits ==
    \E n \in Nat : \E s \in [1..n -> live] :
        Good(s, n, list) /\ \A t \in Tasks : Removing(t) => WalkFits(t, s, n)

ChainInv == Harmless => HeadFits /\ \A t \in Tasks : Pushing(t) => ItemFits(t)

(* Counting.                                                               *)
LEMMA FreeingIsFinite == ASSUME NEW p PROVE IsFiniteSet(Freeing(p)) /\ Cardinality(Freeing(p)) \in Nat
BY FS_Subset, FS_CardinalityType, MemoryIsFinite DEF Freeing

LEMMA OwedType == ASSUME NEW p PROVE Owed(p) \in Nat
BY FreeingIsFinite DEF Owed

LEMMA NamedIsFinite ==
  ASSUME NEW S, S \subseteq Records, NEW p
  PROVE  /\ IsFiniteSet(Named(S, p)) /\ Cardinality(Named(S, p)) \in Nat
         /\ Cardinality(Named(S, p)) = 0 <=> Named(S, p) = {}
<1>1. Named(S, p) \subseteq Records
  BY DEF Named
<1>2. IsFiniteSet(Named(S, p))
  BY <1>1, FS_Subset, MemoryIsFinite
<1>3. QED
  BY <1>2, FS_CardinalityType, FS_EmptySet

LEMMA ChainIsLive ==
  ASSUME TasksInv, NEW n \in Nat, NEW s, NEW head, IsChain(s, n, head)
  PROVE  Of(s, n) \subseteq live /\ Of(s, n) \subseteq Records
BY DEF IsChain, Of, TasksInv, ListTypeOK

LEMMA OwedInit == ASSUME ListInit, NEW p \in Blocks PROVE Owed(p) = 0
<1>1. Freeing(p) = {}
  BY NullIsNoAddress DEF ListInit, Freeing, Outside
<1>2. ~Settled(p)
  BY DEF ListInit, Settled
<1>3. QED
  BY <1>1, <1>2, FS_EmptySet DEF Owed

LEMMA ChainInvInit == ListInit => ChainInv
<1> SUFFICES ASSUME ListInit PROVE HeadFits /\ \A t \in Tasks : Pushing(t) => ItemFits(t)
  BY DEF ChainInv
<1>1. \A t \in Tasks : ~Pushing(t) /\ ~Removing(t)
  BY DEF ListInit, Outside, Pushing, Removing
<1> DEFINE s == [i \in 1..0 |-> NULL]
<1>2. s \in [1..0 -> live] /\ Of(s, 0) = {}
  BY DEF Of
<1>3. IsChain(s, 0, list)
  BY <1>1, <1>2 DEF IsChain, ListInit, Follows
<1>4. \A p \in Blocks : Named({}, p) = {}
  BY DEF Named
<1>5. Balanced({})
  BY <1>4, OwedInit, FS_EmptySet DEF Balanced
<1>6. Good(s, 0, list)
  BY <1>2, <1>3, <1>5 DEF Good, Current
<1>7. HeadFits
  BY <1>1, <1>2, <1>6 DEF HeadFits
<1>8. QED
  BY <1>1, <1>7

(* A call changes nobody's debt: what is freed is owed, and what is        *)
(* allocated is owed when its record is in the list.                       *)
LEMMA FreeingStays ==
  ASSUME NEW t \in Tasks, \A u \in Tasks : u # t => task'[u] = task[u],
         NEW p \in Blocks, task'[t].old = p <=> task[t].old = p
  PROVE  Freeing(p)' = Freeing(p)
BY DEF Freeing

LEMMA FreeingGrows ==
  ASSUME NEW t \in Tasks, \A u \in Tasks : u # t => task'[u] = task[u],
         NEW p \in Blocks, task'[t].old = p, task[t].old # p
  PROVE  /\ Freeing(p)' = Freeing(p) \cup {t}
         /\ Cardinality(Freeing(p)') = Cardinality(Freeing(p)) + 1
<1>1. Freeing(p)' = Freeing(p) \cup {t} /\ t \notin Freeing(p)
  BY DEF Freeing
<1>2. QED
  BY <1>1, FreeingIsFinite, FS_AddElement

LEMMA FreeingShrinks ==
  ASSUME NEW t \in Tasks, \A u \in Tasks : u # t => task'[u] = task[u],
         NEW p \in Blocks, task'[t].old # p, task[t].old = p
  PROVE  /\ Freeing(p)' = Freeing(p) \ {t}
         /\ Cardinality(Freeing(p)') = Cardinality(Freeing(p)) - 1
         /\ Cardinality(Freeing(p)) >= 1
<1>1. Freeing(p)' = Freeing(p) \ {t} /\ t \in Freeing(p)
  <2>1. t \in Freeing(p) /\ t \notin Freeing(p)'
    BY DEF Freeing
  <2>2. \A u \in Tasks : u # t => (u \in Freeing(p)' <=> u \in Freeing(p))
    BY DEF Freeing
  <2>3. Freeing(p) \subseteq Tasks /\ Freeing(p)' \subseteq Tasks
    BY DEF Freeing
  <2>4. QED
    BY <2>1, <2>2, <2>3
<1>2. Cardinality(Freeing(p)') = Cardinality(Freeing(p)) - 1
  BY <1>1, FreeingIsFinite, FS_RemoveElement
<1>3. Cardinality(Freeing(p)) # 0
  BY <1>1, FreeingIsFinite, FS_EmptySet
<1>4. QED
  BY <1>1, <1>2, <1>3, FreeingIsFinite

(* What a call of t leaves for the chains.                                 *)
Keeps(t) ==
    /\ record' = record /\ live' = live /\ list' = list /\ raced' = raced /\ reissued \subseteq reissued'
    /\ \A u \in Tasks : u # t => task'[u] = task[u]
    /\ ~InList(t) /\ ~InList(t)'
    /\ \A p \in Blocks : /\ Owed(p)' = Owed(p)
                         /\ Freeing(p) \subseteq Freeing(p)'
                         /\ owner'[p] # owner[p] => Freeing(p)' # {} \/ ~Settled(p)

LEMMA IdleFacts ==
  ASSUME TasksInv, NEW t \in Tasks, At(t, "idle")
  PROVE  ~InList(t) /\ task[t].old = NULL /\ task[t].new = NULL
BY DEF InList, Pushing, Removing, At, TasksInv, PlaceFits

LEMMA CallKeeps ==
  ASSUME TasksInv, NEW t \in Tasks, ListCall(t)
  PROVE  Keeps(t)
<1> USE NullIsNoAddress
<1>1. ASSUME NEW q \in Blocks, Allocate(t, q) PROVE Keeps(t)
  <2>1. ~InList(t) /\ task[t].old = NULL /\ task[t].new = NULL /\ ~InList(t)'
    BY <1>1, AllocateFacts, IdleFacts DEF InList, Pushing, Removing
  <2>2. /\ reissued \subseteq reissued' /\ \A x \in Blocks : x # q => owner'[x] = owner[x]
    BY <1>1, AllocateFacts, IssuedFacts DEF TasksInv
  <2>3. ASSUME NEW p \in Blocks
        PROVE  /\ Owed(p)' = Owed(p) /\ Freeing(p)' = Freeing(p)
               /\ owner'[p] # owner[p] => ~Settled(p)
    <3>1. Freeing(p)' = Freeing(p)
      BY <1>1, <2>1, AllocateFacts, FreeingStays
    <3>2. Settled(p)' <=> Settled(p)
      BY <1>1, <2>1, <2>2, AllocateFacts DEF Settled
    <3>3. owner'[p] # owner[p] => ~Settled(p)
      BY <1>1, <2>2, AllocateFacts DEF Settled
    <3>4. QED
      BY <3>1, <3>2, <3>3 DEF Owed
  <2>4. QED
    BY <1>1, <2>1, <2>2, <2>3, AllocateFacts DEF Keeps
<1>2. ASSUME NEW q \in Blocks, Free(t, q) PROVE Keeps(t)
  <2>1. ~InList(t) /\ task[t].old = NULL /\ task[t].new = NULL /\ ~InList(t)'
    BY <1>2, FreeFacts, IdleFacts DEF InList, Pushing, Removing
  <2>2. owner'[q] = 0 /\ \A x \in Blocks : x # q => owner'[x] = owner[x]
    BY <1>2, FreeFacts DEF TasksInv, ListTypeOK
  <2>3. ASSUME NEW p \in Blocks
        PROVE  /\ Owed(p)' = Owed(p) /\ Freeing(p) \subseteq Freeing(p)'
               /\ owner'[p] # owner[p] => Freeing(p)' # {}
    <3>1. CASE p = q
      <4>1. Freeing(p)' = Freeing(p) \cup {t} /\ Cardinality(Freeing(p)') = Cardinality(Freeing(p)) + 1
        BY <1>2, <2>1, <3>1, FreeFacts, FreeingGrows
      <4>2. Settled(p) /\ ~Settled(p)'
        BY <1>2, <2>2, <3>1, FreeFacts DEF Settled
      <4>3. QED
        BY <4>1, <4>2, FreeingIsFinite DEF Owed
    <3>2. CASE p # q
      <4>1. Freeing(p)' = Freeing(p)
        BY <1>2, <2>1, <3>2, FreeFacts, FreeingStays
      <4>2. Settled(p)' <=> Settled(p)
        BY <1>2, <2>1, <2>2, <3>2, FreeFacts DEF Settled
      <4>3. QED
        BY <2>2, <3>2, <4>1, <4>2 DEF Owed
    <3>3. QED
      BY <3>1, <3>2
  <2>4. QED
    BY <1>2, <2>1, <2>3, FreeFacts DEF Keeps
<1>3. ASSUME NEW q \in Blocks, NEW z \in Blocks, Reallocate(t, q, z) PROVE Keeps(t)
  <2>1. ~InList(t) /\ task[t].old = NULL /\ task[t].new = NULL /\ ~InList(t)'
    BY <1>3, ReallocateFacts, IdleFacts DEF InList, Pushing, Removing
  <2>2. /\ owner'[z] # 0 /\ (z # q => owner'[q] = 0) /\ reissued \subseteq reissued'
        /\ \A x \in Blocks : x # q /\ x # z => owner'[x] = owner[x]
    BY <1>3, ReallocateFacts, IssuedFacts DEF TasksInv
  <2>3. ASSUME NEW p \in Blocks
        PROVE  /\ Owed(p)' = Owed(p) /\ Freeing(p) \subseteq Freeing(p)'
               /\ owner'[p] # owner[p] => Freeing(p)' # {} \/ ~Settled(p)
    <3>1. CASE p = q
      <4>1. Freeing(p)' = Freeing(p) \cup {t} /\ Cardinality(Freeing(p)') = Cardinality(Freeing(p)) + 1
        BY <1>3, <2>1, <3>1, ReallocateFacts, FreeingGrows
      <4>2. Settled(p) /\ ~Settled(p)'
        BY <1>3, <2>2, <3>1, ReallocateFacts DEF Settled
      <4>3. QED
        BY <4>1, <4>2, FreeingIsFinite DEF Owed
    <3>2. CASE p # q
      <4>1. Freeing(p)' = Freeing(p)
        BY <1>3, <2>1, <3>2, ReallocateFacts, FreeingStays
      <4>2. Settled(p)' <=> Settled(p)
        BY <1>3, <2>1, <2>2, <3>2, ReallocateFacts DEF Settled
      <4>3. p = z => ~Settled(p)
        BY <1>3, <3>2, ReallocateFacts DEF Settled
      <4>4. QED
        BY <2>2, <3>2, <4>1, <4>2, <4>3 DEF Owed
    <3>3. QED
      BY <3>1, <3>2
  <2>4. QED
    BY <1>3, <2>1, <2>2, <2>3, ReallocateFacts DEF Keeps
<1>4. QED
  BY <1>1, <1>2, <1>3 DEF ListCall

(* A record that names a block with a new owner is of a freed allocation,  *)
(* and the thread that freed it has not been to the list yet.              *)
LEMMA CurrentKept ==
  ASSUME NEW t \in Tasks, Keeps(t), NEW S, S \subseteq Records,
         \A r \in S : record[r].ptr \in Blocks, raced = {}, Balanced(S), Current(S)
  PROVE  Current(S)'
<1> SUFFICES ASSUME NEW r \in S, record[r].ptr \notin reissued', Freeing(record[r].ptr)' = {}
             PROVE  record[r].of = owner'[record[r].ptr]
  BY DEF Current, Keeps
<1> DEFINE p == record[r].ptr
<1>1. p \in Blocks
  OBVIOUS
<1>2. record[r].of = owner[p]
  BY <1>1 DEF Current, Keeps
<1>3. Settled(p)
  <2>1. Named(S, p) # {}
    BY DEF Named
  <2>2. Cardinality(Named(S, p)) # 0
    BY <2>1, NamedIsFinite
  <2>3. Owed(p) # 0
    BY <1>1, <2>2 DEF Balanced
  <2>4. Freeing(p) = {}
    BY <1>1 DEF Keeps
  <2>5. QED
    BY <2>3, <2>4, FS_EmptySet DEF Owed
<1>4. QED
  BY <1>1, <1>2, <1>3 DEF Keeps

LEMMA GoodKept ==
  ASSUME TasksInv, NEW t \in Tasks, Keeps(t), NEW n \in Nat, NEW s, NEW head, Good(s, n, head)
  PROVE  Good(s, n, head)'
<1>1. IsChain(s, n, head)'
  BY DEF Good, IsChain, Keeps, Of, Follows, InList, Pushing
<1>2. Balanced(Of(s, n))'
  BY DEF Good, Balanced, Keeps, Named, Of
<1>3. raced' = {} => Current(Of(s, n))'
  <2>1. Of(s, n) \subseteq Records
    BY ChainIsLive DEF Good
  <2>2. \A r \in Of(s, n) : record[r].ptr \in Blocks
    BY DEF Good, IsChain, Of
  <2>3. raced' = {} => Current(Of(s, n)) /\ raced = {}
    BY DEF Good, Keeps
  <2>4. Of(s, n)' = Of(s, n)
    BY DEF Of
  <2>5. QED
    BY <2>1, <2>2, <2>3, <2>4, CurrentKept DEF Good
<1>4. QED
  BY <1>1, <1>2, <1>3 DEF Good

LEMMA WalkFitsKept ==
  ASSUME record' = record, NEW u \in Tasks, task'[u] = task[u], NEW s, NEW n, WalkFits(u, s, n)
  PROVE  WalkFits(u, s, n)'
BY DEF WalkFits, At

(* A block on its way to the list keeps its owner.                         *)
LEMMA CallOwners ==
  ASSUME TasksInv, NEW t \in Tasks, ListCall(t), NEW u \in Tasks, task[u].new \in Blocks
  PROVE  owner'[task[u].new] = owner[task[u].new]
<1> DEFINE b == task[u].new
<1>1. owner[b] # 0
  BY NullIsNoAddress DEF TasksInv, NewIsOwned
<1>2. ASSUME NEW p \in Blocks, Allocate(t, p) PROVE owner'[b] = owner[b]
  BY <1>1, <1>2, AllocateFacts, IssuedFacts, NullIsNoAddress DEF TasksInv
<1>3. ASSUME NEW p \in Blocks, Free(t, p) PROVE owner'[b] = owner[b]
  BY <1>3, FreeFacts DEF TasksInv, ListTypeOK
<1>4. ASSUME NEW p \in Blocks, NEW q \in Blocks, Reallocate(t, p, q) PROVE owner'[b] = owner[b]
  BY <1>1, <1>4, ReallocateFacts, IssuedFacts DEF TasksInv
<1>5. QED
  BY <1>2, <1>3, <1>4 DEF ListCall

LEMMA CallChain ==
  ASSUME TasksInv, ChainInv, NEW t \in Tasks, ListCall(t)
  PROVE  ChainInv'
<1>1. Keeps(t)
  BY CallKeeps
<1> SUFFICES ASSUME Harmless' PROVE HeadFits' /\ \A u \in Tasks : Pushing(u)' => ItemFits(u)'
  BY DEF ChainInv
<1>2. HeadFits /\ \A u \in Tasks : Pushing(u) => ItemFits(u)
  BY <1>1 DEF ChainInv, Keeps, Harmless
<1>3. HeadFits'
  <2>1. PICK n \in Nat : \E s \in [1..n -> live] :
            Good(s, n, list) /\ \A u \in Tasks : Removing(u) => WalkFits(u, s, n)
    BY <1>2 DEF HeadFits
  <2>2. PICK s \in [1..n -> live] : Good(s, n, list) /\ \A u \in Tasks : Removing(u) => WalkFits(u, s, n)
    BY <2>1
  <2>3. Good(s, n, list)'
    <3>1. list' = list
      BY <1>1 DEF Keeps
    <3>2. ASSUME NEW head, head = list PROVE Good(s, n, head)'
      BY <1>1, <2>2, <3>2, GoodKept
    <3>3. QED
      BY <3>1, <3>2
  <2>4. ASSUME NEW u \in Tasks, Removing(u)' PROVE WalkFits(u, s, n)'
    <3>1. u # t /\ task'[u] = task[u] /\ record' = record
      BY <1>1, <2>4 DEF Keeps, InList
    <3>2. Removing(u)
      BY <2>4, <3>1 DEF Removing
    <3>3. QED
      BY <2>2, <3>1, <3>2, WalkFitsKept
  <2>5. s \in [1..n -> live']
    BY <1>1 DEF Keeps
  <2>6. QED
    BY <2>3, <2>4, <2>5 DEF HeadFits
<1>4. ASSUME NEW u \in Tasks, Pushing(u)' PROVE ItemFits(u)'
  <2>1. u # t /\ task'[u] = task[u] /\ Pushing(u)
    BY <1>1, <1>4 DEF Keeps, InList, Pushing
  <2>2. ItemFits(u)
    BY <1>2, <2>1
  <2> DEFINE item == task[u].item
             b == task[u].new
  <2>3. record' = record /\ list' = list /\ raced' = raced /\ live' = live
    BY <1>1 DEF Keeps
  <2>4. b \in Blocks
    BY <2>1 DEF TasksInv, PlaceFits, ListTypeOK, TaskType, Pushing
  <2>5. raced = {} => record[item].of = owner'[b]
    <3>1. owner'[b] = owner[b]
      BY <2>4, CallOwners
    <3>2. QED
      BY <2>2, <3>1 DEF ItemFits
  <2>6. PICK n \in Nat : \E s \in [1..n -> live] : Good(s, n, record[item].next)
    BY <2>2 DEF ItemFits
  <2>7. PICK s \in [1..n -> live] : Good(s, n, record[item].next)
    BY <2>6
  <2>8. Good(s, n, record[item].next)'
    <3>1. ASSUME NEW head, head = record[item].next PROVE Good(s, n, head)'
      BY <1>1, <2>7, <3>1, GoodKept
    <3>2. record'[task'[u].item].next = record[item].next
      BY <2>1, <2>3
    <3>3. QED
      BY <2>1, <3>1, <3>2
  <2>9. \A v \in Tasks : Pushing(v)' /\ task'[v].item = item => v = u
    BY <1>1, <2>1, <2>2 DEF Keeps, InList, Pushing, ItemFits
  <2>10. QED
    BY <2>1, <2>2, <2>3, <2>5, <2>8, <2>9 DEF ItemFits
<1>5. QED
  BY <1>3, <1>4

(* A step inside of the list that leaves the debts alone: a chain stays    *)
(* one while its records do, and no thread is about to publish one of them. *)
LEMMA GoodStays ==
  ASSUME TasksInv, NEW n \in Nat, NEW s, NEW head, Good(s, n, head),
         owner' = owner, reissued' = reissued, raced \subseteq raced', live \subseteq live',
         \A p \in Blocks : Owed(p)' = Owed(p) /\ Freeing(p)' = Freeing(p),
         \A r \in Of(s, n) : record'[r] = record[r],
         \A u \in Tasks : Pushing(u)' => task'[u].item \notin Of(s, n)
  PROVE  Good(s, n, head)'
<1>1. Of(s, n)' = Of(s, n) /\ \A i \in 1..n : s[i] \in Of(s, n)
  BY DEF Of
<1>2. IsChain(s, n, head)'
  BY <1>1 DEF Good, IsChain, Follows
<1>3. \A p : Named(Of(s, n), p)' = Named(Of(s, n), p)
  BY <1>1 DEF Named
<1>4. raced' = {} => raced = {}
  OBVIOUS
<1>5. Balanced(Of(s, n))'
  BY <1>3, <1>4 DEF Good, Balanced
<1>6. raced' = {} => Current(Of(s, n))'
  <2>1. \A r \in Of(s, n) : record[r].ptr \in Blocks
    BY DEF Good, IsChain, Of
  <2>2. QED
    BY <1>1, <1>4, <2>1 DEF Good, Current
<1>7. QED
  BY <1>2, <1>5, <1>6 DEF Good

LEMMA DebtsStay ==
  ASSUME NEW t \in Tasks, \A u \in Tasks : u # t => task'[u] = task[u],
         owner' = owner, task'[t].old = task[t].old, task'[t].new = task[t].new
  PROVE  \A p \in Blocks : Owed(p)' = Owed(p) /\ Freeing(p)' = Freeing(p)
<1> TAKE p \in Blocks
<1>1. Freeing(p)' = Freeing(p)
  BY DEF Freeing
<1>2. Settled(p)' <=> Settled(p)
  BY DEF Settled
<1>3. QED
  BY <1>1, <1>2 DEF Owed

LEMMA LinkChain ==
  ASSUME TasksInv, ChainInv, NEW t \in Tasks, NEW r \in Records, Link(t, r), TasksInv', Harmless'
  PROVE  HeadFits' /\ \A u \in Tasks : Pushing(u)' => ItemFits(u)'
<1>1. /\ At(t, "link") /\ r \notin live /\ live' = live \cup {r}
      /\ record' = [record EXCEPT ![r] = [ptr |-> task[t].new, of |-> owner[task[t].new], next |-> list]]
      /\ task' \in [Tasks -> TaskType] /\ (\A u \in Tasks : u # t => task'[u] = task[u])
      /\ task'[t].at = "publish" /\ task'[t].item = r
      /\ task'[t].old = task[t].old /\ task'[t].new = task[t].new
      /\ Meets(t, "push")
      /\ owner' = owner /\ list' = list /\ count' = count /\ reissued' = reissued
  BY LinkFacts
<1>2. raced \subseteq raced' /\ \A u \in Tasks : u # t /\ Pushing(u) => <<"push", "push">> \in raced'
  BY <1>1, MeetsFacts
<1>3. HeadFits /\ \A u \in Tasks : Pushing(u) => ItemFits(u)
  BY <1>2 DEF ChainInv, Harmless
<1>4. record' \in [Records -> RecordType] /\ \A x \in live : record'[x] = record[x]
  BY <1>1 DEF TasksInv, ListTypeOK
<1>5. record'[r] = [ptr |-> task[t].new, of |-> owner[task[t].new], next |-> list]
  BY <1>1 DEF TasksInv, ListTypeOK
<1>6. \A p \in Blocks : Owed(p)' = Owed(p) /\ Freeing(p)' = Freeing(p)
  BY <1>1, DebtsStay
<1>7. \A u \in Tasks : Pushing(u)' <=> Pushing(u) \/ u = t
  BY <1>1 DEF Pushing
<1>8. ASSUME NEW n \in Nat, NEW s, NEW head, Good(s, n, head) PROVE Good(s, n, head)'
  <2>1. Of(s, n) \subseteq live
    BY <1>8, ChainIsLive DEF Good
  <2>2. \A u \in Tasks : Pushing(u)' => task'[u].item \notin Of(s, n)
    BY <1>1, <1>7, <1>8, <2>1 DEF Good, IsChain
  <2>3. \A x \in Of(s, n) : record'[x] = record[x]
    BY <1>4, <2>1
  <2>4. live \subseteq live'
    BY <1>1
  <2>5. QED
    BY <1>1, <1>2, <1>6, <1>8, <2>2, <2>3, <2>4, GoodStays
<1>9. PICK n \in Nat : \E s \in [1..n -> live] :
          Good(s, n, list) /\ \A u \in Tasks : Removing(u) => WalkFits(u, s, n)
  BY <1>3 DEF HeadFits
<1>10. PICK s \in [1..n -> live] : Good(s, n, list)
  BY <1>9
<1>11. s \in [1..n -> live'] /\ Good(s, n, list)'
  <2>1. ASSUME NEW head, head = list PROVE Good(s, n, head)'
    BY <1>8, <1>10, <2>1
  <2>2. QED
    BY <1>1, <2>1
<1>12. \A u \in Tasks : ~Removing(u)'
  BY <1>7 DEF TasksInv, Separate, InList, Pushing, Removing
<1>13. HeadFits'
  BY <1>11, <1>12 DEF HeadFits
<1>14. ASSUME NEW u \in Tasks, Pushing(u)', u # t PROVE ItemFits(u)'
  <2>1. task'[u] = task[u] /\ Pushing(u) /\ ItemFits(u)
    BY <1>1, <1>3, <1>7, <1>14
  <2> DEFINE item == task[u].item
  <2>2. item \in live /\ item # r /\ record'[item] = record[item]
    BY <1>1, <1>4, <2>1 DEF ItemFits
  <2>3. raced' # {}
    BY <1>2, <1>14, <2>1
  <2>4. PICK m \in Nat : \E c \in [1..m -> live] : Good(c, m, record[item].next)
    BY <2>1 DEF ItemFits
  <2>5. PICK c \in [1..m -> live] : Good(c, m, record[item].next)
    BY <2>4
  <2>6. c \in [1..m -> live'] /\ Good(c, m, record[item].next)'
    <3>1. ASSUME NEW head, head = record[item].next PROVE Good(c, m, head)'
      BY <1>8, <2>5, <3>1
    <3>2. QED
      BY <1>1, <2>1, <2>2, <3>1
  <2>7. \A v \in Tasks : Pushing(v)' /\ task'[v].item = item => v = u
    BY <1>1, <1>7, <2>1, <2>2 DEF ItemFits
  <2>8. QED
    BY <1>1, <2>1, <2>2, <2>3, <2>6, <2>7 DEF ItemFits
<1>15. ItemFits(t)'
  <2>1. task'[t].item = r /\ r \in live' /\ record'[r].ptr = task'[t].new
        /\ record'[r].next = list' /\ record'[r].of = owner'[task'[t].new]
    BY <1>1, <1>5
  <2>2. \A v \in Tasks : Pushing(v)' /\ task'[v].item = r => v = t
    BY <1>1, <1>3, <1>7 DEF ItemFits
  <2>3. \E m \in Nat : \E c \in [1..m -> live'] : Good(c, m, list)'
    BY <1>11
  <2>4. QED
    BY <2>1, <2>2, <2>3 DEF ItemFits
<1>16. QED
  BY <1>13, <1>14, <1>15

LEMMA PublishDebts ==
  ASSUME TasksInv, NEW t \in Tasks, Publish(t)
  PROVE  \A p \in Blocks : /\ Owed(p)' = Owed(p) + (IF p = task[t].new THEN 1 ELSE 0)
                           /\ Freeing(p)' = Freeing(p)
<1> TAKE p \in Blocks
<1>1. task[t].old = NULL /\ task'[t].old = NULL
  BY PublishFacts DEF TasksInv, PlaceFits, At
<1>2. Freeing(p)' = Freeing(p)
  BY <1>1, PublishFacts, FreeingStays
<1>3. p # task[t].new => (Settled(p)' <=> Settled(p))
  BY PublishFacts, NullIsNoAddress DEF Settled
<1>4. p = task[t].new => Settled(p)' /\ ~Settled(p)
  BY PublishFacts, NullIsNoAddress DEF Settled, TasksInv, NewIsOwned
<1>5. QED
  BY <1>2, <1>3, <1>4, FreeingIsFinite DEF Owed

(* A published record becomes the first of the chain its next leads to.    *)
Prepended(r, s, n) == [i \in 1..(n + 1) |-> IF i = 1 THEN r ELSE s[i - 1]]

StartsWith(c, r, s, n, L) ==
    /\ n + 1 \in Nat /\ c \in [1..(n + 1) -> L]
    /\ c[1] = r
    /\ \A i \in 1..n : c[i + 1] = s[i]
    /\ \A i \in 1..(n + 1) : i = 1 \/ (i - 1 \in 1..n /\ c[i] = s[i - 1])
    /\ Of(c, n + 1) = Of(s, n) \cup {r}

LEMMA PrependedFacts ==
  ASSUME NEW n \in Nat, NEW L, NEW r \in L, NEW s \in [1..n -> L]
  PROVE  StartsWith(Prepended(r, s, n), r, s, n, L)
<1> DEFINE c == Prepended(r, s, n)
<1>1. \A i \in 1..(n + 1) : c[i] = IF i = 1 THEN r ELSE s[i - 1]
  BY DEF Prepended
<1>2. \A i \in 1..(n + 1) : i = 1 \/ i - 1 \in 1..n
  OBVIOUS
<1>3. c \in [1..(n + 1) -> L]
  BY <1>1, <1>2 DEF Prepended
<1>4. c[1] = r /\ \A i \in 1..n : c[i + 1] = s[i]
  BY <1>1
<1>5. \A i \in 1..(n + 1) : i = 1 \/ (i - 1 \in 1..n /\ c[i] = s[i - 1])
  BY <1>1, <1>2
<1>6. Of(c, n + 1) = Of(s, n) \cup {r}
  <2> HIDE DEF c
  <2>1. ASSUME NEW x \in Of(c, n + 1) PROVE x \in Of(s, n) \cup {r}
    BY <1>4, <1>5, <2>1 DEF Of
  <2>2. ASSUME NEW x \in Of(s, n) PROVE x \in Of(c, n + 1)
    <3>1. PICK i \in 1..n : x = s[i]
      BY DEF Of
    <3>2. i + 1 \in 1..(n + 1) /\ c[i + 1] = x
      BY <1>4, <3>1
    <3>3. QED
      BY <3>2 DEF Of
  <2>3. r \in Of(c, n + 1)
    BY <1>4 DEF Of
  <2>4. QED
    BY <2>1, <2>2, <2>3
<1>7. QED
  BY <1>3, <1>4, <1>5, <1>6 DEF StartsWith

LEMMA PrependedIsChain ==
  ASSUME NEW n \in Nat, NEW s, NEW r \in live, IsChain(s, n, record[r].next),
         r \notin Of(s, n), record[r].ptr \in Blocks
  PROVE  LET c == Prepended(r, s, n) IN
         /\ n + 1 \in Nat /\ c \in [1..(n + 1) -> live] /\ Of(c, n + 1) = Of(s, n) \cup {r}
         /\ \A i, j \in 1..(n + 1) : c[i] = c[j] => i = j
         /\ r = Follows(c, n + 1, 0)
         /\ \A i \in 1..(n + 1) : record[c[i]].next = Follows(c, n + 1, i) /\ record[c[i]].ptr \in Blocks
<1> DEFINE c == Prepended(r, s, n)
<1>1. s \in [1..n -> live] /\ n \in Nat /\ r \in live
  BY DEF IsChain
<1>2. /\ n + 1 \in Nat /\ c \in [1..(n + 1) -> live] /\ c[1] = r
      /\ \A i \in 1..n : c[i + 1] = s[i]
      /\ \A i \in 1..(n + 1) : i = 1 \/ (i - 1 \in 1..n /\ c[i] = s[i - 1])
      /\ Of(c, n + 1) = Of(s, n) \cup {r}
  <2>1. StartsWith(c, r, s, n, live)
    BY ONLY <1>1, PrependedFacts
  <2> HIDE DEF c
  <2>2. QED
    BY ONLY <2>1 DEF StartsWith
<1> HIDE DEF c
<1>3. \A i \in 1..n : s[i] # r
  BY DEF Of
<1>4. ASSUME NEW i \in 1..(n + 1), NEW j \in 1..(n + 1), c[i] = c[j] PROVE i = j
  <2>1. \A a, b \in 1..n : s[a] = s[b] => a = b
    BY DEF IsChain
  <2>2. i = 1 \/ (i - 1 \in 1..n /\ c[i] = s[i - 1] /\ c[i] # r)
    BY <1>2, <1>3
  <2>3. j = 1 \/ (j - 1 \in 1..n /\ c[j] = s[j - 1] /\ c[j] # r)
    BY <1>2, <1>3
  <2>4. CASE i = 1 \/ j = 1
    BY <1>2, <1>4, <2>2, <2>3, <2>4
  <2>5. CASE i # 1 /\ j # 1
    <3>1. i - 1 = j - 1
      BY <1>4, <2>1, <2>2, <2>3, <2>5
    <3>2. QED
      BY <3>1
  <2>6. QED
    BY <2>4, <2>5
<1>5. r = Follows(c, n + 1, 0)
  BY <1>2 DEF Follows
<1>6. ASSUME NEW i \in 1..(n + 1)
      PROVE  record[c[i]].next = Follows(c, n + 1, i) /\ record[c[i]].ptr \in Blocks
  <2>1. CASE i = 1
    <3>1. Follows(c, n + 1, 1) = Follows(s, n, 0)
      BY <1>2 DEF Follows
    <3>2. QED
      BY <1>2, <2>1, <3>1 DEF IsChain
  <2>2. CASE i # 1
    <3>1. i - 1 \in 1..n /\ c[i] = s[i - 1]
      BY <1>2, <2>2
    <3>2. Follows(c, n + 1, i) = Follows(s, n, i - 1)
      BY <1>2, <3>1 DEF Follows
    <3>3. QED
      BY <3>1, <3>2 DEF IsChain
  <2>3. QED
    BY <2>1, <2>2
<1>7. QED
  BY <1>2, <1>4, <1>5, <1>6 DEF c

LEMMA NamedAdded ==
  ASSUME NEW S, S \subseteq Records, NEW r \in Records, r \notin S, NEW p
  PROVE  Cardinality(Named(S \cup {r}, p)) = Cardinality(Named(S, p)) + (IF p = record[r].ptr THEN 1 ELSE 0)
<1>1. CASE p = record[r].ptr
  <2>1. Named(S \cup {r}, p) = Named(S, p) \cup {r} /\ r \notin Named(S, p)
    BY <1>1 DEF Named
  <2>2. IsFiniteSet(Named(S, p)) /\ Cardinality(Named(S, p)) \in Nat
    BY NamedIsFinite
  <2>3. Cardinality(Named(S, p) \cup {r}) = Cardinality(Named(S, p)) + 1
    BY ONLY <2>1, <2>2, FS_AddElement
  <2>4. QED
    BY <1>1, <2>1, <2>3
<1>2. CASE p # record[r].ptr
  <2>1. Named(S \cup {r}, p) = Named(S, p)
    BY <1>2 DEF Named
  <2>2. QED
    BY <1>2, <2>1, NamedIsFinite
<1>3. QED
  BY <1>1, <1>2

LEMMA NamedRemoved ==
  ASSUME NEW S, S \subseteq Records, NEW r \in S, NEW p
  PROVE  Cardinality(Named(S \ {r}, p)) = Cardinality(Named(S, p)) - (IF p = record[r].ptr THEN 1 ELSE 0)
<1>1. CASE p = record[r].ptr
  <2>1. Named(S \ {r}, p) = Named(S, p) \ {r} /\ r \in Named(S, p)
    BY <1>1 DEF Named
  <2>2. QED
    BY <1>1, <2>1, NamedIsFinite, FS_RemoveElement
<1>2. CASE p # record[r].ptr
  <2>1. Named(S \ {r}, p) = Named(S, p)
    BY <1>2 DEF Named
  <2>2. QED
    BY <1>2, <2>1, NamedIsFinite
<1>3. QED
  BY <1>1, <1>2

LEMMA PublishChain ==
  ASSUME TasksInv, ChainInv, NEW t \in Tasks, Publish(t), TasksInv', Harmless'
  PROVE  HeadFits' /\ \A u \in Tasks : Pushing(u)' => ItemFits(u)'
<1>1. /\ At(t, "publish") /\ list' = task[t].item
      /\ task' \in [Tasks -> TaskType] /\ (\A u \in Tasks : u # t => task'[u] = task[u])
      /\ task'[t].at = "idle" /\ task'[t].old = NULL /\ task'[t].new = NULL
      /\ owner' = owner /\ record' = record /\ live' = live /\ raced' = raced /\ reissued' = reissued
  BY PublishFacts
<1>2. \A u \in Tasks : Pushing(u) => ItemFits(u)
  BY <1>1 DEF ChainInv, Harmless
<1>3. Pushing(t) /\ ItemFits(t)
  BY <1>1, <1>2 DEF At, Pushing
<1>4. \A u \in Tasks : Pushing(u)' => u # t /\ task'[u] = task[u] /\ Pushing(u) /\ ItemFits(u) /\ raced' # {}
  BY <1>1, <1>2, <1>3 DEF Pushing, TasksInv, Separate, InList
<1>5. \A u \in Tasks : ~Removing(u)'
  BY <1>1, <1>3 DEF TasksInv, Separate, InList, Removing, Harmless
<1>6. \A p \in Blocks : /\ Owed(p)' = Owed(p) + (IF p = task[t].new THEN 1 ELSE 0)
                        /\ Freeing(p)' = Freeing(p) /\ Owed(p) \in Nat
  BY PublishDebts, OwedType
<1>7. PICK r \in live : r = task[t].item
  BY <1>3 DEF ItemFits
<1>8. /\ record[r].ptr = task[t].new /\ r \in Records
      /\ (raced = {} => record[r].of = owner[task[t].new])
  BY <1>3, <1>7 DEF ItemFits, TasksInv, ListTypeOK
<1>9. record[r].ptr \in Blocks
  BY <1>3, <1>8 DEF TasksInv, PlaceFits, ListTypeOK, TaskType, Pushing
<1>10. \A u \in Tasks : Pushing(u)' => task'[u].item # r
  BY <1>3, <1>4, <1>7 DEF ItemFits
<1>11. HeadFits'
  <2>1. PICK n \in Nat : \E s \in [1..n -> live] : Good(s, n, record[r].next)
    BY <1>3, <1>7 DEF ItemFits
  <2>2. PICK s \in [1..n -> live] : Good(s, n, record[r].next)
    BY <2>1
  <2> DEFINE c == Prepended(r, s, n)
             S == Of(s, n)
  <2>3. S \subseteq Records /\ r \notin S
    BY <1>3, <1>7, <2>2, ChainIsLive DEF Good, IsChain
  <2>4. /\ n + 1 \in Nat /\ c \in [1..(n + 1) -> live] /\ Of(c, n + 1) = S \cup {r}
        /\ \A i, j \in 1..(n + 1) : c[i] = c[j] => i = j
        /\ r = Follows(c, n + 1, 0)
        /\ \A i \in 1..(n + 1) : record[c[i]].next = Follows(c, n + 1, i) /\ record[c[i]].ptr \in Blocks
    <3>1. IsChain(s, n, record[r].next)
      BY <2>2 DEF Good
    <3>2. QED
      BY <1>9, <2>3, <3>1, PrependedIsChain
  <2>5. \A u \in Tasks : Pushing(u)' => task'[u].item \notin S
    BY <1>4, <2>2 DEF Good, IsChain
  <2> HIDE DEF c
  <2>6. ASSUME NEW head, head = r PROVE IsChain(c, n + 1, head)'
    <3>1. Of(c, n + 1)' = Of(c, n + 1) /\ \A i \in 1..(n + 1) : Follows(c, n + 1, i)' = Follows(c, n + 1, i)
      BY DEF Of, Follows
    <3>2. Follows(c, n + 1, 0)' = Follows(c, n + 1, 0)
      BY DEF Follows
    <3>3. QED
      BY <1>1, <1>10, <2>4, <2>5, <2>6, <3>1, <3>2 DEF IsChain
  <2>7. \A p \in Blocks : /\ Named(S \cup {r}, p)' = Named(S \cup {r}, p)
                          /\ Cardinality(Named(S, p)) \in Nat
                          /\ Cardinality(Named(S \cup {r}, p))
                               = Cardinality(Named(S, p)) + (IF p = record[r].ptr THEN 1 ELSE 0)
    <3>1. \A p \in Blocks : Named(S \cup {r}, p)' = Named(S \cup {r}, p)
      BY <1>1 DEF Named
    <3> HIDE DEF S
    <3>2. \A p \in Blocks : Cardinality(Named(S, p)) \in Nat
      BY <2>3, NamedIsFinite
    <3>3. \A p \in Blocks : Cardinality(Named(S \cup {r}, p))
                              = Cardinality(Named(S, p)) + (IF p = record[r].ptr THEN 1 ELSE 0)
      BY <1>8, <2>3, NamedAdded
    <3>4. QED
      BY <3>1, <3>2, <3>3
  <2>8. Balanced(S \cup {r})'
    <3>1. Balanced(S)
      BY <2>2 DEF Good
    <3>2. ASSUME NEW p \in Blocks
          PROVE  /\ Cardinality(Named(S \cup {r}, p)') <= Owed(p)'
                 /\ raced = {} => Cardinality(Named(S \cup {r}, p)') = Owed(p)'
      <4>1. /\ Cardinality(Named(S, p)) <= Owed(p)
            /\ raced = {} => Cardinality(Named(S, p)) = Owed(p)
        BY <3>1 DEF Balanced
      <4>2. Cardinality(Named(S \cup {r}, p)') = Cardinality(Named(S, p)) + (IF p = task[t].new THEN 1 ELSE 0)
        BY <1>8, <2>7
      <4>3. Owed(p)' = Owed(p) + (IF p = task[t].new THEN 1 ELSE 0)
            /\ Owed(p) \in Nat /\ Cardinality(Named(S, p)) \in Nat
        BY <1>6, <2>7
      <4>4. QED
        BY ONLY <4>1, <4>2, <4>3
    <3>3. QED
      BY <1>1, <3>2 DEF Balanced
  <2>9. raced' = {} => Current(S \cup {r})'
    <3>1. \A x \in S : record[x].ptr \in Blocks
      BY <2>2 DEF Good, IsChain, Of
    <3>2. QED
      BY <1>1, <1>6, <1>8, <1>9, <2>2, <3>1 DEF Good, Current
  <2>10. Of(c, n + 1)' = S \cup {r}
    BY <2>4 DEF Of
  <2>11. ASSUME NEW head, head = r PROVE Good(c, n + 1, head)'
    BY <2>6, <2>8, <2>9, <2>10, <2>11 DEF Good
  <2>12. Good(c, n + 1, list)' /\ c \in [1..(n + 1) -> live']
    BY <1>1, <1>7, <2>4, <2>11
  <2>13. QED
    BY <1>5, <2>4, <2>12 DEF HeadFits
<1>12. ASSUME NEW u \in Tasks, Pushing(u)' PROVE ItemFits(u)'
  <2>1. u # t /\ task'[u] = task[u] /\ Pushing(u) /\ ItemFits(u) /\ raced' # {}
    BY <1>4, <1>12
  <2>2. PICK x \in live : x = task[u].item
    BY <2>1 DEF ItemFits
  <2>3. PICK n \in Nat : \E s \in [1..n -> live] : Good(s, n, record[x].next)
    BY <2>1, <2>2 DEF ItemFits
  <2>4. PICK s \in [1..n -> live] : Good(s, n, record[x].next)
    BY <2>3
  <2>5. ASSUME NEW head, head = record[x].next PROVE Good(s, n, head)'
    <3>1. IsChain(s, n, head)'
      <4>1. \A v \in Tasks : Pushing(v)' => task'[v].item \notin Of(s, n)
        BY <1>4, <2>4 DEF Good, IsChain
      <4>2. QED
        BY <1>1, <2>4, <2>5, <4>1 DEF Good, IsChain, Of, Follows
    <3>2. Balanced(Of(s, n))'
      <4>1. \A p \in Blocks : Named(Of(s, n), p)' = Named(Of(s, n), p) /\ Cardinality(Named(Of(s, n), p)) \in Nat
        <5>1. Of(s, n) \subseteq Records
          BY <2>4, ChainIsLive DEF Good
        <5>2. QED
          BY <1>1, <5>1, NamedIsFinite DEF Named, Of
      <4>2. \A p \in Blocks : Cardinality(Named(Of(s, n), p)) <= Owed(p)
        BY <2>4 DEF Good, Balanced
      <4>3. \A p \in Blocks : Cardinality(Named(Of(s, n), p)) <= Owed(p)'
        BY <1>6, <4>1, <4>2
      <4>4. QED
        BY <2>1, <4>1, <4>3 DEF Balanced
    <3>3. QED
      BY <2>1, <3>1, <3>2 DEF Good
  <2>6. task'[u].item = x /\ s \in [1..n -> live'] /\ Good(s, n, record[task[u].item].next)'
    BY <1>1, <2>1, <2>2, <2>4, <2>5
  <2>7. \A v \in Tasks : Pushing(v)' /\ task'[v].item = x => v = u
    BY <1>4, <2>1, <2>2 DEF ItemFits
  <2>8. QED
    BY <1>1, <2>1, <2>2, <2>6, <2>7 DEF ItemFits
<1>13. QED
  BY <1>11, <1>12

(* A thread that removes a record is alone with the chain.                 *)
LEMMA RemovesAlone ==
  ASSUME TasksInv, Harmless, NEW t \in Tasks, Removing(t)
  PROVE  \A u \in Tasks : ~Pushing(u) /\ (Removing(u) => u = t)
BY DEF TasksInv, Separate, InList, Pushing, Removing

LEMMA WalkChain ==
  ASSUME TasksInv, ChainInv, NEW t \in Tasks, NEW place \in {"walk", "unlink"}, NEW link,
         Walks(t, place, link), raced \subseteq raced', TasksInv', Harmless',
         \A n \in Nat : \A s \in [1..n -> live] :
            Good(s, n, list) /\ (Removing(t) => WalkFits(t, s, n)) => WalkFits(t, s, n)'
  PROVE  HeadFits' /\ \A u \in Tasks : Pushing(u)' => ItemFits(u)'
<1>1. HeadFits
  BY DEF ChainInv, Harmless
<1>2. \A u \in Tasks : ~Pushing(u)' /\ (Removing(u)' => u = t)
  BY DEF TasksInv, Separate, InList, Pushing, Removing, Walks
<1>3. PICK n \in Nat : \E s \in [1..n -> live] :
          Good(s, n, list) /\ \A u \in Tasks : Removing(u) => WalkFits(u, s, n)
  BY <1>1 DEF HeadFits
<1>4. PICK s \in [1..n -> live] : Good(s, n, list) /\ \A u \in Tasks : Removing(u) => WalkFits(u, s, n)
  BY <1>3
<1>5. WalkFits(t, s, n)'
  BY <1>4
<1>6. \A p \in Blocks : Owed(p)' = Owed(p) /\ Freeing(p)' = Freeing(p)
  BY DebtsStay DEF Walks
<1>7. ASSUME NEW head, head = list PROVE Good(s, n, head)'
  BY <1>2, <1>4, <1>6, <1>7, GoodStays DEF Walks
<1>8. Good(s, n, list)' /\ s \in [1..n -> live']
  BY <1>4, <1>7 DEF Walks
<1>9. HeadFits'
  BY <1>2, <1>5, <1>8 DEF HeadFits
<1>10. QED
  BY <1>2, <1>9

(* The link of the walk leads to the next record of the chain.             *)
LEMMA ChainDeref ==
  ASSUME NEW n \in Nat, NEW s, IsChain(s, n, list), NEW t \in Tasks, NEW k \in 0..n, TasksInv,
         task[t].link = IF k = 0 THEN NULL ELSE s[k]
  PROVE  /\ Deref(task[t].link) = Follows(s, n, k)
         /\ k < n => k + 1 \in 1..n /\ Deref(task[t].link) = s[k + 1] /\ s[k + 1] \in live
         /\ k = n <=> Deref(task[t].link) = NULL
<1>1. \A i \in 1..n : s[i] \in live /\ s[i] # NULL
  BY NullIsNoAddress DEF IsChain, TasksInv, ListTypeOK
<1>2. Deref(task[t].link) = Follows(s, n, k)
  <2>1. CASE k = 0
    BY <2>1 DEF Deref, IsChain
  <2>2. CASE k # 0
    BY <1>1, <2>2 DEF Deref, IsChain
  <2>3. QED
    BY <2>1, <2>2
<1>3. QED
  BY <1>1, <1>2 DEF Follows

LEMMA EnterChain ==
  ASSUME TasksInv, ChainInv, NEW t \in Tasks, EnterWalk(t), TasksInv', Harmless'
  PROVE  HeadFits' /\ \A u \in Tasks : Pushing(u)' => ItemFits(u)'
<1>1. Walks(t, "walk", NULL) /\ raced \subseteq raced'
  BY EnterFacts, MeetsFacts
<1>2. ASSUME NEW n \in Nat, NEW s PROVE WalkFits(t, s, n)'
  BY <1>1 DEF WalkFits, Walks, At
<1>3. QED
  BY <1>1, <1>2, WalkChain

LEMMA FindsChain ==
  ASSUME TasksInv, ChainInv, NEW t \in Tasks, WalkFinds(t), TasksInv', Harmless'
  PROVE  HeadFits' /\ \A u \in Tasks : Pushing(u)' => ItemFits(u)'
<1> DEFINE r == Deref(task[t].link)
<1>1. /\ At(t, "walk") /\ Walks(t, "unlink", task[t].link) /\ raced' = raced /\ r \in Records
      /\ r \in live => record[r].ptr = task[t].old
  BY FindsFacts
<1>2. ASSUME NEW n \in Nat, NEW s, Good(s, n, list), WalkFits(t, s, n) PROVE WalkFits(t, s, n)'
  <2>1. PICK k \in 0..n : /\ task[t].link = IF k = 0 THEN NULL ELSE s[k]
                          /\ \A j \in 1..k : record[s[j]].ptr # task[t].old
    BY <1>2 DEF WalkFits
  <2>2. IsChain(s, n, list)
    BY <1>2 DEF Good
  <2>3. k < n => k + 1 \in 1..n /\ r = s[k + 1] /\ s[k + 1] \in live
    BY <2>1, <2>2, ChainDeref
  <2>4. k = n <=> r = NULL
    BY <2>1, <2>2, ChainDeref
  <2>5. k < n /\ record[s[k + 1]].ptr = task[t].old
    BY <1>1, <2>3, <2>4, NullIsNoAddress
  <2>6. /\ task'[t].link = task[t].link /\ task'[t].old = task[t].old /\ task'[t].at = "unlink"
        /\ record' = record
    BY <1>1 DEF Walks
  <2>7. QED
    BY <2>1, <2>5, <2>6 DEF WalkFits
<1>3. Removing(t)
  BY <1>1 DEF At, Removing
<1>4. QED
  BY <1>1, <1>2, <1>3, WalkChain

LEMMA PassesChain ==
  ASSUME TasksInv, ChainInv, NEW t \in Tasks, WalkPasses(t), TasksInv', Harmless'
  PROVE  HeadFits' /\ \A u \in Tasks : Pushing(u)' => ItemFits(u)'
<1>1. PICK r \in Records : r = Deref(task[t].link)
  BY PassesFacts
<1>2. /\ At(t, "walk") /\ Walks(t, "walk", r) /\ raced' = raced
      /\ r \in live => record[r].ptr # task[t].old
  BY <1>1, PassesFacts
<1>3. ASSUME NEW n \in Nat, NEW s, Good(s, n, list), WalkFits(t, s, n) PROVE WalkFits(t, s, n)'
  <2>1. PICK k \in 0..n : /\ task[t].link = IF k = 0 THEN NULL ELSE s[k]
                          /\ \A j \in 1..k : record[s[j]].ptr # task[t].old
    BY <1>3 DEF WalkFits
  <2>2. IsChain(s, n, list)
    BY <1>3 DEF Good
  <2>3. k < n => k + 1 \in 1..n /\ r = s[k + 1] /\ s[k + 1] \in live
    BY <1>1, <2>1, <2>2, ChainDeref
  <2>4. k = n <=> r = NULL
    BY <1>1, <2>1, <2>2, ChainDeref
  <2>5. k < n /\ k + 1 \in 0..n /\ record[s[k + 1]].ptr # task[t].old
    BY <1>1, <1>2, <2>3, <2>4, NullIsNoAddress
  <2>6. /\ task'[t].link = s[k + 1] /\ task'[t].old = task[t].old /\ task'[t].at = "walk"
        /\ record' = record
    BY <1>2, <2>3, <2>5 DEF Walks
  <2>7. \A j \in 1..(k + 1) : record[s[j]].ptr # task[t].old
    BY <2>1, <2>5
  <2>8. k + 1 # 0
    BY <2>5
  <2>9. QED
    BY <2>5, <2>6, <2>7, <2>8 DEF WalkFits, At
<1>4. Removing(t)
  BY <1>2 DEF At, Removing
<1>5. QED
  BY <1>2, <1>3, <1>4, WalkChain

LEMMA LeavesDebts ==
  ASSUME TasksInv, NEW t \in Tasks, Leaves(t), Removing(t)
  PROVE  /\ task[t].old \in Blocks
         /\ \A p \in Blocks :
              /\ Owed(p) \in Nat /\ Owed(p)' = Owed(p) - (IF p = task[t].old THEN 1 ELSE 0)
              /\ p # task[t].old => Freeing(p)' = Freeing(p)
         /\ Owed(task[t].old) >= 1
<1>1. task[t].old \in Blocks
  BY DEF TasksInv, PlaceFits, Removing, ListTypeOK, TaskType
<1>2. ASSUME NEW p \in Blocks
      PROVE  /\ Owed(p) \in Nat /\ Owed(p)' = Owed(p) - (IF p = task[t].old THEN 1 ELSE 0)
             /\ p # task[t].old => Freeing(p)' = Freeing(p)
             /\ p = task[t].old => Owed(p) >= 1
  <2>1. Settled(p)' <=> Settled(p)
    BY DEF Settled, Leaves
  <2>2. CASE p = task[t].old
    <3>1. Cardinality(Freeing(p)') = Cardinality(Freeing(p)) - 1 /\ Cardinality(Freeing(p)) >= 1
      BY <2>2, NullIsNoAddress, FreeingShrinks DEF Leaves
    <3>2. QED
      BY <2>1, <2>2, <3>1, FreeingIsFinite DEF Owed
  <2>3. CASE p # task[t].old
    <3>1. Freeing(p)' = Freeing(p)
      BY <2>3, NullIsNoAddress, FreeingStays DEF Leaves
    <3>2. QED
      BY <2>1, <2>3, <3>1, OwedType DEF Owed
  <2>4. QED
    BY <2>2, <2>3
<1>3. QED
  BY <1>1, <1>2

LEMMA EndsChain ==
  ASSUME TasksInv, ChainInv, NEW t \in Tasks, WalkEnds(t), TasksInv', Harmless'
  PROVE  HeadFits' /\ \A u \in Tasks : Pushing(u)' => ItemFits(u)'
<1>1. /\ At(t, "walk") /\ Deref(task[t].link) = NULL /\ Leaves(t)
      /\ record' = record /\ live' = live /\ list' = list
  BY EndsFacts
<1>2. Removing(t) /\ Harmless /\ raced' = raced
  BY <1>1 DEF At, Removing, Leaves, Harmless
<1>3. \A u \in Tasks : ~Pushing(u)' /\ ~Removing(u)'
  BY <1>1, <1>2, RemovesAlone DEF Leaves, Pushing, Removing
<1>4. PICK n \in Nat : \E s \in [1..n -> live] :
          Good(s, n, list) /\ \A u \in Tasks : Removing(u) => WalkFits(u, s, n)
  BY <1>2 DEF ChainInv, HeadFits
<1>5. PICK s \in [1..n -> live] : Good(s, n, list) /\ WalkFits(t, s, n)
  BY <1>2, <1>4
<1> DEFINE S == Of(s, n)
           old == task[t].old
<1>6. PICK k \in 0..n : /\ task[t].link = IF k = 0 THEN NULL ELSE s[k]
                        /\ \A j \in 1..k : record[s[j]].ptr # old
  BY <1>5 DEF WalkFits
<1>7. IsChain(s, n, list)
  BY <1>5 DEF Good
<1>8. k = n
  BY <1>1, <1>6, <1>7, ChainDeref
<1>9. Named(S, old) = {}
  BY <1>6, <1>8 DEF Named, Of
<1>10. old \in Blocks /\ Owed(old) >= 1
       /\ \A p \in Blocks : Owed(p) \in Nat /\ Owed(p)' = Owed(p) - (IF p = old THEN 1 ELSE 0)
  BY <1>1, <1>2, LeavesDebts
<1>11. Cardinality(Named(S, old)) = 0
  BY <1>9, FS_EmptySet
<1>12. raced # {}
  BY <1>5, <1>10, <1>11 DEF Good, Balanced
<1>13. \A p \in Blocks : Named(S, p)' = Named(S, p) /\ Cardinality(Named(S, p)) <= Owed(p)
  BY <1>1, <1>5 DEF Good, Balanced, Named
<1>14. Balanced(S)'
  <2>1. \A p \in Blocks : Cardinality(Named(S, p)) \in Nat
    BY <1>7, ChainIsLive, NamedIsFinite
  <2>2. \A p \in Blocks : Cardinality(Named(S, p)) <= Owed(p)'
    BY <1>10, <1>11, <1>13, <2>1
  <2>3. QED
    BY <1>2, <1>12, <1>13, <2>2 DEF Balanced
<1>15. ASSUME NEW head, head = list PROVE IsChain(s, n, head)'
  BY <1>1, <1>3, <1>7, <1>15 DEF IsChain, Of, Follows
<1>16. Good(s, n, list)' /\ s \in [1..n -> live']
  BY <1>1, <1>2, <1>12, <1>14, <1>15 DEF Good
<1>17. HeadFits'
  BY <1>3, <1>16 DEF HeadFits
<1>18. QED
  BY <1>3, <1>17

(* The chain without its record k + 1.                                     *)
Without(s, n, k) == [i \in 1..(n - 1) |-> IF i <= k THEN s[i] ELSE s[i + 1]]

Lacks(c, s, n, k, L) ==
    /\ n - 1 \in Nat /\ c \in [1..(n - 1) -> L \ {s[k + 1]}]
    /\ \A i, j \in 1..(n - 1) : c[i] = c[j] => i = j
    /\ Of(c, n - 1) = Of(s, n) \ {s[k + 1]}

LEMMA WithoutFacts ==
  ASSUME NEW n \in Nat, NEW L, NEW s \in [1..n -> L], NEW k \in 0..(n - 1),
         \A i, j \in 1..n : s[i] = s[j] => i = j
  PROVE  Lacks(Without(s, n, k), s, n, k, L)
<1> DEFINE c == Without(s, n, k)
<1>1. \A i \in 1..(n - 1) : c[i] = IF i <= k THEN s[i] ELSE s[i + 1]
  BY DEF Without
<1>2. \A i \in 1..(n - 1) : i \in 1..n /\ i + 1 \in 1..n
  OBVIOUS
<1>3. k + 1 \in 1..n
  OBVIOUS
<1>4. \A i \in 1..(n - 1) : c[i] \in L \ {s[k + 1]}
  BY <1>1, <1>2, <1>3
<1>5. c \in [1..(n - 1) -> L \ {s[k + 1]}]
  BY <1>4 DEF Without
<1> HIDE DEF c
<1>6. ASSUME NEW i \in 1..(n - 1), NEW j \in 1..(n - 1), c[i] = c[j] PROVE i = j
  BY <1>1, <1>2, <1>6
<1>7. ASSUME NEW x \in Of(s, n), x # s[k + 1] PROVE x \in Of(c, n - 1)
  <2>1. PICK i \in 1..n : x = s[i]
    BY DEF Of
  <2>2. CASE i <= k
    <3>1. i \in 1..(n - 1) /\ c[i] = x
      BY <1>1, <2>1, <2>2
    <3>2. QED
      BY <3>1 DEF Of
  <2>3. CASE i > k
    <3>1. i - 1 \in 1..(n - 1) /\ ~(i - 1 <= k) /\ (i - 1) + 1 = i
      BY <1>7, <2>1, <2>3
    <3>2. c[i - 1] = x
      BY <1>1, <2>1, <3>1
    <3>3. QED
      BY <3>1, <3>2 DEF Of
  <2>4. QED
    BY <2>2, <2>3
<1>8. ASSUME NEW x \in Of(c, n - 1) PROVE x \in Of(s, n) \ {s[k + 1]}
  BY <1>1, <1>2, <1>4, <1>8 DEF Of
<1>9. Of(c, n - 1) = Of(s, n) \ {s[k + 1]}
  BY <1>7, <1>8
<1>10. n - 1 \in Nat
  OBVIOUS
<1>11. QED
  BY <1>5, <1>6, <1>9, <1>10 DEF c, Lacks

Links(c, n, front, after) ==
    /\ front = Follows(c, n, 0)
    /\ \A i \in 1..n : after[c[i]].next = Follows(c, n, i) /\ after[c[i]].ptr \in Blocks

LEMMA UnlinkedIsChain ==
  ASSUME NEW n \in Nat, NEW s, NEW head, IsChain(s, n, head), NEW k \in 0..(n - 1), TasksInv,
         NEW after, NEW front,
         \A x \in Records : after[x].ptr = record[x].ptr,
         k = 0 => front = record[s[1]].next /\ after = record,
         k # 0 => /\ front = head /\ after[s[k]].next = record[s[k + 1]].next
                  /\ \A x \in Records : x # s[k] => after[x] = record[x]
  PROVE  Links(Without(s, n, k), n - 1, front, after)
<1> DEFINE c == Without(s, n, k)
<1>1. s \in [1..n -> live] /\ (\A i, j \in 1..n : s[i] = s[j] => i = j) /\ \A i \in 1..n : s[i] \in Records
  BY DEF IsChain, TasksInv, ListTypeOK
<1>2. /\ n - 1 \in Nat /\ \A i \in 1..(n - 1) : c[i] = IF i <= k THEN s[i] ELSE s[i + 1]
  BY DEF Without
<1> HIDE DEF c
<1>3. \A i \in 1..n : record[s[i]].next = (IF i = n THEN NULL ELSE s[i + 1]) /\ record[s[i]].ptr \in Blocks
  BY DEF IsChain, Follows
<1>4. head = IF n = 0 THEN NULL ELSE s[1]
  BY DEF IsChain, Follows
<1>5. front = Follows(c, n - 1, 0)
  <2>1. CASE k = 0
    <3>1. front = IF n = 1 THEN NULL ELSE s[2]
      BY <1>3, <2>1
    <3>2. n # 1 => 1 \in 1..(n - 1) /\ c[1] = s[2]
      BY <1>2, <2>1
    <3>3. QED
      BY <1>2, <3>1, <3>2 DEF Follows
  <2>2. CASE k # 0
    BY <1>2, <1>4, <2>2 DEF Follows
  <2>3. QED
    BY <2>1, <2>2
<1>6. ASSUME NEW i \in 1..(n - 1)
      PROVE  after[c[i]].next = Follows(c, n - 1, i) /\ after[c[i]].ptr \in Blocks
  <2>1. i \in 1..n /\ i + 1 \in 1..n /\ (i # n - 1 => i + 1 \in 1..(n - 1))
    OBVIOUS
  <2>2. CASE i < k
    <3>1. c[i] = s[i] /\ c[i + 1] = s[i + 1] /\ i # n - 1 /\ s[i] # s[k] /\ k \in 1..n
      BY <1>1, <1>2, <2>1, <2>2
    <3>2. after[s[i]] = record[s[i]]
      BY <1>1, <2>1, <2>2, <3>1
    <3>3. QED
      BY <1>3, <2>1, <3>1, <3>2 DEF Follows
  <2>3. CASE i = k
    <3>1. c[i] = s[k] /\ k # 0 /\ k \in 1..n /\ k + 1 \in 1..n
      BY <1>2, <2>1, <2>3
    <3>2. after[s[k]].next = IF k + 1 = n THEN NULL ELSE s[k + 2]
      BY <1>3, <3>1
    <3>3. k + 1 # n => c[i + 1] = s[k + 2]
      BY <1>2, <2>1, <2>3
    <3>4. after[s[k]].ptr \in Blocks
      BY <1>1, <1>3, <3>1
    <3>5. QED
      BY <2>3, <3>1, <3>2, <3>3, <3>4 DEF Follows
  <2>4. CASE i > k
    <3>1. c[i] = s[i + 1]
      BY <1>2, <2>4
    <3>2. after[s[i + 1]] = record[s[i + 1]]
      <4>1. k # 0 => k \in 1..n /\ s[i + 1] # s[k]
        BY <1>1, <2>1, <2>4
      <4>2. QED
        BY <1>1, <2>1, <4>1
    <3>3. record[s[i + 1]].next = IF i + 1 = n THEN NULL ELSE s[i + 2]
      BY <1>3, <2>1
    <3>4. i + 1 # n => c[i + 1] = s[i + 2]
      BY <1>2, <2>1, <2>4
    <3>5. QED
      BY <1>3, <2>1, <3>1, <3>2, <3>3, <3>4 DEF Follows
  <2>5. QED
    BY <2>2, <2>3, <2>4
<1>7. QED
  BY <1>5, <1>6 DEF c, Links

LEMMA UnlinkChain ==
  ASSUME TasksInv, ChainInv, NEW t \in Tasks, Unlink(t), TasksInv', Harmless'
  PROVE  HeadFits' /\ \A u \in Tasks : Pushing(u)' => ItemFits(u)'
<1>1. PICK d \in live : d = Deref(task[t].link)
  BY UnlinkFacts
<1>2. /\ At(t, "unlink") /\ Leaves(t) /\ live' = live \ {d}
      /\ task[t].link = NULL => list' = record[d].next /\ record' = record
      /\ task[t].link # NULL => list' = list /\ record' = [record EXCEPT ![task[t].link].next = record[d].next]
  BY <1>1, UnlinkFacts
<1>3. Removing(t) /\ Harmless /\ raced' = raced
  BY <1>2 DEF At, Removing, Leaves, Harmless
<1>4. \A u \in Tasks : ~Pushing(u)' /\ ~Removing(u)'
  BY <1>2, <1>3, RemovesAlone DEF Leaves, Pushing, Removing
<1>5. PICK n \in Nat : \E s \in [1..n -> live] :
          Good(s, n, list) /\ \A u \in Tasks : Removing(u) => WalkFits(u, s, n)
  BY <1>3 DEF ChainInv, HeadFits
<1>6. PICK s \in [1..n -> live] : Good(s, n, list) /\ WalkFits(t, s, n)
  BY <1>3, <1>5
<1>7. PICK k \in 0..n : /\ task[t].link = IF k = 0 THEN NULL ELSE s[k]
                        /\ k < n /\ record[s[k + 1]].ptr = task[t].old
  BY <1>2, <1>6 DEF WalkFits
<1>8. IsChain(s, n, list) /\ \A i, j \in 1..n : s[i] = s[j] => i = j
  BY <1>6 DEF Good, IsChain
<1>9. d = s[k + 1] /\ k \in 0..(n - 1) /\ k + 1 \in 1..n
  <2>1. IsChain(s, n, list) /\ task[t].link = IF k = 0 THEN NULL ELSE s[k]
    BY <1>7, <1>8
  <2>2. k < n => k + 1 \in 1..n /\ Deref(task[t].link) = s[k + 1]
    BY <2>1, ChainDeref
  <2>3. QED
    BY <1>1, <1>7, <2>2
<1> DEFINE S == Of(s, n)
           c == Without(s, n, k)
<1>10. /\ n - 1 \in Nat /\ c \in [1..(n - 1) -> live \ {d}]
       /\ \A i, j \in 1..(n - 1) : c[i] = c[j] => i = j
       /\ Of(c, n - 1) = S \ {d}
  <2>1. n \in Nat /\ s \in [1..n -> live] /\ k \in 0..(n - 1) /\ \A i, j \in 1..n : s[i] = s[j] => i = j
    BY <1>8, <1>9
  <2>2. Lacks(c, s, n, k, live)
    BY ONLY <2>1, WithoutFacts
  <2> HIDE DEF c
  <2>3. QED
    BY <1>9, <2>2 DEF Lacks
<1>11. k # 0 => s[k] \in Records /\ task[t].link = s[k] /\ task[t].link # NULL
  BY <1>7, NullIsNoAddress DEF TasksInv, ListTypeOK
<1>12. \A x \in Records : /\ record'[x].ptr = record[x].ptr /\ record'[x].of = record[x].of
                          /\ k # 0 /\ x # s[k] => record'[x] = record[x]
  <2>1. CASE task[t].link = NULL
    BY <1>2, <1>11, <2>1
  <2>2. CASE task[t].link # NULL
    <3>1. \A x \in Records : record[x] \in RecordType
      BY DEF TasksInv, ListTypeOK
    <3>2. task[t].link = s[k] /\ s[k] \in Records
      BY <1>7, <1>11, <2>2
    <3>3. record' = [record EXCEPT ![s[k]] = [record[s[k]] EXCEPT !.next = record[d].next]]
      BY <1>2, <2>2, <3>2
    <3>4. ASSUME NEW y \in RecordType, NEW v
          PROVE  [y EXCEPT !.next = v].ptr = y.ptr /\ [y EXCEPT !.next = v].of = y.of
      BY DEF RecordType
    <3>5. record'[s[k]].ptr = record[s[k]].ptr /\ record'[s[k]].of = record[s[k]].of
      BY <3>1, <3>2, <3>3, <3>4 DEF TasksInv, ListTypeOK
    <3>6. \A x \in Records : x # s[k] => record'[x] = record[x]
      BY <3>3 DEF TasksInv, ListTypeOK
    <3>7. QED
      BY <3>5, <3>6
  <2>3. QED
    BY <2>1, <2>2
<1>13. k # 0 => record'[s[k]].next = record[d].next
  <2>1. \A y \in RecordType, v \in Records \cup {NULL} : [y EXCEPT !.next = v].next = v
    BY DEF RecordType
  <2>2. record[d].next \in Records \cup {NULL}
    BY DEF TasksInv, ListTypeOK, RecordType
  <2>3. ASSUME k # 0 PROVE record'[s[k]] = [record[s[k]] EXCEPT !.next = record[d].next]
                           /\ record[s[k]] \in RecordType
    BY <1>2, <1>11, <2>3 DEF TasksInv, ListTypeOK
  <2>4. QED
    BY <2>1, <2>2, <2>3
<1>14. /\ list' = Follows(c, n - 1, 0)
       /\ \A i \in 1..(n - 1) : record'[c[i]].next = Follows(c, n - 1, i) /\ record'[c[i]].ptr \in Blocks
  <2>1. k = 0 => list' = record[s[1]].next /\ record' = record
    BY <1>2, <1>7, <1>9
  <2>2. k # 0 => list' = list
    BY <1>2, <1>11
  <2>3. k # 0 => record'[s[k]].next = record[s[k + 1]].next
    BY <1>9, <1>13
  <2>4. \A x \in Records : record'[x].ptr = record[x].ptr
    BY <1>12
  <2>5. k # 0 => \A x \in Records : x # s[k] => record'[x] = record[x]
    BY <1>12
  <2>6. n \in Nat /\ IsChain(s, n, list) /\ k \in 0..(n - 1) /\ TasksInv
    BY <1>8, <1>9
  <2>7. ASSUME NEW after, NEW front, after = record', front = list'
        PROVE  Links(c, n - 1, front, after)
    BY ONLY <2>1, <2>2, <2>3, <2>4, <2>5, <2>6, <2>7, UnlinkedIsChain
  <2> HIDE DEF c
  <2>8. QED
    BY <2>7 DEF Links
<1> HIDE DEF c
<1>15. IsChain(c, n - 1, list)'
  BY <1>2, <1>4, <1>10, <1>14 DEF IsChain, Follows
<1> DEFINE old == task[t].old
<1>16. S \subseteq Records /\ d \in S /\ \A x \in S : record[x].ptr \in Blocks
  BY <1>8, <1>9, ChainIsLive DEF IsChain, Of
<1>17. /\ old \in Blocks /\ Owed(old) >= 1
       /\ \A p \in Blocks : /\ Owed(p) \in Nat /\ Owed(p)' = Owed(p) - (IF p = old THEN 1 ELSE 0)
                            /\ p # old => Freeing(p)' = Freeing(p)
  BY <1>2, <1>3, LeavesDebts
<1>18. \A p \in Blocks : /\ Named(S \ {d}, p)' = Named(S \ {d}, p)
                         /\ Cardinality(Named(S, p)) \in Nat
                         /\ Cardinality(Named(S \ {d}, p))
                              = Cardinality(Named(S, p)) - (IF p = old THEN 1 ELSE 0)
  <2>1. \A p \in Blocks : Named(S \ {d}, p)' = Named(S \ {d}, p)
    BY <1>12, <1>16 DEF Named
  <2>2. \A p \in Blocks : Cardinality(Named(S \ {d}, p))
                              = Cardinality(Named(S, p)) - (IF p = record[d].ptr THEN 1 ELSE 0)
    BY <1>16, NamedRemoved
  <2>3. record[d].ptr = old
    BY <1>7, <1>9
  <2>4. QED
    BY <1>16, <2>1, <2>2, <2>3, NamedIsFinite
<1>19. Balanced(S \ {d})'
  <2>1. Balanced(S)
    BY <1>6 DEF Good
  <2>2. ASSUME NEW p \in Blocks
        PROVE  /\ Cardinality(Named(S \ {d}, p)') <= Owed(p)'
               /\ raced = {} => Cardinality(Named(S \ {d}, p)') = Owed(p)'
    <3>1. /\ Cardinality(Named(S, p)) <= Owed(p)
          /\ raced = {} => Cardinality(Named(S, p)) = Owed(p)
      BY <2>1 DEF Balanced
    <3>2. Cardinality(Named(S \ {d}, p)') = Cardinality(Named(S, p)) - (IF p = old THEN 1 ELSE 0)
      BY <1>18
    <3>3. Owed(p)' = Owed(p) - (IF p = old THEN 1 ELSE 0)
          /\ Owed(p) \in Nat /\ Cardinality(Named(S, p)) \in Nat
      BY <1>17, <1>18
    <3>4. QED
      BY ONLY <3>1, <3>2, <3>3
  <2>3. QED
    BY <1>3, <2>2 DEF Balanced
<1>20. raced' = {} => Current(S \ {d})'
  <2>0. \A x \in S : record'[x].ptr = record[x].ptr /\ record'[x].of = record[x].of
    BY <1>12, <1>16
  <2> SUFFICES ASSUME raced = {}, NEW x \in S \ {d}, NEW p \in Blocks, p = record[x].ptr,
                      p \notin reissued, Freeing(p)' = {}
               PROVE  record[x].of = owner[p]
    BY <1>2, <1>3, <1>16, <2>0 DEF Current, Leaves
  <2>1. CASE p # old
    <3>1. Current(S) /\ x \in S
      BY <1>6, <1>16 DEF Good
    <3>2. Freeing(p) = {}
      BY <1>17, <2>1
    <3>3. QED
      BY <3>1, <3>2 DEF Current
  <2>2. CASE p = old
    <3>1. old # NULL
      BY <1>17, NullIsNoAddress
    <3>2. Freeing(old) = {t}
      BY <2>2, <3>1 DEF TasksInv, FreedOnce, Freeing
    <3>3. ~Settled(old)
      BY <2>2, <3>1 DEF TasksInv, FreedOnce, Settled
    <3>4. Owed(old) = 1
      <4>1. Cardinality(Freeing(old)) = 1
        BY <3>2, FS_Singleton
      <4>2. QED
        BY <3>3, <4>1 DEF Owed
    <3>5. Cardinality(Named(S \ {d}, old)) = 0
      <4>1. Balanced(S)
        BY <1>6 DEF Good
      <4>2. Cardinality(Named(S, old)) = 1
        BY <1>17, <3>4, <4>1 DEF Balanced
      <4>3. Cardinality(Named(S \ {d}, old)) = Cardinality(Named(S, old)) - 1
        BY <1>17, <1>18, Zenon
      <4>4. QED
        BY ONLY <4>2, <4>3
    <3>6. x \in Named(S \ {d}, old)
      BY <2>2 DEF Named
    <3>7. QED
      BY <1>16, <3>5, <3>6, NamedIsFinite
  <2>3. QED
    BY <2>1, <2>2
<1>21. Of(c, n - 1)' = S \ {d}
  BY <1>10 DEF Of
<1>22. Good(c, n - 1, list)'
  BY <1>15, <1>19, <1>20, <1>21 DEF Good
<1>23. HeadFits'
  BY <1>2, <1>4, <1>10, <1>22 DEF HeadFits
<1>24. QED
  BY <1>4, <1>23

LEMMA StepChain ==
  ASSUME TasksInv, ChainInv, NEW t \in Tasks, ListStep(t), ~UnlinkCrashes(t), TasksInv'
  PROVE  ChainInv'
<1> SUFFICES ASSUME Harmless' PROVE HeadFits' /\ \A u \in Tasks : Pushing(u)' => ItemFits(u)'
  BY DEF ChainInv
<1>1. CASE \E r \in Records : Link(t, r)
  BY <1>1, LinkChain
<1>2. QED
  BY <1>1, PublishChain, EnterChain, FindsChain, PassesChain, EndsChain, UnlinkChain DEF ListStep

LEMMA NoCrash ==
  ASSUME TasksInv, ChainInv, NEW t \in Tasks, UnlinkCrashes(t)
  PROVE  ~Harmless
<1> SUFFICES ASSUME Harmless PROVE FALSE
  OBVIOUS
<1>1. At(t, "unlink") /\ Removing(t) /\ Deref(task[t].link) \notin live
  BY DEF UnlinkCrashes, At, Removing
<1>2. PICK n \in Nat : \E s \in [1..n -> live] : Good(s, n, list) /\ WalkFits(t, s, n)
  BY <1>1 DEF ChainInv, HeadFits
<1>3. PICK s \in [1..n -> live] : Good(s, n, list) /\ WalkFits(t, s, n)
  BY <1>2
<1>4. PICK k \in 0..n : k < n /\ task[t].link = IF k = 0 THEN NULL ELSE s[k]
  BY <1>1, <1>3 DEF WalkFits
<1>5. QED
  BY <1>1, <1>3, <1>4, ChainDeref DEF Good

(* The walk of avDumpLeaks visits the records of the chain in order.       *)
LEMMA ChainIsShort ==
  ASSUME TasksInv, NEW n \in Nat, NEW s, NEW head, IsChain(s, n, head)
  PROVE  n <= Cardinality(Records) /\ Cardinality(Records) \in Nat
<1>1. s \in Injection(1..n, Records)
  BY ChainIsLive DEF IsChain, Injection, IsInjective, TasksInv, ListTypeOK
<1>2. Cardinality(1..n) <= Cardinality(Records)
  BY <1>1, FS_Injection, MemoryIsFinite
<1>3. Cardinality(1..n) = n
  BY FS_Interval
<1>4. QED
  BY <1>2, <1>3, FS_CardinalityType, MemoryIsFinite


IsPart(s, k, n, L) ==
    /\ First(s, k) \in Seq(L) /\ Len(First(s, k)) = k
    /\ k = 0 <=> First(s, k) = <<>>
    /\ \A i \in 1..k : First(s, k)[i] = s[i]
    /\ k < n => First(s, k) \o <<s[k + 1]>> = First(s, k + 1)

LEMMA FirstFacts ==
  ASSUME NEW n \in Nat, NEW L, NEW s \in [1..n -> L], NEW k \in 0..n
  PROVE  IsPart(s, k, n, L)
<1>1. \A j \in 0..n : First(s, j) \in Seq(L) /\ Len(First(s, j)) = j
  BY DEF First
<1>2. \A j \in 0..n : \A i \in 1..j : First(s, j)[i] = s[i]
  BY DEF First
<1>3. k = 0 <=> First(s, k) = <<>>
  BY <1>1
<1>4. ASSUME k < n PROVE First(s, k) \o <<s[k + 1]>> = First(s, k + 1)
  <2> DEFINE longer == First(s, k) \o <<s[k + 1]>>
  <2>1. k + 1 \in 1..n /\ s[k + 1] \in L
    BY <1>4
  <2>2. longer \in Seq(L) /\ Len(longer) = k + 1
    BY <1>1, <2>1
  <2>3. ASSUME NEW i \in 1..(k + 1) PROVE longer[i] = s[i]
    <3>1. First(s, k) \in Seq(L) /\ Len(First(s, k)) = k /\ <<s[k + 1]>> \in Seq(L)
      BY <1>1, <2>1
    <3>2. CASE i \in 1..k
      <4>1. First(s, k)[i] = s[i]
        BY <1>2, <3>2
      <4>2. QED
        BY ONLY <3>1, <3>2, <4>1
    <3>3. CASE i = k + 1
      BY <3>1, <3>3
    <3> HIDE DEF longer
    <3>4. i \in 1..k \/ i = k + 1
      OBVIOUS
    <3>5. QED
      BY <3>2, <3>3, <3>4
  <2>4. First(s, k + 1) \in Seq(L) /\ Len(First(s, k + 1)) = k + 1
        /\ \A i \in 1..(k + 1) : First(s, k + 1)[i] = s[i]
    BY <1>1, <1>2, <2>1
  <2> HIDE DEF longer
  <2>5. longer = First(s, k + 1)
    BY <2>2, <2>3, <2>4
  <2>6. QED
    BY <2>5 DEF longer
<1>5. QED
  BY <1>1, <1>2, <1>3, <1>4 DEF IsPart

LEMMA DumpIsChain ==
  ASSUME TasksInv, NEW n \in Nat, NEW s, IsChain(s, n, list)
  PROVE  DumpLeaks = s
<1> DEFINE N == Cardinality(Records)
           Visited(m) == IF m + 1 <= n THEN m + 1 ELSE n
           Part == [m \in 0..N |-> First(s, Visited(m))]
           Grown(p, m) == IF p = <<>> \/ Len(p) <= m - 1 \/ record[p[Len(p)]].next = NULL THEN p
                          ELSE p \o <<record[p[Len(p)]].next>>
           Body(W) == [m \in 0..N |->
                         IF m = 0 THEN IF list = NULL THEN <<>> ELSE <<list>> ELSE Grown(W[m - 1], m)]
           Walk == CHOOSE W : W = Body(W)
<1>1. DumpLeaks = Walk[N]
  BY DEF DumpLeaks
<1>2. /\ s \in [1..n -> live] /\ n <= N /\ N \in Nat
      /\ \A i \in 1..n : s[i] # NULL
      /\ list = IF n = 0 THEN NULL ELSE s[1]
      /\ \A i \in 1..n : record[s[i]].next = IF i = n THEN NULL ELSE s[i + 1]
  <2>1. n <= N /\ N \in Nat
    BY ChainIsShort
  <2>2. s \in [1..n -> live] /\ \A i \in 1..n : record[s[i]].next = IF i = n THEN NULL ELSE s[i + 1]
    BY DEF IsChain, Follows
  <2>3. \A i \in 1..n : s[i] # NULL
    BY <2>2, NullIsNoAddress DEF TasksInv, ListTypeOK
  <2>4. list = IF n = 0 THEN NULL ELSE s[1]
    BY DEF IsChain, Follows
  <2>5. QED
    BY <2>1, <2>2, <2>3, <2>4
<1>3. \A k \in 0..n :
          /\ Len(First(s, k)) = k /\ (k = 0 <=> First(s, k) = <<>>)
          /\ \A i \in 1..k : First(s, k)[i] = s[i]
          /\ k < n => First(s, k) \o <<s[k + 1]>> = First(s, k + 1)
  <2>1. n \in Nat /\ s \in [1..n -> live]
    BY <1>2
  <2>2. \A k \in 0..n : IsPart(s, k, n, live)
    BY ONLY <2>1, FirstFacts
  <2>3. QED
    BY <2>2 DEF IsPart
<1>4. First(s, n) = s
  BY <1>2 DEF First
<1>5. First(s, Visited(0)) = IF list = NULL THEN <<>> ELSE <<list>>
  <2>1. CASE n = 0
    BY <1>2, <1>3, <2>1
  <2>2. CASE n # 0
    <3>1. Visited(0) = 1 /\ list = s[1] /\ list # NULL
      BY <1>2, <2>2
    <3>2. First(s, 0) \o <<s[1]>> = First(s, 1) /\ First(s, 0) = <<>>
      BY <1>3, <2>2
    <3>3. <<>> \o <<s[1]>> = <<s[1]>>
      OBVIOUS
    <3>4. QED
      BY <3>1, <3>2, <3>3
  <2>3. QED
    BY <2>1, <2>2
<1>6. ASSUME NEW m \in 1..N PROVE Grown(First(s, Visited(m - 1)), m) = First(s, Visited(m))
  <2>1. CASE m < n
    <3>1. Visited(m - 1) = m /\ Visited(m) = m + 1 /\ m \in 1..n /\ m \in 0..n
      BY <2>1
    <3>2. Len(First(s, m)) = m /\ First(s, m) # <<>> /\ First(s, m)[m] = s[m]
          /\ First(s, m) \o <<s[m + 1]>> = First(s, m + 1)
      BY <1>3, <2>1, <3>1
    <3>3. record[s[m]].next = s[m + 1] /\ s[m + 1] # NULL
      BY <1>2, <2>1, <3>1
    <3>4. ~(m <= m - 1)
      BY <3>1
    <3>5. Grown(First(s, m), m) = First(s, m + 1)
      BY ONLY <3>2, <3>3, <3>4
    <3> HIDE DEF Grown, Visited
    <3>6. QED
      BY <3>1, <3>5
  <2>2. CASE m >= n
    <3>1. Visited(m - 1) = n /\ Visited(m) = n
      BY <2>2
    <3>2. n # 0 => Len(First(s, n)) = n /\ First(s, n)[n] = s[n] /\ record[s[n]].next = NULL
      <4>1. n # 0 => n \in 1..n /\ n \in 0..n
        OBVIOUS
      <4>2. QED
        BY <1>2, <1>3, <4>1
    <3>3. n = 0 => First(s, n) = <<>>
      BY <1>3
    <3>4. Grown(First(s, n), m) = First(s, n)
      BY ONLY <3>2, <3>3
    <3> HIDE DEF Grown, Visited
    <3>5. QED
      BY <3>1, <3>4
  <2>3. QED
    BY <2>1, <2>2
<1> HIDE DEF N, Visited, Grown
<1>7. Part = Body(Part)
  <2>1. \A m \in 0..N : Part[m] = Body(Part)[m]
    <3>1. ASSUME NEW m \in 0..N, m # 0 PROVE Part[m - 1] = First(s, Visited(m - 1)) /\ m \in 1..N
      BY <1>2, <3>1
    <3>2. QED
      BY <1>2, <1>5, <1>6, <3>1
  <2>2. QED
    BY <2>1
<1>8. Walk = Body(Walk)
  <2> HIDE DEF Body, Part
  <2>1. QED
    BY <1>7
<1> DEFINE Done == {m \in Nat : m \in 0..N => Walk[m] = First(s, Visited(m))}
<1>9. \A m \in 0..N : Walk[m] = IF m = 0 THEN IF list = NULL THEN <<>> ELSE <<list>>
                                ELSE Grown(Walk[m - 1], m)
  <2> HIDE DEF Walk
  <2>1. QED
    BY <1>8
<1> HIDE DEF Walk
<1>10. 0 \in Done
  BY <1>2, <1>5, <1>9
<1>11. ASSUME NEW m \in Nat, m \in Done PROVE m + 1 \in Done
  <2>1. ASSUME m + 1 \in 0..N PROVE Walk[m + 1] = First(s, Visited(m + 1))
    <3>1. m \in 0..N /\ m + 1 \in 1..N /\ (m + 1) - 1 = m /\ m + 1 # 0
      BY <1>2, <2>1
    <3>2. Walk[m] = First(s, Visited(m))
      BY <1>11, <3>1
    <3>3. Walk[m + 1] = Grown(Walk[m], m + 1)
      BY <1>9, <2>1, <3>1
    <3>4. Grown(First(s, Visited(m)), m + 1) = First(s, Visited(m + 1))
      BY <1>6, <3>1
    <3>5. QED
      BY <3>2, <3>3, <3>4
  <2>2. QED
    BY <2>1
<1>12. N \in Done
  <2> HIDE DEF Done
  <2>1. Nat \subseteq Done
    BY <1>10, <1>11, SetInduction
  <2>2. QED
    BY <1>2, <2>1
<1>13. Visited(N) = n
  BY <1>2 DEF Visited
<1>14. QED
  BY <1>1, <1>2, <1>4, <1>12, <1>13

(* When the program exits nothing is being freed: a block is owed a record *)
(* if it is allocated, so the chain names every allocated block once.      *)
LEMMA QuietDebts ==
  ASSUME TasksInv, Quiet
  PROVE  \A p \in Blocks : Freeing(p) = {} /\ Owed(p) = IF p \in Allocated THEN 1 ELSE 0
<1> TAKE p \in Blocks
<1>1. \A t \in Tasks : task[t].old = NULL /\ task[t].new = NULL
  BY IdleFacts DEF Quiet
<1>2. Freeing(p) = {}
  BY <1>1, NullIsNoAddress DEF Freeing
<1>3. Settled(p) <=> p \in Allocated
  BY <1>1, NullIsNoAddress DEF Settled, Allocated
<1>4. Cardinality(Freeing(p)) = 0
  BY <1>2, FS_EmptySet
<1>5. QED
  BY <1>2, <1>3, <1>4 DEF Owed

LEMMA AtMostOne ==
  ASSUME NEW S, IsFiniteSet(S), Cardinality(S) <= 1, NEW x \in S, NEW y \in S
  PROVE  x = y
<1>1. Cardinality(S) \in Nat /\ Cardinality(S) # 0
  BY FS_CardinalityType, FS_EmptySet
<1>2. Cardinality(S) = 1
  BY <1>1
<1>3. PICK z : S = {z}
  BY <1>2, FS_Singleton
<1>4. QED
  BY <1>3

Leaks == [i \in DOMAIN DumpLeaks |-> record[DumpLeaks[i]]]

LEMMA LeaksAreAllocated ==
  ASSUME TasksInv, ChainInv, Quiet, Harmless
  PROVE  /\ \A i \in DOMAIN Leaks : Leaks[i].ptr \in Allocated
         /\ raced = {} => /\ {Leaks[i].ptr : i \in DOMAIN Leaks} = Allocated
                          /\ Len(Leaks) = Cardinality(Allocated)
                          /\ \A i \in DOMAIN Leaks :
                                Leaks[i].ptr \in reissued \/ Leaks[i].of = owner[Leaks[i].ptr]
<1>1. PICK n \in Nat : \E s \in [1..n -> live] : Good(s, n, list)
  BY DEF ChainInv, HeadFits
<1>2. PICK s \in [1..n -> live] : Good(s, n, list)
  BY <1>1
<1> DEFINE S == Of(s, n)
<1>3. IsChain(s, n, list) /\ Balanced(S) /\ (raced = {} => Current(S))
  BY <1>2 DEF Good
<1>4. DumpLeaks = s
  BY <1>3, DumpIsChain
<1>5. DOMAIN Leaks = 1..n /\ \A i \in 1..n : Leaks[i] = record[s[i]]
  BY <1>4 DEF Leaks
<1>6. Leaks \in Seq(RecordType) /\ Len(Leaks) = n
  <2>1. \A i \in 1..n : s[i] \in Records
    BY DEF TasksInv, ListTypeOK
  <2>2. \A i \in 1..n : record[s[i]] \in RecordType
    BY <2>1 DEF TasksInv, ListTypeOK
  <2>3. Leaks = [i \in 1..n |-> record[s[i]]]
    BY <1>4 DEF Leaks
  <2>4. QED
    BY <2>2, <2>3
<1>7. S \subseteq Records /\ \A i \in 1..n : s[i] \in S /\ record[s[i]].ptr \in Blocks
  BY <1>3, ChainIsLive DEF IsChain, Of
<1>8. \A p \in Blocks : /\ IsFiniteSet(Named(S, p)) /\ Cardinality(Named(S, p)) \in Nat
                        /\ Cardinality(Named(S, p)) = 0 <=> Named(S, p) = {}
                        /\ Cardinality(Named(S, p)) <= (IF p \in Allocated THEN 1 ELSE 0)
                        /\ raced = {} => Cardinality(Named(S, p)) = IF p \in Allocated THEN 1 ELSE 0
  BY <1>3, <1>7, NamedIsFinite, QuietDebts DEF Balanced
<1>9. \A i \in 1..n : s[i] \in Named(S, record[s[i]].ptr)
  BY <1>7 DEF Named
<1> HIDE DEF S
<1>10. \A i \in 1..n : record[s[i]].ptr \in Allocated
  BY <1>7, <1>8, <1>9
<1>11. ASSUME NEW i \in 1..n, NEW j \in 1..n, record[s[i]].ptr = record[s[j]].ptr PROVE i = j
  <2>1. PICK p \in Blocks : p = record[s[i]].ptr
    BY <1>7
  <2>2. IsFiniteSet(Named(S, p)) /\ Cardinality(Named(S, p)) <= 1
    BY <1>8
  <2>3. s[i] \in Named(S, p) /\ s[j] \in Named(S, p)
    BY <1>9, <1>11, <2>1
  <2>4. s[i] = s[j]
    BY <2>2, <2>3, AtMostOne
  <2>5. QED
    BY <1>3, <2>4 DEF IsChain
<1>12. ASSUME raced = {}, NEW p \in Allocated PROVE \E i \in 1..n : record[s[i]].ptr = p
  <2>1. p \in Blocks
    BY DEF Allocated
  <2>2. Named(S, p) # {}
    BY <1>8, <1>12, <2>1
  <2>3. QED
    BY <2>2 DEF Named, S, Of
<1>13. ASSUME raced = {} PROVE n = Cardinality(Allocated)
  <2> DEFINE f == [i \in 1..n |-> record[s[i]].ptr]
  <2>1. f \in Bijection(1..n, Allocated)
    BY <1>10, <1>11, <1>12, <1>13 DEF Bijection, Injection, Surjection, IsInjective
  <2>2. ExistsBijection(1..n, Allocated)
    BY <2>1 DEF ExistsBijection
  <2>3. IsFiniteSet(1..n) /\ Cardinality(1..n) = n
    BY FS_Interval
  <2>4. QED
    BY <2>2, <2>3, FS_Bijection
<1>14. ASSUME raced = {} PROVE {Leaks[i].ptr : i \in DOMAIN Leaks} = Allocated
  BY <1>5, <1>10, <1>12, <1>14
<1>15. ASSUME raced = {}, NEW i \in 1..n
       PROVE  record[s[i]].ptr \in reissued \/ record[s[i]].of = owner[record[s[i]].ptr]
  <2>1. Freeing(record[s[i]].ptr) = {}
    BY <1>7, QuietDebts
  <2>2. QED
    BY <1>3, <1>7, <1>15, <2>1 DEF Current
<1>16. QED
  BY <1>5, <1>6, <1>10, <1>13, <1>14, <1>15

(* The invariant: while the program runs the threads and the chain are in  *)
(* order, and what it reported when it ended is what ListSound says.       *)
ListInv ==
    /\ ListSound
    /\ end.how = "running" => Running /\ TasksInv /\ ChainInv

LEMMA RunningIsSound == Running /\ TasksInv /\ ChainInv => ListInv
<1> SUFFICES ASSUME Running, TasksInv, ChainInv PROVE ListInv
  OBVIOUS
<1>1. end.how = "running"
  BY DEF Running
<1>2. ASSUME Harmless, NEW t \in Tasks, Removing(t) PROVE task[t].link = NULL \/ task[t].link \in live
  <2>1. PICK n \in Nat : \E s \in [1..n -> live] : WalkFits(t, s, n)
    BY <1>2 DEF ChainInv, HeadFits
  <2>2. PICK s \in [1..n -> live] : WalkFits(t, s, n)
    BY <2>1
  <2>3. QED
    BY <2>2 DEF WalkFits
<1>3. ListSound
  BY <1>1, <1>2 DEF ListSound, ReportIsComplete, ReportIsCurrent, AddRacesOnlyLose, Exited, Harmless
<1>4. QED
  BY <1>3 DEF ListInv

LEMMA ExitIsSound ==
  ASSUME TasksInv, ChainInv, Exit
  PROVE  ListInv'
<1>1. /\ Quiet /\ end' = [how |-> "exit", leaks |-> Leaks]
      /\ owner' = owner /\ record' = record /\ live' = live /\ task' = task /\ raced' = raced /\ reissued' = reissued
  BY DEF Exit, Leaks
<1>2. end'.how = "exit" /\ end'.leaks = Leaks
  BY <1>1
<1>3. \A t \in Tasks : ~Removing(t)'
  BY <1>1 DEF Quiet, At, Removing
<1>4. raced = {} => Harmless
  BY DEF Harmless
<1>5. Allocated' = Allocated /\ Reported' = {Leaks[i].ptr : i \in DOMAIN Leaks}
  BY <1>1, <1>2 DEF Allocated, Reported
<1>6. ReportIsComplete'
  BY <1>1, <1>2, <1>4, <1>5, LeaksAreAllocated DEF ReportIsComplete
<1>7. ReportIsCurrent'
  BY <1>1, <1>2, <1>4, LeaksAreAllocated DEF ReportIsCurrent
<1>8. AddRacesOnlyLose'
  <2>1. Harmless => Reported' \subseteq Allocated'
    BY <1>1, <1>5, LeaksAreAllocated
  <2>2. QED
    BY <1>1, <1>2, <1>3, <2>1 DEF AddRacesOnlyLose, Harmless
<1>9. QED
  BY <1>2, <1>6, <1>7, <1>8 DEF ListInv, ListSound

LEMMA CrashIsSound ==
  ASSUME TasksInv, ChainInv, Running, NEW t \in Tasks, UnlinkCrashes(t)
  PROVE  ListInv'
<1>1. end' = [end EXCEPT !.how = "crash"] /\ raced' = raced
  BY DEF UnlinkCrashes
<1>2. end'.how = "crash"
  BY <1>1 DEF Running
<1>3. ~Harmless'
  BY <1>1, NoCrash DEF Harmless
<1>4. QED
  BY <1>2, <1>3
     DEF ListInv, ListSound, ReportIsComplete, ReportIsCurrent, AddRacesOnlyLose, Exited, Harmless

LEMMA ListInvInit == ListInit => ListInv
BY TasksInvInit, ChainInvInit, RunningIsSound

LEMMA ChainStands ==
  ASSUME ChainInv, owner' = owner, record' = record, live' = live, list' = list, task' = task, raced' = raced,
         reissued' = reissued
  PROVE  ChainInv'
<1>1. \A p : Freeing(p)' = Freeing(p) /\ Settled(p)' = Settled(p)
  BY DEF Freeing, Settled
<1>2. \A p : Owed(p)' = Owed(p)
  BY <1>1 DEF Owed
<1>3. \A S, p : Named(S, p)' = Named(S, p)
  BY DEF Named
<1>4. \A t : Pushing(t)' = Pushing(t) /\ Removing(t)' = Removing(t)
  BY DEF Pushing, Removing
<1>5. \A n, s, head : IsChain(s, n, head) => IsChain(s, n, head)'
  BY <1>4 DEF IsChain, Of, Follows
<1>6. \A S : Balanced(S) => Balanced(S)'
  BY <1>2, <1>3 DEF Balanced
<1>7. \A S : Current(S) => Current(S)'
  BY <1>1 DEF Current
<1>8. \A n, s, head : Good(s, n, head) => Good(s, n, head)'
  BY <1>5, <1>6, <1>7 DEF Good, Of
<1>9. \A t, s, n : WalkFits(t, s, n) => WalkFits(t, s, n)'
  BY DEF WalkFits, At
<1>10. HeadFits => HeadFits'
  BY <1>4, <1>8, <1>9 DEF HeadFits
<1>11. \A t : ItemFits(t) => ItemFits(t)'
  BY <1>4, <1>8 DEF ItemFits
<1>12. QED
  BY <1>4, <1>10, <1>11 DEF ChainInv, Harmless

LEMMA ListInvStep ==
  ASSUME ListInv, ListNext \/ UNCHANGED listVars
  PROVE  ListInv'
<1>1. CASE UNCHANGED listVars
  <2>1. /\ owner' = owner /\ record' = record /\ live' = live /\ list' = list /\ task' = task /\ count' = count
        /\ raced' = raced /\ reissued' = reissued /\ end' = end
    BY <1>1 DEF listVars
  <2>2. ListSound'
    BY <2>1 DEF ListInv, ListSound, ReportIsComplete, ReportIsCurrent, AddRacesOnlyLose, Exited, Reported, Allocated,
            Removing
  <2>3. CASE end.how = "running"
    <3>1. Running /\ TasksInv /\ ChainInv
      BY <2>3 DEF ListInv
    <3>2. Running'
      BY <2>1, <3>1 DEF Running
    <3>3. TasksInv'
      BY <2>1, <3>1
         DEF TasksInv, ListTypeOK, PlaceFits, NewIsOwned, FreedOnce, Separate, At, InList, Pushing, Removing, Harmless
    <3>4. ChainInv'
      BY <2>1, <3>1, ChainStands
    <3>5. QED
      BY <2>2, <3>2, <3>3, <3>4 DEF ListInv
  <2>4. QED
    BY <2>1, <2>2, <2>3 DEF ListInv
<1>2. CASE end.how = "running" /\ Exit
  BY <1>2, ExitIsSound DEF ListInv
<1>3. ASSUME end.how = "running", NEW t \in Tasks, ListCall(t) PROVE ListInv'
  <2>1. Running /\ TasksInv /\ ChainInv
    BY <1>3 DEF ListInv
  <2>2. TasksInv' /\ end' = end
    BY <1>3, <2>1, CallTasks
  <2>3. ChainInv'
    BY <1>3, <2>1, <2>2, CallChain
  <2>4. Running'
    BY <2>1, <2>2 DEF Running
  <2>5. QED
    BY <2>2, <2>3, <2>4, RunningIsSound, PTL
<1>4. ASSUME end.how = "running", NEW t \in Tasks, ListStep(t) PROVE ListInv'
  <2>1. Running /\ TasksInv /\ ChainInv
    BY <1>4 DEF ListInv
  <2>2. CASE UnlinkCrashes(t)
    BY <2>1, <2>2, CrashIsSound
  <2>3. CASE ~UnlinkCrashes(t)
    <3>1. TasksInv' /\ end' = end
      BY <1>4, <2>1, <2>3, StepTasks
    <3>2. ChainInv'
      BY <1>4, <2>1, <2>3, <3>1, StepChain
    <3>3. Running'
      BY <2>1, <3>1 DEF Running
    <3>4. QED
      BY <3>1, <3>2, <3>3, RunningIsSound, PTL
  <2>4. QED
    BY <2>2, <2>3
<1>5. QED
  BY <1>1, <1>2, <1>3, <1>4 DEF ListNext

--------------------------------------------------------------------------------
(* The allocators: sizes are rounded up to alignments and to powers of two. *)

Multiples(d) == {d * k : k \in Nat}

LEMMA MultipleHasNoRest ==
  ASSUME NEW d \in Nat \ {0}, NEW m \in Multiples(d)
  PROVE  m \in Nat /\ m % d = 0
<1>1. PICK k \in Nat : m = d * k
  BY DEF Multiples
<1>2. d * k \in Nat /\ m \in Nat
  BY <1>1
<1>3. d * k <= m /\ m < d * k + d
  BY <1>1, <1>2
<1>4. m \div d = k
  <2> HIDE DEF Multiples
  <2>1. m \in Int /\ k \in Int
    BY <1>2
  <2>2. QED
    BY <2>1, <1>3, DivIsUnique
<1>5. m % d \in 0..(d - 1) /\ m = d * k + (m % d)
  <2> DEFINE q == m \div d
             r == m % d
  <2>1. r \in 0..(d - 1) /\ m = d * q + r
    <3>1. m \in Int
      BY <1>2
    <3>2. QED
      BY ONLY <3>1, d \in Nat \ {0}, DivMod
  <2>2. q = k
    BY <1>4
  <2> HIDE DEF q
  <2>3. QED
    BY <2>1, <2>2
<1>6. QED
  BY <1>1, <1>2, <1>5

LEMMA MultiplesAdd ==
  ASSUME NEW d \in Nat \ {0}, NEW m \in Multiples(d), NEW n \in Multiples(d)
  PROVE  m + n \in Multiples(d)
<1>1. PICK j \in Nat, k \in Nat : m = d * j /\ n = d * k
  BY DEF Multiples
<1>2. d * (j + k) = d * j + d * k /\ j + k \in Nat
  OBVIOUS
<1>3. QED
  BY <1>1, <1>2 DEF Multiples

(* What is aligned is a multiple; unless it wraps around, it is the next.   *)
LEMMA AlignedUp ==
  ASSUME NEW x \in Nat, NEW d \in Nat \ {0}
  PROVE  /\ AlignUp(x, d) \in Multiples(d)
         /\ x + d <= Width64 => AlignUp(x, d) \in x..(x + d - 1)
<1> DEFINE y == (x + d - 1) % Width64
           q == y \div d
<1>1. Width64 \in Nat \ {0}
  BY WidthsHoldPages
<1>2. x + d - 1 \in Nat
  OBVIOUS
<1>3. y \in Nat /\ (x + d <= Width64 => y = x + d - 1)
  BY <1>1, <1>2
<1> HIDE DEF y
<1>4. q \in Int /\ y % d \in 0..(d - 1) /\ y = d * q + (y % d)
  BY <1>3, DivMod
<1> HIDE DEF q
<1>5. AlignUp(x, d) = q * d
  BY DEF AlignUp, y, q
<1>6. d * (-1) < d * q
  BY <1>3, <1>4
<1>7. q \in Nat /\ q * d = d * q
  BY <1>4, <1>6, ProductOrder
<1>8. d * q \in Int
  BY <1>7
<1>9. x + d <= Width64 => d * q \in x..(x + d - 1)
  BY <1>3, <1>4, <1>8
<1>10. QED
  BY <1>5, <1>7, <1>9 DEF Multiples

(* The powers of two, which the code finds by the highest bit.              *)
ArePowers(f, N) == f[0] = 1 /\ \A n \in 1..N : f[n] = 2 * f[n - 1]

LEMMA PowersOfTwo ==
  ASSUME NEW x \in Nat
  PROVE  \E f \in [0..x -> Nat] :
             ArePowers(f, x) /\ NextPow2(x) = Min({f[n] : n \in 0..x} \cap x..(2 * x))
<1> DEFINE step == [m \in (1..x) \X Nat |-> 2 * m[2]]
           Steps(g) == [n \in 0..x |-> IF n = 0 THEN 1 ELSE 2 * g[n - 1]]
           F == CHOOSE g : g = Steps(g)
<1>1. step \in [(1..x) \X Nat -> Nat]
  OBVIOUS
<1>2. PICK f \in [0..x -> Nat] : AreRuns(f, 1, step, x)
  <2> HIDE DEF step
  <2> QED
    BY <1>1, RunsExist
<1>3. ASSUME NEW n \in 1..x PROVE n - 1 \in 0..x /\ n \in 0..x /\ n # 0 /\ f[n] = 2 * f[n - 1]
  <2>1. n - 1 \in 0..x /\ n \in 0..x /\ n # 0
    OBVIOUS
  <2>2. f[n - 1] \in Nat
    BY <2>1
  <2>3. f[n] = step[<<n, f[n - 1]>>]
    BY <1>2 DEF AreRuns
  <2>4. step[<<n, f[n - 1]>>] = 2 * f[n - 1]
    BY <2>2
  <2>5. QED
    BY <2>1, <2>3, <2>4
<1>4. f[0] = 1
  BY <1>2 DEF AreRuns
<1> HIDE DEF step
<1>5. f = Steps(f)
  <2>1. ASSUME NEW n \in 0..x PROVE f[n] = Steps(f)[n]
    <3>1. CASE n = 0
      BY <1>4, <3>1
    <3>2. CASE n # 0
      <4>1. n \in 1..x
        BY <3>2
      <4>2. QED
        BY <1>3, <3>2, <4>1
    <3>3. QED
      BY <3>1, <3>2
  <2>2. QED
    BY <2>1
<1>6. F = Steps(F)
  <2> HIDE DEF Steps
  <2> QED
    BY <1>5
<1>7. \A n \in 0..x : F[n] = f[n]
  <2> HIDE DEF F
  <2>1. F[0] = 1
    <3>1. Steps(F)[0] = 1
      OBVIOUS
    <3> HIDE DEF Steps
    <3>2. QED
      BY <1>6, <3>1
  <2>2. ASSUME NEW n \in 1..x PROVE F[n] = 2 * F[n - 1]
    <3>1. Steps(F)[n] = 2 * F[n - 1]
      BY <1>3
    <3> HIDE DEF Steps
    <3>2. QED
      BY <1>6, <3>1
  <2>3. StepTogether(F, f, x)
    BY <1>3, <1>4, <2>1, <2>2 DEF StepTogether
  <2>4. QED
    BY <2>3, SameSteps DEF Agree
<1>8. F = f
  <2>1. DOMAIN F = 0..x
    BY <1>6
  <2> HIDE DEF F
  <2>2. F = [n \in 0..x |-> F[n]]
    BY <1>6, <2>1
  <2>3. QED
    BY <1>7, <2>2
<1>9. NextPow2(x) = Min({F[n] : n \in 0..x} \cap x..(2 * x))
  BY DEF NextPow2
<1>10. ArePowers(f, x)
  BY <1>3, <1>4 DEF ArePowers
<1> HIDE DEF F
<1>11. QED
  BY <1>8, <1>9, <1>10

LEMMA NextPow2Is ==
  ASSUME NEW x \in Nat \ {0}
  PROVE  NextPow2(x) \in x..(2 * x)
<1>1. PICK f \in [0..x -> Nat] : ArePowers(f, x) /\ NextPow2(x) = Min({f[n] : n \in 0..x} \cap x..(2 * x))
  BY PowersOfTwo
<1> DEFINE Reached == {k \in Nat : k < x => \E n \in 0..k : f[n] \in (k + 1)..(2 * (k + 1))}
<1>2. 0 \in Reached
  <2>1. f[0] = 1
    BY <1>1 DEF ArePowers
  <2>2. QED
    BY <2>1
<1>3. ASSUME NEW k \in Nat, k \in Reached PROVE k + 1 \in Reached
  <2> SUFFICES ASSUME k + 1 < x PROVE \E n \in 0..(k + 1) : f[n] \in (k + 2)..(2 * (k + 2))
    OBVIOUS
  <2>1. PICK n \in 0..k : f[n] \in (k + 1)..(2 * (k + 1))
    BY <1>3
  <2>2. CASE f[n] >= k + 2
    <3>1. n \in 0..(k + 1)
      BY <2>1
    <3>2. f[n] \in (k + 2)..(2 * (k + 2))
      BY ONLY <1>3, <2>1, <2>2
    <3>3. QED
      BY <3>1, <3>2
  <2>3. CASE f[n] = k + 1
    <3>1. n + 1 \in 1..x /\ n + 1 \in 0..(k + 1) /\ (n + 1) - 1 = n
      BY <2>1
    <3>2. f[n + 1] = 2 * f[n]
      BY <1>1, <3>1 DEF ArePowers
    <3>3. QED
      BY <2>3, <3>1, <3>2
  <2>4. QED
    BY <2>1, <2>2, <2>3
<1>4. x - 1 \in Reached
  <2> HIDE DEF Reached
  <2>1. Nat \subseteq Reached
    BY <1>2, <1>3, SetInduction
  <2>2. QED
    BY <2>1
<1>5. PICK n \in 0..(x - 1) : f[n] \in x..(2 * x)
  BY <1>4
<1> DEFINE P == {f[m] : m \in 0..x} \cap x..(2 * x)
<1>6. P \subseteq Nat /\ f[n] \in P
  BY <1>5
<1> HIDE DEF P
<1>7. Min(P) \in P
  BY <1>6, MinExists
<1>8. QED
  BY <1>1, <1>7 DEF P

(* The pages an allocator holds, from the oldest to the newest.             *)
ChainIn(pg, p) ==
    LET Back[n \in 0..Cardinality(Pages)] ==
            IF n = 0 THEN {p} \ {NoPage} ELSE Back[n - 1] \cup ({pg[q].previous : q \in Back[n - 1]} \ {NoPage})
    IN  Back[Cardinality(Pages)]

LEMMA ChainIsInPages == \A p : Chain(p) = ChainIn(page, p)
BY DEF Chain, ChainIn

WithPrevious(pg, B) == B \cup ({pg[q].previous : q \in B} \ {NoPage})
Leads(pg) == \A p \in Pages : pg[p].previous \in Pages \cup {NoPage}
ArePrevious(f, pg, p, N) == f[0] = {p} \ {NoPage} /\ \A n \in 1..N : f[n] = WithPrevious(pg, f[n - 1])

LEMMA PageNumbers == Cardinality(Pages) \in Nat /\ Pages \subseteq Nat \ {0} /\ NoPage \notin Pages /\ 1 \in Pages
<1>1. Cardinality(Pages) \in Nat
  BY PagesAreNumbered, FS_CardinalityType
<1>2. QED
  BY <1>1, PagesAreNumbered DEF NoPage

LEMMA ChainRuns ==
  ASSUME NEW pg, Leads(pg), NEW p \in Pages \cup {NoPage}
  PROVE  \E f \in [0..Cardinality(Pages) -> SUBSET Pages] :
             ArePrevious(f, pg, p, Cardinality(Pages)) /\ ChainIn(pg, p) = f[Cardinality(Pages)]
<1> DEFINE N == Cardinality(Pages)
           S == SUBSET Pages
           r == {p} \ {NoPage}
           step == [m \in (1..N) \X S |-> WithPrevious(pg, m[2])]
           Steps(g) == [n \in 0..N |-> IF n = 0 THEN r ELSE WithPrevious(pg, g[n - 1])]
           F == CHOOSE g : g = Steps(g)
<1>1. N \in Nat /\ r \in S
  BY PageNumbers
<1>2. step \in [(1..N) \X S -> S]
  <2> HIDE DEF N
  <2>1. ASSUME NEW B \in S PROVE WithPrevious(pg, B) \in S
    BY DEF WithPrevious, Leads
  <2>2. QED
    BY <2>1
<1>3. PICK f \in [0..N -> S] : AreRuns(f, r, step, N)
  <2> HIDE DEF N, step, S, r
  <2> QED
    BY <1>1, <1>2, RunsExist
<1> HIDE DEF N, r
<1>4. ASSUME NEW n \in 1..N PROVE n - 1 \in 0..N /\ n \in 0..N /\ n # 0 /\ f[n] = WithPrevious(pg, f[n - 1])
  <2>1. n - 1 \in 0..N /\ n \in 0..N /\ n # 0
    BY <1>1
  <2>2. f[n - 1] \in S
    BY <2>1
  <2>3. f[n] = step[<<n, f[n - 1]>>]
    BY <1>3 DEF AreRuns
  <2>4. step[<<n, f[n - 1]>>] = WithPrevious(pg, f[n - 1])
    BY <2>2
  <2>5. QED
    BY <2>1, <2>3, <2>4
<1>5. f[0] = r
  BY <1>3 DEF AreRuns
<1> HIDE DEF step
<1>6. f = Steps(f)
  <2>1. ASSUME NEW n \in 0..N PROVE f[n] = Steps(f)[n]
    <3>1. CASE n = 0
      BY <1>1, <1>5, <3>1
    <3>2. CASE n # 0
      <4>1. n \in 1..N
        BY <1>1, <3>2
      <4>2. QED
        BY <1>4, <3>2, <4>1
    <3>3. QED
      BY <3>1, <3>2
  <2>2. f = [n \in 0..N |-> f[n]]
    OBVIOUS
  <2>3. Steps(f) = [n \in 0..N |-> Steps(f)[n]]
    OBVIOUS
  <2> HIDE DEF Steps
  <2>4. QED
    BY <2>1, <2>2, <2>3
<1>7. F = Steps(F)
  <2> HIDE DEF Steps
  <2> QED
    BY <1>6
<1>8. ChainIn(pg, p) = F[N]
  BY DEF ChainIn, WithPrevious, N, r
<1>9. StepTogether(F, f, N)
  <2> HIDE DEF F
  <2>1. F[0] = r
    <3>1. Steps(F)[0] = r
      BY <1>1
    <3> HIDE DEF Steps
    <3>2. QED
      BY <1>7, <3>1
  <2>2. ASSUME NEW n \in 1..N PROVE F[n] = WithPrevious(pg, F[n - 1])
    <3>1. Steps(F)[n] = WithPrevious(pg, F[n - 1])
      BY <1>4
    <3> HIDE DEF Steps
    <3>2. QED
      BY <1>7, <3>1
  <2>3. QED
    BY <1>4, <1>5, <2>1, <2>2 DEF StepTogether
<1>10. F[N] = f[N]
  <2> HIDE DEF F
  <2>1. Agree(F, f, N)
    BY <1>1, <1>9, SameSteps
  <2>2. QED
    BY <1>1, <2>1 DEF Agree
<1>11. ArePrevious(f, pg, p, N)
  BY <1>4, <1>5 DEF ArePrevious, r
<1> HIDE DEF F
<1>12. QED
  BY <1>8, <1>10, <1>11 DEF N

(* Whatever the pages, a chain has its first page and pages only.           *)
LEMMA ChainHasPages ==
  ASSUME NEW pg, Leads(pg), NEW p \in Pages \cup {NoPage}
  PROVE  /\ ChainIn(pg, p) \subseteq Pages
         /\ p # NoPage => p \in ChainIn(pg, p)
<1> DEFINE N == Cardinality(Pages)
<1>1. N \in Nat
  BY PageNumbers
<1>2. PICK f \in [0..N -> SUBSET Pages] : ArePrevious(f, pg, p, N) /\ ChainIn(pg, p) = f[N]
  BY ChainRuns
<1> DEFINE Has == {n \in Nat : n <= N /\ p # NoPage => p \in f[n]}
<1> HIDE DEF N
<1>3. 0 \in Has
  BY <1>2 DEF ArePrevious
<1>4. ASSUME NEW n \in Nat, n \in Has PROVE n + 1 \in Has
  <2> SUFFICES ASSUME n + 1 <= N, p # NoPage PROVE p \in f[n + 1]
    OBVIOUS
  <2>1. n + 1 \in 1..N /\ (n + 1) - 1 = n /\ n <= N
    BY <1>1
  <2>2. f[n + 1] = WithPrevious(pg, f[n])
    BY <1>2, <2>1 DEF ArePrevious
  <2>3. QED
    BY <1>4, <2>1, <2>2 DEF WithPrevious
<1>5. N \in Has
  <2> HIDE DEF Has
  <2>1. Nat \subseteq Has
    BY <1>3, <1>4, SetInduction
  <2>2. QED
    BY <1>1, <2>1
<1>6. f[N] \subseteq Pages
  BY <1>1
<1>7. QED
  BY <1>1, <1>2, <1>5, <1>6

(* Pages that are linked, the oldest first.                                 *)
AreLinked(pg, s, k) ==
    /\ s \in [1..k -> Pages]
    /\ \A i, j \in 1..k : s[i] = s[j] => i = j
    /\ \A i \in 1..k : pg[s[i]].previous = IF i = 1 THEN NoPage ELSE s[i - 1]
Newest(s, k) == IF k = 0 THEN NoPage ELSE s[k]
FirstOf(s, k) == {s[i] : i \in 1..k}

LEMMA LinkedFit ==
  ASSUME NEW pg, NEW k \in Nat, NEW s, AreLinked(pg, s, k)
  PROVE  k <= Cardinality(Pages)
<1>1. s \in Injection(1..k, Pages)
  BY DEF AreLinked, Injection, IsInjective
<1>2. Cardinality(1..k) <= Cardinality(Pages)
  BY <1>1, PagesAreNumbered, FS_Injection
<1>3. Cardinality(1..k) = k
  BY FS_Interval
<1>4. QED
  BY <1>2, <1>3

LEMMA ChainOfLinked ==
  ASSUME NEW pg, Leads(pg), NEW k \in Nat, NEW s, AreLinked(pg, s, k), NEW j \in 0..k
  PROVE  ChainIn(pg, Newest(s, j)) = FirstOf(s, j)
<1> DEFINE N == Cardinality(Pages)
           p == Newest(s, j)
           Final(n) == {s[i] : i \in {m \in 1..j : m >= j - n}}
<1>1. N \in Nat /\ k <= N
  BY PageNumbers, LinkedFit
<1>2. \A i \in 1..k : s[i] \in Pages /\ s[i] # NoPage
  BY PageNumbers DEF AreLinked
<1>3. p \in Pages \cup {NoPage} /\ {p} \ {NoPage} = Final(0)
  <2>1. CASE j = 0
    BY <2>1 DEF Newest
  <2>2. CASE j # 0
    <3>1. j \in 1..k /\ {m \in 1..j : m >= j - 0} = {j}
      BY <2>2
    <3>2. p = s[j]
      BY <2>2 DEF Newest
    <3>3. QED
      BY <1>2, <3>1, <3>2
  <2>3. QED
    BY <2>1, <2>2
<1> HIDE DEF p
<1>4. PICK f \in [0..N -> SUBSET Pages] : ArePrevious(f, pg, p, N) /\ ChainIn(pg, p) = f[N]
  BY <1>3, ChainRuns
<1> HIDE DEF N
<1>5. ASSUME NEW n \in Nat PROVE WithPrevious(pg, Final(n)) = Final(n + 1)
  <2>1. ASSUME NEW q \in Final(n) PROVE q \in Final(n + 1)
    BY <2>1
  <2>2. ASSUME NEW q \in Final(n), pg[q].previous # NoPage PROVE pg[q].previous \in Final(n + 1)
    <3>1. PICK i \in 1..j : q = s[i] /\ i >= j - n
      OBVIOUS
    <3>2. i \in 1..k /\ pg[q].previous = IF i = 1 THEN NoPage ELSE s[i - 1]
      BY <3>1 DEF AreLinked
    <3>3. i # 1 /\ pg[q].previous = s[i - 1] /\ i - 1 \in 1..j /\ i - 1 >= j - (n + 1)
      BY <2>2, <3>1, <3>2
    <3>4. QED
      BY <3>3
  <2>3. ASSUME NEW q \in Final(n + 1), q \notin Final(n)
        PROVE  \E x \in Final(n) : q = pg[x].previous /\ q # NoPage
    <3>1. PICK i \in 1..j : q = s[i] /\ i >= j - (n + 1)
      OBVIOUS
    <3>2. i = j - (n + 1)
      BY <2>3, <3>1
    <3>3. i + 1 \in 1..j /\ i + 1 >= j - n /\ i + 1 \in 1..k /\ i + 1 # 1 /\ (i + 1) - 1 = i
      BY <3>2
    <3>4. s[i + 1] \in Final(n)
      BY <3>3
    <3>5. pg[s[i + 1]].previous = s[i]
      BY <3>3 DEF AreLinked
    <3>6. s[i] # NoPage
      BY <1>2
    <3>7. QED
      BY <3>1, <3>4, <3>5, <3>6
  <2> HIDE DEF Final
  <2>4. QED
    BY <2>1, <2>2, <2>3 DEF WithPrevious
<1> DEFINE Same == {n \in Nat : n <= N => f[n] = Final(n)}
<1>6. 0 \in Same
  <2> HIDE DEF Final
  <2> QED
    BY <1>3, <1>4 DEF ArePrevious
<1>7. ASSUME NEW n \in Nat, n \in Same PROVE n + 1 \in Same
  <2> HIDE DEF Final
  <2> SUFFICES ASSUME n + 1 <= N PROVE f[n + 1] = Final(n + 1)
    OBVIOUS
  <2>1. n + 1 \in 1..N /\ (n + 1) - 1 = n /\ n <= N
    BY <1>1
  <2>2. f[n + 1] = WithPrevious(pg, f[n])
    BY <1>4, <2>1 DEF ArePrevious
  <2>3. QED
    BY <1>5, <1>7, <2>1, <2>2
<1>8. f[N] = Final(N)
  <2> HIDE DEF Same, Final
  <2>1. Nat \subseteq Same
    BY <1>6, <1>7, SetInduction
  <2>2. N \in Same
    BY <1>1, <2>1
  <2>3. QED
    BY <1>1, <2>2 DEF Same
<1>9. Final(N) = FirstOf(s, j)
  <2>1. {m \in 1..j : m >= j - N} = 1..j
    BY <1>1
  <2>2. QED
    BY <2>1 DEF FirstOf
<1> HIDE DEF Final
<1>10. QED
  BY <1>4, <1>8, <1>9 DEF p

(* The sizes of blocks add up to one number, in whatever order the fold     *)
(* takes them.                                                              *)
SumOfSizes(B) == MapThenSumSet(LAMBDA b : b.size, B)
SizesOver(B, g) ==
    [T \in SUBSET B |-> IF T = {} THEN 0 ELSE LET x == CHOOSE x \in T : TRUE IN x.size + g[T \ {x}]]
AreSums(f, B) ==
    /\ f \in [SUBSET B -> Nat] /\ f[{}] = 0
    /\ \A T \in SUBSET B : \A x \in T : f[T] = x.size + f[T \ {x}]
Sized(B) == IsFiniteSet(B) /\ \A b \in B : b.size \in Nat

LEMMA SumIsChosen ==
  ASSUME NEW B
  PROVE  SumOfSizes(B) = (CHOOSE g : g = SizesOver(B, g))[B]
BY DEF SumOfSizes, MapThenSumSet, MapThenFoldSet, SizesOver

LEMMA OneFewer ==
  ASSUME NEW S, IsFiniteSet(S), NEW n \in Nat, Cardinality(S) = n + 1, NEW x \in S
  PROVE  IsFiniteSet(S \ {x}) /\ Cardinality(S \ {x}) = n
<1>1. IsFiniteSet(S \ {x}) /\ Cardinality(S \ {x}) = Cardinality(S) - 1
  BY FS_RemoveElement
<1>2. QED
  BY <1>1

LEMMA SumsOfSets ==
  ASSUME NEW B, Sized(B)
  PROVE  \E f : AreSums(f, B)
<1> DEFINE Possible == {n \in Nat : \A C : Sized(C) /\ Cardinality(C) = n => \E f : AreSums(f, C)}
<1>1. 0 \in Possible
  <2> SUFFICES ASSUME NEW C, Sized(C), Cardinality(C) = 0 PROVE \E f : AreSums(f, C)
    OBVIOUS
  <2>1. C = {}
    BY FS_EmptySet DEF Sized
  <2> DEFINE f == [T \in SUBSET C |-> 0]
  <2>2. AreSums(f, C)
    BY <2>1 DEF AreSums
  <2>3. QED
    BY <2>2
<1>2. ASSUME NEW n \in Nat, n \in Possible PROVE n + 1 \in Possible
  <2> SUFFICES ASSUME NEW C, Sized(C), Cardinality(C) = n + 1 PROVE \E f : AreSums(f, C)
    OBVIOUS
  <2>1. PICK b \in C : TRUE
    BY <1>2, FS_EmptySet DEF Sized
  <2> DEFINE D == C \ {b}
  <2>2. Sized(D) /\ Cardinality(D) = n
    BY <1>2, <2>1, OneFewer DEF Sized
  <2>3. PICK g : AreSums(g, D)
    BY <1>2, <2>2
  <2> DEFINE f == [T \in SUBSET C |-> IF b \in T THEN b.size + g[T \ {b}] ELSE g[T]]
  <2>4. ASSUME NEW T \in SUBSET C
        PROVE  /\ b \in T => T \ {b} \in SUBSET D /\ f[T] = b.size + g[T \ {b}]
               /\ b \notin T => T \in SUBSET D /\ f[T] = g[T]
    OBVIOUS
  <2>5. b.size \in Nat /\ g \in [SUBSET D -> Nat]
    BY <2>1, <2>3 DEF Sized, AreSums
  <2>6. f \in [SUBSET C -> Nat]
    <3>1. ASSUME NEW T \in SUBSET C PROVE f[T] \in Nat
      <4> HIDE DEF D, f
      <4>1. CASE b \in T
        <5>1. T \ {b} \in SUBSET D /\ f[T] = b.size + g[T \ {b}]
          BY <2>4, <4>1
        <5>2. g[T \ {b}] \in Nat
          BY <2>5, <5>1
        <5>3. QED
          BY <2>5, <5>1, <5>2
      <4>2. CASE b \notin T
        BY <2>4, <2>5, <4>2
      <4>3. QED
        BY <4>1, <4>2
    <3>2. QED
      BY <3>1
  <2>7. f[{}] = 0
    BY <2>3, <2>4 DEF AreSums
  <2>8. ASSUME NEW T \in SUBSET C, NEW x \in T PROVE f[T] = x.size + f[T \ {x}]
    <3> HIDE DEF f
    <3>1. CASE x = b
      <4>1. T \ {x} \in SUBSET C /\ b \notin T \ {x}
        BY <3>1
      <4>2. QED
        BY <2>4, <3>1, <4>1
    <3>2. CASE x # b /\ b \in T
      <4> DEFINE U == T \ {b}
      <4>1. U \in SUBSET D /\ x \in U /\ T \ {x} \in SUBSET C /\ b \in T \ {x} /\ (T \ {x}) \ {b} = U \ {x} /\ U \ {x} \in SUBSET D
        BY <3>2
      <4> HIDE DEF U, D
      <4>2. g[U] = x.size + g[U \ {x}]
        BY <2>3, <4>1 DEF AreSums
      <4>3. f[T] = b.size + g[U]
        BY <2>4, <3>2 DEF U
      <4>4. f[T \ {x}] = b.size + g[U \ {x}]
        BY <2>4, <4>1
      <4>5. x.size \in Nat /\ g[U \ {x}] \in Nat
        BY <2>5, <4>1 DEF Sized
      <4>6. QED
        BY <2>5, <4>2, <4>3, <4>4, <4>5
    <3>3. CASE b \notin T
      <4>1. T \in SUBSET D /\ T \ {x} \in SUBSET C /\ b \notin T \ {x}
        BY <3>3
      <4>2. f[T] = g[T] /\ f[T \ {x}] = g[T \ {x}]
        BY <2>4, <3>3, <4>1
      <4> HIDE DEF D
      <4>3. QED
        BY <2>3, <4>1, <4>2 DEF AreSums
    <3>4. QED
      BY <3>1, <3>2, <3>3
  <2> HIDE DEF f
  <2>9. AreSums(f, C)
    BY <2>6, <2>7, <2>8 DEF AreSums
  <2>10. QED
    BY <2>9
<1>3. IsFiniteSet(B) /\ Cardinality(B) \in Nat
  BY FS_CardinalityType DEF Sized
<1>4. Nat \subseteq Possible
  <2> HIDE DEF Possible
  <2> QED
    BY <1>1, <1>2, SetInduction
<1>5. QED
  BY <1>3, <1>4

LEMMA SumIs ==
  ASSUME NEW B, IsFiniteSet(B), NEW f, AreSums(f, B)
  PROVE  SumOfSizes(B) = f[B]
<1> DEFINE F == CHOOSE g : g = SizesOver(B, g)
           pick(T) == CHOOSE x \in T : TRUE
<1>1. f = SizesOver(B, f)
  <2>1. ASSUME NEW T \in SUBSET B PROVE f[T] = SizesOver(B, f)[T]
    <3>1. CASE T = {}
      BY <3>1 DEF AreSums, SizesOver
    <3>2. CASE T # {}
      <4>1. pick(T) \in T
        BY <3>2
      <4>2. f[T] = pick(T).size + f[T \ {pick(T)}]
        BY <4>1 DEF AreSums
      <4>3. QED
        BY <3>2, <4>2 DEF SizesOver
    <3>3. QED
      BY <3>1, <3>2
  <2>2. f = [T \in SUBSET B |-> f[T]]
    BY DEF AreSums
  <2>3. SizesOver(B, f) = [T \in SUBSET B |-> SizesOver(B, f)[T]]
    BY DEF SizesOver
  <2>4. QED
    BY <2>1, <2>2, <2>3
<1>2. F = SizesOver(B, F)
  BY <1>1
<1> HIDE DEF F
<1> DEFINE Same == {n \in Nat : \A T \in SUBSET B : Cardinality(T) = n => F[T] = f[T]}
<1>3. \A T \in SUBSET B : IsFiniteSet(T)
  BY FS_Subset
<1>4. 0 \in Same
  <2>1. ASSUME NEW T \in SUBSET B, Cardinality(T) = 0 PROVE F[T] = f[T]
    <3>1. T = {}
      BY <1>3, <2>1, FS_EmptySet
    <3>2. SizesOver(B, F)[{}] = 0
      BY DEF SizesOver
    <3>3. QED
      BY <1>2, <3>1, <3>2 DEF AreSums
  <2>2. QED
    BY <2>1
<1>5. ASSUME NEW n \in Nat, n \in Same PROVE n + 1 \in Same
  <2>1. ASSUME NEW T \in SUBSET B, Cardinality(T) = n + 1 PROVE F[T] = f[T]
    <3>1. T # {} /\ IsFiniteSet(T)
      BY <1>3, <2>1, FS_EmptySet
    <3>2. pick(T) \in T
      BY <3>1
    <3>3. F[T] = pick(T).size + F[T \ {pick(T)}]
      <4>1. SizesOver(B, F)[T] = pick(T).size + F[T \ {pick(T)}]
        BY <3>1 DEF SizesOver
      <4>2. QED
        BY <1>2, <4>1
    <3> DEFINE x == pick(T)
    <3> HIDE DEF x
    <3>4. x \in T /\ F[T] = x.size + F[T \ {x}]
      BY <3>2, <3>3 DEF x
    <3>5. T \ {x} \in SUBSET B /\ Cardinality(T \ {x}) = n
      BY <1>5, <2>1, <3>1, <3>4, OneFewer
    <3>6. F[T \ {x}] = f[T \ {x}]
      BY <1>5, <3>5
    <3>7. f[T] = x.size + f[T \ {x}]
      BY <3>4 DEF AreSums
    <3>8. QED
      BY <3>4, <3>6, <3>7
  <2>2. QED
    BY <2>1
<1>6. Cardinality(B) \in Nat
  BY FS_CardinalityType
<1>7. Nat \subseteq Same
  <2> HIDE DEF Same
  <2> QED
    BY <1>4, <1>5, SetInduction
<1>8. F[B] = f[B]
  BY <1>6, <1>7
<1>9. QED
  BY <1>8, SumIsChosen DEF F

LEMMA SumAdds ==
  ASSUME NEW B, NEW b, b \notin B, Sized(B \cup {b})
  PROVE  SumOfSizes(B \cup {b}) = SumOfSizes(B) + b.size /\ SumOfSizes(B) \in Nat
<1> DEFINE C == B \cup {b}
<1>1. Sized(B) /\ IsFiniteSet(C)
  BY FS_Subset DEF Sized
<1>2. PICK f : AreSums(f, C)
  BY SumsOfSets
<1>3. SumOfSizes(C) = f[C]
  BY <1>1, <1>2, SumIs
<1> DEFINE g == [T \in SUBSET B |-> f[T]]
<1>4. AreSums(g, B)
  <2>1. g \in [SUBSET B -> Nat] /\ g[{}] = 0
    BY <1>2 DEF AreSums
  <2>2. ASSUME NEW T \in SUBSET B, NEW x \in T PROVE g[T] = x.size + g[T \ {x}]
    <3>1. T \in SUBSET C /\ T \ {x} \in SUBSET B
      OBVIOUS
    <3>2. f[T] = x.size + f[T \ {x}]
      BY <1>2, <3>1 DEF AreSums
    <3>3. QED
      BY <3>1, <3>2
  <2> HIDE DEF g
  <2>3. QED
    BY <2>1, <2>2 DEF AreSums
<1>5. SumOfSizes(B) = f[B]
  <2>1. g[B] = f[B]
    OBVIOUS
  <2> HIDE DEF g
  <2>2. QED
    BY <1>1, <1>4, <2>1, SumIs DEF Sized
<1>6. C \ {b} = B /\ b \in C /\ B \in SUBSET C
  OBVIOUS
<1> HIDE DEF C
<1>7. f[C] = b.size + f[B] /\ f[B] \in Nat
  BY <1>2, <1>6 DEF AreSums
<1>8. b.size \in Nat
  BY DEF Sized
<1>9. QED
  BY <1>3, <1>5, <1>7, <1>8 DEF C

LEMMA SumOfNone == SumOfSizes({}) = 0
<1> DEFINE f == [T \in SUBSET {} |-> 0]
<1>1. AreSums(f, {})
  BY DEF AreSums
<1>2. f[{}] = 0
  OBVIOUS
<1> HIDE DEF f
<1>3. QED
  BY <1>1, <1>2, SumIs, FS_EmptySet

(* Blocks that are laid out in pages: below what is used, aligned from the  *)
(* start of the memory, and apart.                                          *)
BlockKind == [page : Pages, at : Nat, size : Nat, alignment : Nat \ {0}]
PageKind ==
    [live : BOOLEAN, size : Nat, used : Nat, left : 0..(Width32 - 1), previous : Pages \cup {NoPage}]
Disjoint(B) == \A b, c \in B : b = c \/ Apart(b, c)
Laid(B, pg, base) ==
    /\ \A b \in B :
          pg[b.page].live /\ b.at + b.size <= pg[b.page].used /\ base + b.at \in Multiples(b.alignment)
    /\ Disjoint(B)
PagesGrow(pg, qg) == \A p \in Pages : pg[p].live => qg[p].live /\ pg[p].used <= qg[p].used

LEMMA LaidAdds ==
  ASSUME NEW B \in SUBSET BlockKind, NEW pg \in [Pages -> PageKind], NEW qg \in [Pages -> PageKind],
         NEW base \in Nat, Laid(B, pg, base), PagesGrow(pg, qg), NEW n \in BlockKind,
         qg[n.page].live, n.at + n.size <= qg[n.page].used, base + n.at \in Multiples(n.alignment),
         pg[n.page].live => pg[n.page].used <= n.at
  PROVE  Laid(B \cup {n}, qg, base)
<1>1. ASSUME NEW b \in B
      PROVE  /\ b.page \in Pages /\ b.at \in Nat /\ b.size \in Nat
             /\ pg[b.page].live /\ b.at + b.size <= pg[b.page].used
             /\ pg[b.page].used \in Nat /\ qg[b.page].used \in Nat
  BY DEF Laid, BlockKind, PageKind
<1>2. n.page \in Pages /\ n.at \in Nat /\ n.size \in Nat
  BY DEF BlockKind
<1>3. ASSUME NEW b \in B \cup {n}
      PROVE  /\ qg[b.page].live /\ b.at + b.size <= qg[b.page].used
             /\ base + b.at \in Multiples(b.alignment)
  <2>1. CASE b \in B
    <3>1. qg[b.page].live /\ pg[b.page].used <= qg[b.page].used
      BY <1>1, <2>1 DEF PagesGrow
    <3>2. base + b.at \in Multiples(b.alignment)
      BY <2>1 DEF Laid
    <3>3. QED
      BY <1>1, <2>1, <3>1, <3>2
  <2>2. QED
    BY <2>1
<1>4. ASSUME NEW b \in B, b.page = n.page PROVE b.at + b.size <= n.at
  <2>1. pg[n.page].live /\ b.at + b.size <= pg[n.page].used /\ pg[n.page].used \in Nat
    BY <1>1, <1>4
  <2>2. QED
    BY <1>1, <1>2, <2>1
<1>5. ASSUME NEW b \in B PROVE Apart(b, n) /\ Apart(n, b)
  BY <1>4 DEF Apart
<1>6. Disjoint(B)
  BY DEF Laid
<1>7. Disjoint(B \cup {n})
  BY <1>5, <1>6 DEF Disjoint
<1>8. QED
  BY <1>3, <1>7 DEF Laid

(* A block that was handed out before can only be one without bytes.        *)
LEMMA LaidTwice ==
  ASSUME NEW B \in SUBSET BlockKind, NEW pg \in [Pages -> PageKind], NEW base, Laid(B, pg, base),
         NEW n \in B, pg[n.page].used <= n.at
  PROVE  n.size = 0
<1>1. n.page \in Pages /\ n.at \in Nat /\ n.size \in Nat /\ n.at + n.size <= pg[n.page].used
  BY DEF Laid, BlockKind
<1>2. pg[n.page].used \in Nat
  BY <1>1 DEF PageKind
<1>3. QED
  BY <1>1, <1>2

LEMMA RestOfSmall ==
  ASSUME NEW d \in Nat \ {0}, NEW x \in Int
  PROVE  /\ x % d \in 0..(d - 1)
         /\ x \in 0..(d - 1) => x % d = x
         /\ -d < x /\ x < 0 => x % d = x + d
         /\ x = d => x % d = 0
<1>1. x \div d \in Int /\ x % d \in 0..(d - 1) /\ x = d * (x \div d) + (x % d)
  BY DivMod
<1>2. ASSUME x \in 0..(d - 1) PROVE x \div d = 0
  <2>1. d * 0 <= x /\ x < d * 0 + d
    BY <1>2
  <2>2. QED
    BY <2>1, DivIsUnique
<1>3. ASSUME -d < x, x < 0 PROVE x \div d = -1
  <2>1. d * (-1) <= x /\ x < d * (-1) + d
    BY <1>3
  <2>2. QED
    BY <2>1, DivIsUnique
<1>4. ASSUME x = d PROVE x \div d = 1
  <2>1. d * 1 <= x /\ x < d * 1 + d
    BY <1>4
  <2>2. QED
    BY <2>1, DivIsUnique
<1> DEFINE q == x \div d
           r == x % d
<1>5. q \in Int /\ r \in 0..(d - 1) /\ x = d * q + r
  BY <1>1
<1>6. /\ x \in 0..(d - 1) => q = 0
      /\ -d < x /\ x < 0 => q = -1
      /\ x = d => q = 1
  BY <1>2, <1>3, <1>4
<1> HIDE DEF q
<1>7. r \in 0..(d - 1)
  BY <1>5
<1>8. x \in 0..(d - 1) => r = x
  BY <1>5, <1>6
<1>9. -d < x /\ x < 0 => r = x + d
  BY <1>5, <1>6
<1>10. x = d => r = 0
  BY <1>5, <1>6
<1>11. QED
  BY <1>7, <1>8, <1>9, <1>10

LiveIn(pg) == {p \in Pages : pg[p].live}
IsLinked(pg, current, k) ==
    \E s \in [1..k -> Pages] : AreLinked(pg, s, k) /\ current = Newest(s, k) /\ LiveIn(pg) = FirstOf(s, k)
Linked(pg, current) == \E k \in Nat : IsLinked(pg, current, k)

(* Of linked pages exactly the live ones are in the chain.                  *)
LEMMA LinkedChain ==
  ASSUME NEW pg, Leads(pg), NEW current, Linked(pg, current)
  PROVE  ChainIn(pg, current) = LiveIn(pg) /\ current \in Pages \cup {NoPage}
<1>0. PICK k \in Nat : IsLinked(pg, current, k)
  BY DEF Linked
<1>1. PICK s \in [1..k -> Pages] :
          AreLinked(pg, s, k) /\ current = Newest(s, k) /\ LiveIn(pg) = FirstOf(s, k)
  BY <1>0 DEF IsLinked
<1>2. k \in 0..k
  OBVIOUS
<1>3. ChainIn(pg, Newest(s, k)) = FirstOf(s, k)
  BY <1>1, <1>2, ChainOfLinked
<1>4. Newest(s, k) \in Pages \cup {NoPage}
  BY DEF Newest
<1>5. QED
  BY <1>1, <1>3, <1>4

(* Pages stay linked when what they lead to and whether they live stays.    *)
LEMMA LinkedStays ==
  ASSUME NEW pg, NEW qg, NEW current, Linked(pg, current),
         \A p \in Pages : qg[p].live = pg[p].live /\ qg[p].previous = pg[p].previous
  PROVE  Linked(qg, current)
<1>0. PICK k \in Nat : IsLinked(pg, current, k)
  BY DEF Linked
<1>1. PICK s \in [1..k -> Pages] :
          AreLinked(pg, s, k) /\ current = Newest(s, k) /\ LiveIn(pg) = FirstOf(s, k)
  BY <1>0 DEF IsLinked
<1>2. LiveIn(qg) = LiveIn(pg)
  BY DEF LiveIn
<1>3. AreLinked(qg, s, k)
  <2>1. \A i \in 1..k : s[i] \in Pages
    OBVIOUS
  <2>2. QED
    BY <1>1, <2>1 DEF AreLinked
<1>4. QED
  BY <1>1, <1>2, <1>3 DEF Linked, IsLinked

NewIn(pg, qg, p, current) ==
    /\ p \in Pages /\ ~pg[p].live /\ qg[p].live /\ qg[p].previous = current
    /\ \A o \in Pages \ {p} : qg[o].live = pg[o].live /\ qg[o].previous = pg[o].previous

LEMMA LinkedGrows ==
  ASSUME NEW pg, NEW qg, NEW current, Linked(pg, current), NEW p, NewIn(pg, qg, p, current)
  PROVE  Linked(qg, p)
<1>0. PICK k \in Nat : IsLinked(pg, current, k)
  BY DEF Linked
<1>1. PICK s \in [1..k -> Pages] :
          AreLinked(pg, s, k) /\ current = Newest(s, k) /\ LiveIn(pg) = FirstOf(s, k)
  BY <1>0 DEF IsLinked
<1> DEFINE t == [i \in 1..(k + 1) |-> IF i = k + 1 THEN p ELSE s[i]]
<1>2. p \in Pages /\ p \notin LiveIn(pg) /\ qg[p].live /\ qg[p].previous = current
  BY DEF NewIn, LiveIn
<1>3. \A i \in 1..k : s[i] \in Pages /\ s[i] # p /\ i \in 1..(k + 1) /\ i # k + 1
  BY <1>1, <1>2 DEF FirstOf
<1>4. t[k + 1] = p /\ \A i \in 1..k : t[i] = s[i]
  BY <1>3
<1>5. t \in [1..(k + 1) -> Pages]
  BY <1>2, <1>3
<1> HIDE DEF t
<1>6. \A i \in 1..(k + 1) : i = k + 1 \/ i \in 1..k
  OBVIOUS
<1>7. ASSUME NEW i \in 1..(k + 1), NEW j \in 1..(k + 1), t[i] = t[j] PROVE i = j
  BY <1>1, <1>3, <1>4, <1>6, <1>7 DEF AreLinked
<1>8. ASSUME NEW i \in 1..(k + 1) PROVE qg[t[i]].previous = IF i = 1 THEN NoPage ELSE t[i - 1]
  <2>1. CASE i = k + 1
    <3>1. CASE k = 0
      BY <1>1, <1>2, <1>4, <2>1, <3>1 DEF Newest
    <3>2. CASE k # 0
      <4>1. i # 1 /\ i - 1 = k /\ k \in 1..k
        BY <2>1, <3>2
      <4>2. t[i - 1] = s[k] /\ current = s[k]
        BY <1>1, <1>4, <3>2, <4>1 DEF Newest
      <4>3. QED
        BY <1>2, <1>4, <2>1, <4>1, <4>2
    <3>3. QED
      BY <3>1, <3>2
  <2>2. CASE i \in 1..k
    <3>1. t[i] = s[i] /\ s[i] \in Pages \ {p}
      BY <1>3, <1>4, <2>2
    <3>2. qg[s[i]].previous = pg[s[i]].previous
      BY <3>1 DEF NewIn
    <3>3. pg[s[i]].previous = IF i = 1 THEN NoPage ELSE s[i - 1]
      BY <1>1, <2>2 DEF AreLinked
    <3>4. i = 1 \/ (i - 1 \in 1..k /\ t[i - 1] = s[i - 1])
      BY <1>4, <2>2
    <3>5. QED
      BY <3>1, <3>2, <3>3, <3>4
  <2>3. QED
    BY <1>6, <2>1, <2>2
<1>9. AreLinked(qg, t, k + 1)
  BY <1>5, <1>7, <1>8 DEF AreLinked
<1>10. p = Newest(t, k + 1)
  BY <1>4 DEF Newest
<1>11. LiveIn(qg) = LiveIn(pg) \cup {p}
  BY <1>2 DEF LiveIn, NewIn
<1>12. FirstOf(t, k + 1) = FirstOf(s, k) \cup {p}
  <2>1. ASSUME NEW q \in FirstOf(t, k + 1) PROVE q \in FirstOf(s, k) \cup {p}
    <3>1. PICK i \in 1..(k + 1) : q = t[i]
      BY DEF FirstOf
    <3>2. QED
      BY <1>4, <1>6, <3>1 DEF FirstOf
  <2>2. ASSUME NEW q \in FirstOf(s, k) PROVE q \in FirstOf(t, k + 1)
    <3>1. PICK i \in 1..k : q = s[i]
      BY DEF FirstOf
    <3>2. t[i] = q /\ i \in 1..(k + 1)
      BY <1>3, <1>4, <3>1
    <3>3. QED
      BY <3>2 DEF FirstOf
  <2>3. p \in FirstOf(t, k + 1)
    <3>1. k + 1 \in 1..(k + 1)
      OBVIOUS
    <3>2. QED
      BY <1>4, <3>1 DEF FirstOf
  <2>4. QED
    BY <2>1, <2>2, <2>3
<1>13. k + 1 \in Nat
  OBVIOUS
<1>14. QED
  BY <1>1, <1>5, <1>9, <1>10, <1>11, <1>12, <1>13 DEF Linked, IsLinked

(* One page alone, and none.                                                *)
LEMMA LinkedAlone ==
  ASSUME NEW pg, NEW p \in Pages, pg[p].previous = NoPage, LiveIn(pg) = {p}
  PROVE  Linked(pg, p)
<1> DEFINE s == [i \in 1..1 |-> p]
<1>1. s \in [1..1 -> Pages] /\ s[1] = p /\ \A i \in 1..1 : i = 1
  OBVIOUS
<1> HIDE DEF s
<1>2. AreLinked(pg, s, 1)
  BY <1>1 DEF AreLinked
<1>3. FirstOf(s, 1) = {p} /\ Newest(s, 1) = p
  BY <1>1 DEF FirstOf, Newest
<1>4. QED
  BY <1>1, <1>2, <1>3 DEF Linked, IsLinked

LEMMA LinkedNone ==
  ASSUME NEW pg, LiveIn(pg) = {}
  PROVE  Linked(pg, NoPage)
<1> DEFINE s == [i \in 1..0 |-> NoPage]
<1>1. s \in [1..0 -> Pages] /\ 1..0 = {}
  OBVIOUS
<1> HIDE DEF s
<1>2. AreLinked(pg, s, 0)
  BY <1>1 DEF AreLinked
<1>3. FirstOf(s, 0) = {} /\ Newest(s, 0) = NoPage
  BY <1>1 DEF FirstOf, Newest
<1>4. QED
  BY <1>1, <1>2, <1>3 DEF Linked, IsLinked

(* The newest of the largest of some pages exists, by what they count.      *)
Beats(w, s, i, j) == w[s[i]] > w[s[j]] \/ (w[s[i]] = w[s[j]] /\ j <= i)

LEMMA LargestExists ==
  ASSUME NEW w \in [Pages -> Nat], NEW k \in Nat, k # 0, NEW s \in [1..k -> Pages]
  PROVE  \E i \in 1..k : \A j \in 1..k : Beats(w, s, i, j)
<1> DEFINE Found == {n \in Nat : n < k => \E i \in 1..(n + 1) : \A j \in 1..(n + 1) : Beats(w, s, i, j)}
<1>0. \A i \in 1..k : s[i] \in Pages /\ w[s[i]] \in Nat
  OBVIOUS
<1>1. 0 \in Found
  <2>1. \A i \in 1..(0 + 1) : i = 1
    OBVIOUS
  <2>2. 1 \in 1..(0 + 1) /\ Beats(w, s, 1, 1)
    BY DEF Beats
  <2>3. QED
    BY <2>1, <2>2
<1>2. ASSUME NEW n \in Nat, n \in Found PROVE n + 1 \in Found
  <2> SUFFICES ASSUME n + 1 < k PROVE \E i \in 1..(n + 2) : \A j \in 1..(n + 2) : Beats(w, s, i, j)
    OBVIOUS
  <2>1. PICK i \in 1..(n + 1) : \A j \in 1..(n + 1) : Beats(w, s, i, j)
    BY <1>2
  <2>2. i \in 1..k /\ n + 2 \in 1..k /\ i \in 1..(n + 2) /\ i <= n + 2 /\ n + 2 \in 1..(n + 2)
    OBVIOUS
  <2>3. w[s[i]] \in Nat /\ w[s[n + 2]] \in Nat
    BY <1>0, <2>2
  <2>4. CASE w[s[n + 2]] >= w[s[i]]
    <3>1. ASSUME NEW j \in 1..(n + 2) PROVE Beats(w, s, n + 2, j)
      <4>1. CASE j = n + 2
        BY <4>1 DEF Beats
      <4>2. CASE j # n + 2
        <5>1. j \in 1..(n + 1) /\ j \in 1..k /\ j <= n + 2
          BY <4>2
        <5>2. w[s[j]] \in Nat /\ w[s[j]] <= w[s[i]]
          BY <1>0, <2>1, <2>3, <5>1 DEF Beats
        <5>3. w[s[n + 2]] > w[s[j]] \/ w[s[n + 2]] = w[s[j]]
          BY ONLY <2>3, <2>4, <5>2
        <5>4. QED
          BY <5>1, <5>3 DEF Beats
      <4>3. QED
        BY <4>1, <4>2
    <3>2. QED
      BY <2>2, <3>1
  <2>5. CASE w[s[n + 2]] < w[s[i]]
    <3>1. ASSUME NEW j \in 1..(n + 2) PROVE Beats(w, s, i, j)
      <4>1. CASE j = n + 2
        BY <2>3, <2>5, <4>1 DEF Beats
      <4>2. CASE j # n + 2
        <5>1. j \in 1..(n + 1)
          BY <4>2
        <5>2. QED
          BY <2>1, <5>1
      <4>3. QED
        BY <4>1, <4>2
    <3>2. QED
      BY <2>2, <3>1
  <2>6. w[s[n + 2]] >= w[s[i]] \/ w[s[n + 2]] < w[s[i]]
    BY <2>3
  <2>7. QED
    BY <2>4, <2>5, <2>6
<1>3. k - 1 \in Found
  <2> HIDE DEF Found
  <2>1. Nat \subseteq Found
    BY <1>1, <1>2, SetInduction
  <2>2. QED
    BY <2>1
<1>4. QED
  BY <1>3

LEMMA KeptIsHeld ==
  ASSUME page \in [Pages -> PageKind], Linked(page, allocator.current), allocator.current # NoPage
  PROVE  Kept \in LivePages /\ LivePages = Chain(allocator.current)
<1> DEFINE w == [p \in Pages |-> CountedSize(p)]
           C == Chain(allocator.current)
           Is(p) == \A q \in C : CountedSize(p) > CountedSize(q) \/ (CountedSize(p) = CountedSize(q) /\ IsNewer(p, q))
<1>1. Leads(page)
  BY DEF Leads, PageKind
<1>2. C = LivePages
  BY <1>1, LinkedChain, ChainIsInPages DEF LiveIn, LivePages
<1>3. w \in [Pages -> Nat]
  <2>1. \A p \in Pages : page[p].used \in Nat /\ page[p].left \in Nat
    BY DEF PageKind
  <2>2. QED
    BY <2>1 DEF CountedSize
<1>4. PICK k \in Nat : IsLinked(page, allocator.current, k)
  BY DEF Linked
<1>5. PICK s \in [1..k -> Pages] :
          AreLinked(page, s, k) /\ allocator.current = Newest(s, k) /\ LiveIn(page) = FirstOf(s, k)
  BY <1>4 DEF IsLinked
<1>6. k # 0
  BY <1>5 DEF Newest
<1> HIDE DEF w
<1>7. PICK i \in 1..k : \A j \in 1..k : Beats(w, s, i, j)
  BY <1>3, <1>6, LargestExists
<1>8. C = FirstOf(s, k)
  BY <1>2, <1>5 DEF LivePages, LiveIn
<1>9. s[i] \in C
  BY <1>8 DEF FirstOf
<1>10. Chain(s[i]) = FirstOf(s, i)
  <2>1. i \in 0..k /\ Newest(s, i) = s[i]
    BY DEF Newest
  <2>2. ChainIn(page, Newest(s, i)) = FirstOf(s, i)
    BY <1>1, <1>5, <2>1, ChainOfLinked
  <2>3. QED
    BY <2>1, <2>2, ChainIsInPages
<1>11. Is(s[i])
  <2>1. ASSUME NEW q \in C
        PROVE  CountedSize(s[i]) > CountedSize(q) \/ (CountedSize(s[i]) = CountedSize(q) /\ IsNewer(s[i], q))
    <3>1. PICK j \in 1..k : q = s[j]
      BY <1>8 DEF FirstOf
    <3>2. w[s[i]] = CountedSize(s[i]) /\ w[s[j]] = CountedSize(s[j])
      BY DEF w
    <3>3. ASSUME j <= i PROVE IsNewer(s[i], q)
      <4>1. j \in 1..i
        BY <3>3
      <4>2. QED
        BY <1>10, <3>1, <4>1 DEF IsNewer, FirstOf
    <3>4. QED
      BY <1>7, <3>1, <3>2, <3>3 DEF Beats
  <2>2. QED
    BY <2>1
<1>12. Kept \in C
  <2>1. Kept = CHOOSE p \in C : Is(p)
    BY DEF Kept
  <2> HIDE DEF C, Is
  <2>2. \E p \in C : Is(p)
    BY <1>9, <1>11
  <2>3. QED
    BY <2>1, <2>2
<1>13. QED
  BY <1>2, <1>12

LEMMA RestType ==
  ASSUME NEW d \in Nat \ {0}, NEW x \in Nat
  PROVE  x % d \in 0..(d - 1)
BY RestOfSmall

LEMMA SmallRest ==
  ASSUME NEW d \in Nat \ {0}, NEW x \in 0..(d - 1)
  PROVE  x % d = x
BY RestOfSmall

(* What is always true of an allocator.                                     *)
Start == IF allocator.type = "linear" THEN Base ELSE 0
AllocatorTypes ==
    /\ allocator \in [type : {"none", "dynamic", "linear", "crashed"}, current : Pages \cup {NoPage}, total : Nat]
    /\ page \in [Pages -> PageKind]
    /\ blocks \in SUBSET BlockKind /\ IsFiniteSet(blocks)
    /\ past \in [wide : BOOLEAN, reset : {"none", "same", "older"}]
NothingYet == allocator.type = "none" => allocator = None /\ blocks = {}
IsOneMemory ==
    allocator.type = "linear" =>
        /\ allocator.current = 1 /\ page[1].live /\ page[1].left = 0
        /\ page[1].size < Width32 /\ page[1].used <= page[1].size
BlocksLaid ==
    /\ \A b \in blocks : page[b.page].live
    /\ allocator.type # "linear" \/ ~past.wide => Laid(blocks, page, Start)
PagesCounted ==
    /\ allocator.type # "linear" => \A p \in LivePages : page[p].used \in Multiples(Alignment)
    /\ ~past.wide => \A p \in LivePages : page[p].used + page[p].left <= page[p].size
LinkedOrMisled ==
    IF past.reset = "older"
    THEN /\ allocator.type \in {"dynamic", "crashed"}
         /\ allocator.current \in Pages /\ ~page[allocator.current].live
    ELSE allocator.type # "crashed" /\ Linked(page, allocator.current)
TotalIsSum == past.reset = "none" /\ allocator.type = "dynamic" => allocator.total = SumOfSizes(blocks)
AllocatorInv ==
    /\ AllocatorTypes /\ NothingYet /\ IsOneMemory /\ BlocksLaid /\ PagesCounted
    /\ LinkedOrMisled /\ TotalIsSum

LEMMA WidthFacts ==
  /\ Width32 \in Nat \ {0} /\ Width64 \in Nat \ {0} /\ Width32 <= Width64 /\ Width32 \div 2 \in Nat
  /\ 2 * (Width32 \div 2) <= Width32
  /\ Alignment \in Nat \ {0} /\ Alignment <= Width32 \div 2
  /\ Increment \in Nat \ {0} /\ Increment <= Width32 \div 2 /\ Increment < Width32
BY WidthsHoldPages

LEMMA NewPageFacts ==
  ASSUME NEW size \in Nat, NEW previous \in Pages \cup {NoPage}
  PROVE  /\ NewPage(size, previous) \in PageKind
         /\ NewPage(size, previous).live /\ NewPage(size, previous).size = size
         /\ NewPage(size, previous).used = 0 /\ NewPage(size, previous).left = size % Width32
         /\ NewPage(size, previous).previous = previous
         /\ size % Width32 <= size /\ (size < Width32 => size % Width32 = size)
         /\ (size = Width32 => size % Width32 = 0)
<1>1. size % Width32 \in 0..(Width32 - 1)
  BY WidthFacts, RestOfSmall
<1>2. size < Width32 => size % Width32 = size
  <2>1. size < Width32 => size \in 0..(Width32 - 1)
    BY WidthFacts
  <2>2. QED
    BY <2>1, WidthFacts, RestOfSmall
<1>3. size = Width32 => size % Width32 = 0
  BY WidthFacts, RestOfSmall
<1>4. size % Width32 <= size
  BY <1>1, <1>2, WidthFacts
<1>5. QED
  BY <1>1, <1>2, <1>3, <1>4 DEF NewPage, PageKind

LEMMA FreedFacts == Freed \in PageKind /\ ~Freed.live /\ Freed.previous = NoPage
BY WidthFacts DEF Freed, PageKind

LEMMA ZeroIsMultiple == ASSUME NEW d \in Nat PROVE 0 \in Multiples(d)
<1>1. 0 = d * 0
  OBVIOUS
<1>2. QED
  BY <1>1 DEF Multiples

LEMMA NoneLaid == ASSUME NEW pg, NEW base PROVE Laid({}, pg, base)
BY DEF Laid, Disjoint

LEMMA LinkedToNone ==
  ASSUME NEW pg, Linked(pg, NoPage)
  PROVE  LiveIn(pg) = {}
<1>1. PICK k \in Nat : IsLinked(pg, NoPage, k)
  BY DEF Linked
<1>2. PICK s \in [1..k -> Pages] : AreLinked(pg, s, k) /\ NoPage = Newest(s, k) /\ LiveIn(pg) = FirstOf(s, k)
  BY <1>1 DEF IsLinked
<1>3. k = 0
  <2>1. ASSUME k # 0 PROVE FALSE
    <3>1. s[k] \in Pages /\ s[k] = NoPage
      BY <1>2, <2>1 DEF Newest
    <3>2. QED
      BY <3>1, PageNumbers
  <2>2. QED
    BY <2>1
<1>4. QED
  BY <1>2, <1>3 DEF FirstOf

LEMMA TypeFacts ==
  ASSUME AllocatorTypes
  PROVE  /\ allocator.type \in {"none", "dynamic", "linear", "crashed"}
         /\ allocator.current \in Pages \cup {NoPage} /\ allocator.total \in Nat
         /\ past.wide \in BOOLEAN /\ past.reset \in {"none", "same", "older"}
         /\ Leads(page) /\ LivePages = LiveIn(page)
BY DEF AllocatorTypes, Leads, PageKind, LivePages, LiveIn

LEMMA AllocatorStarts == AllocatorInit => AllocatorInv
<1> SUFFICES ASSUME AllocatorInit PROVE AllocatorInv
  OBVIOUS
<1>1. /\ allocator = None /\ page = [p \in Pages |-> Freed] /\ blocks = {}
      /\ past = [wide |-> FALSE, reset |-> "none"]
  BY DEF AllocatorInit
<1>2. None = [type |-> "none", current |-> NoPage, total |-> 0]
  BY DEF None
<1>3. AllocatorTypes
  BY <1>1, <1>2, FreedFacts, FS_EmptySet DEF AllocatorTypes
<1>4. LiveIn(page) = {} /\ LivePages = {}
  BY <1>1, FreedFacts DEF LiveIn, LivePages
<1>5. BlocksLaid
  BY <1>1, NoneLaid DEF BlocksLaid
<1>6. LinkedOrMisled
  BY <1>1, <1>2, <1>4, LinkedNone DEF LinkedOrMisled
<1>7. NothingYet /\ IsOneMemory /\ PagesCounted /\ TotalIsSum
  BY <1>1, <1>2, <1>4 DEF NothingYet, IsOneMemory, PagesCounted, TotalIsSum
<1>8. QED
  BY <1>3, <1>5, <1>6, <1>7 DEF AllocatorInv

LEMMA AllocatorIsSound == AllocatorInv => BlocksSound
<1> SUFFICES ASSUME AllocatorInv PROVE BlocksSound
  OBVIOUS
<1>1. AllocatorTypes /\ BlocksLaid /\ PagesCounted /\ LinkedOrMisled /\ TotalIsSum
  BY DEF AllocatorInv
<1>2. ASSUME ~past.wide PROVE Laid(blocks, page, Start)
  BY <1>1, <1>2 DEF BlocksLaid
<1>3. ASSUME ~past.wide, NEW b \in blocks
      PROVE  /\ page[b.page].live /\ b.at + b.size <= page[b.page].size
             /\ Address(b) % b.alignment = 0
  <2>1. b.page \in Pages /\ b.at \in Nat /\ b.size \in Nat /\ b.alignment \in Nat \ {0}
    BY <1>1 DEF AllocatorTypes, BlockKind
  <2>2. page[b.page].live /\ b.at + b.size <= page[b.page].used /\ Start + b.at \in Multiples(b.alignment)
    BY <1>2, <1>3 DEF Laid
  <2>3. page[b.page].used \in Nat /\ page[b.page].left \in Nat /\ page[b.page].size \in Nat
    BY <1>1, <2>1 DEF AllocatorTypes, PageKind
  <2>4. page[b.page].used + page[b.page].left <= page[b.page].size
    BY <1>1, <1>3, <2>1, <2>2 DEF PagesCounted, LivePages
  <2>5. (Start + b.at) % b.alignment = 0
    BY <2>1, <2>2, MultipleHasNoRest
  <2>6. Address(b) = Start + b.at
    BY <2>1 DEF Address, Start
  <2>7. QED
    BY <2>1, <2>2, <2>3, <2>4, <2>5, <2>6
<1>4. ASSUME ~past.wide, NEW b \in blocks, NEW c \in blocks PROVE b = c \/ Apart(b, c)
  BY <1>2, <1>4 DEF Laid, Disjoint
<1>5. BlocksApart
  BY <1>3, <1>4 DEF BlocksApart
<1>6. ASSUME past.reset # "older" PROVE allocator.type # "crashed" /\ LivePages = Chain(allocator.current)
  <2>1. allocator.type # "crashed" /\ Linked(page, allocator.current)
    BY <1>1, <1>6 DEF LinkedOrMisled
  <2>2. QED
    BY <1>1, <2>1, TypeFacts, LinkedChain, ChainIsInPages
<1>7. PagesOwned
  BY <1>1, <1>6 DEF PagesOwned, TotalIsSum, SumOfSizes
<1>8. QED
  BY <1>5, <1>7 DEF BlocksSound

(* A block is handed out from page p as it is when size bytes are left.     *)
After(here, size) == [here EXCEPT !.used = @ + size, !.left = (@ - size) % Width32]

LEMMA AfterFacts ==
  ASSUME NEW here \in PageKind, NEW size \in Nat
  PROVE  /\ After(here, size) \in PageKind
         /\ After(here, size).live = here.live /\ After(here, size).size = here.size
         /\ After(here, size).previous = here.previous
         /\ After(here, size).used = here.used + size
         /\ After(here, size).left = (here.left - size) % Width32
<1> DEFINE rest == (here.left - size) % Width32
<1>1. here.left \in Int /\ here.used + size \in Nat
  BY WidthFacts DEF PageKind
<1>2. rest \in 0..(Width32 - 1)
  <2>1. here.left - size \in Int
    BY <1>1
  <2>2. QED
    BY <2>1, WidthFacts, RestOfSmall
<1>3. After(here, size) = [here EXCEPT !.used = here.used + size, !.left = rest]
  BY DEF After
<1> HIDE DEF rest
<1>4. here \in [live : BOOLEAN, size : Nat, used : Nat, left : 0..(Width32 - 1), previous : Pages \cup {NoPage}]
  BY DEF PageKind
<1>5. After(here, size) \in [live : BOOLEAN, size : Nat, used : Nat, left : 0..(Width32 - 1), previous : Pages \cup {NoPage}]
  BY <1>1, <1>2, <1>3, <1>4
<1>6. /\ After(here, size).live = here.live /\ After(here, size).size = here.size
      /\ After(here, size).previous = here.previous
      /\ After(here, size).used = here.used + size /\ After(here, size).left = rest
  BY <1>3, <1>4
<1>7. QED
  BY <1>5, <1>6 DEF PageKind, rest

FromCurrent(p, here) == page[p].live /\ here = page[p] /\ p = allocator.current
FromNew(p, here) == ~page[p].live /\ here.used = 0 /\ here.previous = allocator.current

LEMMA ReturnsKeeps ==
  ASSUME AllocatorInv, allocator.type = "dynamic", past.reset # "older",
         NEW p \in Pages, NEW here \in PageKind, NEW size \in Multiples(Alignment), here.live,
         FromCurrent(p, here) \/ FromNew(p, here), Returns(p, here, size),
         past' \in [wide : BOOLEAN, reset : {past.reset}], past.wide => past'.wide,
         ~past'.wide => here.used + size + ((here.left - size) % Width32) <= here.size
  PROVE  AllocatorInv'
<1> DEFINE n == [page |-> p, at |-> here.used, size |-> size, alignment |-> Alignment]
           gone == After(here, size)
<1>1. AllocatorTypes /\ BlocksLaid /\ PagesCounted /\ LinkedOrMisled /\ TotalIsSum
  BY DEF AllocatorInv
<1>2. /\ allocator' = [allocator EXCEPT !.current = p, !.total = @ + size]
      /\ page' = [page EXCEPT ![p] = gone]
      /\ blocks' = blocks \cup {n}
  BY DEF Returns, After
<1>3. /\ allocator \in [type : {"none", "dynamic", "linear", "crashed"}, current : Pages \cup {NoPage}, total : Nat]
      /\ page \in [Pages -> PageKind] /\ blocks \in SUBSET BlockKind /\ IsFiniteSet(blocks)
      /\ past \in [wide : BOOLEAN, reset : {"none", "same", "older"}]
  BY <1>1 DEF AllocatorTypes
<1>4. size \in Nat /\ Alignment \in Nat \ {0}
  BY WidthFacts, MultipleHasNoRest
<1>5. here.used \in Nat /\ here.used \in Multiples(Alignment) /\ here.previous \in Pages \cup {NoPage}
  <2>1. FromNew(p, here) => here.used \in Multiples(Alignment)
    BY <1>4, ZeroIsMultiple DEF FromNew
  <2>2. FromCurrent(p, here) => here.used \in Multiples(Alignment)
    BY <1>1 DEF PagesCounted, FromCurrent, LivePages
  <2>3. QED
    BY <2>1, <2>2 DEF PageKind
<1>6. /\ gone \in PageKind /\ gone.live /\ gone.size = here.size /\ gone.previous = here.previous
      /\ gone.used = here.used + size /\ gone.left = (here.left - size) % Width32
  BY <1>4, AfterFacts
<1>7. n \in BlockKind /\ n.page = p /\ n.at = here.used /\ n.size = size /\ n.alignment = Alignment
  BY <1>4, <1>5 DEF BlockKind
<1> HIDE DEF n, gone
<1>8. page'[p] = gone /\ \A o \in Pages \ {p} : page'[o] = page[o]
  BY <1>2, <1>3
<1>9. page' \in [Pages -> PageKind]
  BY <1>2, <1>3, <1>6
<1>10. allocator'.type = "dynamic" /\ allocator'.current = p /\ allocator'.total = allocator.total + size
  BY <1>2, <1>3
<1>11. past'.reset = past.reset /\ past'.wide \in BOOLEAN
  OBVIOUS
<1>12. AllocatorTypes'
  <2>1. allocator' \in [type : {"none", "dynamic", "linear", "crashed"}, current : Pages \cup {NoPage}, total : Nat]
    <3>1. allocator.total + size \in Nat
      BY <1>3, <1>4
    <3>2. QED
      BY <1>2, <1>3, <3>1
  <2>2. blocks' \in SUBSET BlockKind /\ IsFiniteSet(blocks')
    BY <1>2, <1>3, <1>7, FS_AddElement
  <2>3. past' \in [wide : BOOLEAN, reset : {"none", "same", "older"}]
    BY <1>3
  <2>4. QED
    BY <1>9, <2>1, <2>2, <2>3 DEF AllocatorTypes
<1>13. page[p].live => page[p].used <= here.used
  <2>1. page[p].used \in Nat
    BY <1>3 DEF PageKind
  <2>2. QED
    BY <2>1 DEF FromCurrent, FromNew
<1>14. PagesGrow(page, page')
  <2>1. ASSUME NEW o \in Pages, page[o].live PROVE page'[o].live /\ page[o].used <= page'[o].used
    <3>1. page[o].used \in Nat
      BY <1>3 DEF PageKind
    <3>2. CASE o = p
      BY <1>4, <1>5, <1>6, <1>8, <1>13, <2>1, <3>1, <3>2
    <3>3. CASE o # p
      BY <1>8, <2>1, <3>1, <3>3
    <3>4. QED
      BY <3>2, <3>3
  <2>2. QED
    BY <2>1 DEF PagesGrow
<1>15. Start = 0 /\ Start' = 0
  BY <1>10 DEF Start
<1>16. Laid(blocks, page, 0)
  BY <1>1, <1>15 DEF BlocksLaid
<1>17. Laid(blocks', page', 0)
  <2>1. page'[n.page].live /\ n.at + n.size <= page'[n.page].used
    BY <1>4, <1>5, <1>6, <1>7, <1>8
  <2>2. 0 + n.at \in Multiples(n.alignment)
    BY <1>5, <1>7
  <2>3. page[n.page].live => page[n.page].used <= n.at
    BY <1>7, <1>13
  <2>4. 0 \in Nat
    OBVIOUS
  <2>5. QED
    BY <1>2, <1>3, <1>7, <1>9, <1>14, <1>16, <2>1, <2>2, <2>3, <2>4, LaidAdds
<1>18. BlocksLaid'
  BY <1>15, <1>17 DEF BlocksLaid, Laid
<1>19. PagesCounted'
  <2>1. ASSUME NEW o \in Pages, page'[o].live
        PROVE  /\ page'[o].used \in Multiples(Alignment)
               /\ ~past'.wide => page'[o].used + page'[o].left <= page'[o].size
    <3>1. CASE o = p
      BY <1>4, <1>5, <1>6, <1>8, <3>1, MultiplesAdd
    <3>2. CASE o # p
      BY <1>1, <1>8, <2>1, <3>2 DEF PagesCounted, LivePages
    <3>3. QED
      BY <3>1, <3>2
  <2>2. QED
    BY <2>1 DEF PagesCounted, LivePages
<1>20. Linked(page, allocator.current)
  BY <1>1 DEF LinkedOrMisled
<1>21. Linked(page', p)
  <2>1. CASE FromCurrent(p, here)
    <3>1. \A o \in Pages : page'[o].live = page[o].live /\ page'[o].previous = page[o].previous
      <4>1. page[p].live \in BOOLEAN /\ here.live \in BOOLEAN /\ gone.live \in BOOLEAN
        BY <1>3, <1>6 DEF PageKind
      <4>2. page'[p].live = page[p].live /\ page'[p].previous = page[p].previous
        BY <1>6, <1>8, <2>1, <4>1 DEF FromCurrent
      <4>3. QED
        BY <1>8, <4>2
    <3>2. p = allocator.current
      BY <2>1 DEF FromCurrent
    <3>3. QED
      BY <1>20, <3>1, <3>2, LinkedStays
  <2>2. CASE FromNew(p, here)
    <3>1. NewIn(page, page', p, allocator.current)
      BY <1>6, <1>8, <2>2 DEF NewIn, FromNew
    <3>2. QED
      BY <1>20, <3>1, LinkedGrows
  <2>3. QED
    BY <2>1, <2>2
<1>22. LinkedOrMisled'
  BY <1>10, <1>11, <1>21 DEF LinkedOrMisled
<1>23. TotalIsSum'
  <2> SUFFICES ASSUME past.reset = "none" PROVE allocator'.total = SumOfSizes(blocks')
    BY <1>11 DEF TotalIsSum
  <2>1. allocator.total = SumOfSizes(blocks)
    BY <1>1 DEF TotalIsSum
  <2>2. CASE n \in blocks
    <3>1. FromCurrent(p, here)
      <4>1. page[p].live
        BY <1>7, <1>16, <2>2 DEF Laid
      <4>2. QED
        BY <4>1 DEF FromNew
    <3>2. page[n.page].used <= n.at
      BY <1>5, <1>7, <3>1 DEF FromCurrent
    <3>3. size = 0
      BY <1>3, <1>7, <1>16, <2>2, <3>2, LaidTwice
    <3>4. blocks' = blocks
      BY <1>2, <2>2
    <3>5. allocator.total \in Nat
      BY <1>3
    <3>6. QED
      BY <1>10, <2>1, <3>3, <3>4, <3>5
  <2>3. CASE n \notin blocks
    <3>1. Sized(blocks \cup {n})
      <4>1. \A b \in blocks \cup {n} : b.size \in Nat
        BY <1>3, <1>7 DEF BlockKind
      <4>2. QED
        BY <1>3, <4>1, FS_AddElement DEF Sized
    <3>2. SumOfSizes(blocks \cup {n}) = SumOfSizes(blocks) + n.size
      BY <2>3, <3>1, SumAdds
    <3>3. QED
      BY <1>2, <1>7, <1>10, <2>1, <3>2
  <2>4. QED
    BY <2>2, <2>3
<1>24. NothingYet' /\ IsOneMemory'
  BY <1>10 DEF NothingYet, IsOneMemory
<1>25. QED
  BY <1>12, <1>18, <1>19, <1>22, <1>23, <1>24 DEF AllocatorInv

LEMMA AllocateDynamicKeeps ==
  ASSUME AllocatorInv, NEW asked \in Nat, AllocateDynamic(asked)
  PROVE  AllocatorInv'
<1> DEFINE size == AlignUp(asked, Alignment)
           current == allocator.current
           large == NextPow2(size % Width32)
           room == IF size > Increment THEN large ELSE Increment
           p == Min(Pages \ LivePages)
<1>1. AllocatorTypes /\ PagesCounted /\ LinkedOrMisled
  BY DEF AllocatorInv
<1>2. allocator.type = "dynamic" /\ (current # NoPage => page[current].live)
  BY DEF AllocateDynamic
<1>3. IF current # NoPage /\ size <= page[current].left THEN Returns(current, page[current], size)
      ELSE /\ LivePages # Pages
           /\ size > Increment => size % Width32 \in 1..(Width32 \div 2)
           /\ Returns(p, NewPage(room, current), size)
  BY DEF AllocateDynamic
<1>4. past' = [past EXCEPT !.wide = @ \/ size >= Width32]
  BY DEF AllocateDynamic
<1>5. size \in Multiples(Alignment) /\ size \in Nat
  BY AlignedUp, MultipleHasNoRest, WidthFacts
<1>6. /\ past \in [wide : BOOLEAN, reset : {"none", "same", "older"}] /\ current \in Pages \cup {NoPage}
      /\ page \in [Pages -> PageKind]
  BY <1>1 DEF AllocatorTypes
<1>7. past.reset # "older"
  BY <1>1, <1>2, PageNumbers DEF LinkedOrMisled
<1> HIDE DEF size, room, p, current
<1>8. past'.reset = past.reset /\ past'.wide = (past.wide \/ size >= Width32)
  BY <1>4, <1>6
<1>9. past' \in [wide : BOOLEAN, reset : {past.reset}] /\ (past.wide => past'.wide)
  BY <1>4, <1>6
<1>10. ~past'.wide => ~past.wide /\ size < Width32
  <2>1. ~past'.wide => ~past.wide /\ ~(size >= Width32)
    BY <1>8
  <2>2. ~(size >= Width32) => size < Width32
    BY <1>5, WidthFacts
  <2>3. QED
    BY <2>1, <2>2
<1>11. CASE current # NoPage /\ size <= page[current].left
  <2>1. Returns(current, page[current], size) /\ current \in Pages /\ page[current].live
    BY <1>2, <1>3, <1>6, <1>11
  <2>2. page[current] \in PageKind
    BY <1>6, <2>1
  <2>3. page[current].left \in 0..(Width32 - 1) /\ page[current].used \in Nat /\ page[current].size \in Nat
    BY <2>2 DEF PageKind
  <2>4. FromCurrent(current, page[current])
    BY <2>1 DEF FromCurrent, current
  <2> DEFINE rest == page[current].left - size
  <2>5. rest % Width32 = rest
    <3>1. rest \in 0..(Width32 - 1)
      BY <1>5, <1>11, <2>3, WidthFacts
    <3> HIDE DEF rest
    <3>2. QED
      BY <3>1, WidthFacts, SmallRest
  <2>6. ~past.wide => page[current].used + page[current].left <= page[current].size
    BY <1>1, <2>1 DEF PagesCounted, LivePages
  <2>7. ~past'.wide => page[current].used + size + (rest % Width32) <= page[current].size
    BY <1>5, <1>10, <2>3, <2>5, <2>6
  <2>8. QED
    BY <1>2, <1>5, <1>7, <1>9, <2>1, <2>2, <2>4, <2>7, ReturnsKeeps DEF current
<1>12. CASE ~(current # NoPage /\ size <= page[current].left)
  <2> DEFINE here == NewPage(room, current)
             rest == here.left - size
  <2>1. /\ LivePages # Pages /\ Returns(p, here, size)
        /\ size > Increment => size % Width32 \in 1..(Width32 \div 2)
    BY <1>3, <1>12
  <2>2. p \in Pages /\ p \notin LivePages
    <3>1. Pages \ LivePages \subseteq Nat /\ Pages \ LivePages # {}
      BY <2>1, PageNumbers DEF LivePages
    <3>2. QED
      BY <3>1, MinExists DEF p
  <2>3. ASSUME size > Increment
        PROVE  large \in Nat /\ large <= Width32 /\ (size < Width32 => size <= large)
    <3> DEFINE x == size % Width32
    <3>1. x \in 1..(Width32 \div 2)
      BY <2>1, <2>3
    <3>2. size < Width32 => x = size
      <4>1. size < Width32 => size \in 0..(Width32 - 1)
        BY <1>5, WidthFacts
      <4>2. size < Width32 => size % Width32 = size
        BY <4>1, WidthFacts, SmallRest
      <4>3. QED
        BY <4>2
    <3> HIDE DEF x
    <3>3. x \in Nat \ {0}
      BY <3>1, WidthFacts
    <3>4. NextPow2(x) \in x..(2 * x)
      BY <3>3, NextPow2Is
    <3>5. 2 * x <= Width32
      BY <3>1, <3>3, WidthFacts
    <3>6. large = NextPow2(x)
      BY DEF x, size
    <3> HIDE DEF large
    <3>7. QED
      BY <3>2, <3>3, <3>4, <3>5, <3>6, WidthFacts
  <2>4. room \in Nat /\ room <= Width32 /\ (size < Width32 => size <= room)
    <3>1. CASE size > Increment
      <4>1. room = large
        BY <3>1 DEF room, size
      <4> HIDE DEF large
      <4>2. QED
        BY <2>3, <3>1, <4>1
    <3>2. CASE ~(size > Increment)
      <4>1. room = Increment
        BY <3>2 DEF room, size
      <4>2. QED
        BY <1>5, <3>2, <4>1, WidthFacts
    <3>3. QED
      BY <3>1, <3>2
  <2> HIDE DEF large
  <2>5. /\ here \in PageKind /\ here.live /\ here.used = 0 /\ here.previous = current /\ here.size = room
        /\ here.left = room % Width32
        /\ (room < Width32 => here.left = room) /\ (room = Width32 => here.left = 0)
    BY <1>6, <2>4, NewPageFacts
  <2> HIDE DEF here
  <2>6. FromNew(p, here)
    BY <2>2, <2>5 DEF FromNew, LivePages, current
  <2>7. ~past'.wide => here.used + size + (rest % Width32) <= here.size
    <3> SUFFICES ASSUME size < Width32 PROVE size + (rest % Width32) <= room
      <4>1. here.left \in Nat
        BY <2>5 DEF PageKind
      <4>2. rest \in Int
        BY <1>5, <4>1
      <4> HIDE DEF rest
      <4>3. rest % Width32 \in Nat
        BY <4>2, WidthFacts, RestOfSmall
      <4>4. QED
        BY <1>5, <1>10, <2>5, <4>3
    <3>1. CASE room < Width32
      <4>1. rest = room - size
        BY <2>5, <3>1
      <4>2. room - size \in 0..(Width32 - 1)
        BY <1>5, <2>4, <3>1, WidthFacts
      <4>3. (room - size) % Width32 = room - size
        BY <4>2, WidthFacts, SmallRest
      <4>4. QED
        BY <1>5, <2>4, <4>1, <4>3
    <3>2. CASE room = Width32
      <4>1. rest = 0 - size
        BY <2>5, <3>2
      <4>2. CASE size = 0
        <5>1. rest \in 0..(Width32 - 1) /\ rest = 0
          BY <4>1, <4>2, WidthFacts
        <5> HIDE DEF rest
        <5>2. rest % Width32 = 0
          BY <5>1, WidthFacts, RestOfSmall
        <5>3. QED
          BY <2>4, <4>2, <5>2
      <4>3. CASE size # 0
        <5>1. rest \in Int /\ -Width32 < rest /\ rest < 0
          BY <1>5, <4>1, <4>3, WidthFacts
        <5>2. rest + Width32 = Width32 - size
          BY <1>5, <4>1, WidthFacts
        <5> HIDE DEF rest
        <5>3. rest % Width32 = rest + Width32
          BY <5>1, WidthFacts, RestOfSmall
        <5>4. QED
          BY <1>5, <3>2, <5>2, <5>3, WidthFacts
      <4>4. QED
        BY <4>2, <4>3
    <3>3. QED
      BY <2>4, <3>1, <3>2, WidthFacts
  <2>8. QED
    BY <1>2, <1>5, <1>7, <1>9, <2>1, <2>2, <2>5, <2>6, <2>7, ReturnsKeeps DEF here
<1>13. QED
  BY <1>11, <1>12

(* The memory of a linear allocator: nothing wraps around for a size that   *)
(* fits in the width of the memory's size.                                  *)
LEMMA OffsetFits ==
  ASSUME NEW used \in Nat, used < Width32, NEW alignment \in Alignments
  PROVE  LET up == AlignUp(Base + used, alignment)
         IN  /\ up \in Nat /\ up \in Multiples(alignment) /\ Base + used <= up
             /\ up - Base < Width32 + alignment /\ (up - Base) % Width64 = up - Base
<1> DEFINE up == AlignUp(Base + used, alignment)
<1>1. Base \in Nat /\ alignment \in Nat \ {0} /\ Base + 2 * Width32 + alignment <= Width64
  BY AddressesFit, AllocationsAreCounted
<1>2. Base + used \in Nat /\ Base + used + alignment <= Width64
  BY <1>1, WidthFacts
<1>3. up \in Multiples(alignment) /\ up \in (Base + used)..(Base + used + alignment - 1)
  BY <1>1, <1>2, AlignedUp
<1> HIDE DEF up
<1>4. up \in Nat /\ Base + used <= up /\ up - Base < Width32 + alignment /\ up - Base \in 0..(Width64 - 1)
  BY <1>1, <1>2, <1>3, WidthFacts
<1>5. (up - Base) % Width64 = up - Base
  BY <1>4, WidthFacts, SmallRest
<1>6. QED
  BY <1>3, <1>4, <1>5 DEF up

LEMMA AllocateLinearKeeps ==
  ASSUME AllocatorInv, NEW size \in Nat, NEW alignment \in Alignments, AllocateLinear(size, alignment)
  PROVE  AllocatorInv'
<1> DEFINE up == AlignUp(Base + page[1].used, alignment)
           offset == (up - Base) % Width64
           reach == (offset + size) % Width64
           n == [page |-> 1, at |-> offset, size |-> size, alignment |-> alignment]
<1>1. AllocatorTypes /\ IsOneMemory /\ BlocksLaid /\ PagesCounted /\ LinkedOrMisled
  BY DEF AllocatorInv
<1>2. /\ allocator.type = "linear" /\ reach <= page[1].size
      /\ page' = [page EXCEPT ![1].used = reach]
      /\ blocks' = blocks \cup {n}
      /\ past' = [past EXCEPT !.wide = @ \/ size >= Width32]
      /\ allocator' = allocator
  BY DEF AllocateLinear
<1>3. /\ page \in [Pages -> PageKind] /\ blocks \in SUBSET BlockKind /\ IsFiniteSet(blocks)
      /\ past \in [wide : BOOLEAN, reset : {"none", "same", "older"}] /\ 1 \in Pages
  BY <1>1, PageNumbers DEF AllocatorTypes
<1>4. /\ allocator.current = 1 /\ page[1].live /\ page[1].left = 0
      /\ page[1].size < Width32 /\ page[1].used <= page[1].size
  BY <1>1, <1>2 DEF IsOneMemory
<1>5. page[1].used \in Nat /\ page[1].size \in Nat /\ page[1].used < Width32
  <2>1. page[1].used \in Nat /\ page[1].size \in Nat
    BY <1>3 DEF PageKind
  <2>2. QED
    BY <1>4, <2>1, WidthFacts
<1>6. Base \in Nat /\ alignment \in Nat \ {0} /\ Base + 2 * Width32 + alignment <= Width64
  BY AddressesFit, AllocationsAreCounted
<1>7. /\ up \in Nat /\ up \in Multiples(alignment) /\ Base + page[1].used <= up
      /\ up - Base < Width32 + alignment /\ offset = up - Base
  BY <1>5, OffsetFits
<1> HIDE DEF up
<1>8. offset \in Nat /\ page[1].used <= offset /\ Base + offset = up
  BY <1>5, <1>6, <1>7
<1> HIDE DEF offset
<1>9. reach \in Nat
  <2>1. offset + size \in Int
    BY <1>8
  <2>2. QED
    BY <2>1, WidthFacts, RestOfSmall
<1>10. size < Width32 => reach = offset + size
  <2>1. size < Width32 => offset + size \in 0..(Width64 - 1)
    BY <1>6, <1>7, <1>8, WidthFacts
  <2>2. QED
    BY <2>1, WidthFacts, SmallRest
<1> HIDE DEF reach
<1>11. n \in BlockKind /\ n.page = 1 /\ n.at = offset /\ n.size = size /\ n.alignment = alignment
  BY <1>3, <1>6, <1>8 DEF BlockKind
<1> HIDE DEF n
<1>12. /\ page'[1] \in PageKind /\ page'[1].live /\ page'[1].left = 0 /\ page'[1].size = page[1].size
       /\ page'[1].used = reach /\ page'[1].previous = page[1].previous
       /\ \A o \in Pages \ {1} : page'[o] = page[o]
  <2>1. page[1] \in [live : BOOLEAN, size : Nat, used : Nat, left : 0..(Width32 - 1), previous : Pages \cup {NoPage}]
    BY <1>3 DEF PageKind
  <2>2. page'[1] = [page[1] EXCEPT !.used = reach]
    BY <1>2, <1>3
  <2>3. page'[1] \in [live : BOOLEAN, size : Nat, used : Nat, left : 0..(Width32 - 1), previous : Pages \cup {NoPage}]
    BY <1>9, <2>1, <2>2
  <2>4. \A o \in Pages \ {1} : page'[o] = page[o]
    BY <1>2, <1>3
  <2>5. QED
    BY <1>4, <2>1, <2>2, <2>3, <2>4 DEF PageKind
<1>13. page' \in [Pages -> PageKind]
  <2>1. \A o \in Pages : page'[o] \in PageKind
    BY <1>3, <1>12
  <2>2. DOMAIN page' = Pages /\ page' = [o \in DOMAIN page' |-> page'[o]]
    BY <1>2, <1>3
  <2>3. QED
    BY <2>1, <2>2
<1>14. past'.reset = past.reset /\ past'.wide = (past.wide \/ size >= Width32)
       /\ past' \in [wide : BOOLEAN, reset : {"none", "same", "older"}]
  BY <1>2, <1>3
<1>15. ~past'.wide => ~past.wide /\ size < Width32
  <2>1. ~past'.wide => ~past.wide /\ ~(size >= Width32)
    BY <1>14
  <2>2. ~(size >= Width32) => size < Width32
    BY WidthFacts
  <2>3. QED
    BY <2>1, <2>2
<1>16. AllocatorTypes'
  <2>1. blocks' \in SUBSET BlockKind /\ IsFiniteSet(blocks')
    BY <1>2, <1>3, <1>11, FS_AddElement
  <2>2. QED
    BY <1>1, <1>2, <1>13, <1>14, <2>1 DEF AllocatorTypes
<1>17. BlocksLaid'
  <2>1. \A b \in blocks' : page'[b.page].live
    <3>1. ASSUME NEW b \in blocks' PROVE page'[b.page].live
      <4>1. CASE b = n
        BY <1>11, <1>12, <4>1
      <4>2. CASE b # n
        <5>1. b \in blocks /\ b.page \in Pages /\ page[b.page].live
          BY <1>1, <1>2, <1>3, <4>2 DEF BlocksLaid, BlockKind
        <5>2. QED
          BY <1>12, <5>1
      <4>3. QED
        BY <4>1, <4>2
    <3>2. QED
      BY <3>1
  <2>2. ASSUME ~past'.wide PROVE Laid(blocks', page', Start')
    <3>1. Start = Base /\ Start' = Base
      BY <1>2 DEF Start
    <3>2. Laid(blocks, page, Base) /\ reach = offset + size
      BY <1>1, <1>10, <1>15, <2>2, <3>1 DEF BlocksLaid
    <3>3. PagesGrow(page, page')
      <4>1. page'[1].live /\ page[1].used <= page'[1].used
        BY <1>5, <1>8, <1>12, <3>2
      <4>2. ASSUME NEW o \in Pages, page[o].live PROVE page'[o].live /\ page[o].used <= page'[o].used
        <5>1. page[o].used \in Nat
          BY <1>3 DEF PageKind
        <5>2. CASE o = 1
          BY <4>1, <5>2
        <5>3. CASE o # 1
          BY <1>12, <4>2, <5>1, <5>3
        <5>4. QED
          BY <5>2, <5>3
      <4>3. QED
        BY <4>2 DEF PagesGrow
    <3>4. page'[n.page].live /\ n.at + n.size <= page'[n.page].used /\ Base + n.at \in Multiples(n.alignment)
      BY <1>7, <1>8, <1>11, <1>12, <3>2
    <3>5. page[n.page].live => page[n.page].used <= n.at
      BY <1>8, <1>11
    <3>6. QED
      BY <1>2, <1>3, <1>6, <1>11, <1>13, <3>1, <3>2, <3>3, <3>4, <3>5, LaidAdds
  <2>3. allocator'.type = "linear"
    BY <1>2
  <2>4. QED
    BY <2>1, <2>2, <2>3 DEF BlocksLaid
<1>18. IsOneMemory'
  BY <1>2, <1>4, <1>12 DEF IsOneMemory
<1>19. PagesCounted'
  <2>1. ASSUME ~past'.wide, NEW o \in Pages, page'[o].live
        PROVE  page'[o].used + page'[o].left <= page'[o].size
    <3>1. CASE o = 1
      BY <1>2, <1>5, <1>9, <1>12, <3>1
    <3>2. CASE o # 1
      BY <1>1, <1>12, <1>15, <2>1, <3>2 DEF PagesCounted, LivePages
    <3>3. QED
      BY <3>1, <3>2
  <2>2. QED
    BY <1>2, <2>1 DEF PagesCounted, LivePages
<1>20. LinkedOrMisled'
  <2>1. past.reset # "older" /\ Linked(page, allocator.current)
    BY <1>1, <1>2 DEF LinkedOrMisled
  <2>2. \A o \in Pages : page'[o].live = page[o].live /\ page'[o].previous = page[o].previous
    <3>1. page[1].live \in BOOLEAN /\ page'[1].live \in BOOLEAN
      BY <1>3, <1>12 DEF PageKind
    <3>2. page'[1].live = page[1].live
      BY <1>4, <1>12, <3>1
    <3>3. QED
      BY <1>12, <3>2
  <2>3. Linked(page', allocator.current)
    BY <2>1, <2>2, LinkedStays
  <2>4. QED
    BY <1>2, <1>14, <2>1, <2>3 DEF LinkedOrMisled
<1>21. NothingYet' /\ TotalIsSum'
  BY <1>2 DEF NothingYet, TotalIsSum
<1>22. QED
  BY <1>16, <1>17, <1>18, <1>19, <1>20, <1>21 DEF AllocatorInv

(* An allocator that was just created: no page, or one, and no blocks.       *)
LEMMA NothingHeld ==
  ASSUME AllocatorInv, allocator.type = "none"
  PROVE  LivePages = {} /\ blocks = {} /\ past.reset # "older" /\ allocator = None
<1>1. AllocatorTypes /\ NothingYet /\ LinkedOrMisled
  BY DEF AllocatorInv
<1>2. past.reset # "older" /\ Linked(page, allocator.current) /\ allocator = None /\ blocks = {}
  BY <1>1 DEF LinkedOrMisled, NothingYet
<1>3. allocator.current = NoPage
  BY <1>2 DEF None
<1>4. QED
  BY <1>1, <1>2, <1>3, LinkedToNone, TypeFacts

LEMMA FirstPageKeeps ==
  ASSUME AllocatorInv, allocator.type = "none", NEW kind \in {"dynamic", "linear"}, NEW here \in PageKind,
         here.live, here.used = 0, here.previous = NoPage, here.left <= here.size,
         kind = "linear" => here.left = 0 /\ here.size < Width32,
         page' = [page EXCEPT ![1] = here], allocator' = [None EXCEPT !.type = kind, !.current = 1],
         blocks' = blocks, past' = past
  PROVE  AllocatorInv'
<1>1. AllocatorTypes
  BY DEF AllocatorInv
<1>2. page \in [Pages -> PageKind] /\ 1 \in Pages
  BY <1>1, PageNumbers DEF AllocatorTypes
<1>3. LivePages = {} /\ blocks = {} /\ past.reset # "older" /\ allocator = None
  BY NothingHeld
<1>4. allocator' = [type |-> kind, current |-> 1, total |-> 0]
  BY DEF None
<1>5. allocator'.type = kind /\ allocator'.current = 1 /\ allocator'.total = 0
  BY ONLY <1>4
<1>6. page'[1] = here /\ \A o \in Pages \ {1} : page'[o] = page[o]
  BY <1>2
<1>7. page' \in [Pages -> PageKind]
  BY <1>2
<1>8. AllocatorTypes'
  <2>1. allocator' \in [type : {"none", "dynamic", "linear", "crashed"}, current : Pages \cup {NoPage}, total : Nat]
    BY <1>2, <1>4
  <2>2. QED
    BY <1>1, <1>7, <2>1 DEF AllocatorTypes
<1>9. LivePages' = {1} /\ LiveIn(page') = {1}
  BY <1>2, <1>3, <1>6 DEF LivePages, LiveIn
<1>10. Linked(page', 1)
  BY <1>2, <1>6, <1>9, LinkedAlone
<1>11. LinkedOrMisled'
  BY <1>3, <1>5, <1>10 DEF LinkedOrMisled
<1>12. here.left \in Nat /\ here.size \in Nat
  BY DEF PageKind
<1>13. PagesCounted'
  <2>1. 0 \in Multiples(Alignment)
    BY WidthFacts, ZeroIsMultiple
  <2>2. page'[1].used \in Multiples(Alignment) /\ page'[1].used + page'[1].left <= page'[1].size
    BY <1>6, <1>12, <2>1
  <2>3. QED
    BY <1>9, <2>2 DEF PagesCounted
<1>14. BlocksLaid'
  BY <1>3, NoneLaid DEF BlocksLaid
<1>15. IsOneMemory'
  BY <1>5, <1>6, <1>12 DEF IsOneMemory
<1>16. NothingYet' /\ TotalIsSum'
  BY <1>3, <1>5, SumOfNone DEF NothingYet, TotalIsSum
<1>17. QED
  BY <1>8, <1>11, <1>13, <1>14, <1>15, <1>16 DEF AllocatorInv

LEMMA CreateLinearKeeps ==
  ASSUME AllocatorInv, NEW size \in Nat, CreateLinear(size)
  PROVE  AllocatorInv'
<1> DEFINE fresh == NewPage(size, NoPage)
           here == [fresh EXCEPT !.left = 0]
<1>1. /\ allocator.type = "none" /\ size < Width32 /\ blocks' = blocks /\ past' = past
      /\ page' = [page EXCEPT ![1] = here] /\ allocator' = [None EXCEPT !.type = "linear", !.current = 1]
  BY DEF CreateLinear
<1>2. fresh \in PageKind /\ fresh.live /\ fresh.size = size /\ fresh.used = 0 /\ fresh.previous = NoPage
  BY NewPageFacts
<1>3. 0 \in 0..(Width32 - 1)
  BY WidthFacts
<1> HIDE DEF fresh
<1>4. here \in PageKind /\ here.live /\ here.size = size /\ here.used = 0 /\ here.previous = NoPage /\ here.left = 0
  BY <1>2, <1>3 DEF PageKind
<1> HIDE DEF here
<1>5. here.left <= here.size /\ "linear" \in {"dynamic", "linear"}
  BY <1>4
<1>6. QED
  BY <1>1, <1>4, <1>5, FirstPageKeeps

LEMMA LargerOf ==
  ASSUME NEW x \in Nat, NEW y \in Nat
  PROVE  Max({x, y}) \in Nat
<1>1. {x, y} \subseteq 0..(x + y) /\ {x, y} # {}
  OBVIOUS
<1>2. x + y \in Nat
  OBVIOUS
<1>3. Max({x, y}) \in {x, y}
  BY <1>1, <1>2, MaxExists
<1>4. QED
  BY <1>3

LEMMA CreateDynamicKeeps ==
  ASSUME AllocatorInv, NEW size \in Nat, CreateDynamic(size)
  PROVE  AllocatorInv'
<1> DEFINE up == AlignUp(size, Alignment)
           opening == Max({NextPow2(up % Width32), Increment})
<1>1. /\ allocator.type = "none" /\ size <= Width32 \div 2 /\ blocks' = blocks /\ past' = past
      /\ IF size = 0 THEN allocator' = [None EXCEPT !.type = "dynamic"] /\ UNCHANGED page
         ELSE /\ allocator' = [None EXCEPT !.type = "dynamic", !.current = 1]
              /\ page' = [page EXCEPT ![1] = NewPage(opening, NoPage)]
  BY DEF CreateDynamic
<1>2. LivePages = {} /\ blocks = {} /\ past.reset # "older" /\ allocator = None
  BY <1>1, NothingHeld
<1>3. CASE size = 0
  <2>1. allocator' = [type |-> "dynamic", current |-> NoPage, total |-> 0] /\ page' = page
    BY <1>1, <1>3 DEF None
  <2>2. allocator'.type = "dynamic" /\ allocator'.current = NoPage /\ allocator'.total = 0
    BY <2>1
  <2>3. AllocatorTypes'
    BY <1>1, <2>1 DEF AllocatorInv, AllocatorTypes
  <2>4. LiveIn(page') = {} /\ LivePages' = {}
    BY <1>2, <2>1 DEF LiveIn, LivePages
  <2>5. LinkedOrMisled'
    BY <1>1, <1>2, <2>2, <2>4, LinkedNone DEF LinkedOrMisled
  <2>6. BlocksLaid'
    BY <1>1, <1>2, NoneLaid DEF BlocksLaid
  <2>7. PagesCounted' /\ NothingYet' /\ IsOneMemory'
    BY <2>2, <2>4 DEF PagesCounted, NothingYet, IsOneMemory
  <2>8. TotalIsSum'
    BY <1>1, <1>2, <2>2, SumOfNone DEF TotalIsSum
  <2>9. QED
    BY <2>3, <2>5, <2>6, <2>7, <2>8 DEF AllocatorInv
<1>4. CASE size # 0
  <2>1. size + Alignment <= Width64 /\ size + Alignment - 1 < Width32
    BY <1>1, WidthFacts
  <2>2. up \in size..(size + Alignment - 1)
    BY <2>1, WidthFacts, AlignedUp
  <2> HIDE DEF up
  <2>3. up \in 0..(Width32 - 1) /\ up # 0
    BY <1>4, <2>1, <2>2, WidthFacts
  <2>4. up % Width32 = up
    BY <2>3, WidthFacts, SmallRest
  <2>5. NextPow2(up % Width32) \in Nat
    <3>1. up \in Nat \ {0}
      BY <2>3
    <3>2. NextPow2(up) \in up..(2 * up)
      BY <3>1, NextPow2Is
    <3> DEFINE power == NextPow2(up)
    <3> HIDE DEF power
    <3>3. power \in Nat
      BY <3>1, <3>2 DEF power
    <3>4. QED
      BY <2>4, <3>3 DEF power
  <2>6. opening \in Nat
    BY <2>5, LargerOf, WidthFacts
  <2> HIDE DEF opening
  <2> DEFINE here == NewPage(opening, NoPage)
  <2>7. /\ here \in PageKind /\ here.live /\ here.size = opening /\ here.used = 0 /\ here.previous = NoPage
        /\ here.left <= opening
    BY <2>6, NewPageFacts
  <2>8. page' = [page EXCEPT ![1] = here] /\ allocator' = [None EXCEPT !.type = "dynamic", !.current = 1]
    BY <1>1, <1>4
  <2> HIDE DEF here
  <2>9. QED
    BY <1>1, <2>7, <2>8, FirstPageKeeps
<1>5. QED
  BY <1>3, <1>4

(* A call that is not one on freed memory: the pages are linked.            *)
LEMMA CallsFindPages ==
  ASSUME AllocatorInv, Chain(allocator.current) \subseteq LivePages
  PROVE  past.reset # "older" /\ Linked(page, allocator.current) /\ LivePages = Chain(allocator.current)
<1>1. AllocatorTypes /\ LinkedOrMisled
  BY DEF AllocatorInv
<1>2. Leads(page) /\ LivePages = LiveIn(page)
  BY <1>1, TypeFacts
<1>3. past.reset # "older"
  <2>1. ASSUME past.reset = "older" PROVE FALSE
    <3>1. allocator.current \in Pages /\ ~page[allocator.current].live
      BY <1>1, <2>1 DEF LinkedOrMisled
    <3>2. allocator.current \in Chain(allocator.current)
      BY <1>2, <3>1, PageNumbers, ChainHasPages, ChainIsInPages
    <3>3. QED
      BY <3>1, <3>2 DEF LivePages
  <2>2. QED
    BY <2>1
<1>4. Linked(page, allocator.current)
  BY <1>1, <1>3 DEF LinkedOrMisled
<1>5. QED
  BY <1>2, <1>3, <1>4, LinkedChain, ChainIsInPages

LEMMA EmptiedPages ==
  ASSUME AllocatorInv, Linked(page, allocator.current), allocator.current # NoPage, Emptied(Kept)
  PROVE  /\ page' \in [Pages -> PageKind] /\ Kept \in Pages
         /\ LivePages' = {Kept} /\ LiveIn(page') = {Kept} /\ page'[Kept].previous = NoPage
         /\ page'[Kept].used = 0
         /\ ~past.wide => page'[Kept].left <= page'[Kept].size
         /\ allocator.current # Kept => ~page'[allocator.current].live
<1>1. AllocatorTypes /\ PagesCounted
  BY DEF AllocatorInv
<1>2. page \in [Pages -> PageKind] /\ allocator.current \in Pages
  BY <1>1 DEF AllocatorTypes
<1>3. Kept \in LivePages /\ LivePages = Chain(allocator.current) /\ LivePages \subseteq Pages
  BY <1>2, KeptIsHeld DEF LivePages
<1> DEFINE k == Kept
           C == Chain(allocator.current)
<1> HIDE DEF k, C
<1>4. /\ k \in Pages /\ page[k].live /\ C = LivePages
      /\ page' = [p \in Pages |-> IF p = k THEN Again(p) ELSE IF p \in C THEN Freed ELSE page[p]]
  BY <1>3 DEF k, C, Emptied, LivePages
<1> DEFINE size == CountedSize(k)
<1>5. size \in Nat /\ size = page[k].used + page[k].left
  <2>1. page[k].used \in Nat /\ page[k].left \in Nat
    BY <1>2, <1>4 DEF PageKind
  <2>2. QED
    BY <2>1 DEF CountedSize
<1> HIDE DEF size
<1> DEFINE rest == size % Width32
<1>6. rest \in 0..(Width32 - 1) /\ rest <= size
  <2>1. rest \in 0..(Width32 - 1)
    BY <1>5, WidthFacts, RestType
  <2>2. rest <= size
    BY <1>2, <1>5, NewPageFacts
  <2>3. QED
    BY <2>1, <2>2
<1> HIDE DEF rest
<1>7. /\ Again(k) \in PageKind /\ Again(k).live /\ Again(k).used = 0 /\ Again(k).previous = NoPage
      /\ Again(k).size = page[k].size /\ Again(k).left = rest
  <2>1. page[k] \in [live : BOOLEAN, size : Nat, used : Nat, left : 0..(Width32 - 1), previous : Pages \cup {NoPage}]
    BY <1>2, <1>4 DEF PageKind
  <2>2. Again(k) = [page[k] EXCEPT !.used = 0, !.left = rest, !.previous = NoPage]
    BY DEF Again, size, rest
  <2> DEFINE here == page[k]
             anew == Again(k)
  <2> HIDE DEF here, anew
  <2>3. anew = [here EXCEPT !.used = 0, !.left = rest, !.previous = NoPage]
    BY <2>2 DEF here, anew
  <2>4. here \in [live : BOOLEAN, size : Nat, used : Nat, left : 0..(Width32 - 1), previous : Pages \cup {NoPage}]
    BY <2>1 DEF here
  <2>5. anew \in [live : BOOLEAN, size : Nat, used : Nat, left : 0..(Width32 - 1), previous : Pages \cup {NoPage}]
    BY ONLY <1>6, <2>3, <2>4
  <2>6. anew.live = here.live /\ anew.used = 0 /\ anew.previous = NoPage /\ anew.size = here.size /\ anew.left = rest
    BY ONLY <2>3, <2>4
  <2>7. QED
    BY <1>4, <2>5, <2>6 DEF PageKind, here, anew
<1>8. page'[k] = Again(k) /\ \A p \in Pages \ {k} : page'[p] = IF p \in C THEN Freed ELSE page[p]
  BY <1>4
<1>9. page' \in [Pages -> PageKind]
  <2>1. \A p \in Pages : page'[p] \in PageKind
    BY <1>2, <1>7, <1>8, FreedFacts
  <2>2. DOMAIN page' = Pages /\ page' = [p \in DOMAIN page' |-> page'[p]]
    BY <1>4
  <2>3. QED
    BY <2>1, <2>2
<1>10. \A p \in Pages \ {k} : ~page'[p].live
  BY <1>4, <1>8, FreedFacts DEF LivePages
<1>11. LivePages' = {k} /\ LiveIn(page') = {k}
  BY <1>4, <1>7, <1>8, <1>10 DEF LivePages, LiveIn
<1>12. ~past.wide => size <= page[k].size
  BY <1>1, <1>4, <1>5 DEF PagesCounted, LivePages
<1>13. ~past.wide => page'[k].left <= page'[k].size
  <2>1. page[k].size \in Nat
    BY <1>2, <1>4 DEF PageKind
  <2>2. QED
    BY <1>5, <1>6, <1>7, <1>8, <1>12, <2>1, WidthFacts
<1>14. QED
  BY <1>2, <1>4, <1>7, <1>8, <1>9, <1>10, <1>11, <1>13 DEF k

(* Without blocks what the properties say is about the pages only.          *)
LEMMA NoBlocksKeep ==
  ASSUME AllocatorTypes', blocks' = {}, NothingYet', IsOneMemory', PagesCounted', LinkedOrMisled',
         past'.reset = "none" /\ allocator'.type = "dynamic" => allocator'.total = 0
  PROVE  AllocatorInv'
<1>1. BlocksLaid'
  BY NoneLaid DEF BlocksLaid
<1>2. TotalIsSum'
  BY SumOfNone DEF TotalIsSum
<1>3. QED
  BY <1>1, <1>2 DEF AllocatorInv

LEMMA EmptiedCounted ==
  ASSUME AllocatorInv, Linked(page, allocator.current), allocator.current # NoPage, Emptied(Kept),
         past'.wide = past.wide
  PROVE  PagesCounted'
<1>1. /\ page' \in [Pages -> PageKind] /\ Kept \in Pages /\ LivePages' = {Kept} /\ page'[Kept].used = 0
      /\ ~past.wide => page'[Kept].left <= page'[Kept].size
  BY EmptiedPages
<1>2. 0 \in Multiples(Alignment)
  BY WidthFacts, ZeroIsMultiple
<1>3. page'[Kept].left \in Nat
  BY <1>1 DEF PageKind
<1> DEFINE k == Kept
<1> HIDE DEF k
<1>4. LivePages' = {k} /\ page'[k].used = 0 /\ page'[k].left \in Nat /\ (~past.wide => page'[k].left <= page'[k].size)
  BY <1>1, <1>3 DEF k
<1>5. ~past'.wide => page'[k].used + page'[k].left <= page'[k].size
  BY <1>4
<1>6. QED
  BY <1>2, <1>4, <1>5 DEF PagesCounted

LEMMA ResetDynamicKeeps ==
  ASSUME AllocatorInv, ResetDynamic
  PROVE  AllocatorInv'
<1>1. /\ allocator.type = "dynamic" /\ Chain(allocator.current) \subseteq LivePages
      /\ IF allocator.current = NoPage THEN allocator' = [allocator EXCEPT !.total = 0] /\ UNCHANGED page
         ELSE Emptied(Kept) /\ allocator' = [allocator EXCEPT !.current = Kept, !.total = 0]
      /\ blocks' = {} /\ past' = past
  BY DEF ResetDynamic
<1>2. past.reset # "older" /\ Linked(page, allocator.current)
  BY <1>1, CallsFindPages
<1>3. AllocatorTypes /\ PagesCounted
  BY DEF AllocatorInv
<1>4. allocator \in [type : {"none", "dynamic", "linear", "crashed"}, current : Pages \cup {NoPage}, total : Nat]
  BY <1>3 DEF AllocatorTypes
<1>5. CASE allocator.current = NoPage
  <2>1. allocator' = [allocator EXCEPT !.total = 0] /\ page' = page
    BY <1>1, <1>5
  <2>2. allocator'.type = "dynamic" /\ allocator'.current = allocator.current /\ allocator'.total = 0
    BY <1>1, <1>4, <2>1
  <2>3. allocator' \in [type : {"none", "dynamic", "linear", "crashed"}, current : Pages \cup {NoPage}, total : Nat]
    BY <1>4, <2>1
  <2>4. AllocatorTypes'
    BY <1>1, <1>3, <2>1, <2>3, FS_EmptySet DEF AllocatorTypes
  <2>5. NothingYet' /\ IsOneMemory'
    BY <2>2 DEF NothingYet, IsOneMemory
  <2>6. PagesCounted'
    BY <1>1, <1>3, <2>1, <2>2 DEF PagesCounted, LivePages
  <2>7. LinkedOrMisled'
    BY <1>1, <1>2, <2>1, <2>2 DEF LinkedOrMisled
  <2>8. QED
    BY <1>1, <2>2, <2>4, <2>5, <2>6, <2>7, NoBlocksKeep
<1>6. CASE allocator.current # NoPage
  <2>1. Emptied(Kept) /\ allocator' = [allocator EXCEPT !.current = Kept, !.total = 0]
    BY <1>1, <1>6
  <2>2. /\ page' \in [Pages -> PageKind] /\ Kept \in Pages /\ LiveIn(page') = {Kept}
        /\ page'[Kept].previous = NoPage
    BY <1>2, <1>6, <2>1, EmptiedPages
  <2>3. PagesCounted'
    BY <1>1, <1>2, <1>6, <2>1, EmptiedCounted
  <2> DEFINE k == Kept
  <2> HIDE DEF k
  <2>4. allocator' = [allocator EXCEPT !.current = k, !.total = 0] /\ k \in Pages
    BY <2>1, <2>2 DEF k
  <2>5. allocator'.type = "dynamic" /\ allocator'.current = k /\ allocator'.total = 0
    BY <1>1, <1>4, <2>4
  <2>6. allocator' \in [type : {"none", "dynamic", "linear", "crashed"}, current : Pages \cup {NoPage}, total : Nat]
    BY <1>4, <2>4
  <2>7. AllocatorTypes'
    BY <1>1, <1>3, <2>2, <2>6, FS_EmptySet DEF AllocatorTypes
  <2>8. NothingYet' /\ IsOneMemory'
    BY <2>5 DEF NothingYet, IsOneMemory
  <2>9. Linked(page', k)
    BY <2>2, LinkedAlone DEF k
  <2>10. LinkedOrMisled'
    BY <1>1, <1>2, <2>5, <2>9 DEF LinkedOrMisled
  <2>11. QED
    BY <1>1, <2>3, <2>5, <2>7, <2>8, <2>10, NoBlocksKeep
<1>7. QED
  BY <1>5, <1>6
(* Of a linear allocator, too, the pages are linked.                        *)
LEMMA LinearIsLinked ==
  ASSUME AllocatorInv, allocator.type = "linear"
  PROVE  /\ past.reset # "older" /\ Linked(page, allocator.current)
         /\ page \in [Pages -> PageKind] /\ page[1] \in PageKind
<1>1. AllocatorTypes /\ LinkedOrMisled
  BY DEF AllocatorInv
<1>2. past.reset # "older" /\ Linked(page, allocator.current)
  BY <1>1 DEF LinkedOrMisled
<1>3. page \in [Pages -> PageKind]
  BY <1>1 DEF AllocatorTypes
<1>4. QED
  BY <1>2, <1>3, PageNumbers

LEMMA ResetLinearKeeps ==
  ASSUME AllocatorInv, ResetLinear
  PROVE  AllocatorInv'
<1>1. /\ allocator.type = "linear" /\ page' = [page EXCEPT ![1].used = 0] /\ blocks' = {}
      /\ allocator' = allocator /\ past' = past
  BY DEF ResetLinear
<1>2. AllocatorTypes /\ IsOneMemory /\ PagesCounted /\ TotalIsSum
  BY DEF AllocatorInv
<1>3. past.reset # "older" /\ Linked(page, allocator.current) /\ page \in [Pages -> PageKind] /\ page[1] \in PageKind
  BY <1>1, LinearIsLinked
<1> DEFINE here == page[1]
           anew == [here EXCEPT !.used = 0]
<1>4. here \in PageKind /\ here.live /\ here.left = 0 /\ here.size < Width32
  BY <1>1, <1>2, <1>3 DEF IsOneMemory
<1>5. page' = [page EXCEPT ![1] = anew]
  BY <1>1
<1> HIDE DEF here
<1>6. /\ anew \in PageKind /\ anew.live /\ anew.left = 0 /\ anew.size = here.size /\ anew.used = 0
      /\ anew.previous = here.previous /\ anew.size \in Nat
  BY <1>4 DEF PageKind
<1> HIDE DEF anew
<1>7. page'[1] = anew /\ (\A p \in Pages \ {1} : page'[p] = page[p]) /\ page' \in [Pages -> PageKind]
  BY <1>3, <1>5, <1>6, PageNumbers
<1>8. AllocatorTypes'
  BY <1>1, <1>2, <1>7, FS_EmptySet DEF AllocatorTypes
<1>9. NothingYet'
  BY <1>1 DEF NothingYet
<1>10. IsOneMemory'
  <2>1. page'[1].live /\ page'[1].left = 0 /\ page'[1].size < Width32 /\ page'[1].used <= page'[1].size
    BY ONLY <1>4, <1>6, <1>7
  <2>2. allocator'.current = 1
    BY <1>1, <1>2 DEF IsOneMemory
  <2>3. QED
    BY <2>1, <2>2 DEF IsOneMemory
<1>11. here.live = page[1].live /\ here.previous = page[1].previous /\ here.size = page[1].size
  BY DEF here
<1>12. \A p \in Pages : page'[p].live = page[p].live /\ page'[p].previous = page[p].previous
  BY <1>4, <1>6, <1>7, <1>11
<1>13. Linked(page', allocator.current)
  BY <1>3, <1>12, LinkedStays
<1>14. LinkedOrMisled'
  BY <1>1, <1>3, <1>13 DEF LinkedOrMisled
<1>15. PagesCounted'
  <2>1. ASSUME ~past'.wide, NEW p \in Pages, page'[p].live
        PROVE  page'[p].used + page'[p].left <= page'[p].size
    <3>1. CASE p = 1
      BY <1>6, <1>7, <3>1
    <3>2. CASE p # 1
      <4>1. page'[p] = page[p]
        BY <1>7, <3>2
      <4>2. QED
        BY <1>1, <1>2, <2>1, <4>1 DEF PagesCounted, LivePages
    <3>3. QED
      BY <3>1, <3>2
  <2>2. QED
    BY <1>1, <2>1 DEF PagesCounted, LivePages
<1>16. QED
  BY <1>1, <1>8, <1>9, <1>10, <1>14, <1>15, NoBlocksKeep

(* avAllocatorReset leaves the allocator as it was: it is misled when an    *)
(* older page than its newest is kept.                                      *)
LEMMA ResetKeeps ==
  ASSUME AllocatorInv, Reset
  PROVE  AllocatorInv'
<1> DEFINE older == past.reset = "older" \/ (allocator.type = "dynamic" /\ allocator.current # NoPage
                                              /\ Kept # allocator.current)
           now == IF older THEN "older" ELSE "same"
<1>1. /\ allocator.type \in {"dynamic", "linear"}
      /\ allocator.type = "dynamic" => Chain(allocator.current) \subseteq LivePages
      /\ IF allocator.type = "dynamic" /\ allocator.current # NoPage THEN Emptied(Kept) ELSE UNCHANGED page
      /\ past' = [past EXCEPT !.reset = now] /\ blocks' = {} /\ allocator' = allocator
  BY DEF Reset
<1>2. AllocatorTypes /\ IsOneMemory /\ PagesCounted
  BY DEF AllocatorInv
<1>3. past.reset # "older" /\ Linked(page, allocator.current)
  BY <1>1, CallsFindPages, LinearIsLinked
<1>4. past \in [wide : BOOLEAN, reset : {"none", "same", "older"}] /\ allocator.current \in Pages \cup {NoPage}
  BY <1>2, TypeFacts DEF AllocatorTypes
<1>5. now \in {"same", "older"} /\ (now = "older" <=> older)
  OBVIOUS
<1>6. older <=> allocator.type = "dynamic" /\ allocator.current # NoPage /\ Kept # allocator.current
  BY <1>3
<1> HIDE DEF now, older
<1>7. past'.wide = past.wide /\ past'.reset = now /\ past' \in [wide : BOOLEAN, reset : {"none", "same", "older"}]
  BY <1>1, <1>4, <1>5
<1>8. NothingYet'
  BY <1>1 DEF NothingYet
<1>9. past'.reset # "none"
  BY <1>5, <1>7
<1>10. CASE allocator.type = "dynamic" /\ allocator.current # NoPage
  <2>1. Emptied(Kept)
    BY <1>1, <1>10
  <2>2. /\ page' \in [Pages -> PageKind] /\ Kept \in Pages /\ LiveIn(page') = {Kept}
        /\ page'[Kept].previous = NoPage
        /\ allocator.current # Kept => ~page'[allocator.current].live
    BY <1>3, <1>10, <2>1, EmptiedPages
  <2>3. PagesCounted'
    BY <1>3, <1>7, <1>10, <2>1, EmptiedCounted
  <2> DEFINE k == Kept
  <2>4. k \in Pages /\ LiveIn(page') = {k} /\ page'[k].previous = NoPage
        /\ (allocator.current # k => ~page'[allocator.current].live)
        /\ (older <=> k # allocator.current)
    BY <1>6, <1>10, <2>2
  <2> HIDE DEF k
  <2>5. AllocatorTypes'
    BY <1>1, <1>2, <1>7, <2>2, FS_EmptySet DEF AllocatorTypes
  <2>6. IsOneMemory'
    BY <1>1, <1>10 DEF IsOneMemory
  <2>7. Linked(page', k)
    BY <2>4, LinkedAlone
  <2>8. ASSUME older PROVE LinkedOrMisled'
    <3>1. past'.reset = "older" /\ ~page[allocator.current]'.live /\ allocator.current \in Pages
      BY <1>1, <1>4, <1>5, <1>7, <1>10, <2>4, <2>8
    <3>2. allocator'.type = "dynamic" /\ allocator'.current = allocator.current
      BY <1>1, <1>10
    <3>3. QED
      BY <3>1, <3>2 DEF LinkedOrMisled
  <2>9. ASSUME ~older PROVE LinkedOrMisled'
    <3>1. past'.reset # "older" /\ allocator'.current = k
      BY <1>1, <1>5, <1>7, <2>4, <2>9
    <3>2. QED
      BY <1>1, <1>10, <2>7, <3>1 DEF LinkedOrMisled
  <2>10. QED
    BY <1>1, <1>8, <1>9, <2>3, <2>5, <2>6, <2>8, <2>9, NoBlocksKeep
<1>11. CASE ~(allocator.type = "dynamic" /\ allocator.current # NoPage)
  <2>1. page' = page
    BY <1>1, <1>11
  <2>2. past'.reset # "older"
    BY <1>5, <1>6, <1>7, <1>11
  <2>3. AllocatorTypes'
    BY <1>1, <1>2, <1>7, <2>1, FS_EmptySet DEF AllocatorTypes
  <2>4. IsOneMemory'
    BY <1>1, <1>2, <2>1 DEF IsOneMemory
  <2>5. PagesCounted'
    BY <1>1, <1>2, <1>7, <2>1 DEF PagesCounted, LivePages
  <2>6. LinkedOrMisled'
    BY <1>1, <1>3, <2>1, <2>2 DEF LinkedOrMisled
  <2>7. QED
    BY <1>1, <1>8, <1>9, <2>3, <2>4, <2>5, <2>6, NoBlocksKeep
<1>12. QED
  BY <1>10, <1>11

LEMMA UseFreedKeeps ==
  ASSUME AllocatorInv, UseFreed
  PROVE  AllocatorInv'
<1>1. /\ allocator.type = "dynamic" /\ ~(Chain(allocator.current) \subseteq LivePages)
      /\ allocator' = [allocator EXCEPT !.type = "crashed"] /\ page' = page /\ blocks' = blocks /\ past' = past
  BY DEF UseFreed
<1>2. AllocatorTypes /\ BlocksLaid /\ PagesCounted /\ LinkedOrMisled
  BY DEF AllocatorInv
<1>3. allocator \in [type : {"none", "dynamic", "linear", "crashed"}, current : Pages \cup {NoPage}, total : Nat]
  BY <1>2 DEF AllocatorTypes
<1>4. allocator'.type = "crashed" /\ allocator'.current = allocator.current
      /\ allocator' \in [type : {"none", "dynamic", "linear", "crashed"}, current : Pages \cup {NoPage}, total : Nat]
  BY <1>1, <1>3
<1>5. past.reset = "older"
  <2>1. ASSUME past.reset # "older" PROVE FALSE
    <3>1. Linked(page, allocator.current)
      BY <1>2, <2>1 DEF LinkedOrMisled
    <3>2. LivePages = Chain(allocator.current)
      BY <1>2, <3>1, TypeFacts, LinkedChain, ChainIsInPages
    <3>3. QED
      BY <1>1, <3>2
  <2>2. QED
    BY <2>1
<1>6. AllocatorTypes'
  BY <1>1, <1>2, <1>4 DEF AllocatorTypes
<1>7. NothingYet' /\ IsOneMemory' /\ TotalIsSum'
  BY <1>4 DEF NothingYet, IsOneMemory, TotalIsSum
<1>8. BlocksLaid'
  <2>1. Start' = Start
    BY <1>1, <1>4 DEF Start
  <2>2. QED
    BY <1>1, <1>2, <2>1 DEF BlocksLaid
<1>9. PagesCounted'
  BY <1>1, <1>2 DEF PagesCounted, LivePages
<1>10. LinkedOrMisled'
  BY <1>1, <1>2, <1>4, <1>5 DEF LinkedOrMisled
<1>11. QED
  BY <1>6, <1>7, <1>8, <1>9, <1>10 DEF AllocatorInv

LEMMA DestroyKeeps ==
  ASSUME AllocatorInv, AllocatorDestroy
  PROVE  AllocatorInv'
<1>1. /\ Chain(allocator.current) \subseteq LivePages
      /\ page' = [p \in Pages |-> IF p \in Chain(allocator.current) THEN Freed ELSE page[p]]
      /\ allocator' = None /\ blocks' = {} /\ past' = past
  BY DEF AllocatorDestroy
<1>2. AllocatorTypes
  BY DEF AllocatorInv
<1>3. past.reset # "older" /\ LivePages = Chain(allocator.current)
  BY <1>1, CallsFindPages
<1>4. None = [type |-> "none", current |-> NoPage, total |-> 0]
  BY DEF None
<1>5. page \in [Pages -> PageKind]
  BY <1>2 DEF AllocatorTypes
<1>6. \A p \in Pages : page'[p] = IF p \in LivePages THEN Freed ELSE page[p]
  BY <1>1, <1>3
<1>7. \A p \in Pages : page'[p] \in PageKind /\ ~page'[p].live
  BY <1>5, <1>6, FreedFacts DEF LivePages
<1>8. page' \in [Pages -> PageKind]
  <2>1. DOMAIN page' = Pages /\ page' = [p \in DOMAIN page' |-> page'[p]]
    BY <1>1
  <2>2. QED
    BY <1>7, <2>1
<1>9. LiveIn(page') = {} /\ LivePages' = {}
  BY <1>7 DEF LiveIn, LivePages
<1>10. AllocatorTypes'
  BY <1>1, <1>2, <1>4, <1>8, FS_EmptySet DEF AllocatorTypes
<1>11. NothingYet' /\ IsOneMemory' /\ PagesCounted'
  BY <1>1, <1>4, <1>9 DEF NothingYet, IsOneMemory, PagesCounted
<1>12. LinkedOrMisled'
  BY <1>1, <1>3, <1>4, <1>9, LinkedNone DEF LinkedOrMisled
<1>13. QED
  BY <1>1, <1>4, <1>10, <1>11, <1>12, NoBlocksKeep

LEMMA AllocatorUnchanged ==
  ASSUME AllocatorInv, UNCHANGED allocatorVars
  PROVE  AllocatorInv'
<1>1. allocator' = allocator /\ page' = page /\ blocks' = blocks /\ past' = past
  BY DEF allocatorVars
<1>2. QED
  BY <1>1 DEF AllocatorInv, AllocatorTypes, NothingYet, IsOneMemory, BlocksLaid, PagesCounted,
              LinkedOrMisled, TotalIsSum, LivePages, Start

LEMMA AllocatorInvStep ==
  ASSUME AllocatorInv, AllocatorNext
  PROVE  AllocatorInv'
<1>1. Sizes \subseteq Nat /\ Alignments \subseteq Nat \ {0}
  BY AllocationsAreCounted
<1>2. ASSUME CreateDynamic(0) PROVE AllocatorInv'
  BY <1>2, CreateDynamicKeeps
<1>3. ASSUME NEW size \in Sizes, CreateDynamic(size) PROVE AllocatorInv'
  BY <1>1, <1>3, CreateDynamicKeeps
<1>4. ASSUME NEW size \in Sizes, CreateLinear(size) PROVE AllocatorInv'
  BY <1>1, <1>4, CreateLinearKeeps
<1>5. ASSUME NEW size \in Sizes, AllocateDynamic(size) PROVE AllocatorInv'
  BY <1>1, <1>5, AllocateDynamicKeeps
<1>6. ASSUME NEW size \in Sizes, NEW alignment \in Alignments, AllocateLinear(size, alignment) PROVE AllocatorInv'
  BY <1>1, <1>6, AllocateLinearKeeps
<1>7. ASSUME allocator.type = "crashed" /\ UNCHANGED allocatorVars PROVE AllocatorInv'
  BY <1>7, AllocatorUnchanged
<1>8. QED
  BY <1>2, <1>3, <1>4, <1>5, <1>6, <1>7, ResetDynamicKeeps, ResetLinearKeeps, ResetKeeps, UseFreedKeeps,
     DestroyKeeps DEF AllocatorNext
================================================================================
