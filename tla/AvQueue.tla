-------------------------------- MODULE AvQueue --------------------------------
(***************************************************************************)
(* src/dataStructures/avQueue.c: a bounded queue in a ring of slots.  The  *)
(* element at position i, counted from the oldest, is in slot              *)
(* (head + i) mod size.                                                    *)
(*                                                                         *)
(* A call whose arguments the code turns away without a trace (a NULL      *)
(* element, avQueueCreate with a size of 0, which leaves the handle        *)
(* unset) changes nothing and is not an action.                            *)
(***************************************************************************)
EXTENDS Naturals, Sequences

CONSTANTS Handles,   (* AvQueue handles                                   *)
          Elements,  (* the elements                                      *)
          Zero,      (* what avCallocate puts in a slot                   *)
          MaxSize    (* bound: the largest queueSize a queue is made with *)

ASSUME MaxSizeIsPositive == MaxSize \in Nat \ {0}
ASSUME ZeroIsNoElement == Zero \notin Elements

VARIABLES queue,  (* queue[q]: the AvQueue_T behind q; size is 0 when there is none *)
          result  (* what the last avQueuePush or avQueuePull returned              *)

queueVars == <<queue, result>>

NoQueue == [size |-> 0, head |-> 0, length |-> 0, data |-> <<>>]

(* getPtr *)
SlotOf(r, index) == index % r.size

Created(n) == [size |-> n, head |-> 0, length |-> 0, data |-> [s \in 0..(n - 1) |-> Zero]]

IsFull(r) == r.length = r.size
IsEmpty(r) == r.length = 0

(* Mutation: the slot is counted from the beginning of the ring. *)
PushedUnshifted(r, e) ==
    [r EXCEPT !.data[SlotOf(r, r.length)] = e, !.length = r.length + 1]

Pushed(r, e) ==
    [size |-> r.size, head |-> r.head, length |-> r.length + 1,
     data |-> [r.data EXCEPT ![SlotOf(r, r.head + r.length)] = e]]

(* Mutation: head runs past the end of the ring. *)
PulledUnwrapped(r) == [r EXCEPT !.head = r.head + 1, !.length = r.length - 1]

Pulled(r) ==
    [size |-> r.size, head |-> SlotOf(r, r.head + 1), length |-> r.length - 1,
     data |-> r.data]

Oldest(r) == r.data[SlotOf(r, r.head)]

(* avQueueClone copies the slots, not the elements: head and length go     *)
(* with them.                                                              *)
Cloned(r) == [size |-> r.size, head |-> r.head, length |-> r.length, data |-> r.data]

--------------------------------------------------------------------------------

Init ==
    /\ queue = [q \in Handles |-> NoQueue]
    /\ result = "none"

Exists(q) == queue[q].size # 0

Create(q, n) ==
    /\ ~Exists(q)
    /\ queue' = [queue EXCEPT ![q] = Created(n)]
    /\ UNCHANGED result

Destroy(q) ==
    /\ Exists(q)
    /\ queue' = [queue EXCEPT ![q] = NoQueue]
    /\ UNCHANGED result

Push(q, e) ==
    /\ Exists(q)
    /\ ~IsFull(queue[q])
    /\ queue' = [queue EXCEPT ![q] = Pushed(queue[q], e)]
    /\ result' = "ok"

PushFull(q) ==
    /\ Exists(q)
    /\ IsFull(queue[q])
    /\ result' = "full"
    /\ UNCHANGED queue

Pull(q) ==
    /\ Exists(q)
    /\ ~IsEmpty(queue[q])
    /\ result' = Oldest(queue[q])
    /\ queue' = [queue EXCEPT ![q] = Pulled(queue[q])]

PullEmpty(q) ==
    /\ Exists(q)
    /\ IsEmpty(queue[q])
    /\ result' = "empty"
    /\ UNCHANGED queue

Clone(p, q) ==
    /\ Exists(p) /\ ~Exists(q)
    /\ queue' = [queue EXCEPT ![q] = Cloned(queue[p])]
    /\ UNCHANGED result

Next == \E q \in Handles :
    \/ \E n \in 1..MaxSize : Create(q, n)
    \/ \E e \in Elements : Push(q, e)
    \/ PushFull(q) \/ Pull(q) \/ PullEmpty(q) \/ Destroy(q)
    \/ \E p \in Handles : Clone(p, q)

Spec == Init /\ [][Next]_queueVars

--------------------------------------------------------------------------------

Buffers == UNION {[0..(n - 1) -> Elements \cup {Zero}] : n \in 1..MaxSize}

Rings ==
    {r \in [size : 1..MaxSize, head : Nat, length : Nat, data : Buffers] :
        /\ r.head < r.size
        /\ r.length <= r.size
        /\ r.data \in [0..(r.size - 1) -> Elements \cup {Zero}]}

(* The queue's fields stay in range: head inside the ring, length at most  *)
(* size.                                                                   *)
TypeOK == queue \in [Handles -> {NoQueue} \cup Rings]

(* The elements of a ring, oldest first. *)
Contents(r) == [i \in 1..r.length |-> r.data[SlotOf(r, r.head + (i - 1))]]

(* The rings implement bounded first-in first-out queues, across           *)
(* wrap-around, a full ring and clones: every pull returns the element     *)
(* that was pushed first, never a slot's zero or a stale element.          *)
Fifo == INSTANCE BoundedFifo
          WITH contents <- [q \in Handles |-> Contents(queue[q])],
               size <- [q \in Handles |-> queue[q].size]
ImplementsFifo == Fifo!Spec
================================================================================
