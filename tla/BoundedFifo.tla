------------------------------ MODULE BoundedFifo ------------------------------
(***************************************************************************)
(* What avQueue.h promises: each queue is a first-in first-out buffer that *)
(* holds at most as many elements as it was created for; a clone is an     *)
(* independent queue with the same elements and the same room.             *)
(***************************************************************************)
EXTENDS Naturals, Sequences

CONSTANTS Handles,  (* the queues' handles                           *)
          Elements, (* what is put in queues                         *)
          MaxSize   (* bound: the largest queue that is created      *)

VARIABLES contents, (* the elements of each queue, oldest first      *)
          size,     (* its capacity; 0 for a handle without a queue  *)
          result    (* what the last call returned                   *)

fifoVars == <<contents, size, result>>

Init ==
    /\ contents = [q \in Handles |-> <<>>]
    /\ size = [q \in Handles |-> 0]
    /\ result = "none"

New(q, n) ==
    /\ size[q] = 0
    /\ contents' = [contents EXCEPT ![q] = <<>>]
    /\ size' = [size EXCEPT ![q] = n]
    /\ UNCHANGED result

Put(q, e) ==
    /\ Len(contents[q]) < size[q]
    /\ contents' = [contents EXCEPT ![q] = Append(@, e)]
    /\ result' = "ok"
    /\ UNCHANGED size

PutFull(q) ==
    /\ size[q] # 0 /\ Len(contents[q]) = size[q]
    /\ result' = "full"
    /\ UNCHANGED <<contents, size>>

Get(q) ==
    /\ Len(contents[q]) > 0
    /\ result' = Head(contents[q])
    /\ contents' = [contents EXCEPT ![q] = Tail(@)]
    /\ UNCHANGED size

GetEmpty(q) ==
    /\ size[q] # 0 /\ Len(contents[q]) = 0
    /\ result' = "empty"
    /\ UNCHANGED <<contents, size>>

Copy(p, q) ==
    /\ size[p] # 0 /\ size[q] = 0
    /\ contents' = [contents EXCEPT ![q] = contents[p]]
    /\ size' = [size EXCEPT ![q] = size[p]]
    /\ UNCHANGED result

Drop(q) ==
    /\ contents' = [contents EXCEPT ![q] = <<>>]
    /\ size' = [size EXCEPT ![q] = 0]
    /\ UNCHANGED result

Next == \E q \in Handles :
    \/ \E n \in 1..MaxSize : New(q, n)
    \/ \E e \in Elements : Put(q, e)
    \/ PutFull(q) \/ Get(q) \/ GetEmpty(q) \/ Drop(q)
    \/ \E p \in Handles : Copy(p, q)

Spec == Init /\ [][Next]_fifoVars
================================================================================
