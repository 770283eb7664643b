--------------------------------- MODULE Arrays ---------------------------------
(***************************************************************************)
(* src/dataStructures/avArray.c: an array whose elements are resources,    *)
(* and the callbacks that give them back when the array is freed.          *)
(***************************************************************************)
EXTENDS Integers, FiniteSets

CONSTANTS Resources,   (* what the elements refer to                        *)
          NoResource,
          MaxCount,    (* bound: how many elements                          *)
          MaxReleases  (* bound: how far the times one is given back are counted *)

ASSUME ArrayBounds == MaxCount \in Nat /\ MaxReleases \in Nat \ {0}

VARIABLES array,       (* the AvArray; count 0 when it is zero              *)
          released,    (* released[r]: how often a callback was given r     *)
          lost,        (* resources no array holds any more, never released *)
          kept         (* resources a callback was given that their array still held *)

arrayVars == <<array, released, lost, kept>>

Zeroed == [count |-> 0, data |-> <<>>, callback |-> "none"]
Held == {array.data[i] : i \in 1..array.count} \ {NoResource}

ArrayInit ==
    /\ array = Zeroed
    /\ released = [r \in Resources |-> 0]
    /\ lost = {}
    /\ kept = {}

(* avArrayAllocateWithFreeCallback; avArrayAllocate gives no callback.     *)
ArrayAllocate(n, callback) ==
    /\ array.count = 0
    /\ array' = [count |-> n, data |-> [i \in 1..n |-> NoResource], callback |-> callback]
    /\ UNCHANGED <<released, lost, kept>>

(* avArrayWrite of a resource that is new, false outside of the array.     *)
ArrayWrite(i, r) ==
    /\ i \in 1..array.count
    /\ r \notin Held \cup lost /\ released[r] = 0
    /\ array' = [array EXCEPT !.data[i] = r]
    /\ lost' = lost \cup ({array.data[i]} \ {NoResource})
    /\ UNCHANGED <<released, kept>>

(* avArrayDeallocateElements, avArrayDestroyElements                       *)
Given ==
    released' = [r \in Resources |->
        IF r \in Held /\ released[r] < MaxReleases THEN released[r] + 1 ELSE released[r]]

(* avArrayFree of an array that destroys its elements.                     *)
ArrayFreeDestroy ==
    /\ array.callback = "destroy"
    /\ Given
    /\ array' = Zeroed
    /\ UNCHANGED <<lost, kept>>

(* avArrayFree of an array that deallocates its elements returns early,    *)
(* and the array still holds them.                                         *)
ArrayFreeDeallocate ==
    /\ array.callback = "deallocate"
    /\ Given
    /\ kept' = kept \cup Held
    /\ UNCHANGED <<array, lost>>

(* avArrayFree without a callback, also of an array that was freed.        *)
ArrayFreePlain ==
    /\ array.callback = "none"
    /\ array' = Zeroed
    /\ lost' = lost \cup Held
    /\ UNCHANGED <<released, kept>>

(* avArrayFreeAndDestroy, avArrayFreeAndDeallocate, with any callback.     *)
ArrayFreeAnd ==
    /\ array.count # 0
    /\ Given
    /\ array' = Zeroed
    /\ UNCHANGED <<lost, kept>>

ArrayNext ==
    \/ ArrayFreeDestroy \/ ArrayFreeDeallocate \/ ArrayFreePlain \/ ArrayFreeAnd
    \/ \E n \in 1..MaxCount, callback \in {"none", "destroy", "deallocate"} : ArrayAllocate(n, callback)
    \/ \E i \in 1..MaxCount, r \in Resources : ArrayWrite(i, r)

--------------------------------------------------------------------------------

(* Every resource is in the array, given back once, or lost by the         *)
(* program's own doing.  Only what avArrayFree gave back and left in its   *)
(* array, for its deallocation callback, is given back again, by the calls *)
(* that free the array then; no other resource of that array is.           *)
ReleasedOnce ==
    /\ \A r \in Resources \ kept : released[r] <= 1
    /\ \A r \in (Held \cup lost) \ kept : released[r] = 0
    /\ \A r \in kept : released[r] >= 1
    /\ Held \cap kept # {} => array.callback = "deallocate"
================================================================================
