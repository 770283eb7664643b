------------------------------ MODULE CountedPool ------------------------------
(***************************************************************************)
(* What the thread-id pool of avThread.c promises about NUMBERS of ids,    *)
(* whatever ids it hands out: never more than Total users hold an id, a    *)
(* user is refused only at an instant when all Total ids are out, and an   *)
(* id given back can be acquired again.                                    *)
(***************************************************************************)
EXTENDS Naturals, FiniteSets

CONSTANTS Users,  (* whoever acquires ids                   *)
          Total   (* how many ids there are to be acquired  *)

VARIABLES holders,  (* the users that hold an id             *)
          refused   (* the users that were told there is none *)

poolVars == <<holders, refused>>

Init == holders = {} /\ refused = {}

Acquire(u) ==
    /\ u \notin holders \cup refused
    /\ Cardinality(holders) < Total
    /\ holders' = holders \cup {u}
    /\ UNCHANGED refused

Refuse(u) ==
    /\ u \notin holders \cup refused
    /\ Cardinality(holders) = Total
    /\ refused' = refused \cup {u}
    /\ UNCHANGED holders

Release(u) ==
    /\ u \in holders
    /\ holders' = holders \ {u}
    /\ UNCHANGED refused

(* A refused user stops; it may come back later. *)
GiveUp(u) ==
    /\ u \in refused
    /\ refused' = refused \ {u}
    /\ UNCHANGED holders

Next == \E u \in Users : Acquire(u) \/ Refuse(u) \/ Release(u) \/ GiveUp(u)

Spec == Init /\ [][Next]_poolVars
================================================================================
