---------------------------------- MODULE Maps ----------------------------------
(***************************************************************************)
(* src/dataStructures/avFMap.c: slots of data found by a hash of the key.  *)
(* Nothing keeps two keys with one hash apart.                             *)
(***************************************************************************)
EXTENDS Integers

CONSTANTS Keys,      (* keys, as the sums of their bytes                    *)
          Data,      (* what a slot holds; 0 is what avCallocate gives      *)
          MapSize    (* how many slots                                      *)

ASSUME HashesAreSlots == MapSize \in Nat \ {0} /\ Keys \subseteq Nat

VARIABLES slot,      (* slot[i]: the data of slot i                         *)
          buffer,    (* the buffer the program passes to every call         *)
          stored,    (* stored[k]: what the program last stored for k       *)
          clobbered  (* keys that another key was stored over since         *)

mapVars == <<slot, buffer, stored, clobbered>>

(* defaultHashFunction *)
Hash(k) == k % MapSize

MapInit ==
    /\ slot = [i \in 0..(MapSize - 1) |-> 0]
    /\ buffer = 0
    /\ stored = [k \in Keys |-> 0]
    /\ clobbered = {}

(* The program fills its buffer.                                           *)
Fill(d) == buffer' = d /\ UNCHANGED <<slot, stored, clobbered>>

(* avFMapWrite copies the slot to the buffer.                              *)
MapWrite(k) ==
    /\ buffer' = slot[Hash(k)]
    /\ UNCHANGED <<slot, stored, clobbered>>

(* avFMapRead copies the buffer to the slot.                               *)
MapRead(k) ==
    /\ slot' = [slot EXCEPT ![Hash(k)] = buffer]
    /\ stored' = [stored EXCEPT ![k] = buffer]
    /\ clobbered' = (clobbered \cup {j \in Keys : Hash(j) = Hash(k)}) \ {k}
    /\ UNCHANGED buffer

(* avFMapClear, with data or without.                                      *)
MapClear(d) ==
    /\ slot' = [i \in DOMAIN slot |-> d]
    /\ stored' = [k \in Keys |-> d]
    /\ clobbered' = {}
    /\ UNCHANGED buffer

MapNext ==
    \/ \E k \in Keys : MapWrite(k) \/ MapRead(k)
    \/ \E d \in Data : Fill(d) \/ MapClear(d)

--------------------------------------------------------------------------------

(* The map keeps for every key what avFMapRead was given for that key, or  *)
(* avFMapClear since, unless another key with its hash was stored over it; *)
(* a key that shares its hash with no other never loses its data.          *)
KeysKeepTheirData ==
    \A k \in Keys :
        slot[Hash(k)] # stored[k] => k \in clobbered /\ \E j \in Keys \ {k} : Hash(j) = Hash(k)
================================================================================
