------------------------------ MODULE MCContainers ------------------------------
(***************************************************************************)
(* The components that keep data in memory, checked in one run: the        *)
(* subject is chosen at the start, and the others stay as they are.        *)
(***************************************************************************)
EXTENDS AvQueue, AllocationList, Allocators, Grid, Table, BitField, Maps, Arrays, Times

VARIABLE subject

ShortYear == <<3, 2>>

memoryVars == <<listVars, allocatorVars, arrayVars>>
cellVars == <<grid, tableVars, bitVars, mapVars>>
containerVars == <<subject, queueVars, memoryVars, cellVars, timeVars>>

(* Only the subject starts in all of its initial states.                   *)
ContainersInit ==
    /\ subject \in {"queue", "list", "allocator", "grid", "table", "bits", "map", "array", "time"}
    /\ Init /\ ListInit /\ AllocatorInit /\ GridInit /\ TableInit /\ BitInit /\ MapInit /\ ArrayInit /\ TimeInit
    /\ subject # "table" => columnSizes = <<1>>
    /\ subject # "bits" => bitCount = 1
    /\ subject # "time" => first = FromNumber(0) /\ second = FromNumber(0)

ContainersNext ==
    /\ UNCHANGED subject
    /\ \/ subject = "queue" /\ Next /\ UNCHANGED <<memoryVars, cellVars, timeVars>>
       \/ subject = "time" /\ TimeNext /\ UNCHANGED <<queueVars, memoryVars, cellVars>>
       \/ /\ UNCHANGED <<queueVars, cellVars, timeVars>>
          /\ \/ subject = "list" /\ ListNext /\ UNCHANGED <<allocatorVars, arrayVars>>
             \/ subject = "allocator" /\ AllocatorNext /\ UNCHANGED <<listVars, arrayVars>>
             \/ subject = "array" /\ ArrayNext /\ UNCHANGED <<listVars, allocatorVars>>
       \/ /\ UNCHANGED <<queueVars, memoryVars, timeVars>>
          /\ \/ subject = "grid" /\ GridNext /\ UNCHANGED <<tableVars, bitVars, mapVars>>
             \/ subject = "table" /\ TableNext /\ UNCHANGED <<grid, bitVars, mapVars>>
             \/ subject = "bits" /\ BitNext /\ UNCHANGED <<grid, tableVars, mapVars>>
             \/ subject = "map" /\ MapNext /\ UNCHANGED <<grid, tableVars, bitVars>>

(* What is fair in a list that is not the subject is not enabled.          *)
ContainersSpec == ContainersInit /\ [][ContainersNext]_containerVars /\ ListFairness

(* The list of allocations, the grid, the table, the bit field, the map,   *)
(* the array and dates keep what their calls promise; each part is stated  *)
(* in its module.                                                          *)
ContainersSound ==
    CASE subject = "list" -> ListSound
      [] subject = "grid" -> GridSound
      [] subject = "table" -> TableSound
      [] subject = "bits" -> CountIsOfTests
      [] subject = "map" -> KeysKeepTheirData
      [] subject = "array" -> ReleasedOnce
      [] subject = "time" -> TimeSound
      [] OTHER -> TRUE

(* Calls on the list end, and bits are not lost.                           *)
ContainersMove == ListCallsEnd /\ BitsOnlyGather
================================================================================
