------------------------------- MODULE MCPlatform -------------------------------
(***************************************************************************)
(* The components that stand between the program and the operating system, *)
(* checked in one run: the subject is chosen at the start, and the others  *)
(* stay as they are.                                                       *)
(***************************************************************************)
EXTENDS Synchronisation, Processes, Files, Directories

VARIABLE subject

platformVars == <<subject, syncVars, processVars, fileVars, deleteVars>>

(* Only the subject starts in all of its initial states.                   *)
Init ==
    /\ subject \in {"sync", "process", "file", "delete"}
    /\ SyncInit /\ ProcessInit /\ FileInit /\ DeleteInit
    /\ subject # "sync" => kind = "none"
    /\ subject # "delete" => tree = CHOOSE t \in Trees : TRUE

Next ==
    \/ subject = "sync" /\ SyncNext /\ UNCHANGED <<subject, processVars, fileVars, deleteVars>>
    \/ subject = "process" /\ ProcessNext /\ UNCHANGED <<subject, syncVars, fileVars, deleteVars>>
    \/ subject = "file" /\ FileNext /\ UNCHANGED <<subject, syncVars, processVars, deleteVars>>
    \/ subject = "delete" /\ DeleteNext /\ UNCHANGED <<subject, syncVars, processVars, fileVars>>

(* What is fair in a component that is not the subject is not enabled.     *)
Spec == Init /\ [][Next]_platformVars /\ SyncFairness /\ ProcessFairness
================================================================================
