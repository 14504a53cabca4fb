----------------------------- MODULE MCJsonStore -----------------------------
(***************************************************************************)
(* Three instances of JsonStore for TLC, one to a behaviour: three updates *)
(* and few faults, so that a backup is replaced twice, and two updates     *)
(* with many faults on a platform that stamps a copy (posix) and on one    *)
(* that keeps the source's mtime (windows).                                *)
(***************************************************************************)
EXTENDS JsonStore

CONSTANTS FewUpdates,  \* a part of Updates
          ManyFaults

VARIABLE instance

Posix == INSTANCE JsonStore WITH Updates <- FewUpdates, MaxFaults <- ManyFaults
Windows == INSTANCE JsonStore WITH Updates <- FewUpdates, MaxFaults <- ManyFaults, CopyKeepsMtime <- TRUE

StoreInit == Init /\ instance \in {"longer", "posix", "windows"}
StoreNext ==
    /\ \/ instance = "longer" /\ Next
       \/ instance = "posix" /\ Posix!Next
       \/ instance = "windows" /\ Windows!Next
    /\ UNCHANGED instance
(* The promise chain of a running operation keeps being scheduled.         *)
Continues ==
    /\ \/ instance = "longer" /\ Step
       \/ instance = "posix" /\ Posix!Step
       \/ instance = "windows" /\ Windows!Step
    /\ UNCHANGED instance
StoreSpec == StoreInit /\ [][StoreNext]_<<vars, instance>> /\ WF_<<vars, instance>>(Continues)

(* Where copyFile stamps the copy, what readers were shown outlives the    *)
(* process, also an update that was reported as failed after its rename    *)
(* and came back with the next load.                                       *)
ShownOutlives == instance # "windows" => ShownSurvives
=============================================================================
