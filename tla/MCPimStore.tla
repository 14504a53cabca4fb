----------------------------- MODULE MCPimStore -----------------------------
(***************************************************************************)
(* Two instances of PimStore for TLC, one to a behaviour: many faults on   *)
(* a disk whose files can be read, and a single fault that may also be a   *)
(* file that cannot be read for a moment.  Processes and mutations are     *)
(* interchangeable.                                                        *)
(***************************************************************************)
EXTENDS PimStore, TLC

VARIABLE instance

OneFault == INSTANCE PimStore WITH ReadsFail <- TRUE, MaxFaults <- 1

PimInit == Init /\ instance \in {"many", "unreadable"}
PimNext ==
    /\ \/ instance = "many" /\ Next
       \/ instance = "unreadable" /\ OneFault!Next
    /\ UNCHANGED instance
PimSpec == PimInit /\ [][PimNext]_<<vars, instance>>

ProcessSymmetry == Permutations(Procs) \cup Permutations(Updates)

=============================================================================
