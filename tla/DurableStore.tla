---------------------------- MODULE DurableStore ----------------------------
(***************************************************************************)
(* What a persistent store promises its callers.                           *)
(*                                                                         *)
(* The store holds a set of updates.  An update takes effect on its own    *)
(* and at once.  An update nobody was told of may be lost again to a       *)
(* crash; one that was acknowledged to its caller, or shown to a reader,   *)
(* stays.                                                                  *)
(***************************************************************************)
CONSTANT Updates    \* what callers may add to the store

VARIABLES
    val,        \* the updates in effect
    promised    \* the updates some caller knows to be in effect

dvars == <<val, promised>>

Init == val = {} /\ promised = {}

Apply(u) ==
    /\ u \notin val
    /\ val' = val \cup {u}
    /\ UNCHANGED promised

Promise ==
    /\ promised' \in SUBSET val
    /\ promised \subseteq promised'
    /\ UNCHANGED val

Lose ==
    /\ val' \in SUBSET val
    /\ promised \subseteq val'
    /\ UNCHANGED promised

Next == (\E u \in Updates : Apply(u)) \/ Promise \/ Lose

Spec == Init /\ [][Next]_dvars
=============================================================================
