----------------------------- MODULE GridFreeze -----------------------------
(***************************************************************************)
(* What the settings of a Sound Necklace project promise, said without     *)
(* rows, locks or requests: its granularity level and the length of its    *)
(* bead are each chosen once, the level first or both together, and never  *)
(* change again.  SnGrid is shown to implement it.                         *)
(***************************************************************************)
CONSTANTS Levels, Beads, NULL

VARIABLES level, bead

Init == level = NULL /\ bead = NULL

Confirm(l) == level = NULL /\ level' = l /\ UNCHANGED bead

Cut(b) ==
    /\ bead = NULL /\ bead' = b
    /\ \E l \in Levels : level \in {NULL, l} /\ level' = l

Next == (\E l \in Levels : Confirm(l)) \/ (\E b \in Beads : Cut(b))

Spec == Init /\ [][Next]_<<level, bead>>

=============================================================================
