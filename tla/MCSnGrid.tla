------------------------------ MODULE MCSnGrid ------------------------------
(***************************************************************************)
(* An instance of SnGrid: three lengths, of which two are the same up to   *)
(* rounding.                                                               *)
(***************************************************************************)
EXTENDS SnGrid

CONSTANTS b1, b2, b3

MCClose == {<<b, b>> : b \in Beads} \cup ({<<b1, b2>>, <<b2, b1>>} \cap (Beads \X Beads))

=============================================================================
