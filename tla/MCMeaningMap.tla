---------------------------- MODULE MCMeaningMap ----------------------------
(***************************************************************************)
(* An instance of MeaningMap: two analysts, one of them an administrator,  *)
(* and two pericopes, one of which runs over a chapter's end.              *)
(***************************************************************************)
EXTENDS MeaningMap

CONSTANTS p1, p2

MCChapters == [p \in Pericopes |-> IF p = p1 THEN {1, 2} ELSE {2}]

=============================================================================
