---------------------------- MODULE MCSnEditing ----------------------------
(***************************************************************************)
(* An instance of SnEditing: two accounts with a tab each, and two         *)
(* documents.                                                              *)
(***************************************************************************)
EXTENDS SnEditing

CONSTANTS alice, bob, t1, t2

MCTabUser == [tb \in Tabs |-> IF tb = t2 THEN bob ELSE alice]

\* Two documents that open at different stations.
MCDocs == {[mode |-> "triagem", confirmed |-> TRUE],
           [mode |-> "other", confirmed |-> FALSE]}

=============================================================================
