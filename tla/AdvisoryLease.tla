--------------------------- MODULE AdvisoryLease ---------------------------
(***************************************************************************)
(* What the single-editor lease of a Sound Necklace session promises,      *)
(* said without rows, clocks or statements: at any instant at most one     *)
(* user is the live holder, and the lease never goes from one user to      *)
(* another without having been free in between -- released, lapsed, or its *)
(* holder's account deleted.  SnLease and SnEditing are shown to implement *)
(* it.                                                                     *)
(***************************************************************************)
CONSTANTS Users, NULL

VARIABLE holder

Init == holder = NULL

Take(u) == holder = NULL /\ holder' = u

Free == holder' = NULL

Next == Free \/ \E u \in Users : Take(u)

Spec == Init /\ [][Next]_holder

=============================================================================
