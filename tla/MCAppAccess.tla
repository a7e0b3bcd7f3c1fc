---------------------------- MODULE MCAppAccess ----------------------------
(***************************************************************************)
(* Instances of AppAccess.  Rows, handlers and processes are alike, and    *)
(* every property checked is a safety property.                            *)
(***************************************************************************)
EXTENDS AppAccess, TLC

MCSymmetry ==
    Permutations(RequestIds) \cup Permutations(GrantIds)
        \cup Permutations(Procs) \cup Permutations(Calls)

=============================================================================
