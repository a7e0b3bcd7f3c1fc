--------------------------- MODULE MCBcdWorkflow ---------------------------
(***************************************************************************)
(* Instances of BcdWorkflow: an administrator, a reviewer with one of the  *)
(* specialties and a scholar with all three.                               *)
(***************************************************************************)
EXTENDS BcdWorkflow

CONSTANTS admin, exegete, scholar

MCRolesOf == [u \in Users |->
    CASE u = admin -> {"admin"}
      [] u = exegete -> {"exegete"}
      [] u = scholar -> SpecialistRoles]

=============================================================================
