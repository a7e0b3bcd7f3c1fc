--------------------------------- MODULE Sql ---------------------------------
(***************************************************************************)
(* What every model of tables has: the value that stands for SQL's NULL    *)
(* and for a row that is not there.                                        *)
(***************************************************************************)
CONSTANT NULL

=============================================================================
