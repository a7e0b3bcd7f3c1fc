---- MODULE MCMigrations ----
(* The chain walked by releases of one revision and by two that took many. *)
EXTENDS Migrations
MCReleases == {22, 57}
====
