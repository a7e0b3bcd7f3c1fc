--------------------------- MODULE MCOcRecording ---------------------------
(***************************************************************************)
(* Instances of OcRecording.                                               *)
(***************************************************************************)
EXTENDS OcRecording, TLC

CONSTANTS g1, g2, s1, s2

Budget(url, put, confirm, move, clean, split) ==
    "url" :> url @@ "put" :> put @@ "confirm" :> confirm @@ "move" :> move
        @@ "clean" :> clean @@ "split" :> split

\* Two cleanings, or two splits, or one of each; a second PUT around a cleaning; and a genre
\* edit around one.
SmallBudgets ==
    {Budget(1, 1, 1, 0, 2, 0), Budget(1, 1, 1, 0, 0, 2), Budget(1, 1, 1, 0, 1, 1),
     Budget(1, 2, 1, 0, 1, 0), Budget(1, 1, 1, 1, 1, 0)}

\* An upload alone.
OneUpload == {Budget(1, 1, 1, 0, 0, 0)}

=============================================================================
