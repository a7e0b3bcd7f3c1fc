------------------------------- MODULE SnGrid -------------------------------
(***************************************************************************)
(* The bead grid of one Sound Necklace project: the row that              *)
(* set_project_granularity writes when an administrator confirms a level   *)
(* and that stamp_resolved_bead_sec writes, or is held to, when a session  *)
(* is created, and the locks on the project's row that order the two.      *)
(*                                                                         *)
(* Both ask for the project's row FOR UPDATE.  A creation has by then      *)
(* inserted its session, whose foreign key holds the same row FOR KEY      *)
(* SHARE: sharers do not exclude each other, but each excludes everybody   *)
(* else from FOR UPDATE, and FOR UPDATE excludes both.  PostgreSQL breaks  *)
(* a cycle of waiting transactions by failing one of them.                 *)
(*                                                                         *)
(* Sessions older than the settings table are not in the model; requests   *)
(* that are refused before they touch a row (404, 403) change nothing and  *)
(* are left out.                                                           *)
(***************************************************************************)
EXTENDS Sql

CONSTANTS Calls,   \* the requests that are ever made; a retry is another one
          Levels,  \* GranularityLevel
          Beads,   \* lengths audios resolve to
          Close    \* the pairs of lengths math.isclose takes for equal

ASSUME GridAssumption ==
    /\ NULL \notin Levels \cup Beads
    /\ NULL \notin [level : Levels, bead : Beads \cup {NULL}]
    /\ Close \subseteq Beads \X Beads
    /\ \A b \in Beads : <<b, b>> \in Close

VARIABLES settings,  \* the committed row of sn_project_settings, or NULL
          sessions,  \* the grids of the committed sn_sessions
          call       \* per request, what it asks and where it is

gridVars == <<settings, sessions, call>>

Grid == [level : Levels, bead : Beads]
Row == [level : Levels, bead : Beads \cup {NULL}]
Open == {"begun", "asking", "holding", "decided"}
Outcomes == {"ok", "locked", "error", "lost"}

\* A confirmation has no bead; seen is the row read under the lock.
Call == [level : Levels, bead : Beads \cup {NULL}, at : {"idle"} \cup Open \cup Outcomes,
         seen : Row \cup {NULL}]

\* Mutant: a confirmation goes down the path of a creation.
Creates_Always(c) == TRUE

Creates(c) == call[c].bead # NULL

\* The row, and the grid of the session, that a request would store.
Asked(c) == [level |-> call[c].level, bead |-> call[c].bead]

\* The locks on the project's row, by who has got past which statement.
ForUpdate(c) == call[c].at \in {"holding", "decided"}
KeyShare(c) == Creates(c) /\ call[c].at \in {"asking", "holding", "decided"}

-----------------------------------------------------------------------------
(* What the handlers decide on the row they read.                          *)

\* Mutant: a session is held to the bead only.
Disagrees_LevelIgnored(row, level, bead) ==
    row # NULL /\ bead # NULL /\ row.bead # NULL /\ <<row.bead, bead>> \notin Close

\* The row that a confirmation or a stamp finds in its way.
Disagrees(row, level, bead) ==
    /\ row # NULL
    /\ \/ row.level # level
       \/ bead # NULL /\ row.bead # NULL /\ <<row.bead, bead>> \notin Close

\* Mutant: a later session's bead replaces the stored one.
Stamped_Overwrites(row, level, bead) == [level |-> level, bead |-> bead]

\* The row after the flush: inserted whole, or its bead filled in.
Stamped(row, level, bead) ==
    IF row = NULL THEN [level |-> level, bead |-> bead]
    ELSE IF row.bead = NULL THEN [row EXCEPT !.bead = bead] ELSE row

\* Mutant: the stamp asks on a connection other than the one that inserted the
\* session, and waits for its own share.
RowIsFree_OtherConnection(c) == \A d \in Calls : ~ForUpdate(d) /\ ~KeyShare(d)

\* Mutant: the row is read without FOR UPDATE.
RowIsFree_Unlocked(c) == TRUE

\* Who gets the project's row FOR UPDATE: nobody else may hold any lock on it.
RowIsFree(c) == \A d \in Calls \ {c} : ~ForUpdate(d) /\ ~KeyShare(d)

-----------------------------------------------------------------------------
(* Actions.                                                                *)

GridInit ==
    /\ settings = NULL
    /\ sessions = {}
    /\ call \in [Calls -> [level : Levels, bead : {NULL}, at : {"idle"}, seen : {NULL}]]

MoveTo(c, at) == call' = [call EXCEPT ![c].at = at]
AnswerCall(c, answer) == call' = [call EXCEPT ![c].at = answer, ![c].seen = NULL]

\* set_project_granularity: its first statement asks for the project's row.
BeginConfirm(c) ==
    /\ call[c].at = "idle"
    /\ \E l \in Levels :
         call' = [call EXCEPT ![c] = [level |-> l, bead |-> NULL, at |-> "asking", seen |-> NULL]]
    /\ UNCHANGED <<settings, sessions>>

\* create_session: the project and the audio are looked up, without a lock.
BeginCreate(c) ==
    /\ call[c].at = "idle"
    /\ \E l \in Levels, b \in Beads :
         call' = [call EXCEPT ![c] = [level |-> l, bead |-> b, at |-> "begun", seen |-> NULL]]
    /\ UNCHANGED <<settings, sessions>>

\* The flush of the session's row takes FOR KEY SHARE; the stamp asks for more.
FlushSession(c) ==
    /\ call[c].at = "begun"
    /\ \A d \in Calls \ {c} : ~ForUpdate(d)
    /\ MoveTo(c, "asking")
    /\ UNCHANGED <<settings, sessions>>

TakeRow(c) ==
    /\ call[c].at = "asking"
    /\ RowIsFree(c)
    /\ MoveTo(c, "holding")
    /\ UNCHANGED <<settings, sessions>>

\* The read of the settings, a statement of its own.
ReadSettings(c) ==
    /\ call[c].at = "holding"
    /\ call' = [call EXCEPT ![c].at = "decided", ![c].seen = settings]
    /\ UNCHANGED <<settings, sessions>>

Refuse(c) ==
    /\ call[c].at = "decided"
    /\ Disagrees(call[c].seen, call[c].level, call[c].bead)
    /\ AnswerCall(c, "locked")
    /\ UNCHANGED <<settings, sessions>>

\* A level sent again is answered from the row that was read, with no write.
Confirm(c) ==
    /\ call[c].at = "decided" /\ ~Creates(c)
    /\ ~Disagrees(call[c].seen, call[c].level, NULL)
    /\ settings' = IF call[c].seen = NULL THEN Asked(c) ELSE settings
    /\ AnswerCall(c, "ok")
    /\ UNCHANGED sessions

\* The stamp and the commit that lands it with the session and its consent.
CommitSession(c) ==
    /\ call[c].at = "decided" /\ Creates(c)
    /\ ~Disagrees(call[c].seen, call[c].level, call[c].bead)
    /\ settings' = Stamped(call[c].seen, call[c].level, call[c].bead)
    /\ sessions' = sessions \cup {Asked(c)}
    /\ AnswerCall(c, "ok")

\* Two sharers that both ask for FOR UPDATE wait for each other for ever:
\* PostgreSQL fails one of them, and no handler of the API catches it.
Deadlocked(c) ==
    \E d \in Calls \ {c} : \A e \in {c, d} : Creates(e) /\ call[e].at = "asking"

FailVictim(c) ==
    /\ Deadlocked(c)
    /\ AnswerCall(c, "error")
    /\ UNCHANGED <<settings, sessions>>

\* The process or the connection stops: the transaction is rolled back.
CallDies(c) ==
    /\ call[c].at \in Open
    /\ AnswerCall(c, "lost")
    /\ UNCHANGED <<settings, sessions>>

Settle(c) == ReadSettings(c) \/ Refuse(c) \/ Confirm(c) \/ CommitSession(c)

GridNext ==
    \/ \E c \in Calls :
         \/ BeginConfirm(c) \/ BeginCreate(c) \/ FlushSession(c) \/ TakeRow(c)
         \/ Settle(c) \/ CallDies(c)
    \/ \E c \in Calls : FailVictim(c)

GridSpec == GridInit /\ [][GridNext]_gridVars

\* A lock that stays free is granted, a handler goes on after it, and the
\* deadlock detector runs.  Nothing makes a request begin.
FairGridSpec ==
    /\ GridSpec
    /\ \A c \in Calls : WF_gridVars(FlushSession(c) \/ TakeRow(c) \/ Settle(c))
    /\ WF_gridVars(\E c \in Calls : FailVictim(c))

-----------------------------------------------------------------------------
(* Properties.                                                             *)

\* The row, the sessions and the requests in flight have their types.
GridTypeOK ==
    /\ settings \in Row \cup {NULL}
    /\ sessions \subseteq Grid
    /\ call \in [Calls -> Call]

\* The coordinate system of a project is one: every session that was stored
\* has the project's level, and a bead the project's bead agrees with,
\* whichever of confirmations and other sessions it was created beside.
OneGrid ==
    \A s \in sessions :
        /\ settings # NULL
        /\ settings.level = s.level
        /\ <<settings.bead, s.bead>> \in Close

\* An answer is true for ever: a level that was confirmed stays the
\* project's, and a request refused because the project is cut otherwise
\* would be refused at any later time ("this does not change afterwards").
AnswersStand ==
    \A c \in Calls :
        /\ call[c].at = "ok" /\ ~Creates(c) =>
              settings # NULL /\ settings.level = call[c].level
        /\ call[c].at = "locked" =>
              Disagrees(settings, call[c].level, call[c].bead)

\* The level and the bead of a project are each written once: the row, as
\* get_project_settings reads it, implements a write-once register.
Freeze == INSTANCE GridFreeze WITH
    level <- IF settings = NULL THEN NULL ELSE settings.level,
    bead  <- IF settings = NULL THEN NULL ELSE settings.bead

GridRefinement == Freeze!Spec

\* Every confirmation and every creation is answered, although creations
\* deadlock: no order of grants leaves a request waiting for ever.
EveryCallAnswered == \A c \in Calls : call[c].at \in Open ~> call[c].at \in Outcomes

\* A conflict is answered as one: since every writer of the settings queues
\* behind the project's row, none of them ends in a server error.
ConflictsAreAnswered == \A c \in Calls : call[c].at # "error"

=============================================================================
