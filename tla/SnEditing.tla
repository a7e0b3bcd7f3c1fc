----------------------------- MODULE SnEditing -----------------------------
(***************************************************************************)
(* Editing one Sound Necklace session: several browser tabs autosave its   *)
(* state document, complete it and reopen it through concurrent requests,  *)
(* while SnLease's routes move the editor lease under them.                *)
(*                                                                         *)
(* A request is the sequence of database statements its handler sends:     *)
(* it loads the session row (and never re-reads it), runs one guarded      *)
(* UPDATE, and only when that matched nothing asks why.  A transaction's   *)
(* writes appear at its commit; a request may die at any point before.     *)
(*                                                                         *)
(* The document is reduced to what step_for looks at, the audit trail to   *)
(* the lifecycle events of this session in commit order.                   *)
(***************************************************************************)
EXTENDS SnLease, Sequences

CONSTANTS
    Tabs,           \* browser tabs, each with one request in flight at most
    TabUser,        \* the account each tab is signed in with
    Docs,           \* the state documents the tabs can send
    Unconditional,  \* whether a tab may autosave without If-Match
    MaxStored       \* bound on the saves and lifecycle events a request is begun at

Modes == {"triagem", "segmentacao", "mapeamento", "other"}

ASSUME EditingAssumption ==
    /\ TabUser \in [Tabs -> Users]
    /\ Docs \subseteq [mode : Modes, confirmed : BOOLEAN]
    /\ NULL \notin Docs
    /\ Unconditional \in BOOLEAN
    /\ MaxStored \in Nat

VARIABLES
    status,         \* sn_sessions.status
    completed_at,   \* sn_sessions.completed_at
    current_step,   \* sn_sessions.current_step
    state,          \* sn_session_state.state
    version,        \* sn_session_state.version
    audit,          \* the session's lifecycle rows of sn_audit_events
    req,            \* the request each tab has in flight
    seen,           \* what each tab last saw of the state: document and ETag
    reply,          \* the answer each tab received to its last request
    held_since      \* history: when the holder of the lease became its holder

rowVars == <<status, completed_at, current_step, state, version, audit>>
vars == <<leaseVars, rowVars, req, seen, reply, held_since>>

SessionStatus == {"in_progress", "completed"}
SessionStep == {"listen", "cut", "triage", "phrases", "conversation"}
Lifecycle == {"complete", "reopen"}
Events == {"session_completed", "session_reopened"}
Replies == {"none", "ok", "SESSION_LOCKED", "SESSION_LOCK_CHANGED", "CONFLICT", "error"}

Requests ==
    [pc : {"idle", "loaded", "fenced", "refused"},
     op : {"none", "autosave"} \cup Lifecycle,
     doc : Docs \cup {NULL},
     expected : Nat \cup {NULL},
     loaded_status : SessionStatus,
     loaded_step : SessionStep,
     fenced_at : Nat]

IdleRequest ==
    [pc |-> "idle", op |-> "none", doc |-> NULL, expected |-> NULL,
     loaded_status |-> "in_progress", loaded_step |-> "listen", fenced_at |-> 0]

TypeOK ==
    /\ LeaseTypeOK
    /\ status \in SessionStatus
    /\ completed_at \in Nat \cup {NULL}
    /\ current_step \in SessionStep
    /\ state \in Docs \cup {NULL}
    /\ version \in Nat
    /\ audit \in Seq(Events)
    /\ req \in [Tabs -> Requests]
    /\ seen \in [Tabs -> [doc : Docs \cup {NULL}, version : Nat]]
    /\ reply \in [Tabs -> Replies]
    /\ held_since \in Nat

\* create_session: the session row and its empty state row, in one transaction.
Init ==
    /\ LeaseInit
    /\ status = "in_progress"
    /\ completed_at = NULL
    /\ current_step = "listen"
    /\ state = NULL
    /\ version = 0
    /\ audit = <<>>
    /\ req = [tb \in Tabs |-> IdleRequest]
    /\ seen = [tb \in Tabs |-> [doc |-> NULL, version |-> 0]]
    /\ reply = [tb \in Tabs |-> "none"]
    /\ held_since = 0

-----------------------------------------------------------------------------
\* The station a completed session merely displays, stored as if it were one.
step_for_Displayed(d) == IF d.confirmed THEN "save" ELSE "listen"

\* The station a document opens at.
step_for(d) ==
    CASE d.mode = "triagem" -> "triage"
      [] d.mode = "segmentacao" -> "phrases"
      [] d.mode = "mapeamento" -> "conversation"
      [] OTHER -> IF d.confirmed THEN "cut" ELSE "listen"

Answer(tb, r) ==
    /\ req' = [req EXCEPT ![tb] = IdleRequest]
    /\ reply' = [reply EXCEPT ![tb] = r]

\* get_session: the row as this request will remember it.
Load(tb, op, d, e) ==
    /\ req[tb].pc = "idle"
    /\ req' = [req EXCEPT ![tb] =
                  [pc |-> "loaded", op |-> op, doc |-> d, expected |-> e,
                   loaded_status |-> status, loaded_step |-> current_step,
                   fenced_at |-> 0]]
    /\ reply' = [reply EXCEPT ![tb] = "none"]
    /\ UNCHANGED <<leaseVars, rowVars, seen, held_since>>

-----------------------------------------------------------------------------
(* The state document.                                                     *)

\* GET .../state: the document and its ETag; a 404 before the first autosave.
GetState(tb) ==
    /\ req[tb].pc = "idle"
    /\ state # NULL
    /\ seen' = [seen EXCEPT ![tb] = [doc |-> state, version |-> version]]
    /\ UNCHANGED <<leaseVars, rowVars, req, reply, held_since>>

\* PUT .../state begins.  If-Match is the version the tab last saw (0 while it
\* has only seen the empty state row), or absent.
BeginAutosave(tb) ==
    /\ version + Len(audit) < MaxStored
    /\ \E d \in Docs, e \in {NULL, seen[tb].version} :
          /\ e = NULL => Unconditional
          /\ Load(tb, "autosave", d, e)

not_locked_by_other_Always(u, t) == TRUE

not_locked_by_other(u, t) == ~LockedByOther(u, t)

\* The guarded UPDATE starts: its NOT EXISTS reads the lease under the
\* snapshot of this instant and is not evaluated again.
FenceAutosave(tb) ==
    /\ req[tb].pc = "loaded"
    /\ req[tb].op = "autosave"
    /\ \E t \in ClockReadings :
          req' = [req EXCEPT
                     ![tb].pc = IF not_locked_by_other(TabUser[tb], t)
                                THEN "fenced" ELSE "refused",
                     ![tb].fenced_at = now]
    /\ UNCHANGED <<leaseVars, rowVars, seen, reply, held_since>>

VersionMatches_Ignored(e) == TRUE

VersionMatches(e) == e = NULL \/ e = version

FlushedStep_Kept(tb) == current_step

\* The station as the flush writes it: the ORM sends current_step only when
\* it differs from the value this request loaded.
FlushedStep(tb) ==
    IF step_for(req[tb].doc) = req[tb].loaded_step
    THEN current_step ELSE step_for(req[tb].doc)

\* The UPDATE and the flush of the session row commit together; the new
\* version comes back from the UPDATE itself.
CommitAutosave(tb) ==
    /\ req[tb].pc = "fenced"
    /\ VersionMatches(req[tb].expected)
    /\ state' = req[tb].doc
    /\ version' = version + 1
    /\ current_step' = FlushedStep(tb)
    /\ seen' = [seen EXCEPT ![tb] = [doc |-> req[tb].doc, version |-> version + 1]]
    /\ Answer(tb, "ok")
    /\ UNCHANGED <<leaseVars, status, completed_at, audit, held_since>>

\* The version predicate matched no row.
MissAutosave(tb) ==
    /\ req[tb].pc = "fenced"
    /\ ~VersionMatches(req[tb].expected)
    /\ req' = [req EXCEPT ![tb].pc = "refused"]
    /\ UNCHANGED <<leaseVars, rowVars, seen, reply, held_since>>

\* Which guard refused it is decided by a later read.
DiagnoseAutosave(tb) ==
    /\ req[tb].pc = "refused"
    /\ req[tb].op = "autosave"
    /\ \E t \in ClockReadings :
          Answer(tb, IF LockedByOther(TabUser[tb], t) THEN "SESSION_LOCKED" ELSE "CONFLICT")
    /\ UNCHANGED <<leaseVars, rowVars, seen, held_since>>

-----------------------------------------------------------------------------
(* Completing and reopening.                                               *)

Target(op) == IF op = "complete" THEN "completed" ELSE "in_progress"
EventOf(op) == IF op = "complete" THEN "session_completed" ELSE "session_reopened"

BeginLifecycle(tb) ==
    /\ version + Len(audit) < MaxStored
    /\ \E op \in Lifecycle : Load(tb, op, NULL, NULL)

\* The loaded row already has the target status: answered as it was loaded.
NoopLifecycle(tb) ==
    /\ req[tb].pc = "loaded"
    /\ req[tb].op \in Lifecycle
    /\ req[tb].loaded_status = Target(req[tb].op)
    /\ Answer(tb, "ok")
    /\ UNCHANGED <<leaseVars, rowVars, seen, held_since>>

\* As ApplyLifecycle, with the audit row written by a commit of its own.
ApplyLifecycle_AuditApart(tb) ==
    /\ req[tb].pc = "loaded"
    /\ req[tb].op \in Lifecycle
    /\ req[tb].loaded_status # Target(req[tb].op)
    /\ \E t \in ClockReadings :
          /\ RowOpenTo(TabUser[tb], t)
          /\ IF TabUser[tb] \in accounts
             THEN /\ status' = Target(req[tb].op)
                  /\ completed_at' = IF req[tb].op = "complete" THEN t ELSE NULL
                  /\ Answer(tb, "ok")
             ELSE /\ UNCHANGED <<status, completed_at>>
                  /\ Answer(tb, "error")
          /\ audit' = Append(audit, EventOf(req[tb].op))
    /\ UNCHANGED <<leaseVars, current_step, state, version, seen, held_since>>

\* The guarded UPDATE, its audit row and their commit.  The guard is on the
\* target row, so it is decided on the row as it is when it is locked.  The
\* audit row's foreign key fails the whole transaction when the actor's
\* account is gone.
ApplyLifecycle(tb) ==
    /\ req[tb].pc = "loaded"
    /\ req[tb].op \in Lifecycle
    /\ req[tb].loaded_status # Target(req[tb].op)
    /\ \E t \in ClockReadings :
          /\ RowOpenTo(TabUser[tb], t)
          /\ IF TabUser[tb] \in accounts
             THEN /\ status' = Target(req[tb].op)
                  /\ completed_at' = IF req[tb].op = "complete" THEN t ELSE NULL
                  /\ audit' = Append(audit, EventOf(req[tb].op))
                  /\ Answer(tb, "ok")
             ELSE /\ UNCHANGED <<status, completed_at, audit>>
                  /\ Answer(tb, "error")
    /\ UNCHANGED <<leaseVars, current_step, state, version, seen, held_since>>

RefuseLifecycle(tb) ==
    /\ req[tb].pc = "loaded"
    /\ req[tb].op \in Lifecycle
    /\ req[tb].loaded_status # Target(req[tb].op)
    /\ \E t \in ClockReadings : ~RowOpenTo(TabUser[tb], t)
    /\ req' = [req EXCEPT ![tb].pc = "refused"]
    /\ UNCHANGED <<leaseVars, rowVars, seen, reply, held_since>>

DiagnoseLifecycle(tb) ==
    /\ req[tb].pc = "refused"
    /\ req[tb].op \in Lifecycle
    /\ \E t \in ClockReadings :
          Answer(tb, IF LockedByOther(TabUser[tb], t)
                     THEN "SESSION_LOCKED" ELSE "SESSION_LOCK_CHANGED")
    /\ UNCHANGED <<leaseVars, rowVars, seen, held_since>>

-----------------------------------------------------------------------------
\* A request dies before its commit: a dropped connection, a stopped instance.
Die(tb) ==
    /\ req[tb].pc # "idle"
    /\ Answer(tb, "error")
    /\ UNCHANGED <<leaseVars, rowVars, seen, held_since>>

\* The lease routes, with the history of who has been the holder since when.
Acquire(u) ==
    /\ AcquireLock(u)
    /\ held_since' = IF LiveHolder = u THEN held_since ELSE now
    /\ UNCHANGED <<rowVars, req, seen, reply>>

Environment ==
    /\ Tick \/ \E u \in Users : ReleaseLock(u) \/ DeleteUser(u)
    /\ UNCHANGED <<rowVars, req, seen, reply, held_since>>

TabStep(tb) ==
    \/ GetState(tb)
    \/ BeginAutosave(tb) \/ FenceAutosave(tb) \/ CommitAutosave(tb)
    \/ MissAutosave(tb) \/ DiagnoseAutosave(tb)
    \/ BeginLifecycle(tb) \/ NoopLifecycle(tb) \/ ApplyLifecycle(tb)
    \/ RefuseLifecycle(tb) \/ DiagnoseLifecycle(tb)
    \/ Die(tb)

Next ==
    \/ Environment
    \/ \E u \in Users : Acquire(u)
    \/ \E tb \in Tabs : TabStep(tb)

Spec == Init /\ [][Next]_vars

-----------------------------------------------------------------------------
(* Properties.                                                             *)

\* Between requests the SPA trusts the audit trail: whatever races, the last
\* lifecycle event on record, the status and the completion time tell the same
\* story, because each UPDATE and its audit row commit as one.
AuditTellsStatus ==
    /\ (status = "completed") = (completed_at # NULL)
    /\ (status = "completed") =
          (audit # <<>> /\ audit[Len(audit)] = "session_completed")

\* An autosave lands under somebody else's live lease only when that lease was
\* taken after the write's own snapshot: a tab that wakes up after a takeover
\* cannot overwrite the new holder, only a write racing the acquire can.
StaleTabIsFenced ==
    [][\A tb \in Tabs :
          /\ req[tb].pc = "fenced"
          /\ reply'[tb] = "ok" /\ req'[tb].pc = "idle"
          /\ LiveHolder \notin {NULL, TabUser[tb]}
          => held_since >= req[tb].fenced_at]_vars

\* Nobody completes or reopens a session while somebody else holds it live,
\* however the request interleaves with the takeover.
LifecycleIsFenced ==
    [][\A tb \in Tabs :
          /\ req[tb].op \in Lifecycle
          /\ status' # status
          /\ req'[tb].pc = "idle" /\ req[tb].pc = "loaded"
          => LiveHolder \in {NULL, TabUser[tb]}]_vars

\* A conditional autosave replaces exactly the document its tab was shown with
\* the ETag it sends back: it never clobbers work it has not seen.
NeverClobbersUnseenWork ==
    [][\A tb \in Tabs :
          /\ req[tb].pc = "fenced" /\ req[tb].expected # NULL
          /\ reply'[tb] = "ok" /\ req'[tb].pc = "idle"
          => seen[tb] = [doc |-> state, version |-> version]]_vars

\* The station the dashboard shows is the station the stored document opens at.
StepFollowsState == state # NULL => current_step = step_for(state)

\* "CONFLICT means a newer version of the state exists."
ConflictMeansNewerVersion ==
    [][\A tb \in Tabs :
          reply'[tb] = "CONFLICT" /\ req[tb].pc = "refused"
          => req[tb].expected # NULL /\ req[tb].expected < version]_vars

\* "Completing a completed session is a no-op": the trail never records the
\* same lifecycle event twice in a row.
LifecycleRecordedOnce ==
    \A i \in 1..(Len(audit) - 1) : audit[i] # audit[i + 1]

\* A session whose holder's account was deleted is unheld: no completion or
\* reopening is refused on behalf of nobody.
RefusedOnlyForAHolder ==
    [][\A tb \in Tabs :
          /\ req[tb].op \in Lifecycle
          /\ req[tb].pc = "loaded" /\ req'[tb].pc = "refused"
          => locked_by # NULL]_vars

=============================================================================
