---------------------------- MODULE BcdWorkflow ----------------------------
(***************************************************************************)
(* The Book Context Documents of one book: drafting, locking, editing,     *)
(* approval by a quorum of specialists, revision, the active version, and  *)
(* the background run that generates a document's content.                 *)
(*                                                                         *)
(* Every handler loads the row, decides on what it loaded, and flushes at  *)
(* its commit the columns whose value differs from the loaded one; no      *)
(* statement repeats the decision.  A translation of an edit, or another   *)
(* statement, may take any time between the two.                           *)
(*                                                                         *)
(* The documents are whole-book ones (no section range), whose unique key  *)
(* holds NULLs and therefore never bites.  Content stands for the sections *)
(* that tell an empty document from a written one (outline and register):  *)
(* the number of the write that made them, 0 for none.                     *)
(***************************************************************************)
EXTENDS Naturals, FiniteSets

CONSTANTS
    Docs,            \* document ids
    FirstDoc,        \* the document the book begins with
    Users,           \* accounts with access to the application
    RolesOf,         \* the application roles of each account
    PlatformAdmins,  \* the accounts that are platform administrators
    Requests,        \* requests in flight at a time
    Runs,            \* generation runs in flight at a time
    NULL,            \* SQL NULL, no row
    MaxRequests      \* bound on the requests begun

SpecialistRoles == {"exegete", "biblical_language_specialist", "translation_specialist"}
ApproveCapable == SpecialistRoles \cup {"admin"}

ASSUME WorkflowAssumption ==
    /\ FirstDoc \in Docs
    /\ RolesOf \in [Users -> SUBSET (ApproveCapable \cup {"analyst"})]
    /\ PlatformAdmins \subseteq {u \in Users : "admin" \in RolesOf[u]}
    /\ NULL \notin Users \cup Docs
    /\ MaxRequests \in Nat

VARIABLES
    doc,        \* book_context_documents
    deleted,    \* the ids of deleted documents, which are not drawn again
    approvals,  \* bcd_approvals: who has approved each document
    req,        \* the requests in flight
    run,        \* the generation runs
    begun,      \* history: requests begun
    writes,     \* history: contents written
    granted,    \* history: who has ever approved each document
    raced,      \* history: two requests that decide on is_active overlapped
    died        \* history: a process stopped owing a generation

vars == <<doc, deleted, approvals, req, run, begun, writes, granted, raced, died>>

Status == {"generating", "draft", "review", "approved"}

Rows == [status : Status, version : Nat, is_active : BOOLEAN, content : Nat,
         locked_by : Users \cup {NULL}, locked_at : {NULL, "fresh", "lapsed"}]

Ops == {"approve", "revise", "activate", "lock", "unlock", "edit",
        "new_version", "generate", "cancel"}

\* SQL NULL is no row.
ASSUME RowAssumption == NULL \notin Rows

IdleRequest == [pc |-> "idle", op |-> "none", user |-> NULL, doc |-> NULL,
                loaded |-> NULL, status |-> NULL, others |-> {}, erased |-> {}]
IdleRun == [pc |-> "idle", doc |-> NULL]

TypeOK ==
    /\ doc \in [Docs -> Rows \cup {NULL}]
    /\ deleted \subseteq Docs
    /\ approvals \in [Docs -> SUBSET Users]
    /\ req \in [Requests -> [pc : {"idle", "loaded", "decided", "flushed"},
                             op : Ops \cup {"none"}, user : Users \cup {NULL},
                             doc : Docs \cup {NULL}, loaded : Rows \cup {NULL},
                             status : {"review", "approved", NULL}, others : SUBSET Docs,
                             erased : SUBSET Users]]
    /\ run \in [Runs -> [pc : {"idle", "queued", "working"}, doc : Docs \cup {NULL}]]
    /\ {begun, writes} \subseteq Nat
    /\ granted \in [Docs -> SUBSET Users]
    /\ {raced, died} \subseteq BOOLEAN
    \* the foreign key of bcd_approvals
    /\ \A d \in Docs : doc[d] = NULL => approvals[d] = {}

NewRow(version, status) ==
    [status |-> status, version |-> version, is_active |-> FALSE, content |-> 0,
     locked_by |-> NULL, locked_at |-> NULL]

\* create_bcd: the first version of the book's document.
Init ==
    /\ doc = [d \in Docs |-> IF d = FirstDoc THEN NewRow(1, "draft") ELSE NULL]
    /\ deleted = {}
    /\ approvals = [d \in Docs |-> {}]
    /\ req = [r \in Requests |-> IdleRequest]
    /\ run = [n \in Runs |-> IdleRun]
    /\ begun = 0
    /\ writes = 0
    /\ granted = [d \in Docs |-> {}]
    /\ raced = FALSE
    /\ died = FALSE

-----------------------------------------------------------------------------
(* Decisions.                                                              *)

IsAdmin(u) == "admin" \in RolesOf[u]
Covered(us) == UNION {RolesOf[u] : u \in us} \cap SpecialistRoles

Quorum_OneReviewer(us) == Covered(us) = SpecialistRoles

\* Two reviewers at least, with the three specialties between them.
Quorum(us) == Cardinality(us) >= 2 /\ Covered(us) = SpecialistRoles

\* The status an approval by u leads to, given the approvals it has read.
Outcome(u, prior) ==
    IF IsAdmin(u) \/ (\E p \in prior : IsAdmin(p)) \/ Quorum(prior \cup {u})
    THEN "approved" ELSE "review"

\* Mutant: an edit asks only for the lock.
Allowed_ApprovedEdit(op, u, row) ==
    CASE op = "approve" -> /\ RolesOf[u] \cap ApproveCapable # {}
                           /\ row.status \in {"draft", "review"}
      [] op \in {"revise", "activate"} -> IsAdmin(u) /\ row.status # "generating"
      [] op = "cancel" -> IsAdmin(u) /\ row.status = "generating"
      [] op = "lock" -> /\ row.status \in {"draft", "review"}
                        /\ row.locked_by \in {NULL, u} \/ row.locked_at = "lapsed"
      [] op = "unlock" -> /\ row.locked_by # NULL
                          /\ row.locked_by = u \/ u \in PlatformAdmins
      [] op = "edit" -> row.status # "generating" /\ row.locked_by = u
      [] op = "new_version" -> row.status = "approved"
      [] op = "generate" -> row.status # "generating"

\* Whether the handler goes on, given the row it has loaded.
Allowed(op, u, row) ==
    CASE op = "approve" -> /\ RolesOf[u] \cap ApproveCapable # {}
                           /\ row.status \in {"draft", "review"}
      [] op \in {"revise", "activate"} -> IsAdmin(u) /\ row.status # "generating"
      [] op = "cancel" -> IsAdmin(u) /\ row.status = "generating"
      [] op = "lock" -> /\ row.status \in {"draft", "review"}
                        /\ row.locked_by \in {NULL, u} \/ row.locked_at = "lapsed"
      [] op = "unlock" -> /\ row.locked_by # NULL
                          /\ row.locked_by = u \/ u \in PlatformAdmins
      [] op = "edit" -> row.status \notin {"approved", "generating"} /\ row.locked_by = u
      [] op = "new_version" -> row.status = "approved"
      [] op = "generate" -> row.status # "generating"

-----------------------------------------------------------------------------
(* Requests.                                                               *)

Me(r) == req[r].doc
Loaded(r) == req[r].loaded
Is(r, op, pc) == req[r].op = op /\ req[r].pc = pc
End(r) == req' = [req EXCEPT ![r] = IdleRequest]

\* What a flush makes of a row: the columns whose new value is not the loaded one.
Flush(cur, loaded, new) ==
    [f \in DOMAIN cur |-> IF new[f] = loaded[f] THEN cur[f] ELSE new[f]]

Unlocked(row) == [row EXCEPT !.locked_by = NULL, !.locked_at = NULL]

\* get_bcd_or_404 and the checks on the loaded row; a refusal changes nothing.
Begin(r) ==
    /\ req[r] = IdleRequest
    /\ begun < MaxRequests
    /\ begun' = begun + 1
    /\ \E op \in Ops, u \in Users, d \in Docs :
          /\ doc[d] # NULL
          /\ Allowed(op, u, doc[d])
          /\ req' = [req EXCEPT ![r] = [IdleRequest EXCEPT
                        !.pc = "loaded", !.op = op, !.user = u, !.doc = d,
                        !.loaded = doc[d]]]
    /\ UNCHANGED <<doc, deleted, approvals, run, writes, granted, raced, died>>

\* A request ends before its commit: its process or connection does, a later
\* check refuses it, or its flush misses the row.
Die(r) ==
    /\ req[r] # IdleRequest
    /\ End(r)
    /\ UNCHANGED <<doc, deleted, approvals, run, begun, writes, granted, raced, died>>

Racing(r) ==
    raced' = (raced \/ \E q \in Requests \ {r} :
                          req[q].pc = "flushed" /\ req[q].op \in {"approve", "activate"})

\* approve_bcd: the approvals are read after the row.
ReadApprovals(r) ==
    /\ Is(r, "approve", "loaded")
    /\ req[r].user \notin approvals[Me(r)]
    /\ req' = [req EXCEPT ![r].pc = "decided",
                          ![r].status = Outcome(req[r].user, approvals[Me(r)])]
    /\ UNCHANGED <<doc, deleted, approvals, run, begun, writes, granted, raced, died>>

\* ... an approving one looks for an active version of the book, which makes
\* its own changes flush first: a second approval by the same user fails here.
LookForActive(r) ==
    /\ Is(r, "approve", "decided")
    /\ req[r].status = "approved"
    /\ doc[Me(r)] # NULL /\ req[r].user \notin approvals[Me(r)]
    /\ req' = [req EXCEPT ![r].pc = "flushed",
                          ![r].others = {d \in Docs : doc[d] # NULL /\ doc[d].is_active}]
    /\ Racing(r)
    /\ UNCHANGED <<doc, deleted, approvals, run, begun, writes, granted, died>>

CommitApprove(r) ==
    /\ Is(r, "approve", IF req[r].status = "approved" THEN "flushed" ELSE "decided")
    /\ doc[Me(r)] # NULL /\ req[r].user \notin approvals[Me(r)]
    /\ LET marked == [Loaded(r) EXCEPT !.status = req[r].status]
           new == IF req[r].status = "review" THEN marked
                  ELSE [Unlocked(marked) EXCEPT
                           !.is_active = (@ \/ req[r].others = {})]
       IN doc' = [doc EXCEPT ![Me(r)] = Flush(@, Loaded(r), new)]
    /\ approvals' = [approvals EXCEPT ![Me(r)] = @ \cup {req[r].user}]
    /\ granted' = [granted EXCEPT ![Me(r)] = @ \cup {req[r].user}]
    /\ End(r)
    /\ UNCHANGED <<deleted, run, begun, writes, raced, died>>

\* request_revision: the DELETE of the approvals there are now.
EraseApprovals(r) ==
    /\ Is(r, "revise", "loaded")
    /\ req' = [req EXCEPT ![r].pc = "flushed", ![r].erased = approvals[Me(r)]]
    /\ UNCHANGED <<doc, deleted, approvals, run, begun, writes, granted, raced, died>>

\* ... and its commit.
CommitRevision(r) ==
    /\ Is(r, "revise", "flushed")
    /\ doc[Me(r)] # NULL
    /\ doc' = [doc EXCEPT ![Me(r)] =
                 Flush(@, Loaded(r), [Unlocked(Loaded(r)) EXCEPT !.status = "draft"])]
    /\ approvals' = [approvals EXCEPT ![Me(r)] = @ \ req[r].erased]
    /\ End(r)
    /\ UNCHANGED <<deleted, run, begun, writes, granted, raced, died>>

\* set_active_bcd: the UPDATE of the book's other active versions, and the
\* DELETE of the approvals.
Deactivate(r) ==
    /\ Is(r, "activate", "loaded")
    /\ req' = [req EXCEPT ![r].pc = "flushed",
                          ![r].others = {d \in Docs \ {Me(r)} :
                                            doc[d] # NULL /\ doc[d].is_active},
                          ![r].erased = approvals[Me(r)]]
    /\ Racing(r)
    /\ UNCHANGED <<doc, deleted, approvals, run, begun, writes, granted, died>>

Activated(r) ==
    [Unlocked(Loaded(r)) EXCEPT
       !.is_active = TRUE,
       !.status = IF @ = "approved" THEN "review" ELSE @]

CommitActive_OthersKept(r) ==
    /\ Is(r, "activate", "flushed")
    /\ doc[Me(r)] # NULL
    /\ doc' = [doc EXCEPT ![Me(r)] = Flush(@, Loaded(r), Activated(r))]
    /\ approvals' = [approvals EXCEPT ![Me(r)] = @ \ req[r].erased]
    /\ End(r)
    /\ UNCHANGED <<deleted, run, begun, writes, granted, raced, died>>

\* ... and its commit.  Activating an approved version sends it back to review.
CommitActive(r) ==
    /\ Is(r, "activate", "flushed")
    /\ doc[Me(r)] # NULL
    /\ doc' = [d \in Docs |->
                 IF d = Me(r) THEN Flush(doc[d], Loaded(r), Activated(r))
                 ELSE IF d \in req[r].others /\ doc[d] # NULL
                 THEN [doc[d] EXCEPT !.is_active = FALSE] ELSE doc[d]]
    /\ approvals' = [approvals EXCEPT ![Me(r)] = @ \ req[r].erased]
    /\ End(r)
    /\ UNCHANGED <<deleted, run, begun, writes, granted, raced, died>>

\* lock_bcd and unlock_bcd.  A new locked_at always differs from the loaded one.
CommitLock(r) ==
    /\ req[r].op \in {"lock", "unlock"}
    /\ doc[Me(r)] # NULL
    /\ doc' = [doc EXCEPT ![Me(r)] =
                 IF req[r].op = "unlock" THEN Flush(@, Loaded(r), Unlocked(Loaded(r)))
                 ELSE [Flush(@, Loaded(r), [Loaded(r) EXCEPT !.locked_by = req[r].user])
                          EXCEPT !.locked_at = "fresh"]]
    /\ End(r)
    /\ UNCHANGED <<deleted, approvals, run, begun, writes, granted, raced, died>>

\* update_section: the section is written once its translation has come back.
CommitEdit(r) ==
    /\ Is(r, "edit", "loaded")
    /\ doc[Me(r)] # NULL
    /\ writes' = writes + 1
    /\ doc' = [doc EXCEPT ![Me(r)].content = writes + 1]
    /\ End(r)
    /\ UNCHANGED <<deleted, approvals, run, begun, granted, raced, died>>

Unborn == {d \in Docs \ deleted : doc[d] = NULL}

CommitNewVersion(r) ==
    /\ Is(r, "new_version", "loaded")
    /\ \E d \in Unborn :
          doc' = [doc EXCEPT ![d] = [NewRow(Loaded(r).version + 1, "draft") EXCEPT
                                        !.content = Loaded(r).content]]
    /\ End(r)
    /\ UNCHANGED <<deleted, approvals, run, begun, writes, granted, raced, died>>

\* start_generation: in place while the document has no content, in a new
\* version otherwise.  The run is handed to the process after the commit.
CommitGenerate(r) ==
    /\ Is(r, "generate", "loaded")
    /\ \E d \in IF Loaded(r).content = 0 THEN {Me(r)} ELSE Unborn :
          /\ IF d = Me(r)
             THEN /\ doc[d] # NULL
                  /\ doc' = [doc EXCEPT ![d] = Flush(@, Loaded(r),
                                [Unlocked(Loaded(r)) EXCEPT !.status = "generating"])]
             ELSE doc' = [doc EXCEPT ![d] = NewRow(Loaded(r).version + 1, "generating")]
          /\ \/ /\ \E n \in Runs : /\ run[n] = IdleRun
                                   /\ run' = [run EXCEPT ![n] = [pc |-> "queued", doc |-> d]]
                /\ died' = died
             \/ /\ died' = TRUE
                /\ run' = run
    /\ End(r)
    /\ UNCHANGED <<deleted, approvals, begun, writes, granted, raced>>

CommitCancel_NoCascade(r) ==
    /\ Is(r, "cancel", "loaded")
    /\ doc[Me(r)] # NULL
    /\ doc' = [doc EXCEPT ![Me(r)] = NULL]
    /\ deleted' = deleted \cup {Me(r)}
    /\ End(r)
    /\ UNCHANGED <<approvals, run, begun, writes, granted, raced, died>>

\* cancel_generation deletes the document, whatever became of it since the load.
CommitCancel(r) ==
    /\ Is(r, "cancel", "loaded")
    /\ doc[Me(r)] # NULL
    /\ doc' = [doc EXCEPT ![Me(r)] = NULL]
    /\ deleted' = deleted \cup {Me(r)}
    /\ approvals' = [approvals EXCEPT ![Me(r)] = {}]
    /\ End(r)
    /\ UNCHANGED <<run, begun, writes, granted, raced, died>>

-----------------------------------------------------------------------------
(* run_bcd_generation.                                                     *)

EndRun(n) == run' = [run EXCEPT ![n] = IdleRun]

\* The document is loaded and marked; a cancelled one ends the run.
RunStarts(n) ==
    /\ run[n].pc = "queued"
    /\ IF doc[run[n].doc] = NULL
       THEN doc' = doc /\ EndRun(n)
       ELSE /\ doc' = [doc EXCEPT ![run[n].doc].status = "generating"]
            /\ run' = [run EXCEPT ![n].pc = "working"]
    /\ UNCHANGED <<deleted, approvals, req, begun, writes, granted, raced, died>>

\* All sections and the status in one commit; nothing when the row is gone.
RunFinishes(n) ==
    /\ run[n].pc = "working"
    /\ IF doc[run[n].doc] = NULL THEN UNCHANGED <<doc, writes>>
       ELSE /\ writes' = writes + 1
            /\ doc' = [doc EXCEPT ![run[n].doc].status = "review",
                                  ![run[n].doc].content = writes + 1]
    /\ EndRun(n)
    /\ UNCHANGED <<deleted, approvals, req, begun, granted, raced, died>>

RunFails_StatusKept(n) ==
    /\ run[n].pc = "working"
    /\ EndRun(n)
    /\ UNCHANGED <<doc, deleted, approvals, req, begun, writes, granted, raced, died>>

\* A step raised: back to draft.
RunFails(n) ==
    /\ run[n].pc = "working"
    /\ doc' = IF doc[run[n].doc] = NULL THEN doc
              ELSE [doc EXCEPT ![run[n].doc].status = "draft"]
    /\ EndRun(n)
    /\ UNCHANGED <<deleted, approvals, req, begun, writes, granted, raced, died>>

\* The process stops: nobody takes the run up again.
RunDies(n) ==
    /\ run[n].pc # "idle"
    /\ EndRun(n)
    /\ died' = TRUE
    /\ UNCHANGED <<doc, deleted, approvals, req, begun, writes, granted, raced>>

\* LOCK_TIMEOUT passes.
LockLapses ==
    /\ \E d \in Docs :
          /\ doc[d] # NULL /\ doc[d].locked_at = "fresh"
          /\ doc' = [doc EXCEPT ![d].locked_at = "lapsed"]
    /\ UNCHANGED <<deleted, approvals, req, run, begun, writes, granted, raced, died>>

-----------------------------------------------------------------------------
Request(r) ==
    \/ Begin(r) \/ Die(r)
    \/ ReadApprovals(r) \/ LookForActive(r) \/ CommitApprove(r)
    \/ EraseApprovals(r) \/ CommitRevision(r) \/ Deactivate(r) \/ CommitActive(r)
    \/ CommitLock(r) \/ CommitEdit(r)
    \/ CommitNewVersion(r) \/ CommitGenerate(r) \/ CommitCancel(r)

Run(n) == RunStarts(n) \/ RunFinishes(n) \/ RunFails(n)

Next ==
    \/ \E r \in Requests : Request(r)
    \/ \E n \in Runs : Run(n) \/ RunDies(n)
    \/ LockLapses

\* A run that has begun goes on until it ends, unless its process stops.
Spec == Init /\ [][Next]_vars /\ \A n \in Runs : WF_vars(Run(n))

-----------------------------------------------------------------------------
(* Properties.                                                             *)

\* However approvals, revisions, edits and runs interleave, a document is only
\* ever approved if an administrator, or two reviewers covering the three
\* specialties, have approved that very document at some time.
ApprovedIsEarned ==
    \A d \in Docs : doc[d] # NULL /\ doc[d].status = "approved"
        => \/ \E u \in granted[d] : IsAdmin(u)
           \/ /\ Cardinality(granted[d]) >= 2
              /\ SpecialistRoles \subseteq UNION {RolesOf[u] : u \in granted[d]}

\* A book has one active version at most, unless two requests that decide on
\* is_active have overlapped.
OneActive ==
    raced \/ Cardinality({d \in Docs : doc[d] # NULL /\ doc[d].is_active}) <= 1

Generating(d) == doc[d] # NULL /\ doc[d].status = "generating"

\* No document is generating forever: whatever is cancelled, restarted or fails,
\* it leaves that status unless a process stopped owing a run.
GenerationSettles == \A d \in Docs : Generating(d) ~> (died \/ ~Generating(d))

\* The text of an approved document stands as long as it is approved, but for edits that had
\* loaded it before its approval and waited for their translation since: no edit that begins
\* later gets through, whatever locks raced the approval (update_section.py:48).
ApprovedTextStands ==
    [][\A d \in Docs :
          /\ doc[d] # NULL /\ doc[d].status = "approved"
          /\ doc'[d] # NULL /\ doc'[d].status = "approved"
          /\ doc'[d].content # doc[d].content
          => \E r \in Requests : /\ Is(r, "edit", "loaded") /\ Me(r) = d
                                 /\ Loaded(r).status # "approved"]_vars

\* Rows point at rows, and at most one version of a book is active unless two activations
\* overlapped (approve_bcd.py:70, set_active.py).
VersionsAreSound == TypeOK /\ OneActive

=============================================================================
