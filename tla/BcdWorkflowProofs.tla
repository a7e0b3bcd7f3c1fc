------------------------- MODULE BcdWorkflowProofs -------------------------
(***************************************************************************)
(* Proofs about the workflow of Book Context Documents, for any number of  *)
(* documents, accounts, requests and generation runs in flight, and any    *)
(* assignment of roles to accounts.                                        *)
(***************************************************************************)
EXTENDS BcdWorkflow, FiniteSetTheorems, TLAPS

USE WorkflowAssumption, RowAssumption

Requested == [pc : {"idle", "loaded", "decided", "flushed"},
              op : Ops \cup {"none"}, user : Users \cup {NULL},
              doc : Docs \cup {NULL}, loaded : Rows \cup {NULL},
              status : {"review", "approved", NULL}, others : SUBSET Docs,
              erased : SUBSET Users]

\* A request that has begun names its user and its document, and has loaded a
\* row on which its operation is allowed; a decided approval has its status.
RequestsAreReal ==
    \A r \in Requests : req[r].op # "none" =>
        /\ req[r].user \in Users
        /\ Me(r) \in Docs
        /\ Loaded(r) \in Rows
        /\ Allowed(req[r].op, req[r].user, Loaded(r))
        /\ Is(r, "approve", "decided") \/ Is(r, "approve", "flushed")
             => req[r].status \in {"review", "approved"}

RunsAreReal == \A n \in Runs : run[n].pc # "idle" => run[n].doc \in Docs

-----------------------------------------------------------------------------
\* A flush takes each column from the row there is or from the new one.
LEMMA FlushIsTyped ==
    ASSUME NEW cur \in Rows, NEW loaded \in Rows, NEW new \in Rows
    PROVE  Flush(cur, loaded, new) \in Rows
BY DEF Flush, Rows

LEMMA FlushedColumns ==
    ASSUME NEW cur \in Rows, NEW loaded \in Rows, NEW new \in Rows
    PROVE  /\ Flush(cur, loaded, new).status =
                IF new.status = loaded.status THEN cur.status ELSE new.status
           /\ Flush(cur, loaded, new).is_active =
                IF new.is_active = loaded.is_active THEN cur.is_active ELSE new.is_active
           /\ Flush(cur, loaded, new).content =
                IF new.content = loaded.content THEN cur.content ELSE new.content
BY DEF Flush, Rows

LEMMA UnlockedIsTyped ==
    ASSUME NEW row \in Rows
    PROVE  /\ Unlocked(row) \in Rows
           /\ Unlocked(row).status = row.status
           /\ Unlocked(row).is_active = row.is_active
           /\ Unlocked(row).content = row.content
BY DEF Unlocked, Rows

LEMMA NewRowIsTyped ==
    ASSUME NEW version \in Nat, NEW status \in Status
    PROVE  /\ NewRow(version, status) \in Rows
           /\ NewRow(version, status).status = status
           /\ ~NewRow(version, status).is_active
BY DEF NewRow, Rows

-----------------------------------------------------------------------------
\* What each step does to the requests: it ends one, begins one on a row that is
\* there, or goes on with one.
LEMMA EndIsTyped ==
    ASSUME TypeOK, NEW r \in Requests, End(r)
    PROVE  /\ req' \in [Requests -> Requested]
           /\ RequestsAreReal => RequestsAreReal'
<1>1. IdleRequest \in Requested
  BY DEF IdleRequest, Requested
<1>2. req' \in [Requests -> Requested]
  BY <1>1 DEF End, TypeOK, Requested
<1>3. req'[r].op = "none" /\ \A q \in Requests \ {r} : req'[q] = req[q]
  BY DEF End, TypeOK, IdleRequest
<1> QED
  BY <1>2, <1>3 DEF RequestsAreReal, Me, Loaded, Is

LEMMA BeginIsTyped ==
    ASSUME TypeOK, RequestsAreReal, NEW r \in Requests, Begin(r)
    PROVE  req' \in [Requests -> Requested] /\ RequestsAreReal'
<1>1. PICK op \in Ops, u \in Users, d \in Docs :
        /\ doc[d] # NULL
        /\ Allowed(op, u, doc[d])
        /\ req' = [req EXCEPT ![r] = [IdleRequest EXCEPT
                      !.pc = "loaded", !.op = op, !.user = u, !.doc = d, !.loaded = doc[d]]]
  BY DEF Begin
<1>2. doc[d] \in Rows
  BY <1>1 DEF TypeOK
<1>3. [IdleRequest EXCEPT !.pc = "loaded", !.op = op, !.user = u, !.doc = d,
                          !.loaded = doc[d]] \in Requested
  BY <1>2 DEF IdleRequest, Requested
<1>4. req' \in [Requests -> Requested]
  BY <1>1, <1>3 DEF TypeOK, Requested
<1>5. /\ req'[r].op = op /\ req'[r].user = u /\ req'[r].doc = d /\ req'[r].loaded = doc[d]
      /\ req'[r].pc = "loaded"
      /\ \A q \in Requests \ {r} : req'[q] = req[q]
  BY <1>1 DEF TypeOK, IdleRequest
<1> QED
  BY <1>1, <1>2, <1>4, <1>5 DEF RequestsAreReal, Me, Loaded, Is

LEMMA GoingOnIsTyped ==
    ASSUME TypeOK, RequestsAreReal, NEW r \in Requests, NEW new \in Requested,
           req' = [req EXCEPT ![r] = new],
           \/ /\ Is(r, "approve", req[r].pc)
              /\ new.status \in {"review", "approved"}
           \/ Is(r, "revise", req[r].pc) \/ Is(r, "activate", req[r].pc),
           new.op = req[r].op, new.user = req[r].user, new.doc = req[r].doc,
           new.loaded = req[r].loaded
    PROVE  req' \in [Requests -> Requested] /\ RequestsAreReal'
<1>1. req' \in [Requests -> Requested]
  BY DEF TypeOK, Requested
<1>2. req'[r] = new /\ \A q \in Requests \ {r} : req'[q] = req[q]
  BY DEF TypeOK
<1> QED
  BY <1>1, <1>2 DEF RequestsAreReal, Me, Loaded, Is

\* The fields that a decision, a flush and a deletion set.
LEMMA Decided ==
    ASSUME NEW q \in Requested, NEW s \in {"review", "approved"}
    PROVE  /\ [q EXCEPT !.pc = "decided", !.status = s] \in Requested
           /\ [q EXCEPT !.pc = "decided", !.status = s].status = s
BY DEF Requested

LEMMA Flushed ==
    ASSUME NEW q \in Requested, NEW others \in SUBSET Docs, NEW erased \in SUBSET Users
    PROVE  /\ [q EXCEPT !.pc = "flushed", !.others = others] \in Requested
           /\ [q EXCEPT !.pc = "flushed", !.erased = erased] \in Requested
           /\ [q EXCEPT !.pc = "flushed", !.others = others, !.erased = erased] \in Requested
<1>1. [q EXCEPT !.pc = "flushed", !.others = others] \in Requested
  BY DEF Requested
<1>2. [q EXCEPT !.pc = "flushed", !.erased = erased] \in Requested
  BY DEF Requested
<1>3. \A p \in Requested : [p EXCEPT !.erased = erased] \in Requested
  BY DEF Requested
<1>4. [q EXCEPT !.pc = "flushed", !.others = others, !.erased = erased]
        = [[q EXCEPT !.pc = "flushed", !.others = others] EXCEPT !.erased = erased]
  OBVIOUS
<1> QED
  BY <1>1, <1>2, <1>3, <1>4

LEMMA DeactivateSets ==
    ASSUME TypeOK, NEW r \in Requests, Deactivate(r)
    PROVE  /\ req'[r].op = "activate" /\ Me(r)' = Me(r)
           /\ req'[r].others = {d \in Docs \ {Me(r)} : doc[d] # NULL /\ doc[d].is_active}
<1> DEFINE others == {d \in Docs \ {Me(r)} : doc[d] # NULL /\ doc[d].is_active}
           erased == approvals[Me(r)]
<1>1. req[r].op = "activate"
  BY DEF Deactivate, Is
<1>2. req'[r] = [req[r] EXCEPT !.pc = "flushed", !.others = others, !.erased = erased]
  BY DEF Deactivate, TypeOK
<1>3. DOMAIN req[r] = {"pc", "op", "user", "doc", "loaded", "status", "others", "erased"}
  BY DEF TypeOK
<1> HIDE DEF others, erased
<1>4. req'[r].op = "activate" /\ req'[r].doc = req[r].doc /\ req'[r].others = others
  BY <1>1, <1>2, <1>3
<1> QED
  BY <1>4 DEF others, Me

LEMMA RequestsStep ==
    ASSUME TypeOK, RequestsAreReal, [Next]_vars
    PROVE  req' \in [Requests -> Requested] /\ RequestsAreReal'
<1>1. ASSUME NEW r \in Requests, Request(r)
      PROVE  req' \in [Requests -> Requested] /\ RequestsAreReal'
  <2>0. req[r] \in Requested
    BY DEF TypeOK, Requested
  <2>1. CASE Begin(r)
    BY <2>1, BeginIsTyped
  <2>2. CASE ReadApprovals(r)
    <3> DEFINE s == Outcome(req[r].user, approvals[Me(r)])
               new == [req[r] EXCEPT !.pc = "decided", !.status = s]
    <3>1. s \in {"review", "approved"}
      BY DEF Outcome
    <3>2. new \in Requested /\ new.status = s
      BY <2>0, <3>1, Decided
    <3>3. req' = [req EXCEPT ![r] = new]
      BY <2>2 DEF ReadApprovals, TypeOK
    <3>4. /\ new.op = req[r].op /\ new.user = req[r].user /\ new.doc = req[r].doc
          /\ new.loaded = req[r].loaded
      BY <2>0 DEF Requested
    <3> HIDE DEF s, new
    <3> QED
      BY <2>2, <3>1, <3>2, <3>3, <3>4, GoingOnIsTyped DEF ReadApprovals, Is
  <2>3. CASE LookForActive(r)
    <3> DEFINE others == {d \in Docs : doc[d] # NULL /\ doc[d].is_active}
               new == [req[r] EXCEPT !.pc = "flushed", !.others = others]
    <3>1. new \in Requested
      BY <2>0, Flushed
    <3>2. req' = [req EXCEPT ![r] = new]
      BY <2>3 DEF LookForActive, TypeOK
    <3>3. /\ new.op = req[r].op /\ new.user = req[r].user /\ new.doc = req[r].doc
          /\ new.loaded = req[r].loaded /\ new.status = req[r].status
      BY <2>0 DEF Requested
    <3> HIDE DEF new
    <3> QED
      BY <2>3, <3>1, <3>2, <3>3, GoingOnIsTyped DEF LookForActive, Is
  <2>4. CASE EraseApprovals(r)
    <3> DEFINE new == [req[r] EXCEPT !.pc = "flushed", !.erased = approvals[Me(r)]]
    <3>1. approvals[Me(r)] \in SUBSET Users
      BY <2>4 DEF EraseApprovals, Is, RequestsAreReal, TypeOK
    <3>2. new \in Requested
      BY <2>0, <3>1, Flushed
    <3>3. req' = [req EXCEPT ![r] = new]
      BY <2>4 DEF EraseApprovals, TypeOK
    <3>4. /\ new.op = req[r].op /\ new.user = req[r].user /\ new.doc = req[r].doc
          /\ new.loaded = req[r].loaded
      BY <2>0 DEF Requested
    <3> HIDE DEF new
    <3> QED
      BY <2>4, <3>2, <3>3, <3>4, GoingOnIsTyped DEF EraseApprovals, Is
  <2>5. CASE Deactivate(r)
    <3> DEFINE others == {d \in Docs \ {Me(r)} : doc[d] # NULL /\ doc[d].is_active}
               new == [req[r] EXCEPT !.pc = "flushed", !.others = others,
                                     !.erased = approvals[Me(r)]]
    <3>1. approvals[Me(r)] \in SUBSET Users
      BY <2>5 DEF Deactivate, Is, RequestsAreReal, TypeOK
    <3>2. new \in Requested
      BY <2>0, <3>1, Flushed
    <3>3. req' = [req EXCEPT ![r] = new]
      BY <2>5 DEF Deactivate, TypeOK
    <3>4. /\ new.op = req[r].op /\ new.user = req[r].user /\ new.doc = req[r].doc
          /\ new.loaded = req[r].loaded
      BY <2>0 DEF Requested
    <3> HIDE DEF new
    <3> QED
      BY <2>5, <3>2, <3>3, <3>4, GoingOnIsTyped DEF Deactivate, Is
  <2>6. CASE End(r)
    BY <2>6, EndIsTyped
  <2> QED
    BY <1>1, <2>1, <2>2, <2>3, <2>4, <2>5, <2>6 DEF Request, Die, CommitApprove,
       CommitRevision, CommitActive, CommitLock, CommitEdit, CommitNewVersion,
       CommitGenerate, CommitCancel
<1>2. CASE UNCHANGED req
  BY <1>2 DEF TypeOK, Requested, RequestsAreReal, Me, Loaded, Is
<1> QED
  BY <1>1, <1>2 DEF Next, Run, RunStarts, RunFinishes, RunFails, RunDies, LockLapses, vars

-----------------------------------------------------------------------------
\* r is the approval that approves d, or the one that makes it active.
Approves(r, d) == CommitApprove(r) /\ Me(r) = d /\ req[r].status = "approved"
Activates(r, d) == \/ Approves(r, d) /\ req[r].others = {}
                   \/ CommitActive(r) /\ Me(r) = d

\* What a step makes of a row that is there: only an approval approves it, only
\* an approval or an activation makes it active, and what changes the content
\* of an approved one is an edit.
Changed(d) ==
    /\ doc[d] \in Rows /\ doc'[d] \in Rows
    /\ doc'[d].status = "approved" =>
          doc[d].status = "approved" \/ \E r \in Requests : Approves(r, d)
    /\ doc'[d].is_active => doc[d].is_active \/ \E r \in Requests : Activates(r, d)
    /\ \/ doc'[d].content = doc[d].content
       \/ doc'[d].status # "approved"
       \/ \E r \in Requests : Is(r, "edit", "loaded") /\ Me(r) = d

Inserted(d) ==
    doc[d] = NULL /\ doc'[d] \in Rows /\ doc'[d].status # "approved" /\ ~doc'[d].is_active

RowStep(d) ==
    \/ doc'[d] = doc[d]
    \/ doc'[d] = NULL /\ approvals'[d] = {}
    \/ Inserted(d)
    \/ Changed(d)

\* One row is flushed.
LEMMA FlushStep ==
    ASSUME TypeOK, RequestsAreReal, NEW r \in Requests, req[r].op # "none",
           doc[Me(r)] # NULL, NEW new \in Rows,
           doc' = [doc EXCEPT ![Me(r)] = Flush(@, Loaded(r), new)],
           new.status = "approved" => Loaded(r).status = "approved" \/ Approves(r, Me(r)),
           new.is_active => Loaded(r).is_active \/ Activates(r, Me(r)),
           new.content = Loaded(r).content
    PROVE  doc' \in [Docs -> Rows \cup {NULL}] /\ \A d \in Docs : RowStep(d)
<1>1. Me(r) \in Docs /\ Loaded(r) \in Rows
  BY DEF RequestsAreReal
<1>2. doc[Me(r)] \in Rows
  BY <1>1 DEF TypeOK
<1> DEFINE row == Flush(doc[Me(r)], Loaded(r), new)
<1>3. row \in Rows
  BY <1>1, <1>2, FlushIsTyped
<1>4. /\ row.status = IF new.status = Loaded(r).status THEN doc[Me(r)].status ELSE new.status
      /\ row.is_active = IF new.is_active = Loaded(r).is_active
                         THEN doc[Me(r)].is_active ELSE new.is_active
      /\ row.content = doc[Me(r)].content
  BY <1>1, <1>2, FlushedColumns
<1>5. doc' = [doc EXCEPT ![Me(r)] = row]
  OBVIOUS
<1> HIDE DEF row
<1>6. doc' \in [Docs -> Rows \cup {NULL}] /\ doc'[Me(r)] = row
  BY <1>1, <1>3, <1>5 DEF TypeOK
<1>7. row.is_active => doc[Me(r)].is_active \/ Activates(r, Me(r))
  BY <1>1, <1>2, <1>4 DEF Rows
<1>8. Changed(Me(r))
  BY <1>2, <1>3, <1>4, <1>6, <1>7 DEF Changed
<1>9. \A d \in Docs \ {Me(r)} : doc'[d] = doc[d]
  BY <1>5 DEF TypeOK
<1> QED
  BY <1>6, <1>8, <1>9 DEF RowStep

\* One row is written otherwise.
LEMMA WriteStep ==
    ASSUME TypeOK, NEW e \in Docs, NEW row \in Rows \cup {NULL},
           doc' = [doc EXCEPT ![e] = row],
           \/ row = NULL /\ approvals'[e] = {}
           \/ Inserted(e) \/ Changed(e)
    PROVE  doc' \in [Docs -> Rows \cup {NULL}] /\ \A d \in Docs : RowStep(d)
<1>1. doc' \in [Docs -> Rows \cup {NULL}] /\ doc'[e] = row
  BY DEF TypeOK
<1>2. \A d \in Docs \ {e} : doc'[d] = doc[d]
  BY DEF TypeOK
<1> QED
  BY <1>1, <1>2 DEF RowStep

LEMMA RequestRowStep ==
    ASSUME TypeOK, RequestsAreReal, NEW r \in Requests, Request(r)
    PROVE  doc' \in [Docs -> Rows \cup {NULL}] /\ \A d \in Docs : RowStep(d)
<1>1. CASE UNCHANGED doc
  BY <1>1 DEF TypeOK, RowStep
<1>2. CASE CommitApprove(r)
  <2> DEFINE marked == [Loaded(r) EXCEPT !.status = req[r].status]
             active == [Unlocked(marked) EXCEPT !.is_active = (@ \/ req[r].others = {})]
             new == IF req[r].status = "review" THEN marked ELSE active
  <2>1. /\ req[r].op = "approve" /\ Loaded(r) \in Rows /\ doc[Me(r)] # NULL
        /\ req[r].status \in {"review", "approved"}
    BY <1>2 DEF CommitApprove, Is, RequestsAreReal
  <2>2. /\ marked \in Rows /\ marked.status = req[r].status
        /\ marked.is_active = Loaded(r).is_active /\ marked.content = Loaded(r).content
    BY <2>1 DEF Rows, Status
  <2>3. /\ Unlocked(marked) \in Rows /\ Unlocked(marked).status = req[r].status
        /\ Unlocked(marked).is_active = Loaded(r).is_active
        /\ Unlocked(marked).content = Loaded(r).content
    BY <2>2, UnlockedIsTyped
  <2> HIDE DEF marked
  <2>4. /\ active \in Rows /\ active.status = req[r].status
        /\ active.is_active => Loaded(r).is_active \/ req[r].others = {}
        /\ active.content = Loaded(r).content
    BY <2>3 DEF Rows
  <2> HIDE DEF active
  <2>5. /\ new \in Rows /\ new.status = req[r].status /\ new.content = Loaded(r).content
        /\ new.is_active => \/ Loaded(r).is_active
                            \/ req[r].status = "approved" /\ req[r].others = {}
    BY <2>1, <2>2, <2>4
  <2>6. doc' = [doc EXCEPT ![Me(r)] = Flush(@, Loaded(r), new)]
    BY <1>2 DEF CommitApprove, new, active, marked
  <2> HIDE DEF new
  <2> QED
    BY <1>2, <2>1, <2>5, <2>6, FlushStep DEF Approves, Activates
<1>3. CASE CommitRevision(r)
  <2> DEFINE new == [Unlocked(Loaded(r)) EXCEPT !.status = "draft"]
  <2>1. req[r].op # "none" /\ Loaded(r) \in Rows
    BY <1>3 DEF CommitRevision, Is, RequestsAreReal
  <2>2. /\ new \in Rows /\ new.status = "draft" /\ new.is_active = Loaded(r).is_active
        /\ new.content = Loaded(r).content
    BY <2>1, UnlockedIsTyped DEF Rows, Status
  <2>3. doc[Me(r)] # NULL /\ doc' = [doc EXCEPT ![Me(r)] = Flush(@, Loaded(r), new)]
    BY <1>3 DEF CommitRevision
  <2> HIDE DEF new
  <2> QED
    BY <2>1, <2>2, <2>3, FlushStep
<1>4. CASE CommitActive(r)
  <2> DEFINE row == Flush(doc[Me(r)], Loaded(r), Activated(r))
  <2>1. /\ req[r].op # "none" /\ Me(r) \in Docs /\ Loaded(r) \in Rows /\ doc[Me(r)] \in Rows
    BY <1>4 DEF CommitActive, Is, RequestsAreReal, TypeOK
  <2>2. /\ Activated(r) \in Rows /\ Activated(r).content = Loaded(r).content
        /\ Activated(r).status # "approved"
    <3> DEFINE unlocked == Unlocked(Loaded(r))
               active == [unlocked EXCEPT !.is_active = TRUE]
    <3>1. unlocked \in Rows /\ unlocked.content = Loaded(r).content
      BY <2>1, UnlockedIsTyped
    <3>2. Activated(r) = [active EXCEPT !.status = IF @ = "approved" THEN "review" ELSE @]
      BY DEF Activated
    <3> HIDE DEF unlocked
    <3>3. active \in Rows /\ active.content = Loaded(r).content
      BY <3>1 DEF Rows
    <3> HIDE DEF active
    <3> QED
      BY <3>2, <3>3 DEF Rows, Status
  <2>3. row \in Rows
    BY <2>1, <2>2, FlushIsTyped
  <2>4. row.content = doc[Me(r)].content /\ (row.status = "approved" =>
          doc[Me(r)].status = "approved")
    BY <2>1, <2>2, FlushedColumns
  <2>5. /\ doc'[Me(r)] = row
        /\ \A d \in Docs \ {Me(r)} :
              doc'[d] = IF d \in req[r].others /\ doc[d] # NULL
                        THEN [doc[d] EXCEPT !.is_active = FALSE] ELSE doc[d]
    BY <1>4, <2>1 DEF CommitActive
  <2> HIDE DEF row
  <2>6. Changed(Me(r))
    BY <1>4, <2>1, <2>3, <2>4, <2>5 DEF Changed, Activates
  <2>7. ASSUME NEW d \in Docs, doc[d] # NULL
        PROVE  /\ [doc[d] EXCEPT !.is_active = FALSE] \in Rows
               /\ doc'[d] = [doc[d] EXCEPT !.is_active = FALSE] => Changed(d)
    <3>1. doc[d] \in Rows
      BY <2>7 DEF TypeOK
    <3>2. /\ [doc[d] EXCEPT !.is_active = FALSE] \in Rows
          /\ [doc[d] EXCEPT !.is_active = FALSE].status = doc[d].status
          /\ [doc[d] EXCEPT !.is_active = FALSE].content = doc[d].content
          /\ ~[doc[d] EXCEPT !.is_active = FALSE].is_active
      BY <3>1 DEF Rows
    <3> QED
      BY <3>1, <3>2 DEF Changed
  <2>8. \A d \in Docs : RowStep(d)
    BY <2>5, <2>6, <2>7 DEF RowStep
  <2>9. \A d \in Docs : doc'[d] \in Rows \cup {NULL}
    <3>1. ASSUME NEW d \in Docs \ {Me(r)} PROVE doc'[d] \in Rows \cup {NULL}
      <4>1. doc[d] \in Rows \cup {NULL}
        BY DEF TypeOK
      <4>2. CASE d \in req[r].others /\ doc[d] # NULL
        <5>1. doc'[d] = [doc[d] EXCEPT !.is_active = FALSE]
          BY <2>5, <4>2
        <5> QED
          BY <2>7, <4>2, <5>1
      <4>3. CASE ~(d \in req[r].others /\ doc[d] # NULL)
        BY <2>5, <4>1, <4>3
      <4> QED
        BY <4>2, <4>3
    <3> QED
      BY <2>1, <2>3, <2>5, <3>1
  <2>10. doc' = [d \in Docs |-> doc'[d]]
    BY <1>4 DEF CommitActive
  <2> QED
    BY <2>8, <2>9, <2>10
<1>5. CASE CommitLock(r)
  <2>1. /\ req[r].op # "none" /\ Me(r) \in Docs /\ Loaded(r) \in Rows /\ doc[Me(r)] \in Rows
        /\ req[r].user \in Users
    BY <1>5 DEF CommitLock, RequestsAreReal, TypeOK
  <2>2. CASE req[r].op = "unlock"
    <3> DEFINE new == Unlocked(Loaded(r))
    <3>1. /\ new \in Rows /\ new.status = Loaded(r).status
          /\ new.is_active = Loaded(r).is_active /\ new.content = Loaded(r).content
      BY <2>1, UnlockedIsTyped
    <3>2. doc[Me(r)] # NULL /\ doc' = [doc EXCEPT ![Me(r)] = Flush(@, Loaded(r), new)]
      BY <1>5, <2>2 DEF CommitLock
    <3> HIDE DEF new
    <3> QED
      BY <2>1, <3>1, <3>2, FlushStep
  <2>3. CASE req[r].op = "lock"
    <3> DEFINE new == [Loaded(r) EXCEPT !.locked_by = req[r].user]
               flushed == Flush(doc[Me(r)], Loaded(r), new)
               row == [flushed EXCEPT !.locked_at = "fresh"]
    <3>1. /\ new \in Rows /\ new.status = Loaded(r).status
          /\ new.is_active = Loaded(r).is_active /\ new.content = Loaded(r).content
      BY <2>1 DEF Rows
    <3> HIDE DEF new
    <3>2. /\ flushed \in Rows /\ flushed.status = doc[Me(r)].status
          /\ flushed.is_active = doc[Me(r)].is_active /\ flushed.content = doc[Me(r)].content
      <4>1. flushed \in Rows
        BY <2>1, <3>1, FlushIsTyped
      <4>2. /\ flushed.status = IF new.status = Loaded(r).status
                                THEN doc[Me(r)].status ELSE new.status
            /\ flushed.is_active = IF new.is_active = Loaded(r).is_active
                                   THEN doc[Me(r)].is_active ELSE new.is_active
            /\ flushed.content = IF new.content = Loaded(r).content
                                 THEN doc[Me(r)].content ELSE new.content
        BY <2>1, <3>1, FlushedColumns
      <4> QED
        BY <3>1, <4>1, <4>2
    <3> HIDE DEF flushed
    <3>3. /\ row \in Rows /\ row.status = doc[Me(r)].status
          /\ row.is_active = doc[Me(r)].is_active /\ row.content = doc[Me(r)].content
      BY <3>2 DEF Rows
    <3>4. doc' = [doc EXCEPT ![Me(r)] = row]
      BY <1>5, <2>3 DEF CommitLock, row, flushed, new
    <3> HIDE DEF row
    <3>5. doc'[Me(r)] = row
      BY <2>1, <3>4 DEF TypeOK
    <3> QED
      BY <2>1, <3>3, <3>4, <3>5, WriteStep DEF Changed
  <2> QED
    BY <1>5, <2>2, <2>3 DEF CommitLock
<1>6. CASE CommitEdit(r)
  <2> DEFINE row == [doc[Me(r)] EXCEPT !.content = writes + 1]
  <2>1. Me(r) \in Docs /\ doc[Me(r)] \in Rows
    BY <1>6 DEF CommitEdit, Is, RequestsAreReal, TypeOK
  <2>2. /\ row \in Rows /\ row.status = doc[Me(r)].status
        /\ row.is_active = doc[Me(r)].is_active
    <3>1. writes + 1 \in Nat
      BY DEF TypeOK
    <3> QED
      BY <2>1, <3>1 DEF Rows
  <2>3. doc' = [doc EXCEPT ![Me(r)] = row]
    BY <1>6 DEF CommitEdit
  <2> HIDE DEF row
  <2>4. doc'[Me(r)] = row
    BY <2>1, <2>3 DEF TypeOK
  <2>5. Changed(Me(r))
    BY <1>6, <2>1, <2>2, <2>4 DEF Changed, CommitEdit
  <2> QED
    BY <2>1, <2>2, <2>3, <2>5, WriteStep
<1>7. CASE CommitNewVersion(r)
  <2>1. Loaded(r) \in Rows
    BY <1>7 DEF CommitNewVersion, Is, RequestsAreReal
  <2>2. PICK d \in Unborn :
          doc' = [doc EXCEPT ![d] = [NewRow(Loaded(r).version + 1, "draft") EXCEPT
                                        !.content = Loaded(r).content]]
    BY <1>7 DEF CommitNewVersion
  <2> DEFINE row == [NewRow(Loaded(r).version + 1, "draft") EXCEPT
                        !.content = Loaded(r).content]
  <2>3. row \in Rows /\ row.status = "draft" /\ ~row.is_active
    <3> DEFINE blank == NewRow(Loaded(r).version + 1, "draft")
    <3>1. Loaded(r).version + 1 \in Nat /\ Loaded(r).content \in Nat
      BY <2>1 DEF Rows
    <3>2. blank \in Rows /\ blank.status = "draft" /\ ~blank.is_active
      BY <3>1, NewRowIsTyped DEF Status
    <3> HIDE DEF blank
    <3>3. row = [blank EXCEPT !.content = Loaded(r).content]
      BY DEF blank
    <3> HIDE DEF row
    <3> QED
      BY <3>1, <3>2, <3>3 DEF Rows
  <2> HIDE DEF row
  <2>4. d \in Docs /\ doc[d] = NULL /\ doc' = [doc EXCEPT ![d] = row]
    BY <2>2 DEF Unborn, row
  <2>5. Inserted(d)
    BY <2>3, <2>4 DEF Inserted, TypeOK
  <2> QED
    BY <2>3, <2>4, <2>5, WriteStep
<1>8. CASE CommitGenerate(r)
  <2>1. /\ req[r].op # "none" /\ Loaded(r) \in Rows /\ Me(r) \in Docs
    BY <1>8 DEF CommitGenerate, Is, RequestsAreReal
  <2>2. PICK d \in Unborn \cup {Me(r)} :
          IF d = Me(r)
          THEN /\ doc[d] # NULL
               /\ doc' = [doc EXCEPT ![d] = Flush(@, Loaded(r),
                             [Unlocked(Loaded(r)) EXCEPT !.status = "generating"])]
          ELSE doc' = [doc EXCEPT ![d] = NewRow(Loaded(r).version + 1, "generating")]
    BY <1>8 DEF CommitGenerate
  <2>3. CASE d = Me(r)
    <3> DEFINE new == [Unlocked(Loaded(r)) EXCEPT !.status = "generating"]
    <3>1. /\ new \in Rows /\ new.status = "generating" /\ new.is_active = Loaded(r).is_active
          /\ new.content = Loaded(r).content
      BY <2>1, UnlockedIsTyped DEF Rows, Status
    <3>2. doc[Me(r)] # NULL /\ doc' = [doc EXCEPT ![Me(r)] = Flush(@, Loaded(r), new)]
      BY <2>2, <2>3
    <3> HIDE DEF new
    <3> QED
      BY <2>1, <3>1, <3>2, FlushStep
  <2>4. CASE d # Me(r)
    <3> DEFINE row == NewRow(Loaded(r).version + 1, "generating")
    <3>1. row \in Rows /\ row.status = "generating" /\ ~row.is_active
      BY <2>1 DEF NewRow, Rows, Status
    <3>2. d \in Docs /\ doc[d] = NULL /\ doc' = [doc EXCEPT ![d] = row]
      BY <2>2, <2>4 DEF Unborn
    <3> HIDE DEF row
    <3>3. Inserted(d)
      BY <3>1, <3>2 DEF Inserted, TypeOK
    <3> QED
      BY <3>1, <3>2, <3>3, WriteStep
  <2> QED
    BY <2>3, <2>4
<1>9. CASE CommitCancel(r)
  <2>1. Me(r) \in Docs
    BY <1>9 DEF CommitCancel, Is, RequestsAreReal
  <2>2. approvals'[Me(r)] = {}
    BY <1>9, <2>1 DEF CommitCancel, TypeOK
  <2> QED
    BY <1>9, <2>1, <2>2, WriteStep DEF CommitCancel
<1> QED
  BY <1>1, <1>2, <1>3, <1>4, <1>5, <1>6, <1>7, <1>8, <1>9 DEF Request, Begin, Die,
     ReadApprovals, LookForActive, EraseApprovals, Deactivate

LEMMA RunRowStep ==
    ASSUME TypeOK, RunsAreReal, NEW n \in Runs, Run(n)
    PROVE  doc' \in [Docs -> Rows \cup {NULL}] /\ \A d \in Docs : RowStep(d)
<1>1. CASE UNCHANGED doc
  BY <1>1 DEF TypeOK, RowStep
<1>2. ASSUME doc' # doc
      PROVE  run[n].doc \in Docs /\ doc[run[n].doc] \in Rows
  BY <1>2 DEF Run, RunStarts, RunFinishes, RunFails, RunsAreReal, TypeOK
<1>3. ASSUME doc' # doc, NEW s \in {"generating", "draft"},
             doc' = [doc EXCEPT ![run[n].doc].status = s]
      PROVE  doc' \in [Docs -> Rows \cup {NULL}] /\ \A d \in Docs : RowStep(d)
  <2> DEFINE row == [doc[run[n].doc] EXCEPT !.status = s]
  <2>1. /\ row \in Rows /\ row.status = s /\ row.is_active = doc[run[n].doc].is_active
    BY <1>2, <1>3 DEF Rows, Status
  <2>2. doc' = [doc EXCEPT ![run[n].doc] = row]
    BY <1>3
  <2> HIDE DEF row
  <2>3. doc'[run[n].doc] = row
    BY <1>2, <1>3, <2>2 DEF TypeOK
  <2>4. Changed(run[n].doc)
    BY <1>2, <1>3, <2>1, <2>3 DEF Changed
  <2> QED
    BY <1>2, <1>3, <2>1, <2>2, <2>4, WriteStep
<1>4. CASE RunStarts(n) /\ doc' # doc
  BY <1>3, <1>4 DEF RunStarts
<1>5. CASE RunFails(n) /\ doc' # doc
  BY <1>3, <1>5 DEF RunFails
<1>6. CASE RunFinishes(n) /\ doc' # doc
  <2> DEFINE marked == [doc[run[n].doc] EXCEPT !.status = "review"]
             row == [marked EXCEPT !.content = writes + 1]
  <2>1. marked \in Rows /\ marked.status = "review"
        /\ marked.is_active = doc[run[n].doc].is_active
    BY <1>2, <1>6 DEF Rows, Status
  <2>2. doc' = [doc EXCEPT ![run[n].doc] = row]
    BY <1>2, <1>6 DEF RunFinishes, TypeOK
  <2>3. writes + 1 \in Nat
    BY DEF TypeOK
  <2> HIDE DEF marked
  <2>4. row \in Rows /\ row.status = "review" /\ row.is_active = doc[run[n].doc].is_active
    BY <2>1, <2>3 DEF Rows
  <2> HIDE DEF row
  <2>5. doc'[run[n].doc] = row
    BY <1>2, <1>6, <2>2 DEF TypeOK
  <2>6. Changed(run[n].doc)
    BY <1>2, <1>6, <2>4, <2>5 DEF Changed
  <2> QED
    BY <1>2, <1>6, <2>2, <2>4, <2>6, WriteStep
<1> QED
  BY <1>1, <1>4, <1>5, <1>6 DEF Run

LEMMA RowsStep ==
    ASSUME TypeOK, RequestsAreReal, RunsAreReal, [Next]_vars
    PROVE  doc' \in [Docs -> Rows \cup {NULL}] /\ \A d \in Docs : RowStep(d)
<1>1. CASE UNCHANGED doc
  BY <1>1 DEF TypeOK, RowStep
<1>2. CASE LockLapses
  <2>1. PICK d \in Docs : /\ doc[d] # NULL
                          /\ doc' = [doc EXCEPT ![d].locked_at = "lapsed"]
    BY <1>2 DEF LockLapses
  <2> DEFINE row == [doc[d] EXCEPT !.locked_at = "lapsed"]
  <2>2. doc[d] \in Rows
    BY <2>1 DEF TypeOK
  <2>3. /\ row \in Rows /\ row.status = doc[d].status /\ row.is_active = doc[d].is_active
        /\ row.content = doc[d].content
    BY <2>2 DEF Rows
  <2>4. doc' = [doc EXCEPT ![d] = row]
    BY <2>1
  <2> HIDE DEF row
  <2>5. doc'[d] = row
    BY <2>4 DEF TypeOK
  <2> QED
    BY <2>2, <2>3, <2>4, <2>5, WriteStep DEF Changed
<1> QED
  BY <1>1, <1>2, RequestRowStep, RunRowStep DEF Next, RunDies, vars

-----------------------------------------------------------------------------
\* A run that is not idle has its document.
LEMMA RunsStep ==
    ASSUME TypeOK, RequestsAreReal, RunsAreReal, [Next]_vars
    PROVE  /\ run' \in [Runs -> [pc : {"idle", "queued", "working"}, doc : Docs \cup {NULL}]]
           /\ RunsAreReal'
<1> DEFINE Running == [pc : {"idle", "queued", "working"}, doc : Docs \cup {NULL}]
<1>1. ASSUME NEW n \in Runs, NEW new \in Running, new.pc # "idle" => new.doc \in Docs,
             run' = [run EXCEPT ![n] = new]
      PROVE  run' \in [Runs -> Running] /\ RunsAreReal'
  BY <1>1 DEF TypeOK, RunsAreReal
<1>2. ASSUME NEW n \in Runs, EndRun(n)
      PROVE  run' \in [Runs -> Running] /\ RunsAreReal'
  BY <1>1, <1>2 DEF EndRun, IdleRun
<1>3. ASSUME NEW n \in Runs, RunStarts(n)
      PROVE  run' \in [Runs -> Running] /\ RunsAreReal'
  <2>1. /\ run[n].doc \in Docs /\ [run[n] EXCEPT !.pc = "working"] \in Running
        /\ [run[n] EXCEPT !.pc = "working"].doc = run[n].doc
    BY <1>3 DEF RunStarts, RunsAreReal, TypeOK
  <2>2. EndRun(n) \/ run' = [run EXCEPT ![n] = [run[n] EXCEPT !.pc = "working"]]
    BY <1>3 DEF RunStarts
  <2> QED
    BY <1>1, <1>2, <2>1, <2>2
<1>4. ASSUME NEW r \in Requests, CommitGenerate(r)
      PROVE  run' \in [Runs -> Running] /\ RunsAreReal'
  <2>1. PICK d \in Docs : \/ run' = run
                          \/ \E n \in Runs : run' = [run EXCEPT ![n] = [pc |-> "queued", doc |-> d]]
    BY <1>4 DEF CommitGenerate, Unborn, RequestsAreReal, Is
  <2>2. [pc |-> "queued", doc |-> d] \in Running
    OBVIOUS
  <2> QED
    BY <1>1, <2>1, <2>2 DEF TypeOK, RunsAreReal
<1>5. CASE UNCHANGED run
  BY <1>5 DEF TypeOK, RunsAreReal
<1> QED
  BY <1>2, <1>3, <1>4, <1>5 DEF Next, Request, Begin, Die, ReadApprovals, LookForActive,
     EraseApprovals, Deactivate, CommitApprove, CommitRevision, CommitActive, CommitLock,
     CommitEdit, CommitNewVersion, CommitCancel, Run, RunFinishes, RunFails, RunDies,
     LockLapses, vars

\* Approvals are recorded, with their history, by the approval of a row that is
\* there; everything else only takes them away.
LEMMA ApprovalsStep ==
    ASSUME TypeOK, RequestsAreReal, [Next]_vars
    PROVE  \/ /\ UNCHANGED granted
              /\ approvals' \in [Docs -> SUBSET Users]
              /\ \A d \in Docs : approvals'[d] \subseteq approvals[d]
           \/ \E r \in Requests :
                 /\ CommitApprove(r)
                 /\ Me(r) \in Docs /\ req[r].user \in Users /\ doc[Me(r)] # NULL
                 /\ approvals' = [approvals EXCEPT ![Me(r)] = @ \cup {req[r].user}]
                 /\ granted' = [granted EXCEPT ![Me(r)] = @ \cup {req[r].user}]
<1>1. ASSUME NEW r \in Requests, CommitApprove(r)
      PROVE  /\ Me(r) \in Docs /\ req[r].user \in Users /\ doc[Me(r)] # NULL
             /\ approvals' = [approvals EXCEPT ![Me(r)] = @ \cup {req[r].user}]
             /\ granted' = [granted EXCEPT ![Me(r)] = @ \cup {req[r].user}]
  BY <1>1 DEF CommitApprove, Is, RequestsAreReal
<1>2. ASSUME NEW r \in Requests, CommitRevision(r) \/ CommitActive(r) \/ CommitCancel(r)
      PROVE  /\ UNCHANGED granted
             /\ approvals' \in [Docs -> SUBSET Users]
             /\ \A d \in Docs : approvals'[d] \subseteq approvals[d]
  <2>1. PICK gone \in SUBSET approvals[Me(r)] :
          approvals' = [approvals EXCEPT ![Me(r)] = gone]
    <3>1. CASE CommitRevision(r) \/ CommitActive(r)
      BY <3>1 DEF CommitRevision, CommitActive
    <3>2. CASE CommitCancel(r)
      BY <3>2 DEF CommitCancel
    <3> QED
      BY <1>2, <3>1, <3>2
  <2>2. UNCHANGED granted
    BY <1>2 DEF CommitRevision, CommitActive, CommitCancel
  <2> QED
    BY <2>1, <2>2 DEF TypeOK
<1>3. ASSUME UNCHANGED <<approvals, granted>>
      PROVE  /\ UNCHANGED granted
             /\ approvals' \in [Docs -> SUBSET Users]
             /\ \A d \in Docs : approvals'[d] \subseteq approvals[d]
  BY <1>3 DEF TypeOK
<1>4. \/ UNCHANGED <<approvals, granted>>
      \/ \E r \in Requests : \/ CommitApprove(r) \/ CommitRevision(r)
                             \/ CommitActive(r) \/ CommitCancel(r)
  BY DEF Next, Request, Begin, Die, ReadApprovals, LookForActive, EraseApprovals,
     Deactivate, CommitLock, CommitEdit, CommitNewVersion, CommitGenerate, Run, RunStarts,
     RunFinishes, RunFails, RunDies, LockLapses, vars
<1> QED
  BY <1>1, <1>2, <1>3, <1>4

LEMMA TypeStep ==
    ASSUME TypeOK, RequestsAreReal, RunsAreReal, [Next]_vars
    PROVE  TypeOK'
<1>1. req' \in [Requests -> Requested]
  BY RequestsStep
<1>2. run' \in [Runs -> [pc : {"idle", "queued", "working"}, doc : Docs \cup {NULL}]]
  BY RunsStep
<1>3. doc' \in [Docs -> Rows \cup {NULL}] /\ \A d \in Docs : RowStep(d)
  BY RowsStep
<1>4. approvals' \in [Docs -> SUBSET Users] /\ granted' \in [Docs -> SUBSET Users]
  <2>1. ASSUME NEW u \in Users, NEW e \in Docs,
               approvals' = [approvals EXCEPT ![e] = @ \cup {u}],
               granted' = [granted EXCEPT ![e] = @ \cup {u}]
        PROVE  approvals' \in [Docs -> SUBSET Users] /\ granted' \in [Docs -> SUBSET Users]
    BY <2>1 DEF TypeOK
  <2> QED
    BY <2>1, ApprovalsStep DEF TypeOK
<1>5. \A d \in Docs : doc'[d] = NULL => approvals'[d] = {}
  <2> SUFFICES ASSUME NEW d \in Docs, doc'[d] = NULL PROVE approvals'[d] = {}
    OBVIOUS
  <2>1. CASE doc[d] = NULL
    BY <2>1, ApprovalsStep DEF TypeOK
  <2>2. CASE doc[d] # NULL
    BY <1>3, <2>2 DEF RowStep, Changed, Inserted
  <2> QED
    BY <2>1, <2>2
<1>6. deleted' \subseteq Docs
  <2>1. \A r \in Requests : CommitCancel(r) => deleted' \subseteq Docs
    BY DEF CommitCancel, Is, RequestsAreReal, TypeOK
  <2>2. UNCHANGED deleted \/ \E r \in Requests : CommitCancel(r)
    BY DEF Next, Request, Begin, Die, ReadApprovals, LookForActive, CommitApprove,
       EraseApprovals, CommitRevision, Deactivate, CommitActive, CommitLock, CommitEdit,
       CommitNewVersion, CommitGenerate, Run, RunStarts, RunFinishes, RunFails, RunDies,
       LockLapses, vars
  <2> QED
    BY <2>1, <2>2 DEF TypeOK
<1>7. {begun, writes}' \subseteq Nat
  <2>1. begun \in Nat /\ writes \in Nat
    BY DEF TypeOK
  <2>2. begun' \in {begun, begun + 1} /\ writes' \in {writes, writes + 1}
    BY DEF Next, Request, Begin, Die, ReadApprovals, LookForActive, CommitApprove,
       EraseApprovals, CommitRevision, Deactivate, CommitActive, CommitLock, CommitEdit,
       CommitNewVersion, CommitGenerate, CommitCancel, Run, RunStarts, RunFinishes,
       RunFails, RunDies, LockLapses, vars
  <2> QED
    BY <2>1, <2>2
<1>8. {raced, died}' \subseteq BOOLEAN
  <2>1. raced' \in BOOLEAN
    <3>1. \A r \in Requests : Racing(r) => raced' \in BOOLEAN
      BY Zenon DEF Racing
    <3>2. UNCHANGED raced \/ \E r \in Requests : Racing(r)
      BY DEF Next, Request, Begin, Die, ReadApprovals, LookForActive, CommitApprove,
         EraseApprovals, CommitRevision, Deactivate, CommitActive, CommitLock, CommitEdit,
         CommitNewVersion, CommitGenerate, CommitCancel, Run, RunStarts, RunFinishes,
         RunFails, RunDies, LockLapses, vars
    <3> QED
      BY <3>1, <3>2 DEF TypeOK
  <2>2. died' \in BOOLEAN
    <3>1. died' = died \/ died' = TRUE
      BY DEF Next, Request, Begin, Die, ReadApprovals, LookForActive, CommitApprove,
         EraseApprovals, CommitRevision, Deactivate, CommitActive, CommitLock, CommitEdit,
         CommitNewVersion, CommitGenerate, CommitCancel, Run, RunStarts, RunFinishes,
         RunFails, RunDies, LockLapses, vars
    <3> QED
      BY <3>1 DEF TypeOK
  <2> QED
    BY <2>1, <2>2
<1> QED
  BY <1>1, <1>2, <1>3, <1>4, <1>5, <1>6, <1>7, <1>8 DEF TypeOK, Requested

-----------------------------------------------------------------------------
\* The approvals by these accounts together approve a document.
Earned(us) ==
    \/ \E u \in us : IsAdmin(u)
    \/ /\ Cardinality(us) >= 2
       /\ SpecialistRoles \subseteq UNION {RolesOf[u] : u \in us}

\* Approvals that are there have been given, and nobody has given infinitely many.
ApprovalsAreGranted ==
    \A d \in Docs : approvals[d] \subseteq granted[d] /\ IsFiniteSet(granted[d])

\* An approval that was decided to approve earns it together with those given.
DecisionsAreEarned ==
    \A r \in Requests :
        /\ Is(r, "approve", "decided") \/ Is(r, "approve", "flushed")
        /\ req[r].status = "approved"
        => Earned(granted[Me(r)] \cup {req[r].user})

LEMMA EarnedGrows ==
    ASSUME NEW S, NEW T, S \subseteq T, IsFiniteSet(T), Earned(S)
    PROVE  Earned(T)
<1>1. CASE \E u \in S : IsAdmin(u)
  BY <1>1 DEF Earned
<1>2. CASE /\ Cardinality(S) >= 2
           /\ SpecialistRoles \subseteq UNION {RolesOf[u] : u \in S}
  <2>1. IsFiniteSet(S) /\ Cardinality(S) <= Cardinality(T)
    BY FS_Subset
  <2>2. Cardinality(S) \in Nat /\ Cardinality(T) \in Nat
    BY <2>1, FS_CardinalityType
  <2>3. Cardinality(T) >= 2
    BY <1>2, <2>1, <2>2
  <2>4. SpecialistRoles \subseteq UNION {RolesOf[u] : u \in T}
    BY <1>2
  <2> QED
    BY <2>3, <2>4 DEF Earned
<1> QED
  BY <1>1, <1>2 DEF Earned

LEMMA OutcomeIsEarned ==
    ASSUME NEW u, NEW prior, Outcome(u, prior) = "approved"
    PROVE  Earned(prior \cup {u})
<1>1. CASE IsAdmin(u) \/ \E p \in prior : IsAdmin(p)
  BY <1>1 DEF Earned
<1>2. CASE Quorum(prior \cup {u})
  BY <1>2 DEF Quorum, Covered, Earned
<1> QED
  BY <1>1, <1>2 DEF Outcome

LEMMA GrantedStep ==
    ASSUME TypeOK, RequestsAreReal, ApprovalsAreGranted, [Next]_vars
    PROVE  ApprovalsAreGranted' /\ \A d \in Docs : granted[d] \subseteq granted'[d]
<1>1. CASE UNCHANGED granted /\ \A d \in Docs : approvals'[d] \subseteq approvals[d]
  BY <1>1 DEF ApprovalsAreGranted
<1>2. ASSUME NEW e \in Docs, NEW u \in Users,
             approvals' = [approvals EXCEPT ![e] = @ \cup {u}],
             granted' = [granted EXCEPT ![e] = @ \cup {u}]
      PROVE  ApprovalsAreGranted' /\ \A d \in Docs : granted[d] \subseteq granted'[d]
  <2>1. IsFiniteSet(granted[e] \cup {u})
    BY FS_AddElement DEF ApprovalsAreGranted
  <2>2. /\ \A d \in Docs \ {e} : granted'[d] = granted[d] /\ approvals'[d] = approvals[d]
        /\ granted'[e] = granted[e] \cup {u} /\ approvals'[e] = approvals[e] \cup {u}
    BY <1>2 DEF TypeOK
  <2> QED
    BY <2>1, <2>2 DEF ApprovalsAreGranted
<1> QED
  BY <1>1, <1>2, ApprovalsStep

\* A decision is made when the approvals are read, and stands while it waits.
LEMMA DecisionsStep ==
    ASSUME TypeOK, RequestsAreReal, ApprovalsAreGranted, DecisionsAreEarned, [Next]_vars
    PROVE  DecisionsAreEarned'
<1> SUFFICES ASSUME NEW r \in Requests,
                    (Is(r, "approve", "decided") \/ Is(r, "approve", "flushed"))',
                    req'[r].status = "approved"
             PROVE  Earned(granted'[Me(r)'] \cup {req'[r].user})
  BY DEF DecisionsAreEarned
<1>1. Me(r)' \in Docs
  BY RequestsStep DEF RequestsAreReal, Is
<1>2. IsFiniteSet(granted'[Me(r)'] \cup {req'[r].user}) /\ granted[Me(r)'] \subseteq granted'[Me(r)']
  BY <1>1, GrantedStep, FS_AddElement DEF ApprovalsAreGranted
<1>3. CASE /\ Is(r, "approve", "decided") \/ Is(r, "approve", "flushed")
           /\ req[r].status = "approved" /\ Me(r)' = Me(r) /\ req'[r].user = req[r].user
  <2>1. Earned(granted[Me(r)] \cup {req[r].user})
    BY <1>3 DEF DecisionsAreEarned
  <2> QED
    BY <1>2, <1>3, <2>1, EarnedGrows
<1>4. CASE /\ ReadApprovals(r) /\ Me(r)' = Me(r) /\ req'[r].user = req[r].user
           /\ req'[r].status = Outcome(req[r].user, approvals[Me(r)])
  <2>1. Earned(approvals[Me(r)] \cup {req[r].user})
    BY <1>4, OutcomeIsEarned
  <2>2. approvals[Me(r)] \subseteq granted[Me(r)]
    BY <1>1, <1>4 DEF ApprovalsAreGranted
  <2> QED
    BY <1>2, <1>4, <2>1, <2>2, EarnedGrows
<1>5. ASSUME NEW q \in Requests, Request(q), req' # req
      PROVE  \/ req'[r] = req[r]
             \/ q = r /\ req[r].op = "approve" /\ (ReadApprovals(r) \/ LookForActive(r))
  <2>1. \A p \in Requests \ {q} : req'[p] = req[p]
    BY <1>5 DEF Request, Begin, Die, ReadApprovals, LookForActive, CommitApprove,
       EraseApprovals, CommitRevision, Deactivate, CommitActive, CommitLock, CommitEdit,
       CommitNewVersion, CommitGenerate, CommitCancel, End, TypeOK
  <2>2. CASE End(q)
    BY <2>1, <2>2 DEF End, TypeOK, IdleRequest, Is
  <2>3. CASE Begin(q)
    BY <2>1, <2>3 DEF Begin, TypeOK, IdleRequest, Is
  <2>4. CASE EraseApprovals(q) \/ Deactivate(q)
    <3>1. req'[q].op \in {"revise", "activate"}
      <4>1. CASE EraseApprovals(q)
        BY <4>1 DEF EraseApprovals, TypeOK, Is
      <4>2. CASE Deactivate(q)
        BY <4>2, DeactivateSets
      <4> QED
        BY <2>4, <4>1, <4>2
    <3> QED
      BY <2>1, <3>1 DEF Is
  <2>5. CASE ReadApprovals(q) \/ LookForActive(q)
    BY <2>1, <2>5 DEF ReadApprovals, LookForActive, Is
  <2> QED
    BY <1>5, <2>2, <2>3, <2>4, <2>5 DEF Request, Die, CommitApprove, CommitRevision,
       CommitActive, CommitLock, CommitEdit, CommitNewVersion, CommitGenerate, CommitCancel
<1>6. CASE req'[r] = req[r]
  BY <1>3, <1>6 DEF Is, Me
<1>7. CASE ReadApprovals(r)
  <2>1. /\ Me(r)' = Me(r) /\ req'[r].user = req[r].user
        /\ req'[r].status = Outcome(req[r].user, approvals[Me(r)])
    BY <1>7 DEF ReadApprovals, TypeOK, Me
  <2> QED
    BY <1>4, <1>7, <2>1
<1>8. CASE LookForActive(r)
  <2>1. /\ Me(r)' = Me(r) /\ req'[r].user = req[r].user /\ req'[r].status = req[r].status
    BY <1>8 DEF LookForActive, TypeOK, Me
  <2> QED
    BY <1>3, <1>8, <2>1 DEF LookForActive
<1>9. req' = req \/ \E q \in Requests : Request(q)
  BY DEF Next, Run, RunStarts, RunFinishes, RunFails, RunDies, LockLapses, vars
<1> QED
  BY <1>5, <1>6, <1>7, <1>8, <1>9

\* Whoever is in granted when a row is approved has approved that very row.
LEMMA EarnedStep ==
    ASSUME TypeOK, RequestsAreReal, RunsAreReal, ApprovalsAreGranted, DecisionsAreEarned,
           ApprovedIsEarned, [Next]_vars
    PROVE  ApprovedIsEarned'
<1> SUFFICES ASSUME NEW d \in Docs, doc'[d] # NULL, doc'[d].status = "approved"
             PROVE  Earned(granted'[d])
  BY DEF ApprovedIsEarned, Earned
<1>1. granted[d] \subseteq granted'[d] /\ IsFiniteSet(granted'[d])
  BY GrantedStep DEF ApprovalsAreGranted
<1>2. CASE doc[d] # NULL /\ doc[d].status = "approved"
  <2>1. Earned(granted[d])
    BY <1>2 DEF ApprovedIsEarned, Earned
  <2> QED
    BY <1>1, <2>1, EarnedGrows
<1>3. CASE \E r \in Requests : Approves(r, d)
  <2>1. PICK r \in Requests : Approves(r, d)
    BY <1>3
  <2>2. /\ Is(r, "approve", "flushed") /\ req[r].status = "approved" /\ Me(r) = d
        /\ granted' = [granted EXCEPT ![d] = @ \cup {req[r].user}]
    BY <2>1 DEF Approves, CommitApprove
  <2>3. Earned(granted[d] \cup {req[r].user})
    BY <2>2 DEF DecisionsAreEarned
  <2>4. granted'[d] = granted[d] \cup {req[r].user}
    BY <2>2 DEF TypeOK
  <2> QED
    BY <2>3, <2>4
<1>4. doc[d] \in Rows \/ doc[d] = NULL
  BY DEF TypeOK
<1>5. RowStep(d)
  BY RowsStep
<1> QED
  BY <1>2, <1>3, <1>4, <1>5 DEF RowStep, Inserted, Changed

-----------------------------------------------------------------------------
(* One active version.                                                     *)

IsActive(d) == doc[d] # NULL /\ doc[d].is_active

\* r has decided on is_active, and has not committed.
Deciding(r) == Is(r, "approve", "flushed") \/ Is(r, "activate", "flushed")

\* While no two requests that decide on is_active overlap, the one that does
\* knows of every active version: an approval by what it found, an activation by
\* that or as its own.
ActiveIsKnown ==
    raced \/
        /\ \A d, e \in Docs : IsActive(d) /\ IsActive(e) => d = e
        /\ \A r, q \in Requests : Deciding(r) /\ Deciding(q) => r = q
        /\ \A r \in Requests, d \in Docs :
              /\ Is(r, "approve", "flushed") /\ IsActive(d) => d \in req[r].others
              /\ Is(r, "activate", "flushed") /\ IsActive(d)
                    => d \in req[r].others \cup {Me(r)}

\* The commit of the only request that decides leaves no other.
LEMMA ActiveCommitted ==
    ASSUME ActiveIsKnown, UNCHANGED raced, TypeOK, NEW r \in Requests, Deciding(r), End(r),
           raced \/ \A d, e \in Docs : IsActive(d)' /\ IsActive(e)' => d = e
    PROVE  ActiveIsKnown'
<1>1. ~Deciding(r)'
  BY DEF End, TypeOK, IdleRequest, Deciding, Is
<1>2. \A q \in Requests \ {r} : Deciding(q)' => Deciding(q)
  BY DEF End, TypeOK, Deciding, Is
<1> QED
  BY <1>1, <1>2 DEF ActiveIsKnown, Deciding, Is

\* A request that decides on is_active has been deciding, or has just looked at
\* what is active.
LEMMA DecidingStep ==
    ASSUME TypeOK, RequestsAreReal, [Next]_vars, NEW r \in Requests, Deciding(r)'
    PROVE  \/ req'[r] = req[r] /\ Deciding(r)
           \/ LookForActive(r) \/ Deactivate(r)
<1>1. ASSUME NEW q \in Requests, Request(q)
      PROVE  req'[r] = req[r] \/ LookForActive(r) \/ Deactivate(r)
  <2>1. \A p \in Requests \ {q} : req'[p] = req[p]
    <3>1. req = [p \in Requests |-> req[p]]
      BY DEF TypeOK
    <3>2. CASE Begin(q)
      BY <3>1, <3>2 DEF Begin
    <3>3. CASE ReadApprovals(q) \/ LookForActive(q)
      BY <3>1, <3>3 DEF ReadApprovals, LookForActive
    <3>4. CASE EraseApprovals(q) \/ Deactivate(q)
      BY <3>1, <3>4 DEF EraseApprovals, Deactivate
    <3>5. CASE End(q)
      BY <3>1, <3>5 DEF End
    <3>6. \/ Begin(q) \/ ReadApprovals(q) \/ LookForActive(q) \/ EraseApprovals(q) \/ Deactivate(q)
          \/ End(q)
      BY <1>1 DEF Request, Die, CommitApprove, CommitRevision, CommitActive, CommitLock, CommitEdit,
         CommitNewVersion, CommitGenerate, CommitCancel
    <3> QED BY <3>2, <3>3, <3>4, <3>5, <3>6
  <2>2. CASE End(q)
    BY <2>1, <2>2 DEF End, TypeOK, IdleRequest, Is, Deciding
  <2>3. CASE Begin(q)
    BY <2>1, <2>3 DEF Begin, TypeOK, IdleRequest, Is, Deciding
  <2>4. CASE EraseApprovals(q)
    BY <2>1, <2>4 DEF EraseApprovals, TypeOK, Is, Deciding
  <2>5. CASE ReadApprovals(q)
    BY <2>1, <2>5 DEF ReadApprovals, TypeOK, Is, Deciding
  <2>6. CASE LookForActive(q) \/ Deactivate(q)
    BY <2>1, <2>6
  <2> QED
    BY <1>1, <2>2, <2>3, <2>4, <2>5, <2>6 DEF Request, Die, CommitApprove, CommitRevision,
       CommitActive, CommitLock, CommitEdit, CommitNewVersion, CommitGenerate, CommitCancel
<1>2. req' = req \/ \E q \in Requests : Request(q)
  BY DEF Next, Run, RunStarts, RunFinishes, RunFails, RunDies, LockLapses, vars
<1> QED
  BY <1>1, <1>2 DEF Deciding, Is

LEMMA ActiveStep ==
    ASSUME TypeOK, RequestsAreReal, RunsAreReal, ActiveIsKnown, [Next]_vars
    PROVE  ActiveIsKnown'
<1> SUFFICES ASSUME ~raced' PROVE ActiveIsKnown'
  BY DEF ActiveIsKnown
<1>1. ~raced
  <2>1. \A r \in Requests : Racing(r) => ~raced
    BY Zenon DEF Racing
  <2>2. UNCHANGED raced \/ \E r \in Requests : Racing(r)
    BY DEF Next, Request, Begin, Die, ReadApprovals, LookForActive, CommitApprove,
       EraseApprovals, CommitRevision, Deactivate, CommitActive, CommitLock, CommitEdit,
       CommitNewVersion, CommitGenerate, CommitCancel, Run, RunStarts, RunFinishes,
       RunFails, RunDies, LockLapses, vars
  <2> QED
    BY <2>1, <2>2
<1>2. ASSUME NEW r \in Requests, NEW e \in Docs, Activates(r, e)
      PROVE  ActiveIsKnown'
  <2>1. Deciding(r) /\ End(r) /\ UNCHANGED raced /\ e = Me(r)
    BY <1>2 DEF Activates, Approves, CommitApprove, CommitActive, Deciding
  <2>2. ASSUME NEW d \in Docs \ {Me(r)} PROVE ~IsActive(d)'
    <3>1. CASE Approves(r, e) /\ req[r].others = {}
      <4>1. ~IsActive(d)
        BY <1>1, <3>1 DEF ActiveIsKnown, Approves, CommitApprove
      <4>2. doc'[d] = doc[d]
        BY <2>2, <3>1 DEF Approves, CommitApprove, TypeOK
      <4> QED
        BY <4>1, <4>2 DEF IsActive
    <3>2. CASE CommitActive(r)
      <4>1. IsActive(d) => d \in req[r].others
        BY <1>1, <2>2, <3>2 DEF ActiveIsKnown, CommitActive
      <4>2. doc'[d] = IF d \in req[r].others /\ doc[d] # NULL
                      THEN [doc[d] EXCEPT !.is_active = FALSE] ELSE doc[d]
        BY <2>2, <3>2 DEF CommitActive
      <4>3. CASE d \in req[r].others /\ doc[d] # NULL
        <5>1. doc[d] \in Rows
          BY <4>3 DEF TypeOK
        <5> QED
          BY <4>2, <4>3, <5>1 DEF IsActive, Rows
      <4>4. CASE ~(d \in req[r].others /\ doc[d] # NULL)
        BY <4>1, <4>2, <4>4 DEF IsActive
      <4> QED
        BY <4>3, <4>4
    <3> QED
      BY <1>2, <3>1, <3>2 DEF Activates
  <2>3. \A d, f \in Docs : IsActive(d)' /\ IsActive(f)' => d = f
    BY <2>2
  <2> QED
    BY <2>1, <2>3, ActiveCommitted
<1>3. ASSUME \A r \in Requests, d \in Docs : ~Activates(r, d)
      PROVE  ActiveIsKnown'
  <2>1. \A d \in Docs : IsActive(d)' => IsActive(d)
    <3>1. \A d \in Docs : Inserted(d) \/ Changed(d) => (IsActive(d)' => IsActive(d))
      BY <1>3 DEF Inserted, Changed, IsActive
    <3>2. \A d \in Docs : RowStep(d)
      BY RowsStep
    <3> QED
      BY <3>1, <3>2 DEF RowStep, IsActive
  <2>2. ASSUME NEW r \in Requests, LookForActive(r) \/ Deactivate(r)
        PROVE  ActiveIsKnown'
    <3>1. \A q \in Requests \ {r} : ~Deciding(q) /\ req'[q] = req[q]
      <4>1. Racing(r)
        BY <2>2 DEF LookForActive, Deactivate
      <4>2. ~\E q \in Requests \ {r} :
                req[q].pc = "flushed" /\ req[q].op \in {"approve", "activate"}
        BY <4>1, Zenon DEF Racing
      <4>3. \A q \in Requests \ {r} : req'[q] = req[q]
        BY <2>2 DEF LookForActive, Deactivate, TypeOK
      <4> QED
        BY <4>2, <4>3 DEF Deciding, Is
    <3>2. doc' = doc
      BY <2>2 DEF LookForActive, Deactivate
    <3>3. \A d \in Docs : IsActive(d)' =>
             /\ Is(r, "approve", "flushed")' => d \in req'[r].others
             /\ Is(r, "activate", "flushed")' => d \in req'[r].others \cup {Me(r)'}
      <4>1. CASE LookForActive(r)
        <5>1. /\ req'[r].op = "approve"
              /\ req'[r].others = {d \in Docs : doc[d] # NULL /\ doc[d].is_active}
          BY <4>1 DEF LookForActive, TypeOK, Is
        <5> QED
          BY <3>2, <5>1 DEF IsActive, Is
      <4>2. CASE Deactivate(r)
        <5>1. /\ req'[r].op = "activate" /\ Me(r)' = Me(r)
              /\ req'[r].others = {d \in Docs \ {Me(r)} : doc[d] # NULL /\ doc[d].is_active}
          BY <4>2, DeactivateSets
        <5> QED
          BY <3>2, <5>1 DEF IsActive, Is
      <4> QED
        BY <2>2, <4>1, <4>2
    <3>4. \A q \in Requests : Deciding(q)' => q = r
      BY <3>1 DEF Deciding, Is
    <3>5. \A d, e \in Docs : IsActive(d)' /\ IsActive(e)' => d = e
      BY <1>1, <2>1 DEF ActiveIsKnown
    <3> QED
      BY <3>3, <3>4, <3>5 DEF ActiveIsKnown, Deciding
  <2>3. CASE \A r \in Requests : Deciding(r)' => req'[r] = req[r] /\ Deciding(r)
    BY <1>1, <2>1, <2>3 DEF ActiveIsKnown, Deciding, Is, Me
  <2> QED
    BY <2>2, <2>3, DecidingStep
<1> QED
  BY <1>2, <1>3

-----------------------------------------------------------------------------
(* The theorems.                                                           *)

WorkflowInv ==
    /\ TypeOK
    /\ RequestsAreReal
    /\ RunsAreReal
    /\ ApprovalsAreGranted
    /\ DecisionsAreEarned
    /\ ApprovedIsEarned
    /\ ActiveIsKnown

LEMMA WorkflowInvariant == Spec => []WorkflowInv
<1>1. Init => WorkflowInv
  <2> SUFFICES ASSUME Init PROVE WorkflowInv
    OBVIOUS
  <2>1. IdleRequest \in Requested /\ IdleRequest.op = "none"
    BY DEF IdleRequest, Requested
  <2>2. \A r \in Requests : req[r].op = "none"
    BY <2>1 DEF Init
  <2>3. req \in [Requests -> Requested]
    BY <2>1 DEF Init
  <2>4. run \in [Runs -> [pc : {"idle", "queued", "working"}, doc : Docs \cup {NULL}]]
    BY DEF Init, IdleRun
  <2>5. \A d \in Docs : doc[d] = NULL \/ /\ doc[d] \in Rows /\ doc[d].status = "draft"
                                         /\ ~doc[d].is_active
    BY NewRowIsTyped DEF Init, Status
  <2>6. doc \in [Docs -> Rows \cup {NULL}]
    BY NewRowIsTyped DEF Init, Status
  <2>7. TypeOK
    <3>1. deleted \subseteq Docs /\ {begun, writes} \subseteq Nat
      BY DEF Init
    <3>2. {raced, died} \subseteq BOOLEAN
      BY Zenon DEF Init
    <3>3. /\ approvals \in [Docs -> SUBSET Users] /\ granted \in [Docs -> SUBSET Users]
          /\ \A d \in Docs : approvals[d] = {}
      BY DEF Init
    <3> QED
      BY <2>3, <2>4, <2>6, <3>1, <3>2, <3>3 DEF TypeOK, Requested
  <2>8. RequestsAreReal /\ RunsAreReal /\ DecisionsAreEarned
    BY <2>2 DEF Init, RequestsAreReal, RunsAreReal, DecisionsAreEarned, Is, IdleRun
  <2>9. ApprovalsAreGranted
    BY FS_EmptySet DEF Init, ApprovalsAreGranted
  <2>10. ApprovedIsEarned /\ ActiveIsKnown
    BY <2>2, <2>5 DEF ApprovedIsEarned, ActiveIsKnown, IsActive, Deciding, Is
  <2> QED
    BY <2>7, <2>8, <2>9, <2>10 DEF WorkflowInv
<1>2. WorkflowInv /\ [Next]_vars => WorkflowInv'
  BY TypeStep, RequestsStep, RunsStep, GrantedStep, DecisionsStep, EarnedStep, ActiveStep
  DEF WorkflowInv
<1> QED
  BY <1>1, <1>2, PTL DEF Spec

\* However approvals, revisions, edits, activations and runs interleave, whoever
\* the specialists are, a document is approved only if an administrator, or two
\* reviewers with the three specialties, have approved that very document.
THEOREM ApprovalIsEarned == Spec => []ApprovedIsEarned
<1>1. WorkflowInv => ApprovedIsEarned
  BY DEF WorkflowInv
<1> QED
  BY <1>1, WorkflowInvariant, PTL

\* Rows, requests and runs keep their types, deleted documents have no
\* approvals, and a book has two active versions only after two requests that
\* decide on is_active have overlapped.
THEOREM BookHasOneActive == Spec => []VersionsAreSound
<1>1. WorkflowInv => VersionsAreSound
  <2> SUFFICES ASSUME WorkflowInv, ~raced
               PROVE  Cardinality({d \in Docs : doc[d] # NULL /\ doc[d].is_active}) <= 1
    BY DEF VersionsAreSound, OneActive, WorkflowInv
  <2> DEFINE actives == {d \in Docs : doc[d] # NULL /\ doc[d].is_active}
  <2>1. \A d, e \in actives : d = e
    BY DEF WorkflowInv, ActiveIsKnown, IsActive
  <2> HIDE DEF actives
  <2>2. actives = {} => Cardinality(actives) <= 1
    BY FS_EmptySet
  <2>3. ASSUME NEW d \in actives PROVE Cardinality(actives) <= 1
    <3>1. actives = {d}
      BY <2>1
    <3>2. Cardinality({d}) = 1
      BY FS_Singleton
    <3> QED
      BY <3>1, <3>2
  <2>4. Cardinality(actives) <= 1
    BY <2>2, <2>3
  <2> QED
    BY <2>4 DEF actives
<1> QED
  BY <1>1, WorkflowInvariant, PTL

\* The text of an approved document changes only by an edit that had loaded it
\* before its approval: a run that finishes sends it back to review, a flush
\* keeps the text, and an edit that loads it approved is refused.
THEOREM ApprovedTextIsKept == Spec => ApprovedTextStands
<1>1. WorkflowInv /\ [Next]_vars =>
        \A d \in Docs :
          /\ doc[d] # NULL /\ doc[d].status = "approved"
          /\ doc'[d] # NULL /\ doc'[d].status = "approved"
          /\ doc'[d].content # doc[d].content
          => \E r \in Requests : /\ Is(r, "edit", "loaded") /\ Me(r) = d
                                 /\ Loaded(r).status # "approved"
  <2> SUFFICES ASSUME WorkflowInv, [Next]_vars, NEW d \in Docs,
                      doc[d] # NULL, doc'[d] # NULL, doc'[d].status = "approved",
                      doc'[d].content # doc[d].content
               PROVE  \E r \in Requests : /\ Is(r, "edit", "loaded") /\ Me(r) = d
                                          /\ Loaded(r).status # "approved"
    OBVIOUS
  <2>1. RowStep(d)
    BY RowsStep DEF WorkflowInv
  <2>2. PICK r \in Requests : Is(r, "edit", "loaded") /\ Me(r) = d
    BY <2>1 DEF RowStep, Inserted, Changed
  <2>3. Allowed("edit", req[r].user, Loaded(r))
    BY <2>2 DEF WorkflowInv, RequestsAreReal, Is
  <2>4. Loaded(r).status # "approved"
    BY <2>3 DEF Allowed
  <2> QED
    BY <2>2, <2>4
<1> QED
  BY <1>1, WorkflowInvariant, PTL DEF Spec, ApprovedTextStands

=============================================================================
