------------------------------ MODULE SnProofs ------------------------------
(***************************************************************************)
(* Theorems about Sound Necklace sessions.  Of the editor lease and of     *)
(* editing, for any accounts, tabs, documents, lease length and clock lag: *)
(* the inductive invariant says what a request in flight may rely on,      *)
(* which document its If-Match stands for, which station it loaded, and    *)
(* who may hold the lease since its fence was evaluated (EditingInv).      *)
(*                                                                         *)
(* Of the bead grid of their project, for any number of requests, any      *)
(* levels and lengths, and any tolerance Close: the locks exclude each     *)
(* other, the row read under them is the row that is written (GridInv),    *)
(* hence a project has one grid, its answers stand, and the row implements *)
(* GridFreeze.                                                             *)
(*                                                                         *)
(* Of the drafts of voice answers, for any answers and clients and any     *)
(* number of takes, triggers and attempts: what a pass or a trigger knows  *)
(* of the rows it has read (DraftsInv).                                    *)
(***************************************************************************)
EXTENDS SnEditing, SnGrid, SnTranscription, TLAPS

-----------------------------------------------------------------------------
(* The lease.                                                              *)

\* A clock reading is a time of the past, and a lease that is live now was
\* live at every earlier reading.
LEMMA ReadingsAreOld ==
    ASSUME LeaseTypeOK, NEW t \in ClockReadings
    PROVE  /\ t \in Nat
           /\ t <= now
           /\ ExpiresAfter(now) => ExpiresAfter(t)
BY LeaseAssumption DEF LeaseTypeOK, ClockReadings, ExpiresAfter

\* Each step of the lease keeps its types.
LEMMA LeaseTypeStep ==
    ASSUME LeaseTypeOK, [LeaseNext]_leaseVars
    PROVE  LeaseTypeOK'
<1> USE LeaseAssumption DEF LeaseTypeOK
<1>1. CASE Tick
  BY <1>1 DEF Tick
<1>2. ASSUME NEW u \in Users, AcquireLock(u)
      PROVE  LeaseTypeOK'
  BY <1>2, ReadingsAreOld DEF AcquireLock
<1>3. ASSUME NEW u \in Users, ReleaseLock(u)
      PROVE  LeaseTypeOK'
  BY <1>3 DEF ReleaseLock
<1>4. ASSUME NEW u \in Users, DeleteUser(u)
      PROVE  LeaseTypeOK'
  BY <1>4 DEF DeleteUser
<1>5. CASE UNCHANGED leaseVars
  BY <1>5 DEF leaseVars
<1> QED
  BY <1>1, <1>2, <1>3, <1>4, <1>5 DEF LeaseNext

\* The columns of the lease always have their types.
THEOREM LeaseTypeCorrect == LeaseSpec => []LeaseTypeOK
<1>1. LeaseInit => LeaseTypeOK
  BY LeaseAssumption DEF LeaseInit, LeaseTypeOK
<1>2. LeaseTypeOK /\ [LeaseNext]_leaseVars => LeaseTypeOK'
  BY LeaseTypeStep
<1> QED
  BY <1>1, <1>2, PTL DEF LeaseSpec

\* A step of the lease is a step of AdvisoryLease: a user becomes the live
\* holder only where there was none.
LEMMA LeaseStepSimulation ==
    ASSUME LeaseTypeOK, [LeaseNext]_leaseVars
    PROVE  [Lease!Next]_LiveHolder
<1> USE LeaseAssumption DEF LeaseTypeOK, LiveHolder, ExpiresAfter
<1>1. CASE Tick
  <2>1. LiveHolder' \in {NULL, LiveHolder}
    BY <1>1 DEF Tick
  <2> QED
    BY <2>1 DEF Lease!Next, Lease!Free
<1>2. ASSUME NEW u \in Users, AcquireLock(u)
      PROVE  [Lease!Next]_LiveHolder
  <2>1. PICK t \in ClockReadings : MayAcquire(u, t) /\ locked_by' = u /\ now' = now
    BY <1>2 DEF AcquireLock
  <2>2. LiveHolder \in {NULL, u}
    BY <2>1, ReadingsAreOld DEF MayAcquire
  <2>3. LiveHolder' \in {NULL, u}
    BY <2>1
  <2> QED
    BY <2>2, <2>3 DEF Lease!Next, Lease!Free, Lease!Take
<1>3. ASSUME NEW u \in Users, ReleaseLock(u)
      PROVE  [Lease!Next]_LiveHolder
  BY <1>3 DEF ReleaseLock, Lease!Next, Lease!Free
<1>4. ASSUME NEW u \in Users, DeleteUser(u)
      PROVE  [Lease!Next]_LiveHolder
  <2>1. LiveHolder' \in {NULL, LiveHolder}
    BY <1>4 DEF DeleteUser
  <2> QED
    BY <2>1 DEF Lease!Next, Lease!Free
<1>5. CASE UNCHANGED leaseVars
  BY <1>5 DEF leaseVars
<1> QED
  BY <1>1, <1>2, <1>3, <1>4, <1>5 DEF LeaseNext

\* Initially nobody holds the lease.
LEMMA LeaseInitSimulation == LeaseInit => Lease!Init
BY LeaseAssumption DEF LeaseInit, LiveHolder, ExpiresAfter, Lease!Init

\* The guarded UPDATEs on the two columns implement the abstract lease: it is
\* never taken from a live holder.
THEOREM LeaseImplementsAdvisoryLease == LeaseSpec => LeaseRefinement
<1>1. LeaseInit => Lease!Init
  BY LeaseInitSimulation
<1>2. LeaseTypeOK /\ [LeaseNext]_leaseVars => [Lease!Next]_LiveHolder
  BY LeaseStepSimulation
<1> QED
  BY <1>1, <1>2, LeaseTypeCorrect, PTL DEF LeaseSpec, LeaseRefinement, Lease!Spec

-----------------------------------------------------------------------------
(* Editing.                                                                *)

\* The histories are of the past.
HistoryIsPast ==
    /\ held_since <= now
    /\ \A tb \in Tabs : req[tb].fenced_at <= now

\* Only an autosave is fenced by a statement that can still land.
FencedIsAutosave ==
    \A tb \in Tabs : req[tb].pc = "fenced" => req[tb].op = "autosave"

\* A tab's ETag is of the past, and the current one stands for the current
\* document.
SeenIsReal ==
    \A tb \in Tabs :
        /\ seen[tb].version <= version
        /\ seen[tb].version = version => seen[tb].doc = state

Conditional(tb) ==
    req[tb].pc # "idle" /\ req[tb].op = "autosave" /\ req[tb].expected # NULL

\* An autosave in flight sends the ETag its tab holds, and while that is the
\* current one the station it loaded is the current one too.
ExpectedIsSeen ==
    \A tb \in Tabs :
        Conditional(tb) =>
            /\ req[tb].expected = seen[tb].version
            /\ req[tb].expected = version => req[tb].loaded_step = current_step

\* Since a fence was passed, the lease is free, the tab's own, or newer.
FenceHolds ==
    \A tb \in Tabs :
        req[tb].pc = "fenced" =>
            LiveHolder \in {NULL, TabUser[tb]} \/ held_since >= req[tb].fenced_at

\* Only where tabs may omit If-Match does an autosave go without one.
SendsETag ==
    \A tb \in Tabs :
        req[tb].pc # "idle" /\ req[tb].op = "autosave" /\ req[tb].expected = NULL
            => Unconditional

EditingInv ==
    /\ TypeOK /\ HistoryIsPast /\ FencedIsAutosave
    /\ SeenIsReal /\ ExpectedIsSeen /\ SendsETag /\ FenceHolds

-----------------------------------------------------------------------------
\* Each step of the editing is a step of the lease or leaves the lease alone.
LEMMA StepIsLeaseStep ==
    ASSUME [Next]_vars
    PROVE  [LeaseNext]_leaseVars
<1>1. CASE Environment
  BY <1>1 DEF Environment, LeaseNext
<1>2. ASSUME NEW u \in Users, Acquire(u)
      PROVE  LeaseNext
  BY <1>2 DEF Acquire, LeaseNext
<1>3. ASSUME NEW tb \in Tabs, TabStep(tb)
      PROVE  UNCHANGED leaseVars
  BY <1>3 DEF TabStep, GetState, BeginAutosave, FenceAutosave, CommitAutosave,
       MissAutosave, DiagnoseAutosave, BeginLifecycle, NoopLifecycle, ApplyLifecycle,
       RefuseLifecycle, DiagnoseLifecycle, Die, Load
<1>4. CASE UNCHANGED vars
  BY <1>4 DEF vars
<1> QED
  BY <1>1, <1>2, <1>3, <1>4 DEF Next

\* While the lease moves, nothing else does but the history of the holder.
LEMMA LeaseStepsAreApart ==
    ASSUME TypeOK, Environment \/ \E u \in Users : Acquire(u)
    PROVE  /\ UNCHANGED <<rowVars, req, seen, reply>>
           /\ held_since' \in {held_since, now}
           /\ now <= now' /\ now' \in Nat
BY DEF TypeOK, LeaseTypeOK, Environment, Acquire, Tick, AcquireLock, ReleaseLock, DeleteUser

\* A station is one of the five, whatever the document.
LEMMA StationsOfDocuments ==
    ASSUME NEW d
    PROVE  step_for(d) \in SessionStep
BY DEF step_for, SessionStep

\* Beginning a request: the tab's record and its empty answer are well typed.
LEMMA LoadIsTyped ==
    ASSUME TypeOK, NEW tb \in Tabs, NEW op \in {"none", "autosave"} \cup Lifecycle,
           NEW d \in Docs \cup {NULL}, NEW e \in Nat \cup {NULL}, Load(tb, op, d, e)
    PROVE  TypeOK'
<1> USE DEF TypeOK
<1>1. [pc |-> "loaded", op |-> op, doc |-> d, expected |-> e, loaded_status |-> status,
       loaded_step |-> current_step, fenced_at |-> 0] \in Requests
  BY DEF Requests
<1>2. req' \in [Tabs -> Requests] /\ reply' \in [Tabs -> Replies]
  BY <1>1 DEF Load, Replies
<1>3. UNCHANGED <<leaseVars, rowVars, seen, held_since>>
  BY DEF Load
<1> QED
  BY <1>2, <1>3 DEF leaseVars, rowVars, LeaseTypeOK

\* Answering a request leaves its tab idle.
LEMMA AnswerIsTyped ==
    ASSUME TypeOK, NEW tb \in Tabs, NEW r \in Replies, Answer(tb, r)
    PROVE  req' \in [Tabs -> Requests] /\ reply' \in [Tabs -> Replies]
<1>1. IdleRequest \in Requests
  BY DEF IdleRequest, Requests, SessionStatus, SessionStep
<1> QED
  BY <1>1 DEF Answer, TypeOK

\* The trail grows by an event.
LEMMA TrailIsTyped ==
    ASSUME NEW s \in Seq(Events), NEW e \in Events
    PROVE  /\ Append(s, e) \in Seq(Events)
           /\ Append(s, e) # <<>>
           /\ Append(s, e)[Len(Append(s, e))] = e
OBVIOUS

\* A request moves on within its handler.
LEMMA MoveIsTyped ==
    ASSUME TypeOK, NEW tb \in Tabs, NEW pc \in {"fenced", "refused"}, NEW f \in Nat
    PROVE  /\ [req EXCEPT ![tb].pc = pc] \in [Tabs -> Requests]
           /\ [req EXCEPT ![tb].pc = pc, ![tb].fenced_at = f] \in [Tabs -> Requests]
<1>1. req[tb] \in Requests
  BY DEF TypeOK
<1>2. /\ [req[tb] EXCEPT !.pc = pc] \in Requests
      /\ [req[tb] EXCEPT !.pc = pc, !.fenced_at = f] \in Requests
  BY <1>1 DEF Requests
<1> QED
  BY <1>2 DEF TypeOK

\* A tab's step touches the records of no other tab.
LEMMA TabStepIsLocal ==
    ASSUME TypeOK, NEW tb \in Tabs, TabStep(tb), NEW other \in Tabs, other # tb
    PROVE  /\ req'[other] = req[other]
           /\ seen'[other] = seen[other]
           /\ reply'[other] = reply[other]
BY DEF TypeOK, TabStep, GetState, BeginAutosave, FenceAutosave, CommitAutosave,
       MissAutosave, DiagnoseAutosave, BeginLifecycle, NoopLifecycle, ApplyLifecycle,
       RefuseLifecycle, DiagnoseLifecycle, Die, Load, Answer

-----------------------------------------------------------------------------
\* Each step keeps the types.
LEMMA EditingTypeStep ==
    ASSUME TypeOK, [Next]_vars
    PROVE  TypeOK'
<1> USE EditingAssumption DEF TypeOK
<1>l. LeaseTypeOK'
  BY StepIsLeaseStep, LeaseTypeStep
<1>1. CASE Environment \/ \E u \in Users : Acquire(u)
  <2>1. UNCHANGED <<rowVars, req, seen, reply>> /\ held_since' \in Nat
    BY <1>1, LeaseStepsAreApart DEF LeaseTypeOK
  <2> QED
    BY <1>l, <2>1 DEF rowVars
<1>2. ASSUME NEW tb \in Tabs, TabStep(tb)
      PROVE  TypeOK'
  <2>1. CASE GetState(tb)
    BY <1>l, <2>1 DEF GetState, rowVars
  <2>2. CASE BeginAutosave(tb)
    BY <2>2, LoadIsTyped DEF BeginAutosave
  <2>3. CASE FenceAutosave(tb)
    <3>1. req' \in [Tabs -> Requests]
      <4>1. PICK pc \in {"fenced", "refused"} :
              req' = [req EXCEPT ![tb].pc = pc, ![tb].fenced_at = now]
        BY <2>3, Zenon DEF FenceAutosave
      <4> QED
        BY <4>1, MoveIsTyped DEF LeaseTypeOK
    <3> QED
      BY <1>l, <2>3, <3>1 DEF FenceAutosave, rowVars
  <2>4. CASE CommitAutosave(tb)
    <3>1. req' \in [Tabs -> Requests] /\ reply' \in [Tabs -> Replies]
      BY <2>4, AnswerIsTyped DEF CommitAutosave, Replies
    <3>2. current_step' \in SessionStep
      BY <2>4, StationsOfDocuments DEF CommitAutosave, FlushedStep
    <3>3. state' \in Docs \cup {NULL}
      BY <2>4 DEF CommitAutosave, Requests
    <3>4. seen' \in [Tabs -> [doc : Docs \cup {NULL}, version : Nat]]
      <4>1. req[tb].doc \in Docs \cup {NULL}
        BY DEF Requests
      <4>2. [doc |-> req[tb].doc, version |-> version + 1]
              \in [doc : Docs \cup {NULL}, version : Nat]
        BY <4>1
      <4> QED
        BY <2>4, <4>2 DEF CommitAutosave
    <3> QED
      BY <1>l, <2>4, <3>1, <3>2, <3>3, <3>4 DEF CommitAutosave
  <2>5. CASE MissAutosave(tb)
    BY <1>l, <2>5, MoveIsTyped DEF MissAutosave, rowVars, LeaseTypeOK
  <2>6. CASE DiagnoseAutosave(tb)
    <3>1. req' \in [Tabs -> Requests] /\ reply' \in [Tabs -> Replies]
      BY <2>6, AnswerIsTyped, Zenon DEF DiagnoseAutosave, Replies
    <3> QED
      BY <1>l, <2>6, <3>1 DEF DiagnoseAutosave, rowVars
  <2>7. CASE BeginLifecycle(tb)
    BY <2>7, LoadIsTyped DEF BeginLifecycle
  <2>8. CASE NoopLifecycle(tb)
    <3>1. req' \in [Tabs -> Requests] /\ reply' \in [Tabs -> Replies]
      BY <2>8, AnswerIsTyped DEF NoopLifecycle, Replies
    <3> QED
      BY <1>l, <2>8, <3>1 DEF NoopLifecycle, rowVars
  <2>9. CASE ApplyLifecycle(tb)
    <3>1. req' \in [Tabs -> Requests] /\ reply' \in [Tabs -> Replies]
      BY <2>9, AnswerIsTyped DEF ApplyLifecycle, Replies
    <3>2. status' \in SessionStatus /\ completed_at' \in Nat \cup {NULL}
      BY <2>9 DEF ApplyLifecycle, Target, SessionStatus, ClockReadings, LeaseTypeOK
    <3>3. audit' \in Seq(Events)
      <4>1. EventOf(req[tb].op) \in Events
        BY DEF EventOf, Events
      <4>2. audit' \in {audit, Append(audit, EventOf(req[tb].op))}
        BY <2>9 DEF ApplyLifecycle
      <4> QED
        BY <4>1, <4>2, TrailIsTyped
    <3> QED
      BY <1>l, <2>9, <3>1, <3>2, <3>3 DEF ApplyLifecycle
  <2>10. CASE RefuseLifecycle(tb)
    BY <1>l, <2>10, MoveIsTyped DEF RefuseLifecycle, rowVars, LeaseTypeOK
  <2>11. CASE DiagnoseLifecycle(tb)
    <3>1. req' \in [Tabs -> Requests] /\ reply' \in [Tabs -> Replies]
      BY <2>11, AnswerIsTyped, Zenon DEF DiagnoseLifecycle, Replies
    <3> QED
      BY <1>l, <2>11, <3>1 DEF DiagnoseLifecycle, rowVars
  <2>12. CASE Die(tb)
    <3>1. req' \in [Tabs -> Requests] /\ reply' \in [Tabs -> Replies]
      BY <2>12, AnswerIsTyped DEF Die, Replies
    <3> QED
      BY <1>l, <2>12, <3>1 DEF Die, rowVars
  <2> QED
    BY <1>2, <2>1, <2>2, <2>3, <2>4, <2>5, <2>6, <2>7, <2>8, <2>9, <2>10, <2>11, <2>12
       DEF TabStep
<1>3. CASE UNCHANGED vars
  BY <1>l, <1>3 DEF vars, rowVars
<1> QED
  BY <1>1, <1>2, <1>3 DEF Next

-----------------------------------------------------------------------------
\* What a tab's step may do to its own request: end it, begin an autosave or a
\* lifecycle request, pass the fence, or be refused.
LEMMA OwnRequest ==
    ASSUME TypeOK, NEW tb \in Tabs, TabStep(tb)
    PROVE  \/ req'[tb] = IdleRequest
           \/ UNCHANGED req /\ GetState(tb)
           \/ /\ req'[tb].pc = "loaded" /\ req'[tb].fenced_at = 0
              /\ req'[tb].loaded_step = current_step
              /\ UNCHANGED <<rowVars, seen>>
              /\ \/ req'[tb].op \in Lifecycle
                 \/ /\ req'[tb].op = "autosave"
                    /\ req'[tb].expected \in {NULL, seen[tb].version}
                    /\ req'[tb].expected = NULL => Unconditional
           \/ /\ req[tb].pc \in {"loaded", "fenced"} /\ req'[tb].pc = "refused"
              /\ req'[tb].fenced_at \in {req[tb].fenced_at, now}
              /\ req'[tb].op = req[tb].op /\ req'[tb].expected = req[tb].expected
              /\ req'[tb].loaded_step = req[tb].loaded_step
              /\ UNCHANGED <<rowVars, seen>>
           \/ /\ req[tb].pc = "loaded" /\ req'[tb].pc = "fenced"
              /\ req'[tb].fenced_at = now
              /\ req[tb].op = "autosave" /\ req'[tb].op = "autosave"
              /\ req'[tb].expected = req[tb].expected
              /\ req'[tb].loaded_step = req[tb].loaded_step
              /\ UNCHANGED <<rowVars, seen>>
              /\ \E t \in ClockReadings : not_locked_by_other(TabUser[tb], t)
<1> USE DEF TypeOK
<1>1. CASE GetState(tb)
  BY <1>1 DEF GetState
<1>2. CASE BeginAutosave(tb)
  <2>1. PICK d \in Docs, e \in {NULL, seen[tb].version} :
          Load(tb, "autosave", d, e) /\ (e = NULL => Unconditional)
    BY <1>2 DEF BeginAutosave
  <2> QED
    BY <2>1 DEF Load
<1>3. CASE FenceAutosave(tb)
  <2>1. PICK t \in ClockReadings :
          req' = [req EXCEPT ![tb].pc = IF not_locked_by_other(TabUser[tb], t)
                                        THEN "fenced" ELSE "refused",
                             ![tb].fenced_at = now]
    BY <1>3, Zenon DEF FenceAutosave
  <2>2. UNCHANGED <<rowVars, seen>> /\ req[tb].pc = "loaded" /\ req[tb].op = "autosave"
    BY <1>3, Zenon DEF FenceAutosave
  <2>3. CASE not_locked_by_other(TabUser[tb], t)
    <3>1. req' = [req EXCEPT ![tb].pc = "fenced", ![tb].fenced_at = now]
      BY <2>1, <2>3, Zenon
    <3> QED
      BY <2>2, <2>3, <3>1 DEF Requests
  <2>4. CASE ~not_locked_by_other(TabUser[tb], t)
    <3>1. req' = [req EXCEPT ![tb].pc = "refused", ![tb].fenced_at = now]
      BY <2>1, <2>4, Zenon
    <3> QED
      BY <2>2, <3>1 DEF Requests
  <2> QED
    BY <2>3, <2>4
<1>4. CASE CommitAutosave(tb) \/ NoopLifecycle(tb) \/ ApplyLifecycle(tb) \/ Die(tb)
  BY <1>4 DEF CommitAutosave, NoopLifecycle, ApplyLifecycle, Die, Answer
<1>5. CASE DiagnoseAutosave(tb) \/ DiagnoseLifecycle(tb)
  <2>1. \E r : Answer(tb, r)
    BY <1>5, Zenon DEF DiagnoseAutosave, DiagnoseLifecycle
  <2> QED
    BY <2>1 DEF Answer
<1>6. CASE MissAutosave(tb) \/ RefuseLifecycle(tb)
  <2>1. req' = [req EXCEPT ![tb].pc = "refused"] /\ UNCHANGED <<rowVars, seen>>
    BY <1>6 DEF MissAutosave, RefuseLifecycle
  <2>2. req[tb].pc \in {"loaded", "fenced"}
    BY <1>6 DEF MissAutosave, RefuseLifecycle
  <2> QED
    BY <2>1, <2>2 DEF Requests
<1>7. CASE BeginLifecycle(tb)
  <2>1. PICK op \in Lifecycle : Load(tb, op, NULL, NULL)
    BY <1>7 DEF BeginLifecycle
  <2> QED
    BY <2>1 DEF Load
<1> QED
  BY <1>1, <1>2, <1>3, <1>4, <1>5, <1>6, <1>7 DEF TabStep

\* Only a committed autosave moves the document; it moves its tab's view along.
LEMMA OnlyCommitsMoveTheDocument ==
    ASSUME TypeOK, NEW tb \in Tabs, TabStep(tb)
    PROVE  /\ UNCHANGED <<leaseVars, held_since>>
           /\ \/ CommitAutosave(tb)
              \/ UNCHANGED <<state, version, current_step>>
           /\ \/ UNCHANGED seen
              \/ CommitAutosave(tb)
              \/ seen'[tb] = [doc |-> state, version |-> version]
BY DEF TypeOK, TabStep, GetState, BeginAutosave, FenceAutosave, CommitAutosave,
       MissAutosave, DiagnoseAutosave, BeginLifecycle, NoopLifecycle, ApplyLifecycle,
       RefuseLifecycle, DiagnoseLifecycle, Die, Load, rowVars

\* The fence at the instant it is passed: whoever was not locked out by a lease
\* live at an old reading is not locked out now.
LEMMA FencePassed ==
    ASSUME LeaseTypeOK, NEW u \in Users, NEW t \in ClockReadings, not_locked_by_other(u, t)
    PROVE  LiveHolder \in {NULL, u}
BY ReadingsAreOld DEF not_locked_by_other, LockedByOther, LiveHolder, LeaseTypeOK

\* The lease moves on under the requests in flight.
LEMMA EditingInvUnderLease ==
    ASSUME EditingInv, Environment \/ \E u \in Users : Acquire(u)
    PROVE  EditingInv'
<1> USE LeaseAssumption DEF EditingInv
<1>1. /\ UNCHANGED <<rowVars, req, seen, reply>>
      /\ held_since' \in {held_since, now} /\ now <= now' /\ now' \in Nat
  BY LeaseStepsAreApart
<1>2. TypeOK'
  BY EditingTypeStep DEF Next
<1>3. HistoryIsPast' /\ FencedIsAutosave' /\ SeenIsReal' /\ ExpectedIsSeen' /\ SendsETag'
  BY <1>1 DEF HistoryIsPast, FencedIsAutosave, SeenIsReal, ExpectedIsSeen, Conditional, SendsETag,
              TypeOK, LeaseTypeOK, Requests, rowVars
<1>4. FenceHolds'
  <2>1. CASE Environment
    <3>1. LiveHolder' \in {NULL, LiveHolder} /\ held_since' = held_since
      BY <2>1 DEF Environment, Tick, ReleaseLock, DeleteUser, LiveHolder, ExpiresAfter,
                  TypeOK, LeaseTypeOK
    <3> QED
      BY <1>1, <3>1 DEF FenceHolds
  <2>2. ASSUME NEW u \in Users, Acquire(u)
        PROVE  FenceHolds'
    <3>1. CASE LiveHolder = u
      <4>1. LiveHolder' \in {NULL, u} /\ held_since' = held_since
        BY <2>2, <3>1 DEF Acquire, AcquireLock, LiveHolder
      <4> QED
        BY <1>1, <3>1, <4>1 DEF FenceHolds, TypeOK
    <3>2. CASE LiveHolder # u
      <4>1. held_since' = now
        BY <2>2, <3>2 DEF Acquire
      <4> QED
        BY <1>1, <4>1 DEF FenceHolds, HistoryIsPast
    <3> QED
      BY <3>1, <3>2
  <2> QED
    BY <2>1, <2>2
<1> QED
  BY <1>2, <1>3, <1>4

\* A tab's step: its own request goes on, the others keep what they rely on.
LEMMA EditingInvOnTabStep ==
    ASSUME EditingInv, NEW tb \in Tabs, TabStep(tb)
    PROVE  EditingInv'
<1> USE DEF EditingInv
<1> DEFINE own == req'[tb]
<1>1. TypeOK'
  BY EditingTypeStep DEF Next
<1>2. UNCHANGED <<leaseVars, held_since>>
  BY OnlyCommitsMoveTheDocument
<1>3. \A other \in Tabs \ {tb} : /\ req'[other] = req[other]
                                 /\ seen'[other] = seen[other]
  BY TabStepIsLocal
<1>4. HistoryIsPast'
  <2>1. own.fenced_at \in {0, now, req[tb].fenced_at}
    BY OwnRequest DEF IdleRequest
  <2>2. now \in Nat
    BY DEF TypeOK, LeaseTypeOK
  <2>3. own.fenced_at <= now
    BY <2>1, <2>2 DEF HistoryIsPast
  <2> QED
    BY <1>2, <1>3, <2>3 DEF HistoryIsPast, leaseVars
<1>5. FencedIsAutosave'
  <2>1. own.pc = "fenced" => own.op = "autosave"
    BY OwnRequest DEF IdleRequest, FencedIsAutosave
  <2> QED
    BY <1>3, <2>1 DEF FencedIsAutosave
<1>6. SeenIsReal'
  <2>1. CASE CommitAutosave(tb)
    <3>1. /\ version' = version + 1 /\ state' = req[tb].doc
          /\ seen'[tb] = [doc |-> req[tb].doc, version |-> version + 1]
      BY <2>1 DEF CommitAutosave, TypeOK
    <3> QED
      BY <1>3, <3>1 DEF SeenIsReal, TypeOK
  <2>2. CASE ~CommitAutosave(tb)
    <3>1. UNCHANGED <<state, version>>
      BY <2>2, OnlyCommitsMoveTheDocument
    <3>2. seen'[tb] = seen[tb] \/ seen'[tb] = [doc |-> state, version |-> version]
      BY <2>2, OnlyCommitsMoveTheDocument
    <3>3. seen'[tb].version <= version /\ (seen'[tb].version = version => seen'[tb].doc = state)
      <4>1. CASE seen'[tb] = seen[tb]
        BY <4>1 DEF SeenIsReal
      <4>2. CASE seen'[tb] = [doc |-> state, version |-> version]
        BY <4>2 DEF TypeOK
      <4> QED
        BY <3>2, <4>1, <4>2
    <3> QED
      BY <1>3, <3>1, <3>3 DEF SeenIsReal
  <2> QED
    BY <2>1, <2>2
<1>7. ExpectedIsSeen'
  <2>1. CASE CommitAutosave(tb)
    <3>1. own = IdleRequest /\ version' = version + 1
      BY <2>1 DEF CommitAutosave, Answer, TypeOK
    <3>2. \A other \in Tabs \ {tb} : Conditional(other) => req[other].expected # version'
      BY <3>1 DEF ExpectedIsSeen, SeenIsReal, TypeOK
    <3> QED
      BY <1>3, <3>1, <3>2 DEF ExpectedIsSeen, Conditional, IdleRequest
  <2>2. CASE ~CommitAutosave(tb)
    <3>1. UNCHANGED <<version, current_step>>
      BY <2>2, OnlyCommitsMoveTheDocument
    <3>2. Conditional(tb)' => /\ own.expected = seen'[tb].version
                              /\ own.expected = version => own.loaded_step = current_step
      <4>1. CASE own = IdleRequest
        BY <4>1 DEF Conditional, IdleRequest
      <4>2. CASE UNCHANGED req /\ GetState(tb)
        BY <4>2 DEF Conditional, GetState
      <4>3. CASE own # IdleRequest /\ ~GetState(tb)
        BY <4>3, OwnRequest DEF Conditional, ExpectedIsSeen, Lifecycle
      <4> QED
        BY <4>1, <4>2, <4>3, OwnRequest DEF GetState
    <3> QED
      BY <1>3, <3>1, <3>2 DEF ExpectedIsSeen, Conditional
  <2> QED
    BY <2>1, <2>2
<1>8. FenceHolds'
  <2>1. LiveHolder' = LiveHolder
    BY <1>2 DEF LiveHolder, ExpiresAfter, leaseVars
  <2>2. own.pc = "fenced" => LiveHolder \in {NULL, TabUser[tb]} \/ held_since >= own.fenced_at
    <3>1. TabUser[tb] \in Users
      BY EditingAssumption
    <3>2. own.pc = "fenced" =>
            \/ own = req[tb]
            \/ \E t \in ClockReadings : not_locked_by_other(TabUser[tb], t)
      BY OwnRequest DEF IdleRequest
    <3> QED
      BY <3>1, <3>2, FencePassed DEF FenceHolds, TypeOK
  <2> QED
    BY <1>2, <1>3, <2>1, <2>2 DEF FenceHolds
<1>9. SendsETag'
  <2>1. own.pc # "idle" /\ own.op = "autosave" /\ own.expected = NULL => Unconditional
    <3>1. CASE own = IdleRequest \/ UNCHANGED req
      BY <3>1 DEF IdleRequest, SendsETag
    <3>2. CASE own # IdleRequest /\ ~UNCHANGED req
      BY <3>2, OwnRequest DEF SendsETag, Lifecycle
    <3> QED
      BY <3>1, <3>2
  <2> QED
    BY <1>3, <2>1 DEF SendsETag
<1> QED
  BY <1>1, <1>4, <1>5, <1>6, <1>7, <1>8, <1>9

LEMMA EditingInvInit ==
    ASSUME Init
    PROVE  EditingInv
<1>1. LeaseTypeOK
  BY LeaseAssumption DEF Init, LeaseInit, LeaseTypeOK
<1>2. IdleRequest \in Requests
  BY DEF IdleRequest, Requests, SessionStatus, SessionStep
<1>3. TypeOK
  BY <1>1, <1>2 DEF Init, TypeOK, SessionStatus, SessionStep, Replies
<1>4. now = 0 /\ held_since = 0 /\ \A tb \in Tabs : req[tb].pc = "idle" /\ req[tb].fenced_at = 0
  BY DEF Init, LeaseInit, IdleRequest
<1>5. SeenIsReal
  BY DEF Init, SeenIsReal
<1> QED
  BY <1>3, <1>4, <1>5 DEF EditingInv, HistoryIsPast, FencedIsAutosave, ExpectedIsSeen,
                          Conditional, SendsETag, FenceHolds

LEMMA EditingInvStep ==
    ASSUME EditingInv, [Next]_vars
    PROVE  EditingInv'
<1>1. CASE Environment \/ \E u \in Users : Acquire(u)
  BY <1>1, EditingInvUnderLease
<1>2. ASSUME NEW tb \in Tabs, TabStep(tb)
      PROVE  EditingInv'
  BY <1>2, EditingInvOnTabStep
<1>3. CASE UNCHANGED vars
  <2>1. TypeOK'
    BY EditingTypeStep DEF EditingInv
  <2> QED
    BY <1>3, <2>1 DEF EditingInv, vars, leaseVars, rowVars, HistoryIsPast, FencedIsAutosave,
         SeenIsReal, ExpectedIsSeen, Conditional, SendsETag, FenceHolds, LiveHolder, ExpiresAfter
<1> QED
  BY <1>1, <1>2, <1>3 DEF Next

LEMMA EditingInvHolds == Spec => []EditingInv
<1>1. Init => EditingInv
  BY EditingInvInit
<1>2. EditingInv /\ [Next]_vars => EditingInv'
  BY EditingInvStep
<1> QED
  BY <1>1, <1>2, PTL DEF Spec

-----------------------------------------------------------------------------
\* The rows, the requests in flight and the answers always have their types: a
\* station stored is one of the five, a version a number.
THEOREM EditingTypeCorrect == Spec => []TypeOK
<1>1. EditingInv => TypeOK
  BY DEF EditingInv
<1> QED
  BY <1>1, EditingInvHolds, PTL

\* Under the requests that edit the session, the lease is still the abstract
\* one: nothing a tab does moves it, and the routes never steal it.
THEOREM EditingImplementsAdvisoryLease == Spec => LeaseRefinement
<1>1. Init => LeaseInit
  BY DEF Init
<1>2. [Next]_vars => [LeaseNext]_leaseVars
  BY StepIsLeaseStep
<1> QED
  BY <1>1, <1>2, LeaseImplementsAdvisoryLease, PTL DEF Spec, LeaseSpec

\* The trail, the status and the completion time tell one story.
THEOREM TrailTellsStatus == Spec => []AuditTellsStatus
<1>1. Init => AuditTellsStatus
  BY DEF Init, AuditTellsStatus
<1>2. ASSUME EditingInv, AuditTellsStatus, [Next]_vars
      PROVE  AuditTellsStatus'
  <2> USE <1>2 DEF EditingInv
  <2>1. ASSUME NEW tb \in Tabs, ApplyLifecycle(tb),
               audit' = Append(audit, EventOf(req[tb].op))
        PROVE  AuditTellsStatus'
    <3>1. EventOf(req[tb].op) \in Events /\ audit \in Seq(Events)
      BY DEF EventOf, Events, TypeOK
    <3>2. audit' # <<>> /\ audit'[Len(audit')] = EventOf(req[tb].op)
      BY <2>1, <3>1, TrailIsTyped
    <3>3. PICK t \in ClockReadings :
            TabUser[tb] \in accounts =>
                /\ status' = Target(req[tb].op)
                /\ completed_at' = IF req[tb].op = "complete" THEN t ELSE NULL
      BY <2>1 DEF ApplyLifecycle
    <3>4. t # NULL
      BY LeaseAssumption DEF ClockReadings, TypeOK, LeaseTypeOK
    <3>5. CASE TabUser[tb] \in accounts
      BY <3>2, <3>3, <3>4, <3>5 DEF AuditTellsStatus, EventOf, Target
    <3>6. CASE TabUser[tb] \notin accounts
      BY <2>1, <3>6 DEF ApplyLifecycle, AuditTellsStatus
    <3> QED
      BY <3>5, <3>6
  <2>2. \/ UNCHANGED <<status, completed_at, audit>>
        \/ \E tb \in Tabs : /\ ApplyLifecycle(tb)
                            /\ audit' = Append(audit, EventOf(req[tb].op))
    <3>1. CASE Environment \/ \E u \in Users : Acquire(u)
      BY <3>1, LeaseStepsAreApart DEF rowVars
    <3>2. ASSUME NEW tb \in Tabs, TabStep(tb), ~ApplyLifecycle(tb)
          PROVE  UNCHANGED <<status, completed_at, audit>>
      BY <3>2 DEF TabStep, GetState, BeginAutosave, FenceAutosave, CommitAutosave,
           MissAutosave, DiagnoseAutosave, BeginLifecycle, NoopLifecycle,
           RefuseLifecycle, DiagnoseLifecycle, Die, Load, rowVars
    <3>3. ASSUME NEW tb \in Tabs, ApplyLifecycle(tb)
          PROVE  \/ UNCHANGED <<status, completed_at, audit>>
                 \/ audit' = Append(audit, EventOf(req[tb].op))
      BY <3>3 DEF ApplyLifecycle
    <3>4. CASE UNCHANGED vars
      BY <3>4 DEF vars, rowVars
    <3> QED
      BY <3>1, <3>2, <3>3, <3>4 DEF Next
  <2>3. CASE UNCHANGED <<status, completed_at, audit>>
    BY <2>3 DEF AuditTellsStatus
  <2> QED
    BY <2>1, <2>2, <2>3
<1> QED
  BY <1>1, <1>2, EditingInvHolds, PTL DEF Spec

\* Where every autosave sends If-Match, the station on the dashboard is the one
\* the stored document opens at.
THEOREM StationFollowsDocument ==
    ASSUME Unconditional = FALSE
    PROVE  Spec => []StepFollowsState
<1>1. Init => StepFollowsState
  BY DEF Init, StepFollowsState
<1>2. ASSUME EditingInv, StepFollowsState, [Next]_vars
      PROVE  StepFollowsState'
  <2> USE <1>2 DEF EditingInv
  <2>1. ASSUME NEW tb \in Tabs, CommitAutosave(tb)
        PROVE  StepFollowsState'
    <3>1. Conditional(tb)
      BY <2>1 DEF CommitAutosave, FencedIsAutosave, SendsETag, Conditional
    <3>2. req[tb].loaded_step = current_step
      BY <2>1, <3>1 DEF CommitAutosave, VersionMatches, Conditional, ExpectedIsSeen
    <3> QED
      BY <2>1, <3>2 DEF CommitAutosave, FlushedStep, StepFollowsState
  <2>2. CASE UNCHANGED <<state, current_step>>
    BY <2>2 DEF StepFollowsState
  <2>3. UNCHANGED <<state, current_step>> \/ \E tb \in Tabs : CommitAutosave(tb)
    BY LeaseStepsAreApart, OnlyCommitsMoveTheDocument DEF Next, vars, rowVars
  <2> QED
    BY <2>1, <2>2, <2>3
<1> QED
  BY <1>1, <1>2, EditingInvHolds, PTL DEF Spec

-----------------------------------------------------------------------------
\* A step that answers "ok" to a fenced request is the commit of that autosave.
LEMMA FencedOkIsACommit ==
    ASSUME TypeOK, Next, NEW tb \in Tabs, req[tb].pc = "fenced",
           req'[tb].pc = "idle", reply'[tb] = "ok"
    PROVE  CommitAutosave(tb)
<1>1. ASSUME NEW other \in Tabs, TabStep(other)
      PROVE  TabStep(tb)
  BY <1>1, TabStepIsLocal
<1>2. TabStep(tb)
  BY <1>1, LeaseStepsAreApart DEF Next
<1>3. CASE Die(tb)
  BY <1>3 DEF Die, Answer, TypeOK
<1>4. ~MissAutosave(tb)
  <2>1. SUFFICES ASSUME req' = [req EXCEPT ![tb].pc = "refused"] PROVE FALSE
    BY DEF MissAutosave
  <2> QED
    BY <2>1 DEF TypeOK, Requests
<1> QED
  BY <1>2, <1>3, <1>4 DEF TabStep, GetState, BeginAutosave, FenceAutosave,
       DiagnoseAutosave, BeginLifecycle, NoopLifecycle, ApplyLifecycle, RefuseLifecycle,
       DiagnoseLifecycle, Load

\* An autosave that lands under another's live lease raced the acquire: no tab
\* fenced after a takeover ever overwrites the new holder.
THEOREM StaleTabsAreFenced == Spec => StaleTabIsFenced
<1>1. EditingInv => [\A tb \in Tabs :
          /\ req[tb].pc = "fenced"
          /\ reply'[tb] = "ok" /\ req'[tb].pc = "idle"
          /\ LiveHolder \notin {NULL, TabUser[tb]}
          => held_since >= req[tb].fenced_at]_vars
  BY DEF EditingInv, FenceHolds
<1> QED
  BY <1>1, EditingInvHolds, PTL DEF StaleTabIsFenced

\* A conditional autosave replaces the very document its tab was shown.
THEOREM UnseenWorkIsSafe == Spec => NeverClobbersUnseenWork
<1>1. EditingInv /\ [Next]_vars => [\A tb \in Tabs :
          /\ req[tb].pc = "fenced" /\ req[tb].expected # NULL
          /\ reply'[tb] = "ok" /\ req'[tb].pc = "idle"
          => seen[tb] = [doc |-> state, version |-> version]]_vars
  <2> SUFFICES ASSUME EditingInv, Next, NEW tb \in Tabs,
                      req[tb].pc = "fenced", req[tb].expected # NULL,
                      reply'[tb] = "ok", req'[tb].pc = "idle"
               PROVE  seen[tb] = [doc |-> state, version |-> version]
    OBVIOUS
  <2> USE DEF EditingInv
  <2>1. CommitAutosave(tb) /\ Conditional(tb)
    BY FencedOkIsACommit DEF Conditional, FencedIsAutosave
  <2>2. seen[tb].version = version
    BY <2>1 DEF CommitAutosave, VersionMatches, ExpectedIsSeen, Conditional
  <2>3. seen[tb].doc = state
    BY <2>2 DEF SeenIsReal
  <2>4. seen[tb] \in [doc : Docs \cup {NULL}, version : Nat]
    BY DEF TypeOK
  <2> QED
    BY <2>2, <2>3, <2>4
<1> QED
  BY <1>1, EditingInvHolds, PTL DEF Spec, NeverClobbersUnseenWork

\* No completion and no reopening goes through under another's live lease.
THEOREM LifecycleNeedsTheLease == Spec => LifecycleIsFenced
<1>1. EditingInv /\ [Next]_vars => [\A tb \in Tabs :
          /\ req[tb].op \in Lifecycle
          /\ status' # status
          /\ req'[tb].pc = "idle" /\ req[tb].pc = "loaded"
          => LiveHolder \in {NULL, TabUser[tb]}]_vars
  <2> SUFFICES ASSUME EditingInv, Next, NEW tb \in Tabs, status' # status,
                      req'[tb].pc = "idle", req[tb].pc = "loaded"
               PROVE  LiveHolder \in {NULL, TabUser[tb]}
    OBVIOUS
  <2> USE DEF EditingInv
  <2>1. PICK other \in Tabs : TabStep(other)
    BY LeaseStepsAreApart DEF Next, rowVars
  <2>2. other = tb
    BY <2>1, TabStepIsLocal
  <2>3. ApplyLifecycle(tb)
    BY <2>1, <2>2 DEF TabStep, GetState, BeginAutosave, FenceAutosave, CommitAutosave,
         MissAutosave, DiagnoseAutosave, BeginLifecycle, NoopLifecycle,
         RefuseLifecycle, DiagnoseLifecycle, Die, Load, rowVars
  <2>4. PICK t \in ClockReadings : RowOpenTo(TabUser[tb], t)
    BY <2>3 DEF ApplyLifecycle
  <2>5. ExpiresAfter(now) => ExpiresAfter(t)
    BY ReadingsAreOld DEF TypeOK
  <2> QED
    BY <2>4, <2>5 DEF RowOpenTo, LiveHolder
<1> QED
  BY <1>1, EditingInvHolds, PTL DEF Spec, LifecycleIsFenced

-----------------------------------------------------------------------------
(* The grid: the inductive invariant.                                      *)

\* Who has the project's row FOR UPDATE has it alone.
Exclusive ==
    \A c, d \in Calls : c # d /\ ForUpdate(c) => ~ForUpdate(d) /\ ~KeyShare(d)

\* What a request read of the settings under the lock is still there.
SeenIsCurrent == \A c \in Calls : call[c].at = "decided" => call[c].seen = settings

\* What the proofs of the other invariants rest on.
GridInv == GridTypeOK /\ Exclusive /\ SeenIsCurrent

\* The row is not overwritten: it is unchanged, inserted, or its bead is
\* filled in.
Extends(old, new) ==
    \/ new = old
    \/ old = NULL /\ new # NULL
    \/ /\ old # NULL /\ new # NULL /\ new.level = old.level
       /\ old.bead = NULL

\* The steps that leave the settings and the sessions alone.
Quiet(c) ==
    \/ BeginConfirm(c) \/ BeginCreate(c) \/ FlushSession(c) \/ TakeRow(c)
    \/ ReadSettings(c) \/ Refuse(c) \/ FailVictim(c) \/ CallDies(c)

\* A step of GridNext, by what it does to the row.
LEMMA StepsOfNext ==
    ASSUME [GridNext]_gridVars
    PROVE  \/ UNCHANGED gridVars
           \/ \E c \in Calls : Quiet(c) \/ Confirm(c) \/ CommitSession(c)
BY Zenon DEF GridNext, Settle, Quiet

\* Moving a request on, or answering it, changes where it is and not what it
\* asks.
LEMMA MovesAreTyped ==
    ASSUME GridTypeOK, NEW c \in Calls, NEW a \in Open \cup Outcomes,
           MoveTo(c, a) \/ AnswerCall(c, a)
    PROVE  /\ call' \in [Calls -> Call]
           /\ call'[c].at = a
           /\ call'[c].level = call[c].level /\ call'[c].bead = call[c].bead
           /\ \A d \in Calls \ {c} : call'[d] = call[d]
<1>1. CASE MoveTo(c, a)
  BY <1>1 DEF GridTypeOK, Call, MoveTo
<1>2. CASE AnswerCall(c, a)
  BY <1>2 DEF GridTypeOK, Call, AnswerCall
<1> QED
  BY <1>1, <1>2

\* A request that ends does so with an answer, its question unchanged.
LEMMA EndsAreAnswers ==
    ASSUME GridTypeOK, NEW c \in Calls,
           Refuse(c) \/ FailVictim(c) \/ CallDies(c) \/ Confirm(c) \/ CommitSession(c)
    PROVE  /\ call'[c].at \in Outcomes
           /\ call'[c].level = call[c].level /\ call'[c].bead = call[c].bead
<1>1. PICK a \in Outcomes : AnswerCall(c, a)
  BY Zenon DEF Refuse, FailVictim, CallDies, Confirm, CommitSession, Outcomes
<1> QED
  BY <1>1, MovesAreTyped

\* A quiet step leaves the settings and the sessions alone, and makes its
\* request decided only with the settings just read.
LEMMA QuietSteps ==
    ASSUME GridTypeOK, NEW c \in Calls, Quiet(c)
    PROVE  /\ UNCHANGED <<settings, sessions>>
           /\ call'[c].at = "decided" => call'[c].seen = settings
<1> USE DEF GridTypeOK, Call
<1>1. UNCHANGED <<settings, sessions>>
  BY Zenon DEF Quiet, BeginConfirm, BeginCreate, FlushSession, TakeRow, ReadSettings,
               Refuse, FailVictim, CallDies
<1>2. CASE BeginConfirm(c) \/ BeginCreate(c)
  BY <1>1, <1>2 DEF BeginConfirm, BeginCreate
<1>3. CASE FlushSession(c) \/ TakeRow(c)
  BY <1>1, <1>3 DEF FlushSession, TakeRow, MoveTo
<1>4. CASE ReadSettings(c)
  BY <1>1, <1>4 DEF ReadSettings
<1>5. CASE Refuse(c) \/ FailVictim(c) \/ CallDies(c)
  BY <1>1, <1>5, EndsAreAnswers DEF Outcomes
<1> QED
  BY <1>2, <1>3, <1>4, <1>5 DEF Quiet

\* The type invariant is kept.
LEMMA GridTypeStep ==
    ASSUME GridTypeOK, [GridNext]_gridVars
    PROVE  GridTypeOK'
<1> USE GridAssumption DEF GridTypeOK, Call, Row, Grid, Open, Outcomes, MoveTo, AnswerCall
<1>1. ASSUME NEW c \in Calls, Quiet(c)
      PROVE  GridTypeOK'
  <2>1. CASE BeginConfirm(c)
    BY <2>1 DEF BeginConfirm
  <2>2. CASE BeginCreate(c)
    BY <2>2 DEF BeginCreate
  <2>3. CASE FlushSession(c)
    BY <2>3 DEF FlushSession
  <2>4. CASE TakeRow(c)
    BY <2>4 DEF TakeRow
  <2>5. CASE ReadSettings(c)
    <3>1. settings \in Row \cup {NULL} /\ call[c] \in Call
      OBVIOUS
    <3>2. [call[c] EXCEPT !.at = "decided", !.seen = settings] \in Call
      BY <3>1
    <3>3. call' \in [Calls -> Call]
      BY <2>5, <3>2 DEF ReadSettings
    <3> QED BY <2>5, <3>3 DEF ReadSettings
  <2>6. CASE Refuse(c)
    BY <2>6 DEF Refuse
  <2>7. CASE FailVictim(c)
    BY <2>7 DEF FailVictim
  <2>8. CASE CallDies(c)
    BY <2>8 DEF CallDies
  <2> QED
    BY <1>1, <2>1, <2>2, <2>3, <2>4, <2>5, <2>6, <2>7, <2>8 DEF Quiet
<1>2. ASSUME NEW c \in Calls, Confirm(c)
      PROVE  GridTypeOK'
  <2>1. Asked(c) \in Row
    BY DEF Asked
  <2>2. call' \in [Calls -> Call]
    BY <1>2, MovesAreTyped DEF Confirm
  <2>3. settings' \in Row \cup {NULL} /\ sessions' = sessions
    BY <1>2, <2>1 DEF Confirm
  <2> QED
    BY <2>2, <2>3
<1>3. ASSUME NEW c \in Calls, CommitSession(c)
      PROVE  GridTypeOK'
  <2>1. Asked(c) \in Grid
    BY <1>3 DEF Asked, CommitSession, Creates
  <2>2. Stamped(call[c].seen, call[c].level, call[c].bead) \in Row
    BY DEF Stamped
  <2>3. call' \in [Calls -> Call]
    BY <1>3, MovesAreTyped DEF CommitSession
  <2>4. settings' \in Row /\ sessions' = sessions \cup {Asked(c)}
    BY <1>3, <2>2 DEF CommitSession
  <2> QED
    BY <2>1, <2>3, <2>4
<1>4. CASE UNCHANGED gridVars
  BY <1>4 DEF gridVars
<1> QED
  BY <1>1, <1>2, <1>3, <1>4, StepsOfNext

\* The settings, the sessions and the requests always have their types.
THEOREM GridTypeCorrect == GridSpec => []GridTypeOK
<1>1. GridInit => GridTypeOK
  BY DEF GridInit, GridTypeOK, Call
<1>2. GridTypeOK /\ [GridNext]_gridVars => GridTypeOK'
  BY GridTypeStep
<1> QED
  BY <1>1, <1>2, PTL DEF GridSpec

-----------------------------------------------------------------------------
(* The locks, and the row that was read under them.                        *)

\* A step of one request leaves the others where they are.
LEMMA OthersStay ==
    ASSUME GridTypeOK, NEW c \in Calls, Quiet(c) \/ Confirm(c) \/ CommitSession(c),
           NEW d \in Calls \ {c}
    PROVE  call'[d] = call[d]
BY DEF GridTypeOK, Quiet, BeginConfirm, BeginCreate, FlushSession, TakeRow, ReadSettings,
       Refuse, FailVictim, CallDies, Confirm, CommitSession, MoveTo, AnswerCall

\* Initially no request holds or has read anything.
LEMMA GridBegins == GridInit => GridInv
<1> SUFFICES ASSUME GridInit PROVE GridInv
  OBVIOUS
<1>1. GridTypeOK
  BY DEF GridInit, GridTypeOK, Call
<1>2. \A c \in Calls : call[c].at = "idle"
  BY DEF GridInit
<1> QED
  BY <1>1, <1>2 DEF GridInv, Exclusive, SeenIsCurrent, ForUpdate

\* The row goes to a request that nobody else shares it with, and nobody
\* comes to share it while it is held.
LEMMA ExclusiveStep ==
    ASSUME GridInv, [GridNext]_gridVars
    PROVE  Exclusive'
<1> USE DEF GridInv
<1>1. CASE UNCHANGED gridVars
  BY <1>1 DEF gridVars, Exclusive, ForUpdate, KeyShare, Creates
<1>2. ASSUME NEW c \in Calls, Quiet(c) \/ Confirm(c) \/ CommitSession(c)
      PROVE  Exclusive'
  <2>1. /\ ForUpdate(c)' => ForUpdate(c) \/ RowIsFree(c)
        /\ KeyShare(c)' => \/ KeyShare(c)
                           \/ \A d \in Calls \ {c} : ~ForUpdate(d)
    <3> USE DEF GridTypeOK, ForUpdate, KeyShare, Creates, MoveTo, AnswerCall
    <3>1. CASE BeginConfirm(c)
      BY <3>1 DEF BeginConfirm
    <3>2. CASE BeginCreate(c)
      BY <3>2 DEF BeginCreate
    <3>3. CASE FlushSession(c)
      BY <3>3 DEF FlushSession
    <3>4. CASE TakeRow(c)
      BY <3>4 DEF TakeRow
    <3>5. CASE ReadSettings(c)
      BY <3>5 DEF ReadSettings
    <3>6. CASE Refuse(c) \/ FailVictim(c) \/ CallDies(c) \/ Confirm(c) \/ CommitSession(c)
      BY <3>6, EndsAreAnswers DEF Outcomes
    <3> QED
      BY <1>2, <3>1, <3>2, <3>3, <3>4, <3>5, <3>6 DEF Quiet
  <2>2. \A d \in Calls \ {c} : /\ ForUpdate(d)' <=> ForUpdate(d)
                               /\ KeyShare(d)' <=> KeyShare(d)
    BY <1>2, OthersStay DEF ForUpdate, KeyShare, Creates
  <2>3. ASSUME NEW d \in Calls, NEW e \in Calls, d # e, ForUpdate(d)'
        PROVE  ~ForUpdate(e)' /\ ~KeyShare(e)'
    <3>1. CASE d = c
      BY <2>1, <2>2, <2>3, <3>1 DEF Exclusive, RowIsFree
    <3>2. CASE d # c /\ e = c
      BY <2>1, <2>2, <2>3, <3>2 DEF Exclusive, RowIsFree
    <3>3. CASE d # c /\ e # c
      BY <2>2, <2>3, <3>3 DEF Exclusive
    <3> QED
      BY <3>1, <3>2, <3>3
  <2> QED
    BY <2>3 DEF Exclusive
<1> QED
  BY <1>1, <1>2, StepsOfNext

\* Only a request that holds the row writes it, and then nobody has read it
\* who is still to write.
LEMMA SeenStep ==
    ASSUME GridInv, [GridNext]_gridVars
    PROVE  SeenIsCurrent'
<1> USE DEF GridInv
<1>1. CASE UNCHANGED gridVars
  BY <1>1 DEF gridVars, SeenIsCurrent
<1>2. ASSUME NEW c \in Calls, Quiet(c)
      PROVE  SeenIsCurrent'
  BY <1>2, QuietSteps, OthersStay DEF SeenIsCurrent
<1>3. ASSUME NEW c \in Calls, Confirm(c) \/ CommitSession(c)
      PROVE  SeenIsCurrent'
  <2>1. ForUpdate(c) /\ call'[c].at # "decided"
    BY <1>3, EndsAreAnswers DEF Confirm, CommitSession, ForUpdate, Outcomes
  <2>2. \A d \in Calls \ {c} : call[d].at # "decided"
    BY <2>1 DEF Exclusive, ForUpdate
  <2> QED
    BY <1>3, <2>1, <2>2, OthersStay DEF SeenIsCurrent
<1> QED
  BY <1>1, <1>2, <1>3, StepsOfNext

\* The inductive invariant.
THEOREM GridInvariant == GridSpec => []GridInv
<1>1. GridInit => GridInv
  BY GridBegins
<1>2. GridInv /\ [GridNext]_gridVars => GridInv'
  BY GridTypeStep, ExclusiveStep, SeenStep DEF GridInv
<1> QED
  BY <1>1, <1>2, PTL DEF GridSpec

-----------------------------------------------------------------------------
(* Every step extends the row.                                             *)

\* What a request writes extends the row it read, and that is the row.
LEMMA SettingsExtend ==
    ASSUME GridInv, [GridNext]_gridVars
    PROVE  Extends(settings, settings')
<1> USE DEF GridInv, Extends
<1>1. CASE UNCHANGED gridVars
  BY <1>1 DEF gridVars
<1>2. ASSUME NEW c \in Calls, Quiet(c)
      PROVE  settings' = settings
  BY <1>2, QuietSteps
<1>3. ASSUME NEW c \in Calls, Confirm(c)
      PROVE  Extends(settings, settings')
  <2>1. call[c].seen = settings
    BY <1>3 DEF Confirm, SeenIsCurrent
  <2>2. Asked(c) # NULL
    BY GridAssumption DEF Asked, GridTypeOK, Call
  <2> QED
    BY <1>3, <2>1, <2>2 DEF Confirm
<1>4. ASSUME NEW c \in Calls, CommitSession(c)
      PROVE  Extends(settings, settings')
  <2>1. settings' = Stamped(settings, call[c].level, call[c].bead)
    BY <1>4 DEF CommitSession, SeenIsCurrent
  <2>2. call[c].level \in Levels /\ call[c].bead \in Beads \cup {NULL}
    BY DEF GridTypeOK, Call
  <2>3. [level |-> call[c].level, bead |-> call[c].bead] # NULL
    BY <2>2, GridAssumption
  <2>4. CASE settings = NULL
    BY <2>1, <2>3, <2>4 DEF Stamped
  <2>5. CASE settings # NULL /\ settings.bead = NULL
    <3>1. settings' = [settings EXCEPT !.bead = call[c].bead]
      BY <2>1, <2>5 DEF Stamped
    <3>2. settings' \in Row /\ settings'.level = settings.level
      BY <2>2, <2>5, <3>1 DEF GridTypeOK, Row
    <3> QED
      BY <2>5, <3>2, GridAssumption DEF Row
  <2>6. CASE settings # NULL /\ settings.bead # NULL
    BY <2>1, <2>6 DEF Stamped
  <2> QED
    BY <2>4, <2>5, <2>6
<1> QED
  BY <1>1, <1>2, <1>3, <1>4, StepsOfNext

-----------------------------------------------------------------------------
(* One grid.                                                               *)

\* A session commits a grid that agrees with the row, and the row goes on
\* agreeing with those that are stored.
LEMMA OneGridStep ==
    ASSUME GridInv, OneGrid, [GridNext]_gridVars
    PROVE  OneGrid'
<1>1. Extends(settings, settings')
  BY SettingsExtend
<1>2. ASSUME NEW s \in sessions
      PROVE  /\ settings' # NULL /\ settings'.level = s.level
             /\ <<settings'.bead, s.bead>> \in Close
  <2>1. /\ settings # NULL /\ settings.level = s.level
        /\ <<settings.bead, s.bead>> \in Close
    BY <1>2 DEF OneGrid
  <2>2. settings.bead # NULL
    BY <2>1, GridAssumption
  <2> QED
    BY <1>1, <2>1, <2>2 DEF Extends
<1>3. CASE sessions' = sessions
  BY <1>2, <1>3 DEF OneGrid
<1>4. ASSUME NEW c \in Calls, CommitSession(c)
      PROVE  OneGrid'
  <2> DEFINE l == call[c].level
             b == call[c].bead
  <2>1. /\ settings' = Stamped(settings, l, b)
        /\ ~Disagrees(settings, l, b)
        /\ sessions' = sessions \cup {Asked(c)}
        /\ b # NULL
    BY <1>4 DEF CommitSession, SeenIsCurrent, GridInv, Creates
  <2>2. l \in Levels /\ b \in Beads /\ <<b, b>> \in Close
    BY <2>1, GridAssumption DEF GridInv, GridTypeOK, Call
  <2>3. /\ settings' # NULL /\ settings'.level = l
        /\ <<settings'.bead, b>> \in Close
    <3>1. CASE settings = NULL
      <4>1. settings' = [level |-> l, bead |-> b]
        BY <2>1, <3>1 DEF Stamped
      <4> QED
        BY <2>2, <4>1, GridAssumption
    <3>2. CASE settings # NULL /\ settings.bead = NULL
      <4>1. settings' = [settings EXCEPT !.bead = b] /\ settings.level = l
        BY <2>1, <3>2 DEF Stamped, Disagrees
      <4>2. settings \in Row
        BY <3>2 DEF GridInv, GridTypeOK
      <4>3. settings' = [level |-> l, bead |-> b]
        BY <4>1, <4>2 DEF Row
      <4> QED
        BY <2>2, <4>3, GridAssumption
    <3>3. CASE settings # NULL /\ settings.bead # NULL
      BY <2>1, <3>3 DEF Stamped, Disagrees
    <3> QED
      BY <3>1, <3>2, <3>3
  <2>4. Asked(c).level = l /\ Asked(c).bead = b
    BY DEF Asked
  <2> QED
    BY <1>2, <2>1, <2>3, <2>4 DEF OneGrid
<1>5. ASSUME NEW c \in Calls, Quiet(c) \/ Confirm(c)
      PROVE  sessions' = sessions
  BY <1>5, QuietSteps DEF GridInv, Confirm
<1> QED
  BY <1>3, <1>4, <1>5, StepsOfNext DEF gridVars

\* The sessions of a project are all cut on its one grid, however many
\* confirmations and creations race, fail and are retried.
THEOREM SessionsShareOneGrid == GridSpec => []OneGrid
<1>1. GridInit => OneGrid
  BY DEF GridInit, OneGrid
<1> QED
  BY <1>1, GridInvariant, OneGridStep, PTL DEF GridSpec

-----------------------------------------------------------------------------
(* Answers stand.                                                           *)

\* What disagrees with a row disagrees with what the row is extended to.
LEMMA DisagreementStays ==
    ASSUME NEW old, NEW new, Extends(old, new), NEW l, NEW b, Disagrees(old, l, b)
    PROVE  Disagrees(new, l, b)
BY DEF Extends, Disagrees

\* What one request is told is true when it is told.
LEMMA AnswersAreTrue ==
    ASSUME GridInv, NEW c \in Calls, Quiet(c) \/ Confirm(c) \/ CommitSession(c)
    PROVE  /\ call'[c].at = "ok" /\ call'[c].bead = NULL =>
                settings' # NULL /\ settings'.level = call'[c].level
           /\ call'[c].at = "locked" =>
                Disagrees(settings', call'[c].level, call'[c].bead)
<1> USE DEF GridInv
<1>1. CASE Confirm(c)
  <2>1. /\ ~Creates(c) /\ ~Disagrees(settings, call[c].level, NULL)
        /\ settings' = IF settings = NULL THEN Asked(c) ELSE settings
        /\ call'[c].at = "ok" /\ call'[c].level = call[c].level
    BY <1>1, MovesAreTyped DEF Confirm, SeenIsCurrent, Outcomes
  <2>2. Asked(c).level = call[c].level /\ Asked(c) # NULL
    BY GridAssumption DEF Asked, GridTypeOK, Call
  <2> QED
    BY <2>1, <2>2 DEF Disagrees
<1>2. CASE CommitSession(c)
  <2>1. call'[c].at = "ok" /\ call'[c].bead # NULL
    BY <1>2, MovesAreTyped DEF CommitSession, Creates, Outcomes
  <2> QED
    BY <2>1
<1>3. CASE Refuse(c)
  <2>1. /\ call'[c].at = "locked" /\ settings' = settings
        /\ call'[c].level = call[c].level /\ call'[c].bead = call[c].bead
        /\ Disagrees(settings, call[c].level, call[c].bead)
    BY <1>3, MovesAreTyped DEF Refuse, SeenIsCurrent, Outcomes
  <2> QED
    BY <2>1
<1>4. CASE BeginConfirm(c) \/ BeginCreate(c) \/ ReadSettings(c)
  <2>1. call'[c].at \in {"asking", "begun", "decided"}
    <3> USE DEF GridTypeOK, Call
    <3>1. CASE BeginConfirm(c)
      BY <3>1 DEF BeginConfirm
    <3>2. CASE BeginCreate(c)
      BY <3>2 DEF BeginCreate
    <3>3. CASE ReadSettings(c)
      BY <3>3 DEF ReadSettings
    <3> QED
      BY <1>4, <3>1, <3>2, <3>3
  <2> QED
    BY <2>1
<1>5. CASE FlushSession(c) \/ TakeRow(c) \/ FailVictim(c) \/ CallDies(c)
  <2>1. call'[c].at \in {"asking", "holding", "error", "lost"}
    BY <1>5, MovesAreTyped DEF FlushSession, TakeRow, FailVictim, CallDies, Open, Outcomes
  <2> QED
    BY <2>1
<1> QED
  BY <1>1, <1>2, <1>3, <1>4, <1>5 DEF Quiet

\* An answer that was true stays so when the row is extended.
LEMMA AnswersStep ==
    ASSUME GridInv, AnswersStand, [GridNext]_gridVars
    PROVE  AnswersStand'
<1>1. Extends(settings, settings')
  BY SettingsExtend
<1>2. ASSUME NEW d \in Calls, call'[d] = call[d]
      PROVE  /\ call'[d].at = "ok" /\ call'[d].bead = NULL =>
                  settings' # NULL /\ settings'.level = call'[d].level
             /\ call'[d].at = "locked" =>
                  Disagrees(settings', call'[d].level, call'[d].bead)
  BY <1>1, <1>2, DisagreementStays DEF AnswersStand, Creates, Extends
<1>3. CASE UNCHANGED gridVars
  BY <1>2, <1>3 DEF gridVars, AnswersStand, Creates, Disagrees
<1>4. ASSUME NEW c \in Calls, Quiet(c) \/ Confirm(c) \/ CommitSession(c)
      PROVE  AnswersStand'
  <2>1. ASSUME NEW d \in Calls
        PROVE  /\ call'[d].at = "ok" /\ call'[d].bead = NULL =>
                    settings' # NULL /\ settings'.level = call'[d].level
               /\ call'[d].at = "locked" =>
                    Disagrees(settings', call'[d].level, call'[d].bead)
    <3>1. CASE d = c
      BY <1>4, <3>1, AnswersAreTrue
    <3>2. CASE d # c
      BY <1>2, <1>4, <3>2, OthersStay DEF GridInv
    <3> QED
      BY <3>1, <3>2
  <2> QED
    BY <2>1 DEF AnswersStand, Creates, Disagrees
<1> QED
  BY <1>3, <1>4, StepsOfNext

\* A level that was confirmed stays the project's, and who was refused was
\* refused for good, for any requests that come later.
THEOREM AnswersAreForEver == GridSpec => []AnswersStand
<1>1. GridInit => AnswersStand
  BY DEF GridInit, AnswersStand
<1> QED
  BY <1>1, GridInvariant, AnswersStep, PTL DEF GridSpec

-----------------------------------------------------------------------------
(* The write-once register.                                                *)

\* A step that extends the row confirms a level, cuts a bead, or is none.
LEMMA FreezeStep ==
    ASSUME GridTypeOK, GridTypeOK', Extends(settings, settings')
    PROVE  [Freeze!Next]_<<IF settings = NULL THEN NULL ELSE settings.level,
                           IF settings = NULL THEN NULL ELSE settings.bead>>
<1> USE GridAssumption DEF GridTypeOK, Row, Freeze!Next, Freeze!Confirm, Freeze!Cut
<1>1. CASE settings' = settings
  BY <1>1
<1>2. CASE settings = NULL /\ settings' # NULL /\ settings'.bead = NULL
  BY <1>2
<1>3. CASE settings = NULL /\ settings' # NULL /\ settings'.bead # NULL
  BY <1>3
<1>4. CASE /\ settings # NULL /\ settings' # NULL
           /\ settings'.level = settings.level /\ settings.bead = NULL
  BY <1>4
<1> QED
  BY <1>1, <1>2, <1>3, <1>4 DEF Extends

\* The row of a project implements the register whose level and bead are each
\* written once, for any number of racing confirmations and creations.
THEOREM GridImplementsFreeze == GridSpec => GridRefinement
<1>1. GridInit => Freeze!Init
  BY DEF GridInit, Freeze!Init
<1>2. GridInv /\ GridInv' /\ [GridNext]_gridVars =>
        [Freeze!Next]_<<IF settings = NULL THEN NULL ELSE settings.level,
                        IF settings = NULL THEN NULL ELSE settings.bead>>
  BY SettingsExtend, FreezeStep DEF GridInv
<1> QED
  BY <1>1, <1>2, GridInvariant, PTL DEF GridSpec, GridRefinement, Freeze!Spec

-----------------------------------------------------------------------------
(* The drafts of voice answers.                                            *)

USE TranscriptionAssumption, RowAssumption

\* A row that is filed anew has a number of its own.
RowsAreCounted ==
    \A a \in Answers :
        /\ draft[a] # NULL => draft[a].row <= rows
        /\ run.todo[a] # NULL =>
              /\ run.todo[a].row <= rows
              /\ draft[a] # NULL => run.todo[a].row <= draft[a].row
        /\ \A c \in Clients : trigger[c].loaded[a] # NULL =>
              /\ trigger[c].loaded[a].row <= rows
              /\ draft[a] # NULL => trigger[c].loaded[a].row <= draft[a].row

\* What a bucket holds is never older than what a trigger or a force has seen there.
TakesAreCounted ==
    /\ \A a \in Answers :
          /\ floor[a] <= takes
          /\ object[a] # NULL => object[a] <= takes /\ floor[a] <= object[a]
          /\ \A c \in Clients :
                /\ trigger[c].base[a] <= takes
                /\ object[a] # NULL => trigger[c].base[a] <= object[a]
    /\ run.heard # NULL => run.heard <= takes

RunIsReal ==
    /\ run.pc = "heard" => run.cur \in Answers /\ run.todo[run.cur] # NULL
    /\ run.pc = "crashed" => run.attempt < Attempts

RecorderIsReal == rec.pc # "idle" => rec.answer \in Answers

\* A draft has a transcript exactly when it is ready.
Whole(d) == d.status = "ready" <=> d.text # NULL

\* A pass finds the row it has read pending, or with a later generation; a trigger
\* finds it as loaded, filled in since, or with a later generation.
GenerationsGrow ==
    \A a \in Answers : draft[a] # NULL =>
        /\ Whole(draft[a])
        /\ run.todo[a] # NULL /\ run.todo[a].row = draft[a].row =>
              /\ run.todo[a].generation <= draft[a].generation
              /\ run.todo[a].generation = draft[a].generation => draft[a].status = "pending"
        /\ \A c \in Clients :
              trigger[c].pc = "loaded" /\ trigger[c].loaded[a] # NULL
              /\ trigger[c].loaded[a].row = draft[a].row =>
                 /\ Whole(trigger[c].loaded[a])
                 /\ trigger[c].loaded[a].generation <= draft[a].generation
                 /\ trigger[c].loaded[a].generation = draft[a].generation =>
                       draft[a] = trigger[c].loaded[a] \/ trigger[c].loaded[a].status = "pending"

\* What a pass has heard is no older than the floor of a row it may still write to.
HeardIsNew ==
    run.pc = "heard" /\ run.heard # NULL =>
        LET a == run.cur
        IN  draft[a] # NULL /\ draft[a].row = run.todo[a].row
            /\ draft[a].generation = run.todo[a].generation => floor[a] <= run.heard

ForcesHold ==
    ~aliased /\ ~overlapped =>
        GenerationsGrow /\ HeardIsNew /\ \A a \in Answers : OfTheNewTake(a)

DraftsInv ==
    /\ TranscriptionTypeOK
    /\ RowsAreCounted
    /\ TakesAreCounted
    /\ RunIsReal
    /\ RecorderIsReal
    /\ ForcesHold

-----------------------------------------------------------------------------
(* What a trigger's commit does to the drafts.                             *)

TriggerRecords == [pc : {"idle", "listed", "loaded", "committed"}, force : BOOLEAN,
                scope : SUBSET Answers, listed : SUBSET Answers,
                loaded : [Answers -> Drafts \cup {NULL}], base : [Answers -> 0..MaxTakes]]

RunRecords == [pc : {"idle", "working", "heard", "crashed"}, attempt : 0..Attempts,
               todo : [Answers -> Tickets \cup {NULL}],
               cur : Answers \cup {NULL}, heard : Takes \cup {NULL}]

LEMMA FlushIsTyped ==
    ASSUME NEW old \in Drafts, NEW cur \in Drafts
    PROVE  /\ FlushReset(old, cur) \in Drafts
           /\ FlushReset(old, cur).row = cur.row
           /\ FlushReset(old, cur).generation = old.generation + 1
           /\ FlushReset(old, cur).status = IF old.status = "pending" THEN cur.status ELSE "pending"
           /\ FlushReset(old, cur).text = IF old.text = NULL THEN cur.text ELSE NULL
<1> DEFINE kept == IF old.status = "pending" THEN cur.status ELSE "pending"
           text == IF old.text = NULL THEN cur.text ELSE NULL
           one == [cur EXCEPT !.generation = old.generation + 1]
           two == [one EXCEPT !.status = kept]
           three == [two EXCEPT !.text = text]
<1>1. kept \in Status /\ text \in Takes \cup {NULL} /\ old.generation + 1 \in Nat
  BY DEF Drafts, Status
<1>2. FlushReset(old, cur) = three
  BY DEF FlushReset, Drafts
<1> HIDE DEF kept, text
<1>3. one \in Drafts /\ one.row = cur.row /\ one.generation = old.generation + 1
  BY <1>1 DEF Drafts
<1> HIDE DEF one
<1>4. two \in Drafts /\ two.row = cur.row /\ two.generation = old.generation + 1
      /\ two.status = kept
  BY <1>1, <1>3 DEF Drafts
<1> HIDE DEF two
<1>5. /\ three \in Drafts /\ three.row = cur.row /\ three.generation = old.generation + 1
      /\ three.status = kept /\ three.text = text
  BY <1>1, <1>4 DEF Drafts
<1> HIDE DEF three
<1> QED
  BY <1>2, <1>5 DEF kept, text

LEMMA NewDraftIsTyped ==
    ASSUME rows \in Nat
    PROVE  /\ NewDraft \in Drafts /\ NewDraft.row = rows + 1 /\ NewDraft.status = "pending"
           /\ NewDraft.text = NULL
BY DEF NewDraft, Drafts, Status

Seeded(c, a) ==
    /\ a \in Seeds(c) /\ draft[a] = NULL /\ a \in answer
    /\ draft'[a] = NewDraft
Reset(c, a) ==
    /\ a \in Resets(c) /\ draft[a] # NULL /\ trigger[c].loaded[a] # NULL
    /\ draft'[a] = FlushReset(trigger[c].loaded[a], draft[a])
Kept(c, a) == a \notin Seeds(c) /\ a \notin Resets(c) /\ draft'[a] = draft[a]

LEMMA CommitDrafts ==
    ASSUME TranscriptionTypeOK, NEW c \in Clients, CommitStart(c), NEW a \in Answers
    PROVE  Seeded(c, a) \/ Reset(c, a) \/ Kept(c, a)
<1>1. draft'[a] = IF a \in Seeds(c) THEN NewDraft
                  ELSE IF a \in Resets(c) THEN FlushReset(trigger[c].loaded[a], draft[a])
                  ELSE draft[a]
  BY DEF CommitStart
<1>2. a \in Seeds(c) => draft[a] = NULL /\ a \in answer
  BY DEF CommitStart, Collides
<1>3. a \in Resets(c) => draft[a] # NULL
  BY DEF CommitStart, Stale
<1>4. a \in Resets(c) => trigger[c].loaded[a] # NULL
  BY DEF Resets, Forced, Failed
<1> QED
  BY <1>1, <1>2, <1>3, <1>4 DEF Seeded, Reset, Kept

LEMMA CommitTypes ==
    ASSUME TranscriptionTypeOK, NEW c \in Clients, CommitStart(c)
    PROVE  /\ draft' \in [Answers -> Drafts \cup {NULL}]
           /\ \A a \in Answers : draft'[a] # NULL => a \in answer
           /\ floor' \in [Answers -> 0..MaxTakes]
           /\ rows' \in Nat
<1>1. ASSUME NEW a \in Answers
      PROVE  /\ draft'[a] \in Drafts \cup {NULL}
             /\ draft'[a] # NULL => a \in answer
  <2>1. CASE Seeded(c, a)
    BY <2>1, NewDraftIsTyped DEF Seeded, TranscriptionTypeOK
  <2>2. CASE Reset(c, a)
    <3>1. trigger[c].loaded[a] \in Drafts /\ draft[a] \in Drafts /\ a \in answer
      BY <2>2 DEF Reset, TranscriptionTypeOK
    <3> QED
      BY <2>2, <3>1, FlushIsTyped DEF Reset
  <2>3. CASE Kept(c, a)
    BY <2>3 DEF Kept, TranscriptionTypeOK
  <2> QED
    BY <2>1, <2>2, <2>3, CommitDrafts
<1>2. draft' = [a \in Answers |-> draft'[a]]
  BY DEF CommitStart
<1>3. \A a \in Answers : trigger[c].base[a] \in 0..MaxTakes
  BY DEF TranscriptionTypeOK
<1>4. floor' \in [Answers -> 0..MaxTakes]
  BY <1>3 DEF CommitStart, TranscriptionTypeOK
<1> QED
  BY <1>1, <1>2, <1>4 DEF CommitStart, TranscriptionTypeOK

-----------------------------------------------------------------------------
(* What a step does to the triggers, to the run and to the drafts.         *)

TriggerStep(c) ==
    \/ trigger'[c] = trigger[c]
    \/ /\ UNCHANGED draft
       /\ trigger'[c].pc # "loaded"
       /\ \A a \in Answers : trigger'[c].loaded[a] = NULL /\ trigger'[c].base[a] \in {0, trigger[c].base[a]}
    \/ /\ UNCHANGED <<draft, object, run>>
       /\ trigger'[c].pc = "loaded" /\ trigger'[c].loaded = draft
       /\ \A a \in Answers : trigger'[c].base[a] = IF object[a] = NULL THEN 0 ELSE object[a]
    \/ /\ trigger'[c].pc = "committed"
       /\ \A a \in Answers : /\ trigger'[c].loaded[a] \in {trigger[c].loaded[a], draft'[a]}
                             /\ trigger'[c].base[a] = trigger[c].base[a]

LEMMA IdleTriggerIsTyped ==
    /\ IdleTrigger \in TriggerRecords /\ IdleTrigger.pc # "loaded"
    /\ \A a \in Answers : IdleTrigger.loaded[a] = NULL /\ IdleTrigger.base[a] = 0
<1>1. [a \in Answers |-> NULL] \in [Answers -> Drafts \cup {NULL}]
  OBVIOUS
<1>2. [a \in Answers |-> 0] \in [Answers -> 0..MaxTakes]
  OBVIOUS
<1> QED
  BY <1>1, <1>2 DEF IdleTrigger, TriggerRecords

LEMMA TriggersStep ==
    ASSUME TranscriptionTypeOK, [TranscriptionNext]_transcriptionVars
    PROVE  trigger' \in [Clients -> TriggerRecords] /\ \A c \in Clients : TriggerStep(c)
<1>1. ASSUME NEW c \in Clients, NEW new \in TriggerRecords, trigger' = [trigger EXCEPT ![c] = new]
      PROVE  /\ trigger' \in [Clients -> TriggerRecords] /\ trigger'[c] = new
             /\ \A d \in Clients \ {c} : trigger'[d] = trigger[d]
  BY <1>1 DEF TranscriptionTypeOK, TriggerRecords
<1>2. ASSUME NEW c \in Clients, ListAnswers(c)
      PROVE  trigger' \in [Clients -> TriggerRecords] /\ \A d \in Clients : TriggerStep(d)
  <2>1. PICK f \in BOOLEAN, s \in SUBSET Answers :
          trigger' = [trigger EXCEPT ![c] = [IdleTrigger EXCEPT !.pc = "listed", !.force = f, !.scope = s,
                                                       !.listed = answer]]
    BY <1>2 DEF ListAnswers
  <2> DEFINE one == [IdleTrigger EXCEPT !.pc = "listed"]
             two == [one EXCEPT !.force = f]
             three == [two EXCEPT !.scope = s]
             new == [three EXCEPT !.listed = answer]
  <2>2. trigger' = [trigger EXCEPT ![c] = new]
    BY <2>1
  <2>3. /\ one \in TriggerRecords /\ one.pc = "listed"
        /\ one.loaded = IdleTrigger.loaded /\ one.base = IdleTrigger.base
    BY IdleTriggerIsTyped DEF TriggerRecords
  <2> HIDE DEF one
  <2>4. /\ two \in TriggerRecords /\ two.pc = "listed"
        /\ two.loaded = IdleTrigger.loaded /\ two.base = IdleTrigger.base
    BY <2>3 DEF TriggerRecords
  <2> HIDE DEF two
  <2>5. /\ three \in TriggerRecords /\ three.pc = "listed"
        /\ three.loaded = IdleTrigger.loaded /\ three.base = IdleTrigger.base
    BY <2>4 DEF TriggerRecords
  <2> HIDE DEF three
  <2>6. /\ new \in TriggerRecords /\ new.pc = "listed"
        /\ new.loaded = IdleTrigger.loaded /\ new.base = IdleTrigger.base
    BY <2>5 DEF TriggerRecords, TranscriptionTypeOK
  <2> HIDE DEF new
  <2>7. /\ trigger' \in [Clients -> TriggerRecords] /\ trigger'[c] = new
        /\ \A d \in Clients \ {c} : trigger'[d] = trigger[d]
    BY <1>1, <2>2, <2>6
  <2>8. UNCHANGED draft
    BY <1>2 DEF ListAnswers
  <2> QED
    BY <2>6, <2>7, <2>8, IdleTriggerIsTyped DEF TriggerStep
<1>3. ASSUME NEW c \in Clients, _existing_drafts(c)
      PROVE  trigger' \in [Clients -> TriggerRecords] /\ \A d \in Clients : TriggerStep(d)
  <2> DEFINE base == [a \in Answers |-> IF object[a] = NULL THEN 0 ELSE object[a]]
             read == [[trigger[c] EXCEPT !.pc = "loaded"] EXCEPT !.loaded = draft]
             new == [read EXCEPT !.base = base]
  <2>1. base \in [Answers -> 0..MaxTakes]
    BY DEF TranscriptionTypeOK, Takes
  <2>2. trigger[c] \in TriggerRecords /\ draft \in [Answers -> Drafts \cup {NULL}]
    BY DEF TranscriptionTypeOK, TriggerRecords
  <2>3. trigger' = [trigger EXCEPT ![c].pc = "loaded", ![c].loaded = draft, ![c].base = base]
    BY <1>3 DEF _existing_drafts
  <2>4. \A a \in Answers : base[a] = IF object[a] = NULL THEN 0 ELSE object[a]
    OBVIOUS
  <2> HIDE DEF base
  <2>5. trigger' = [trigger EXCEPT ![c] = new]
    BY <2>2, <2>3 DEF TranscriptionTypeOK
  <2>6. read \in TriggerRecords /\ read.pc = "loaded" /\ read.loaded = draft
    <3> DEFINE one == [trigger[c] EXCEPT !.pc = "loaded"]
    <3>1. one \in TriggerRecords /\ one.pc = "loaded"
      BY <2>2 DEF TriggerRecords
    <3> HIDE DEF one
    <3>2. [one EXCEPT !.loaded = draft] \in TriggerRecords
          /\ [one EXCEPT !.loaded = draft].pc = "loaded"
          /\ [one EXCEPT !.loaded = draft].loaded = draft
      BY <2>2, <3>1 DEF TriggerRecords
    <3> QED
      BY <3>2 DEF one
  <2> HIDE DEF read
  <2>7. new \in TriggerRecords /\ new.pc = "loaded" /\ new.loaded = draft /\ new.base = base
    BY <2>1, <2>6 DEF TriggerRecords
  <2> HIDE DEF new
  <2>8. /\ trigger' \in [Clients -> TriggerRecords] /\ trigger'[c] = new
        /\ \A d \in Clients \ {c} : trigger'[d] = trigger[d]
    BY <1>1, <2>5, <2>7
  <2>9. UNCHANGED <<draft, object, run>>
    BY <1>3 DEF _existing_drafts
  <2> QED
    BY <2>4, <2>7, <2>8, <2>9 DEF TriggerStep
<1>4. ASSUME NEW c \in Clients, CommitStart(c)
      PROVE  trigger' \in [Clients -> TriggerRecords] /\ \A d \in Clients : TriggerStep(d)
  <2> DEFINE held == [a \in Answers |-> IF a \in Seeds(c) \cup Resets(c) THEN draft'[a]
                                        ELSE trigger[c].loaded[a]]
             one == [trigger[c] EXCEPT !.pc = "committed"]
             new == [one EXCEPT !.loaded = held]
  <2>1. trigger' = [trigger EXCEPT ![c].pc = "committed", ![c].loaded = held]
    BY <1>4 DEF CommitStart
  <2>2. held \in [Answers -> Drafts \cup {NULL}]
    BY <1>4, CommitTypes DEF TranscriptionTypeOK
  <2>3. \A a \in Answers : held[a] \in {trigger[c].loaded[a], draft'[a]}
    OBVIOUS
  <2> HIDE DEF held
  <2>4. trigger[c] \in TriggerRecords
    BY DEF TranscriptionTypeOK, TriggerRecords
  <2>5. trigger' = [trigger EXCEPT ![c] = new]
    BY <2>1, <2>4 DEF TranscriptionTypeOK
  <2>6. /\ new \in TriggerRecords /\ new.pc = "committed" /\ new.loaded = held
        /\ new.base = trigger[c].base
    <3>1. one \in TriggerRecords /\ one.pc = "committed" /\ one.base = trigger[c].base
      BY <2>4 DEF TriggerRecords
    <3> HIDE DEF one
    <3> QED
      BY <2>2, <3>1 DEF TriggerRecords
  <2> HIDE DEF new
  <2>7. /\ trigger' \in [Clients -> TriggerRecords] /\ trigger'[c] = new
        /\ \A d \in Clients \ {c} : trigger'[d] = trigger[d]
    BY <1>1, <2>5, <2>6
  <2> QED
    BY <2>3, <2>6, <2>7 DEF TriggerStep
<1>5. ASSUME NEW c \in Clients, CollideStart(c)
      PROVE  trigger' \in [Clients -> TriggerRecords] /\ \A d \in Clients : TriggerStep(d)
  <2> DEFINE none == [a \in Answers |-> NULL]
             one == [trigger[c] EXCEPT !.pc = "committed"]
             new == [one EXCEPT !.loaded = none]
  <2>1. trigger' = [trigger EXCEPT ![c].pc = "committed", ![c].loaded = none]
    BY <1>5 DEF CollideStart
  <2>2. none \in [Answers -> Drafts \cup {NULL}] /\ \A a \in Answers : none[a] = NULL
    OBVIOUS
  <2> HIDE DEF none
  <2>3. trigger[c] \in TriggerRecords
    BY DEF TranscriptionTypeOK, TriggerRecords
  <2>4. trigger' = [trigger EXCEPT ![c] = new]
    BY <2>1, <2>3 DEF TranscriptionTypeOK
  <2>5. /\ new \in TriggerRecords /\ new.pc = "committed" /\ new.loaded = none
        /\ new.base = trigger[c].base
    <3>1. one \in TriggerRecords /\ one.pc = "committed" /\ one.base = trigger[c].base
      BY <2>3 DEF TriggerRecords
    <3> HIDE DEF one
    <3> QED
      BY <2>2, <3>1 DEF TriggerRecords
  <2> HIDE DEF new
  <2>6. /\ trigger' \in [Clients -> TriggerRecords] /\ trigger'[c] = new
        /\ \A d \in Clients \ {c} : trigger'[d] = trigger[d]
    BY <1>1, <2>4, <2>5
  <2>7. UNCHANGED draft
    BY <1>5 DEF CollideStart
  <2> QED
    BY <2>2, <2>5, <2>6, <2>7 DEF TriggerStep
<1>6. ASSUME NEW c \in Clients, StaleStart(c) \/ request_transcription(c) \/ TriggerDies(c)
      PROVE  trigger' \in [Clients -> TriggerRecords] /\ \A d \in Clients : TriggerStep(d)
  <2>1. trigger' = [trigger EXCEPT ![c] = IdleTrigger] /\ UNCHANGED draft
    BY <1>6 DEF StaleStart, request_transcription, TriggerDies
  <2>2. /\ trigger' \in [Clients -> TriggerRecords] /\ trigger'[c] = IdleTrigger
        /\ \A d \in Clients \ {c} : trigger'[d] = trigger[d]
    BY <1>1, <2>1, IdleTriggerIsTyped
  <2> QED
    BY <2>1, <2>2, IdleTriggerIsTyped DEF TriggerStep
<1>7. CASE UNCHANGED trigger
  BY <1>7 DEF TranscriptionTypeOK, TriggerRecords, TriggerStep
<1> QED
  BY <1>2, <1>3, <1>4, <1>5, <1>6, <1>7 DEF TranscriptionNext, Recorder, UploadTake, EraseObject, StoreRow,
     DeleteRow, RecorderDies, Trigger, RunProgress, RunBegins, Transcribe, _write_draft,
     RunEnds, RunCrashes, RunRetries, transcriptionVars

\* A run remembers what it read of a pending draft, and hears the object there is.
RunStep ==
    /\ run' \in RunRecords
    /\ RunIsReal'
    /\ \A a \in Answers :
          \/ run'.todo[a] \in {run.todo[a], NULL}
          \/ /\ UNCHANGED <<draft, trigger, rows, aliased, overlapped>>
             /\ draft[a] # NULL /\ draft[a].status = "pending"
             /\ run'.todo[a] \in Tickets
             /\ run'.todo[a].generation = draft[a].generation /\ run'.todo[a].row = draft[a].row
    /\ \/ run'.heard \in {run.heard, NULL}
       \/ UNCHANGED <<object, takes>> /\ \E a \in Answers : run'.heard = object[a]
    /\ run'.pc = "heard" =>
          \/ run' = run
          \/ /\ UNCHANGED <<draft, object, floor, takes, aliased, overlapped>>
             /\ run'.cur \in Answers /\ run'.todo = run.todo /\ run.todo[run'.cur] # NULL
             /\ run'.heard \in {object[run'.cur], NULL}

LEMMA TodoIsTyped ==
    ASSUME TranscriptionTypeOK
    PROVE  /\ Todo \in [Answers -> Tickets \cup {NULL}]
           /\ \A a \in Answers : Todo[a] # NULL =>
                /\ draft[a] # NULL /\ draft[a].status = "pending"
                /\ Todo[a].generation = draft[a].generation /\ Todo[a].row = draft[a].row
<1> DEFINE ticket(a) == [generation |-> draft[a].generation, row |-> draft[a].row]
           due(a) == draft[a] # NULL /\ draft[a].status = "pending"
<1>1. ASSUME NEW a \in Answers, due(a)
      PROVE  /\ ticket(a) \in Tickets /\ ticket(a).generation = draft[a].generation
             /\ ticket(a).row = draft[a].row
  BY <1>1 DEF TranscriptionTypeOK, Drafts, Tickets
<1>2. Todo = [a \in Answers |-> IF due(a) THEN ticket(a) ELSE NULL]
  BY DEF Todo
<1> HIDE DEF ticket
<1> QED
  BY <1>1, <1>2

LEMMA IdleRunIsTyped ==
    /\ IdleRun \in RunRecords /\ IdleRun.pc = "idle" /\ IdleRun.heard = NULL
    /\ \A a \in Answers : IdleRun.todo[a] = NULL
<1> DEFINE none == [a \in Answers |-> NULL]
<1>1. none \in [Answers -> Tickets \cup {NULL}] /\ \A a \in Answers : none[a] = NULL
  OBVIOUS
<1>2. IdleRun = [pc |-> "idle", attempt |-> 0, todo |-> none, cur |-> NULL, heard |-> NULL]
  BY DEF IdleRun
<1> HIDE DEF none
<1> QED
  BY <1>1, <1>2 DEF RunRecords

LEMMA RunsStep ==
    ASSUME TranscriptionTypeOK, RunIsReal, [TranscriptionNext]_transcriptionVars
    PROVE  RunStep
<1> USE DEF RunIsReal
<1>0. run \in RunRecords
  BY DEF TranscriptionTypeOK, RunRecords
<1>1. CASE RunBegins
  <2> DEFINE one == [IdleRun EXCEPT !.pc = "working"]
             two == [one EXCEPT !.attempt = 1]
             new == [two EXCEPT !.todo = Todo]
  <2>1. run' = new
    BY <1>1 DEF RunBegins
  <2>2. one \in RunRecords /\ one.pc = "working" /\ one.heard = NULL
    BY IdleRunIsTyped DEF RunRecords
  <2> HIDE DEF one
  <2>3. two \in RunRecords /\ two.pc = "working" /\ two.heard = NULL
    BY <2>2 DEF RunRecords
  <2> HIDE DEF two
  <2>4. new \in RunRecords /\ new.pc = "working" /\ new.heard = NULL /\ new.todo = Todo
    BY <2>3, TodoIsTyped DEF RunRecords
  <2> HIDE DEF new
  <2>5. UNCHANGED <<draft, trigger, rows, aliased, overlapped>>
    BY <1>1 DEF RunBegins, marks
  <2> QED
    BY <2>1, <2>4, <2>5, TodoIsTyped DEF RunStep
<1>2. ASSUME NEW a \in Answers, Transcribe(a)
      PROVE  RunStep
  <2>1. PICK got \in {object[a], NULL} :
          run' = [run EXCEPT !.pc = "heard", !.cur = a, !.heard = got]
    BY <1>2 DEF Transcribe
  <2>2. got \in Takes \cup {NULL}
    BY DEF TranscriptionTypeOK
  <2> DEFINE one == [run EXCEPT !.pc = "heard"]
             two == [one EXCEPT !.cur = a]
             new == [two EXCEPT !.heard = got]
  <2>3. run' = new
    BY <2>1
  <2>4. one \in RunRecords /\ one.pc = "heard" /\ one.todo = run.todo
    BY <1>0 DEF RunRecords
  <2> HIDE DEF one
  <2>5. two \in RunRecords /\ two.pc = "heard" /\ two.todo = run.todo /\ two.cur = a
    BY <2>4 DEF RunRecords
  <2> HIDE DEF two
  <2>6. /\ new \in RunRecords /\ new.pc = "heard" /\ new.todo = run.todo
        /\ new.cur = a /\ new.heard = got
    BY <2>2, <2>5 DEF RunRecords
  <2> HIDE DEF new
  <2>7. UNCHANGED <<draft, object, floor, takes, aliased, overlapped>> /\ run.todo[a] # NULL
    BY <1>2 DEF Transcribe, marks
  <2> QED
    BY <2>3, <2>6, <2>7 DEF RunStep
<1>3. CASE _write_draft
  <2> DEFINE one == [run EXCEPT !.pc = "working"]
             two == [one EXCEPT !.cur = NULL]
             three == [two EXCEPT !.heard = NULL]
             new == [three EXCEPT !.todo[run.cur] = NULL]
  <2>1. run' = new
    BY <1>3 DEF _write_draft
  <2>2. one \in RunRecords /\ one.pc = "working" /\ one.todo = run.todo
    BY <1>0 DEF RunRecords
  <2> HIDE DEF one
  <2>3. two \in RunRecords /\ two.pc = "working" /\ two.todo = run.todo
    BY <2>2 DEF RunRecords
  <2> HIDE DEF two
  <2>4. three \in RunRecords /\ three.pc = "working" /\ three.todo = run.todo
        /\ three.heard = NULL
    BY <2>3 DEF RunRecords
  <2> HIDE DEF three
  <2>5. /\ new \in RunRecords /\ new.pc = "working" /\ new.heard = NULL
        /\ \A a \in Answers : new.todo[a] \in {run.todo[a], NULL}
    BY <2>4 DEF RunRecords
  <2> HIDE DEF new
  <2> QED
    BY <2>1, <2>5 DEF RunStep
<1>4. CASE RunEnds
  <2>1. run' = IdleRun
    BY <1>4 DEF RunEnds
  <2> QED
    BY <2>1, IdleRunIsTyped DEF RunStep
<1>5. CASE RunCrashes
  <2>1. CASE run' = IdleRun
    BY <2>1, IdleRunIsTyped DEF RunStep
  <2>2. CASE /\ run' = [IdleRun EXCEPT !.pc = "crashed", !.attempt = run.attempt]
             /\ run.attempt < Attempts
    <3> DEFINE one == [IdleRun EXCEPT !.pc = "crashed"]
               new == [one EXCEPT !.attempt = run.attempt]
    <3>1. run' = new
      BY <2>2
    <3>2. /\ one \in RunRecords /\ one.pc = "crashed" /\ one.heard = NULL
          /\ one.todo = IdleRun.todo
      BY IdleRunIsTyped DEF RunRecords
    <3> HIDE DEF one
    <3>3. /\ new \in RunRecords /\ new.pc = "crashed" /\ new.heard = NULL
          /\ new.todo = IdleRun.todo /\ new.attempt = run.attempt
      BY <1>0, <3>2 DEF RunRecords
    <3> HIDE DEF new
    <3> QED
      BY <2>2, <3>1, <3>3, IdleRunIsTyped DEF RunStep
  <2> QED
    BY <1>5, <2>1, <2>2 DEF RunCrashes
<1>6. CASE RunRetries
  <2> DEFINE one == [run EXCEPT !.pc = "working"]
             two == [one EXCEPT !.attempt = run.attempt + 1]
             new == [two EXCEPT !.todo = Todo]
  <2>1. run' = new
    BY <1>6 DEF RunRetries
  <2>2. one \in RunRecords /\ one.pc = "working" /\ one.heard = run.heard
    BY <1>0 DEF RunRecords
  <2> HIDE DEF one
  <2>3. two \in RunRecords /\ two.pc = "working" /\ two.heard = run.heard
    <3>1. run.attempt + 1 \in 0..Attempts
      BY <1>0, <1>6 DEF RunRetries, RunRecords
    <3> QED
      BY <2>2, <3>1 DEF RunRecords
  <2> HIDE DEF two
  <2>4. new \in RunRecords /\ new.pc = "working" /\ new.heard = run.heard /\ new.todo = Todo
    BY <2>3, TodoIsTyped DEF RunRecords
  <2> HIDE DEF new
  <2>5. UNCHANGED <<draft, trigger, rows, aliased, overlapped>>
    BY <1>6 DEF RunRetries, marks
  <2> QED
    BY <2>1, <2>4, <2>5, TodoIsTyped DEF RunStep
<1>7. CASE UNCHANGED run
  BY <1>0, <1>7 DEF RunStep
<1> QED
  BY <1>1, <1>2, <1>3, <1>4, <1>5, <1>6, <1>7 DEF TranscriptionNext, Recorder, UploadTake, EraseObject,
     StoreRow, DeleteRow, RecorderDies, Trigger, ListAnswers, _existing_drafts, CommitStart,
     CollideStart, StaleStart, request_transcription, TriggerDies, RunProgress, transcriptionVars

\* What a pass writes of the draft it has heard the answer of.
LEMMA WriteEffect ==
    ASSUME TranscriptionTypeOK, RunIsReal, _write_draft
    PROVE  LET a == run.cur
           IN  /\ a \in Answers /\ run.todo[a] \in Tickets
               /\ \/ UNCHANGED draft /\ aliased' = aliased
                  \/ /\ draft[a] # NULL /\ draft[a].generation = run.todo[a].generation
                     /\ draft' \in [Answers -> Drafts \cup {NULL}]
                     /\ \A b \in Answers \ {a} : draft'[b] = draft[b]
                     /\ draft'[a] # NULL /\ draft'[a].row = draft[a].row
                     /\ draft'[a].generation = draft[a].generation
                     /\ \/ /\ run.heard = NULL /\ draft'[a].status = "failed"
                           /\ draft'[a].text = draft[a].text
                        \/ /\ run.heard # NULL /\ draft'[a].status = "ready"
                           /\ draft'[a].text = run.heard
                     /\ ~aliased' => ~aliased /\ draft[a].row = run.todo[a].row
<1> DEFINE a == run.cur
<1>1. a \in Answers /\ run.todo[a] \in Tickets
  BY DEF _write_draft, RunIsReal, TranscriptionTypeOK
<1>2. aliased' <=> (aliased \/ (StillTheRow(a) /\ draft[a].row # run.todo[a].row))
  BY DEF _write_draft
<1>3. CASE ~StillTheRow(a)
  <2>1. UNCHANGED draft
    BY <1>3 DEF _write_draft
  <2>2. aliased' = aliased
    <3>1. aliased \in BOOLEAN
      BY DEF TranscriptionTypeOK
    <3>2. aliased' = (aliased \/ (StillTheRow(a) /\ draft[a].row # run.todo[a].row))
      BY DEF _write_draft
    <3> QED
      BY <1>3, <3>1, <3>2, Zenon
  <2> QED
    BY <1>1, <2>1, <2>2
<1>4. CASE StillTheRow(a)
  <2>1. draft[a] \in Drafts /\ draft[a].generation = run.todo[a].generation /\ draft[a] # NULL
    BY <1>1, <1>4 DEF StillTheRow, TranscriptionTypeOK
  <2>2. ~aliased' => ~aliased /\ draft[a].row = run.todo[a].row
    BY <1>2, <1>4
  <2>3. CASE run.heard = NULL
    <3> DEFINE new == [draft[a] EXCEPT !.status = "failed"]
    <3>1. draft' = [draft EXCEPT ![a] = new]
      BY <1>4, <2>3 DEF _write_draft
    <3>2. /\ new \in Drafts /\ new.status = "failed" /\ new.text = draft[a].text
          /\ new.row = draft[a].row /\ new.generation = draft[a].generation
      BY <2>1 DEF Drafts, Status
    <3> HIDE DEF new
    <3>3. /\ draft' \in [Answers -> Drafts \cup {NULL}] /\ draft'[a] = new
          /\ \A b \in Answers \ {a} : draft'[b] = draft[b]
      BY <1>1, <3>1, <3>2 DEF TranscriptionTypeOK
    <3> QED
      BY <1>1, <2>1, <2>2, <2>3, <3>2, <3>3
  <2>4. CASE run.heard # NULL
    <3> DEFINE one == [draft[a] EXCEPT !.status = "ready"]
               new == [one EXCEPT !.text = run.heard]
    <3>1. draft' = [draft EXCEPT ![a].status = "ready", ![a].text = run.heard]
      BY <1>4, <2>4 DEF _write_draft
    <3>2. draft' = [draft EXCEPT ![a] = new]
      BY <1>1, <3>1 DEF TranscriptionTypeOK
    <3>3. /\ one \in Drafts /\ one.status = "ready"
          /\ one.row = draft[a].row /\ one.generation = draft[a].generation
      BY <2>1 DEF Drafts, Status
    <3> HIDE DEF one
    <3>4. run.heard \in Takes
      BY <2>4 DEF TranscriptionTypeOK
    <3>5. /\ new \in Drafts /\ new.status = "ready" /\ new.text = run.heard
          /\ new.row = draft[a].row /\ new.generation = draft[a].generation
      BY <3>3, <3>4 DEF Drafts
    <3> HIDE DEF new
    <3>6. /\ draft' \in [Answers -> Drafts \cup {NULL}] /\ draft'[a] = new
          /\ \A b \in Answers \ {a} : draft'[b] = draft[b]
      BY <1>1, <3>2, <3>5 DEF TranscriptionTypeOK
    <3> QED
      BY <1>1, <2>1, <2>2, <2>4, <3>5, <3>6
  <2> QED
    BY <2>3, <2>4
<1> QED
  BY <1>3, <1>4

LEMMA DraftsStep ==
    ASSUME [TranscriptionNext]_transcriptionVars
    PROVE  \/ UNCHANGED <<draft, floor, rows, aliased, overlapped>>
           \/ DeleteRow
           \/ \E c \in Clients : CommitStart(c)
           \/ _write_draft
BY DEF TranscriptionNext, Recorder, UploadTake, EraseObject, StoreRow, RecorderDies, Trigger, ListAnswers,
   _existing_drafts, CollideStart, StaleStart, request_transcription, TriggerDies, RunProgress,
   RunBegins, Transcribe, RunEnds, RunCrashes, RunRetries, transcriptionVars, marks

LEMMA DraftRows ==
    ASSUME TranscriptionTypeOK, RunIsReal, RecorderIsReal, [TranscriptionNext]_transcriptionVars
    PROVE  /\ draft' \in [Answers -> Drafts \cup {NULL}]
           /\ rows' \in Nat /\ rows <= rows'
           /\ \A a \in Answers : draft'[a] # NULL =>
                \/ draft[a] # NULL /\ draft'[a].row = draft[a].row
                \/ /\ draft[a] = NULL /\ a \in answer /\ UNCHANGED answer
                   /\ rows' = rows + 1 /\ draft'[a].row = rows + 1
<1>1. CASE UNCHANGED <<draft, rows>>
  BY <1>1 DEF TranscriptionTypeOK
<1>2. CASE DeleteRow
  <2>1. rec.answer \in Answers
    BY <1>2 DEF DeleteRow, RecorderIsReal
  <2>2. /\ draft' = [draft EXCEPT ![rec.answer] = NULL] /\ rows' = rows
    BY <1>2 DEF DeleteRow
  <2> QED
    BY <2>1, <2>2 DEF TranscriptionTypeOK
<1>3. ASSUME NEW c \in Clients, CommitStart(c)
      PROVE  /\ rows' \in Nat /\ rows <= rows'
             /\ \A a \in Answers : draft'[a] # NULL =>
                  \/ draft[a] # NULL /\ draft'[a].row = draft[a].row
                  \/ /\ draft[a] = NULL /\ a \in answer /\ UNCHANGED answer
                     /\ rows' = rows + 1 /\ draft'[a].row = rows + 1
  <2>1. /\ rows' = IF Seeds(c) = {} THEN rows ELSE rows + 1
        /\ UNCHANGED answer
    BY <1>3 DEF CommitStart
  <2>2. rows' \in Nat /\ rows <= rows'
    BY <2>1 DEF TranscriptionTypeOK
  <2>3. ASSUME NEW a \in Answers, draft'[a] # NULL
        PROVE  \/ draft[a] # NULL /\ draft'[a].row = draft[a].row
               \/ /\ draft[a] = NULL /\ a \in answer /\ UNCHANGED answer
                  /\ rows' = rows + 1 /\ draft'[a].row = rows + 1
    <3>1. CASE Seeded(c, a)
      BY <2>1, <3>1, NewDraftIsTyped DEF Seeded, TranscriptionTypeOK
    <3>2. CASE Reset(c, a)
      <4>1. trigger[c].loaded[a] \in Drafts /\ draft[a] \in Drafts
        BY <3>2 DEF Reset, TranscriptionTypeOK
      <4> QED
        BY <3>2, <4>1, FlushIsTyped DEF Reset
    <3>3. CASE Kept(c, a)
      BY <2>3, <3>3 DEF Kept
    <3> QED
      BY <1>3, <3>1, <3>2, <3>3, CommitDrafts
  <2> QED
    BY <2>2, <2>3
<1>4. CASE _write_draft
  <2>1. rows' = rows
    BY <1>4 DEF _write_draft
  <2> QED
    BY <1>4, <2>1, WriteEffect DEF TranscriptionTypeOK
<1> QED
  BY <1>1, <1>2, <1>3, <1>4, DraftsStep, CommitTypes

LEMMA RecorderStep ==
    ASSUME TranscriptionTypeOK, RecorderIsReal, [TranscriptionNext]_transcriptionVars
    PROVE  /\ rec' \in [pc : {"idle", "uploaded", "erased"}, answer : Answers \cup {NULL}]
           /\ answer' \subseteq Answers
           /\ RecorderIsReal'
<1>1. ASSUME NEW a \in Answers, NEW pc \in {"uploaded", "erased"},
             rec' = [pc |-> pc, answer |-> a], UNCHANGED answer
      PROVE  /\ rec' \in [pc : {"idle", "uploaded", "erased"}, answer : Answers \cup {NULL}]
             /\ answer' \subseteq Answers /\ RecorderIsReal'
  BY <1>1 DEF TranscriptionTypeOK, RecorderIsReal
<1>2. CASE /\ rec' = IdleRec /\ rec.pc # "idle"
           /\ answer' \in {answer, answer \cup {rec.answer}, answer \ {rec.answer}}
  BY <1>2 DEF TranscriptionTypeOK, RecorderIsReal, IdleRec
<1>3. CASE UNCHANGED <<rec, answer>>
  BY <1>3 DEF TranscriptionTypeOK, RecorderIsReal
<1> QED
  BY <1>1, <1>2, <1>3 DEF TranscriptionNext, Recorder, UploadTake, EraseObject, StoreRow, DeleteRow,
     RecorderDies, Trigger, ListAnswers, _existing_drafts, CommitStart, CollideStart,
     StaleStart, request_transcription, TriggerDies, RunProgress, RunBegins, Transcribe,
     _write_draft, RunEnds, RunCrashes, RunRetries, transcriptionVars

LEMMA TypeStep ==
    ASSUME TranscriptionTypeOK, RunIsReal, RecorderIsReal, [TranscriptionNext]_transcriptionVars
    PROVE  TranscriptionTypeOK'
<1>1. object' \in [Answers -> Takes \cup {NULL}] /\ takes' \in 0..MaxTakes
  <2>1. ASSUME NEW a \in Answers, UploadTake(a)
        PROVE  object' \in [Answers -> Takes \cup {NULL}] /\ takes' \in 0..MaxTakes
    <3>1. takes + 1 \in Takes
      BY <2>1 DEF UploadTake, TranscriptionTypeOK, Takes
    <3> QED
      BY <2>1, <3>1 DEF UploadTake, TranscriptionTypeOK, Takes
  <2>2. ASSUME NEW a \in Answers, EraseObject(a)
        PROVE  object' \in [Answers -> Takes \cup {NULL}] /\ takes' \in 0..MaxTakes
    BY <2>2 DEF EraseObject, TranscriptionTypeOK
  <2>3. CASE UNCHANGED <<object, takes>>
    BY <2>3 DEF TranscriptionTypeOK
  <2> QED
    BY <2>1, <2>2, <2>3 DEF TranscriptionNext, Recorder, StoreRow, DeleteRow, RecorderDies, Trigger,
       ListAnswers, _existing_drafts, CommitStart, CollideStart, StaleStart,
       request_transcription, TriggerDies, RunProgress, RunBegins, Transcribe, _write_draft,
       RunEnds, RunCrashes, RunRetries, transcriptionVars
<1>2. /\ rec' \in [pc : {"idle", "uploaded", "erased"}, answer : Answers \cup {NULL}]
      /\ answer' \subseteq Answers
  BY RecorderStep
<1>3. /\ draft' \in [Answers -> Drafts \cup {NULL}] /\ rows' \in Nat
      /\ trigger' \in [Clients -> TriggerRecords] /\ run' \in RunRecords
  BY DraftRows, TriggersStep, RunsStep DEF RunStep
<1>4. \A a \in Answers : draft'[a] # NULL => a \in answer'
  <2>1. CASE answer \subseteq answer'
    BY <2>1, DraftRows DEF TranscriptionTypeOK
  <2>2. CASE DeleteRow
    <3>1. draft' = [draft EXCEPT ![rec.answer] = NULL] /\ answer' = answer \ {rec.answer}
      BY <2>2 DEF DeleteRow
    <3> QED
      BY <3>1 DEF TranscriptionTypeOK
  <2> QED
    BY <2>1, <2>2 DEF TranscriptionNext, Recorder, UploadTake, EraseObject, StoreRow, RecorderDies, Trigger,
       ListAnswers, _existing_drafts, CommitStart, CollideStart, StaleStart,
       request_transcription, TriggerDies, RunProgress, RunBegins, Transcribe, _write_draft,
       RunEnds, RunCrashes, RunRetries, transcriptionVars
<1>5. floor' \in [Answers -> 0..MaxTakes]
  <2>1. CASE DeleteRow
    <3>1. floor' = [floor EXCEPT ![rec.answer] = 0] /\ rec.answer \in Answers
      BY <2>1 DEF DeleteRow, RecorderIsReal
    <3>2. 0 \in 0..MaxTakes
      OBVIOUS
    <3> QED
      BY <3>1, <3>2 DEF TranscriptionTypeOK
  <2>2. CASE UNCHANGED floor
    BY <2>2 DEF TranscriptionTypeOK
  <2> QED
    BY <2>1, <2>2, DraftsStep, CommitTypes DEF _write_draft
<1>6. events' \in Nat /\ starts' \in 0..MaxStarts
  <2>1. ASSUME NEW c \in Clients, ListAnswers(c)
        PROVE  events' \in Nat /\ starts' \in 0..MaxStarts
    BY <2>1 DEF ListAnswers, TranscriptionTypeOK
  <2>2. ASSUME NEW c \in Clients, request_transcription(c)
        PROVE  events' \in Nat /\ starts' \in 0..MaxStarts
    <3>1. events' \in {events, events + 1} /\ starts' = starts
      BY <2>2 DEF request_transcription
    <3> QED
      BY <3>1 DEF TranscriptionTypeOK
  <2>3. CASE RunBegins
    BY <2>3 DEF RunBegins, TranscriptionTypeOK
  <2>4. CASE UNCHANGED <<events, starts>>
    BY <2>4 DEF TranscriptionTypeOK
  <2> QED
    BY <2>1, <2>2, <2>3, <2>4 DEF TranscriptionNext, Recorder, UploadTake, EraseObject, StoreRow, DeleteRow,
       RecorderDies, Trigger, _existing_drafts, CommitStart, CollideStart, StaleStart, TriggerDies,
       RunProgress, Transcribe, _write_draft, RunEnds, RunCrashes, RunRetries, transcriptionVars
<1>7. {lost, aliased, overlapped}' \subseteq BOOLEAN
  <2>1. lost' \in BOOLEAN
    <3>1. \/ lost' = lost
          \/ \E c \in Clients : lost' = (lost \/ trigger[c].pc = "committed")
          \/ lost' = (lost \/ run.attempt = Attempts)
      BY DEF TranscriptionNext, Recorder, UploadTake, EraseObject, StoreRow, DeleteRow, RecorderDies, Trigger,
         ListAnswers, _existing_drafts, CommitStart, CollideStart, StaleStart,
         request_transcription, TriggerDies, RunProgress, RunBegins, Transcribe, _write_draft,
         RunEnds, RunCrashes, RunRetries, transcriptionVars, marks
    <3> QED
      BY <3>1 DEF TranscriptionTypeOK
  <2>2. aliased' \in BOOLEAN /\ overlapped' \in BOOLEAN
    <3>1. aliased \in BOOLEAN /\ overlapped \in BOOLEAN
      BY DEF TranscriptionTypeOK
    <3>2. \A c \in Clients : (overlapped \/ Overlaps(c)) \in BOOLEAN
      BY Zenon
    <3>3. ASSUME NEW c \in Clients, CommitStart(c)
          PROVE  overlapped' \in BOOLEAN /\ aliased' = aliased
      BY <3>2, <3>3, Zenon DEF CommitStart
    <3>4. CASE _write_draft
      <4>1. overlapped' = overlapped
        BY <3>4 DEF _write_draft
      <4>2. aliased' \in BOOLEAN
        BY <3>4, Zenon DEF _write_draft
      <4> QED
        BY <3>1, <4>1, <4>2
    <3>5. CASE DeleteRow
      BY <3>1, <3>5 DEF DeleteRow, marks
    <3>6. CASE UNCHANGED <<draft, floor, rows, aliased, overlapped>>
      BY <3>1, <3>6
    <3> QED
      BY <3>1, <3>3, <3>4, <3>5, <3>6, DraftsStep
  <2> QED
    BY <2>1, <2>2
<1> QED
  BY <1>1, <1>2, <1>3, <1>4, <1>5, <1>6, <1>7 DEF TranscriptionTypeOK, TriggerRecords, RunRecords

-----------------------------------------------------------------------------
(* Counting rows and takes.                                                *)

LEMMA RowsStep ==
    ASSUME TranscriptionTypeOK, RunIsReal, RecorderIsReal, RowsAreCounted, [TranscriptionNext]_transcriptionVars
    PROVE  RowsAreCounted'
<1> SUFFICES ASSUME NEW a \in Answers
             PROVE  /\ draft'[a] # NULL => draft'[a].row <= rows'
                    /\ run'.todo[a] # NULL =>
                          /\ run'.todo[a].row <= rows'
                          /\ draft'[a] # NULL => run'.todo[a].row <= draft'[a].row
                    /\ \A c \in Clients : trigger'[c].loaded[a] # NULL =>
                          /\ trigger'[c].loaded[a].row <= rows'
                          /\ draft'[a] # NULL => trigger'[c].loaded[a].row <= draft'[a].row
  BY DEF RowsAreCounted
<1>1. /\ rows \in Nat /\ rows' \in Nat /\ rows <= rows'
      /\ draft[a] # NULL => draft[a] \in Drafts /\ draft[a].row \in Nat /\ draft[a].row <= rows
      /\ draft'[a] # NULL => draft'[a] \in Drafts /\ draft'[a].row \in Nat
  BY DraftRows DEF TranscriptionTypeOK, RowsAreCounted, Drafts
<1>2. draft'[a] # NULL => \/ draft[a] # NULL /\ draft'[a].row = draft[a].row
                          \/ rows' = rows + 1 /\ draft'[a].row = rows + 1
  BY DraftRows
<1>3. draft'[a] # NULL => draft'[a].row <= rows'
  BY <1>1, <1>2
\* What is no newer than the rows before the step, and than the draft, stays so.
<1>4. ASSUME NEW n \in Nat, n <= rows, draft[a] # NULL => n <= draft[a].row
      PROVE  n <= rows' /\ (draft'[a] # NULL => n <= draft'[a].row)
  BY <1>1, <1>2, <1>4
<1>5. run'.todo[a] # NULL => /\ run'.todo[a].row <= rows'
                             /\ draft'[a] # NULL => run'.todo[a].row <= draft'[a].row
  <2>1. CASE run'.todo[a] = run.todo[a] /\ run.todo[a] # NULL
    <3>1. run.todo[a].row \in Nat
      BY <2>1 DEF TranscriptionTypeOK, Tickets
    <3> QED
      BY <1>4, <2>1, <3>1 DEF RowsAreCounted
  <2>2. CASE UNCHANGED draft /\ draft[a] # NULL /\ run'.todo[a].row = draft[a].row
    BY <1>1, <2>2
  <2> QED
    BY <2>1, <2>2, RunsStep DEF RunStep
<1>6. ASSUME NEW c \in Clients, trigger'[c].loaded[a] # NULL
      PROVE  /\ trigger'[c].loaded[a].row <= rows'
             /\ draft'[a] # NULL => trigger'[c].loaded[a].row <= draft'[a].row
  <2>1. CASE trigger'[c].loaded[a] = trigger[c].loaded[a]
    <3>1. trigger[c].loaded[a].row \in Nat
      BY <1>6, <2>1 DEF TranscriptionTypeOK, Drafts
    <3> QED
      BY <1>4, <1>6, <2>1, <3>1 DEF RowsAreCounted
  <2>2. CASE trigger'[c].loaded[a] = draft'[a]
    BY <1>1, <1>3, <1>6, <2>2
  <2> QED
    BY <1>6, <2>1, <2>2, TriggersStep DEF TriggerStep
<1> QED
  BY <1>3, <1>5, <1>6

LEMMA FloorStep ==
    ASSUME TranscriptionTypeOK, RecorderIsReal, [TranscriptionNext]_transcriptionVars, NEW a \in Answers
    PROVE  \/ floor'[a] = floor[a]
           \/ floor'[a] = 0 /\ draft'[a] = NULL
           \/ \E c \in Clients : /\ CommitStart(c) /\ draft'[a].status = "pending"
                                 /\ floor'[a] = trigger[c].base[a]
<1>1. CASE DeleteRow
  <2>1. rec.answer \in Answers
    BY <1>1 DEF DeleteRow, RecorderIsReal
  <2> QED
    BY <1>1, <2>1 DEF DeleteRow, TranscriptionTypeOK
<1>2. ASSUME NEW c \in Clients, CommitStart(c)
      PROVE  \/ floor'[a] = floor[a]
             \/ draft'[a].status = "pending" /\ floor'[a] = trigger[c].base[a]
  BY <1>2 DEF CommitStart
<1> QED
  BY <1>1, <1>2, DraftsStep DEF _write_draft

LEMMA TakesStep ==
    ASSUME TranscriptionTypeOK, RunIsReal, RecorderIsReal, TakesAreCounted, [TranscriptionNext]_transcriptionVars
    PROVE  TakesAreCounted' /\ takes <= takes'
<1>1. /\ takes \in Nat
      /\ \A a \in Answers : /\ floor[a] \in Nat
                            /\ object[a] # NULL => object[a] \in Nat
                            /\ \A c \in Clients : trigger[c].base[a] \in Nat
  BY DEF TranscriptionTypeOK, Takes
\* An object is the last take, gone, or what it was.
<1>2. /\ takes' \in {takes, takes + 1}
      /\ \A a \in Answers : \/ object'[a] = object[a]
                            \/ object'[a] = NULL
                            \/ takes' = takes + 1 /\ object'[a] = takes + 1
  <2>1. ASSUME NEW a \in Answers, UploadTake(a)
        PROVE  /\ takes' = takes + 1
               /\ \A b \in Answers : object'[b] = object[b] \/ object'[b] = takes + 1
    BY <2>1 DEF UploadTake, TranscriptionTypeOK
  <2>2. ASSUME NEW a \in Answers, EraseObject(a)
        PROVE  takes' = takes /\ \A b \in Answers : object'[b] = object[b] \/ object'[b] = NULL
    BY <2>2 DEF EraseObject, TranscriptionTypeOK
  <2>3. CASE \E a \in Answers : UploadTake(a)
    BY <2>1, <2>3
  <2>4. CASE \E a \in Answers : EraseObject(a)
    BY <2>2, <2>4
  <2>5. CASE UNCHANGED <<object, takes>>
    BY <2>5
  <2> QED
    BY <2>3, <2>4, <2>5 DEF TranscriptionNext, Recorder, StoreRow, DeleteRow, RecorderDies, Trigger,
       ListAnswers, _existing_drafts, CommitStart, CollideStart, StaleStart,
       request_transcription, TriggerDies, RunProgress, RunBegins, Transcribe, _write_draft,
       RunEnds, RunCrashes, RunRetries, transcriptionVars
<1>3. takes <= takes' /\ takes' \in Nat
  BY <1>1, <1>2
\* What is no newer than the object and the takes before the step stays so.
<1>4. ASSUME NEW a \in Answers, NEW n \in Nat, n <= takes, object[a] # NULL => n <= object[a]
      PROVE  n <= takes' /\ (object'[a] # NULL => n <= object'[a])
  BY <1>1, <1>2, <1>3, <1>4
<1>5. ASSUME NEW a \in Answers
      PROVE  /\ floor'[a] <= takes'
             /\ object'[a] # NULL => object'[a] <= takes' /\ floor'[a] <= object'[a]
  <2>1. \/ floor'[a] = floor[a] \/ floor'[a] = 0
        \/ \E c \in Clients : floor'[a] = trigger[c].base[a]
    BY FloorStep
  <2>2. /\ floor'[a] \in Nat /\ floor'[a] <= takes
        /\ object[a] # NULL => floor'[a] <= object[a]
    BY <1>1, <2>1 DEF TakesAreCounted
  <2>3. object'[a] # NULL => object'[a] <= takes'
    BY <1>1, <1>2, <1>3 DEF TakesAreCounted
  <2> QED
    BY <1>4, <2>2, <2>3
<1>6. ASSUME NEW c \in Clients, NEW a \in Answers
      PROVE  /\ trigger'[c].base[a] <= takes'
             /\ object'[a] # NULL => trigger'[c].base[a] <= object'[a]
  <2>1. CASE trigger'[c].base[a] \in {0, trigger[c].base[a]}
    <3>1. /\ trigger'[c].base[a] \in Nat /\ trigger'[c].base[a] <= takes
          /\ object[a] # NULL => trigger'[c].base[a] <= object[a]
      BY <1>1, <2>1 DEF TakesAreCounted
    <3> QED
      BY <1>4, <3>1
  <2>2. CASE /\ UNCHANGED object
             /\ trigger'[c].base[a] = IF object[a] = NULL THEN 0 ELSE object[a]
    BY <1>1, <1>3, <2>2 DEF TakesAreCounted
  <2> QED
    BY <2>1, <2>2, TriggersStep DEF TriggerStep
<1>7. run'.heard # NULL => run'.heard <= takes'
  <2>1. CASE run'.heard = run.heard
    <3>1. run.heard # NULL => run.heard \in Nat
      BY DEF TranscriptionTypeOK, Takes
    <3> QED
      BY <1>1, <1>3, <2>1, <3>1 DEF TakesAreCounted
  <2>2. ASSUME NEW a \in Answers, run'.heard = object[a], takes' = takes
        PROVE  run'.heard # NULL => run'.heard <= takes'
    BY <2>2 DEF TakesAreCounted
  <2> QED
    BY <2>1, <2>2, RunsStep DEF RunStep
<1> QED
  BY <1>3, <1>5, <1>6, <1>7 DEF TakesAreCounted

-----------------------------------------------------------------------------
(* A forced draft is of the new take.                                      *)

\* A reset that overlaps none is of the draft its trigger has loaded, or of that
\* draft as a pass has filled it in.
LEMMA ResetEffect ==
    ASSUME TranscriptionTypeOK, GenerationsGrow, NEW c \in Clients, CommitStart(c), ~overlapped',
           NEW a \in Answers, Reset(c, a)
    PROVE  /\ draft[a] # NULL /\ draft'[a] # NULL /\ draft'[a].row = draft[a].row
           /\ draft'[a].generation = draft[a].generation + 1
           /\ \/ draft'[a].status = "pending" /\ draft'[a].text = NULL
              \/ draft'[a].status = draft[a].status /\ draft'[a].text = draft[a].text
<1> DEFINE old == trigger[c].loaded[a]
<1>1. /\ old \in Drafts /\ draft[a] \in Drafts /\ old # NULL /\ draft[a] # NULL
      /\ draft'[a] = FlushReset(old, draft[a])
  BY DEF Reset, TranscriptionTypeOK
<1>2. old.generation = draft[a].generation /\ old.row = draft[a].row
  BY DEF CommitStart, Overlaps, Reset
<1>3. trigger[c].pc = "loaded"
  BY DEF CommitStart
<1>4. Whole(old) /\ (draft[a] = old \/ old.status = "pending")
  BY <1>1, <1>2, <1>3 DEF GenerationsGrow
<1> HIDE DEF old
<1>5. /\ draft'[a] \in Drafts /\ draft'[a].row = draft[a].row
      /\ draft'[a].generation = old.generation + 1
      /\ draft'[a].status = IF old.status = "pending" THEN draft[a].status ELSE "pending"
      /\ draft'[a].text = IF old.text = NULL THEN draft[a].text ELSE NULL
  BY <1>1, FlushIsTyped
<1>6. CASE old.status = "pending"
  BY <1>1, <1>2, <1>4, <1>5, <1>6 DEF Whole
<1>7. CASE old.status # "pending" /\ draft[a] = old
  BY <1>1, <1>2, <1>5, <1>7
<1> QED
  BY <1>4, <1>6, <1>7

\* Each draft after a step: filed anew, reset, written by the pass that read it
\* pending, or as it was.
Filed(a) == /\ rows' = rows + 1 /\ draft'[a].row = rows + 1 /\ draft[a] = NULL
            /\ draft'[a].status = "pending" /\ draft'[a].text = NULL
WasReset(a) == /\ draft[a] # NULL /\ draft'[a].row = draft[a].row
               /\ draft'[a].generation = draft[a].generation + 1
               /\ \/ draft'[a].status = "pending" /\ draft'[a].text = NULL
                  \/ /\ draft'[a].status = draft[a].status /\ draft'[a].text = draft[a].text
                     /\ \/ floor'[a] = floor[a]
                        \/ draft[a].status = "pending"
WasWritten(a) == /\ run.pc = "heard" /\ a = run.cur /\ draft[a] # NULL
                 /\ draft[a].generation = run.todo[a].generation
                 /\ draft[a].row = run.todo[a].row
                 /\ draft'[a].row = draft[a].row /\ draft'[a].generation = draft[a].generation
                 /\ \/ draft'[a].status = "failed" /\ draft'[a].text = draft[a].text
                    \/ draft'[a].status = "ready" /\ run.heard # NULL /\ draft'[a].text = run.heard
                 /\ floor'[a] = floor[a] /\ run'.todo[a] = NULL

LEMMA CleanStep ==
    ASSUME TranscriptionTypeOK, RunIsReal, RecorderIsReal, GenerationsGrow, [TranscriptionNext]_transcriptionVars,
           ~aliased', ~overlapped', NEW a \in Answers, draft'[a] # NULL
    PROVE  \/ Filed(a) \/ WasReset(a) \/ WasWritten(a)
           \/ draft'[a] = draft[a] /\ floor'[a] = floor[a]
<1>1. CASE DeleteRow
  <2>1. rec.answer \in Answers
    BY <1>1 DEF DeleteRow, RecorderIsReal
  <2> QED
    BY <1>1, <2>1 DEF DeleteRow, TranscriptionTypeOK
<1>2. ASSUME NEW c \in Clients, CommitStart(c)
      PROVE  \/ Filed(a) \/ WasReset(a)
             \/ draft'[a] = draft[a] /\ floor'[a] = floor[a]
  <2>1. \/ floor'[a] = floor[a]
        \/ a \in Forced(c) /\ draft'[a].status = "pending"
    BY <1>2 DEF CommitStart
  <2>2. CASE Seeded(c, a)
    <3>1. rows' = rows + 1
      BY <1>2, <2>2 DEF CommitStart, Seeded
    <3> QED
      BY <2>2, <3>1, NewDraftIsTyped DEF Seeded, Filed, TranscriptionTypeOK
  <2>3. CASE Reset(c, a)
    BY <1>2, <2>1, <2>3, ResetEffect DEF WasReset
  <2>4. CASE Kept(c, a)
    BY <2>1, <2>4 DEF Kept, Resets
  <2> QED
    BY <1>2, <2>2, <2>3, <2>4, CommitDrafts
<1>3. CASE _write_draft
  <2>1. floor' = floor /\ run.pc = "heard"
    BY <1>3 DEF _write_draft
  <2>2. run'.todo[run.cur] = NULL
    <3>1. run' = [run EXCEPT !.pc = "working", !.cur = NULL, !.heard = NULL,
                             !.todo[run.cur] = NULL]
      BY <1>3 DEF _write_draft
    <3>2. run \in RunRecords /\ run.cur \in Answers
      BY <2>1 DEF TranscriptionTypeOK, RunRecords, RunIsReal
    <3> QED
      BY <3>1, <3>2 DEF RunRecords
  <2>3. CASE a = run.cur
    BY <1>3, <2>1, <2>2, <2>3, WriteEffect DEF WasWritten
  <2>4. CASE a # run.cur
    BY <1>3, <2>1, <2>4, WriteEffect
  <2> QED
    BY <2>3, <2>4
<1> QED
  BY <1>1, <1>2, <1>3, DraftsStep

LEMMA MarksStay ==
    ASSUME TranscriptionTypeOK, [TranscriptionNext]_transcriptionVars
    PROVE  (aliased => aliased') /\ (overlapped => overlapped')
<1>1. ASSUME NEW c \in Clients, CommitStart(c)
      PROVE  aliased' = aliased /\ (overlapped => overlapped')
  BY <1>1, Zenon DEF CommitStart
<1>2. CASE _write_draft
  <2>1. overlapped' = overlapped
    BY <1>2 DEF _write_draft
  <2>2. aliased => aliased'
    BY <1>2, Zenon DEF _write_draft
  <2> QED
    BY <2>1, <2>2
<1> QED
  BY <1>1, <1>2, DraftsStep DEF DeleteRow, marks

LEMMA GenerationsStep ==
    ASSUME TranscriptionTypeOK, RowsAreCounted, RunIsReal, RecorderIsReal, GenerationsGrow, [TranscriptionNext]_transcriptionVars,
           ~aliased', ~overlapped', NEW a \in Answers, draft'[a] # NULL
    PROVE  /\ Whole(draft'[a])
           /\ run'.todo[a] # NULL /\ run'.todo[a].row = draft'[a].row =>
                 /\ run'.todo[a].generation <= draft'[a].generation
                 /\ run'.todo[a].generation = draft'[a].generation =>
                       draft'[a].status = "pending"
           /\ \A c \in Clients :
                 trigger'[c].pc = "loaded" /\ trigger'[c].loaded[a] # NULL
                 /\ trigger'[c].loaded[a].row = draft'[a].row =>
                    /\ Whole(trigger'[c].loaded[a])
                    /\ trigger'[c].loaded[a].generation <= draft'[a].generation
                    /\ trigger'[c].loaded[a].generation = draft'[a].generation =>
                          draft'[a] = trigger'[c].loaded[a] \/ trigger'[c].loaded[a].status = "pending"
<1>1. \/ Filed(a) \/ WasReset(a) \/ WasWritten(a)
      \/ draft'[a] = draft[a] /\ floor'[a] = floor[a]
  BY CleanStep
<1>2. draft[a] # NULL => /\ draft[a].generation \in Nat /\ draft[a].row \in Nat /\ Whole(draft[a])
                         /\ draft[a].row <= rows
  BY DEF TranscriptionTypeOK, Drafts, GenerationsGrow, RowsAreCounted
<1>3. rows \in Nat
  BY DEF TranscriptionTypeOK
\* The pass writes to a draft it has read pending.
<1>4. WasWritten(a) => /\ draft[a].status = "pending" /\ draft[a].text = NULL
                       /\ run'.todo[a] = NULL
  BY <1>2 DEF WasWritten, RunIsReal, GenerationsGrow, Whole
<1>5. Whole(draft'[a])
  <2>1. WasWritten(a) => Whole(draft'[a])
    BY <1>4 DEF WasWritten, Whole
  <2>2. Filed(a) \/ WasReset(a) => Whole(draft'[a])
    BY <1>2 DEF Filed, WasReset, Whole
  <2> QED
    BY <1>1, <1>2, <2>1, <2>2
<1>6. ASSUME run'.todo[a] # NULL, run'.todo[a].row = draft'[a].row
      PROVE  /\ run'.todo[a].generation <= draft'[a].generation
             /\ run'.todo[a].generation = draft'[a].generation => draft'[a].status = "pending"
  <2>1. CASE run'.todo[a] = run.todo[a]
    <3>1. /\ run.todo[a] # NULL /\ run.todo[a].generation \in Nat /\ run.todo[a].row \in Nat
          /\ run.todo[a].row <= rows
      BY <1>6, <2>1 DEF TranscriptionTypeOK, Tickets, RowsAreCounted
    <3>2. CASE Filed(a)
      BY <1>3, <1>6, <2>1, <3>1, <3>2 DEF Filed
    <3>3. CASE WasReset(a)
      <4>1. draft[a] # NULL /\ run.todo[a].row = draft[a].row
            /\ draft'[a].generation = draft[a].generation + 1
        BY <1>6, <2>1, <3>3 DEF WasReset
      <4>2. run.todo[a].generation <= draft[a].generation
        BY <3>1, <4>1 DEF GenerationsGrow
      <4> QED
        BY <1>2, <2>1, <3>1, <4>1, <4>2
    <3>4. CASE draft'[a] = draft[a]
      BY <1>6, <2>1, <3>4 DEF GenerationsGrow
    <3> QED
      BY <1>1, <1>4, <1>6, <3>2, <3>3, <3>4
  <2>2. CASE /\ UNCHANGED draft /\ draft[a].status = "pending"
             /\ run'.todo[a].generation = draft[a].generation
    BY <1>2, <2>2
  <2> QED
    BY <1>6, <2>1, <2>2, RunsStep DEF RunStep
<1>7. ASSUME NEW c \in Clients, trigger'[c].pc = "loaded", trigger'[c].loaded[a] # NULL,
             trigger'[c].loaded[a].row = draft'[a].row
      PROVE  /\ Whole(trigger'[c].loaded[a])
             /\ trigger'[c].loaded[a].generation <= draft'[a].generation
             /\ trigger'[c].loaded[a].generation = draft'[a].generation =>
                   draft'[a] = trigger'[c].loaded[a] \/ trigger'[c].loaded[a].status = "pending"
  <2> DEFINE old == trigger[c].loaded[a]
  <2>1. CASE trigger'[c] = trigger[c]
    <3>1. /\ trigger[c].pc = "loaded" /\ old # NULL /\ old.row = draft'[a].row
          /\ trigger'[c].loaded[a] = old
      BY <1>7, <2>1
    <3>2. old.generation \in Nat /\ old.row \in Nat /\ old.row <= rows
      BY <3>1 DEF TranscriptionTypeOK, Drafts, RowsAreCounted
    <3>3. draft[a] # NULL /\ old.row = draft[a].row =>
             /\ Whole(old) /\ old.generation <= draft[a].generation
             /\ old.generation = draft[a].generation => draft[a] = old \/ old.status = "pending"
      BY <3>1 DEF GenerationsGrow
    <3> HIDE DEF old
    <3>4. CASE Filed(a)
      BY <1>3, <3>1, <3>2, <3>4 DEF Filed
    <3>5. CASE WasReset(a)
      BY <1>2, <3>1, <3>2, <3>3, <3>5 DEF WasReset
    <3>6. CASE WasWritten(a)
      BY <1>2, <1>4, <3>1, <3>2, <3>3, <3>6 DEF WasWritten
    <3>7. CASE draft'[a] = draft[a]
      BY <3>1, <3>3, <3>7
    <3> QED
      BY <1>1, <3>4, <3>5, <3>6, <3>7
  <2>2. CASE UNCHANGED draft /\ trigger'[c].loaded = draft
    BY <1>2, <2>2
  <2> QED
    BY <1>7, <2>1, <2>2, TriggersStep DEF TriggerStep
<1> QED
  BY <1>5, <1>6, <1>7

LEMMA HeardStep ==
    ASSUME TranscriptionTypeOK, RowsAreCounted, TakesAreCounted, RunIsReal, RecorderIsReal, GenerationsGrow,
           HeardIsNew, [TranscriptionNext]_transcriptionVars, ~aliased', ~overlapped'
    PROVE  HeardIsNew'
<1> SUFFICES ASSUME run'.pc = "heard", run'.heard # NULL,
                    draft'[run'.cur] # NULL, draft'[run'.cur].row = run'.todo[run'.cur].row,
                    draft'[run'.cur].generation = run'.todo[run'.cur].generation
             PROVE  floor'[run'.cur] <= run'.heard
  BY DEF HeardIsNew
<1>1. CASE run' = run
  <2> DEFINE a == run.cur
  <2>1. /\ a \in Answers /\ run.todo[a] \in Tickets /\ run.todo[a] # NULL
        /\ run.todo[a].row <= rows /\ draft'[a] # NULL
    BY <1>1 DEF RunIsReal, TranscriptionTypeOK, RowsAreCounted
  <2>2. /\ draft'[a].row = run.todo[a].row /\ draft'[a].generation = run.todo[a].generation
        /\ run.todo[a].row \in Nat /\ run.todo[a].generation \in Nat /\ rows \in Nat
    BY <1>1, <2>1 DEF Tickets, TranscriptionTypeOK
  <2>3. ~Filed(a)
    BY <2>1, <2>2 DEF Filed
  <2>4. ~WasReset(a)
    <3>1. SUFFICES ASSUME WasReset(a) PROVE FALSE
      OBVIOUS
    <3>2. /\ draft[a] # NULL /\ draft[a].row = run.todo[a].row
          /\ draft'[a].generation = draft[a].generation + 1
      BY <2>2, <3>1 DEF WasReset
    <3>3. run.todo[a].generation <= draft[a].generation /\ draft[a].generation \in Nat
      BY <2>1, <3>2 DEF GenerationsGrow, TranscriptionTypeOK, Drafts
    <3> QED
      BY <2>2, <3>2, <3>3
  <2>5. ~WasWritten(a)
    BY <1>1, <2>1 DEF WasWritten
  <2>6. draft'[a] = draft[a] /\ floor'[a] = floor[a]
    BY <2>1, <2>3, <2>4, <2>5, CleanStep
  <2>7. floor[a] <= run.heard
    BY <1>1, <2>1, <2>2, <2>6 DEF HeardIsNew
  <2> QED
    BY <1>1, <2>6, <2>7
<1>2. CASE /\ UNCHANGED <<object, floor>> /\ run'.cur \in Answers
           /\ run'.heard \in {object[run'.cur], NULL}
  BY <1>2 DEF TakesAreCounted
<1> QED
  BY <1>1, <1>2, RunsStep DEF RunStep

LEMMA NewTakeStep ==
    ASSUME TranscriptionTypeOK, TakesAreCounted, RunIsReal, RecorderIsReal, GenerationsGrow, HeardIsNew,
           [TranscriptionNext]_transcriptionVars, ~aliased', ~overlapped', NEW a \in Answers, OfTheNewTake(a)
    PROVE  OfTheNewTake(a)'
<1> SUFFICES ASSUME draft'[a] # NULL, draft'[a].status = "ready"
             PROVE  draft'[a].text \in floor'[a]..takes'
  BY DEF OfTheNewTake
<1>1. takes <= takes' /\ takes \in Nat /\ takes' \in Nat /\ floor[a] \in Nat
  <2>1. takes' \in Nat
    BY TypeStep DEF TranscriptionTypeOK
  <2> QED
    BY <2>1, TakesStep DEF TranscriptionTypeOK
<1>2. CASE WasWritten(a)
  <2>1. run.heard # NULL /\ draft'[a].text = run.heard /\ floor'[a] = floor[a]
    BY <1>2 DEF WasWritten
  <2>2. floor[a] <= run.heard
    BY <1>2, <2>1 DEF WasWritten, HeardIsNew
  <2>3. run.heard <= takes /\ run.heard \in Nat
    BY <2>1 DEF TakesAreCounted, TranscriptionTypeOK, Takes
  <2> QED
    BY <1>1, <2>1, <2>2, <2>3
<1>3. CASE /\ draft[a] # NULL /\ draft[a].status = "ready" /\ draft'[a].text = draft[a].text
           /\ floor'[a] = floor[a]
  BY <1>1, <1>3 DEF OfTheNewTake
<1> QED
  BY <1>2, <1>3, CleanStep DEF Filed, WasReset

LEMMA ForcesStep ==
    ASSUME DraftsInv, [TranscriptionNext]_transcriptionVars
    PROVE  ForcesHold'
<1> SUFFICES ASSUME ~aliased', ~overlapped'
             PROVE  GenerationsGrow' /\ HeardIsNew' /\ \A a \in Answers : OfTheNewTake(a)'
  BY DEF ForcesHold
<1> USE DEF DraftsInv
<1>1. GenerationsGrow /\ HeardIsNew /\ \A a \in Answers : OfTheNewTake(a)
  BY MarksStay DEF ForcesHold
<1>2. GenerationsGrow'
  BY <1>1, GenerationsStep DEF GenerationsGrow
<1>3. HeardIsNew'
  BY <1>1, HeardStep
<1>4. \A a \in Answers : OfTheNewTake(a)'
  BY <1>1, NewTakeStep
<1> QED
  BY <1>2, <1>3, <1>4

-----------------------------------------------------------------------------
(* The invariant.                                                          *)

LEMMA DraftsInit ==
    ASSUME TranscriptionInit
    PROVE  DraftsInv
<1> USE DEF TranscriptionInit
<1>1. \A a \in Answers : draft[a] = NULL /\ object[a] = NULL /\ floor[a] = 0
  OBVIOUS
<1>2. \A a \in Answers : run.todo[a] = NULL
  BY DEF IdleRun
<1>3. \A c \in Clients : trigger[c] \in TriggerRecords /\ trigger[c].pc = "idle"
                       /\ \A a \in Answers : trigger[c].loaded[a] = NULL /\ trigger[c].base[a] = 0
  BY IdleTriggerIsTyped DEF IdleTrigger
<1>4. run \in RunRecords /\ run.pc = "idle" /\ run.heard = NULL
  BY IdleRunIsTyped DEF IdleRun
<1>5. rec \in [pc : {"idle", "uploaded", "erased"}, answer : Answers \cup {NULL}]
      /\ rec.pc = "idle"
  BY DEF IdleRec
<1>6. TranscriptionTypeOK
  <2>1. trigger \in [Clients -> TriggerRecords]
    BY <1>3
  <2>2. {lost, aliased, overlapped} \subseteq BOOLEAN
    OBVIOUS
  <2>3. /\ object \in [Answers -> Takes \cup {NULL}] /\ draft \in [Answers -> Drafts \cup {NULL}]
        /\ floor \in [Answers -> 0..MaxTakes]
    OBVIOUS
  <2> QED
    BY <1>1, <1>4, <1>5, <2>1, <2>2, <2>3 DEF TranscriptionTypeOK, TriggerRecords, RunRecords
<1>7. RowsAreCounted
  BY <1>1, <1>2, <1>3 DEF RowsAreCounted
<1>8. TakesAreCounted
  BY <1>1, <1>3, <1>4 DEF TakesAreCounted
<1>9. RunIsReal /\ RecorderIsReal
  BY <1>4, <1>5 DEF RunIsReal, RecorderIsReal
<1>10. ForcesHold
  BY <1>1, <1>4 DEF ForcesHold, GenerationsGrow, HeardIsNew, OfTheNewTake
<1> QED
  BY <1>6, <1>7, <1>8, <1>9, <1>10 DEF DraftsInv

\* The strengthening of DraftsAreOfTheirTakes that every step of the program keeps.
LEMMA DraftsInvariant == TranscriptionSpec => []DraftsInv
<1>1. TranscriptionInit => DraftsInv
  BY DraftsInit
<1>2. DraftsInv /\ [TranscriptionNext]_transcriptionVars => DraftsInv'
  <2> SUFFICES ASSUME DraftsInv, [TranscriptionNext]_transcriptionVars PROVE DraftsInv'
    OBVIOUS
  <2>1. ForcesHold'
    BY ForcesStep
  <2> USE DEF DraftsInv
  <2>2. TranscriptionTypeOK'
    BY TypeStep
  <2>3. RowsAreCounted'
    BY RowsStep DEF RowsAreCounted
  <2>4. TakesAreCounted'
    BY TakesStep
  <2>5. RunIsReal' /\ RecorderIsReal'
    BY RunsStep, RecorderStep DEF RunStep
  <2> QED
    BY <2>1, <2>2, <2>3, <2>4, <2>5
<1> QED
  BY <1>1, <1>2, PTL DEF TranscriptionSpec

\* As long as no pass has written to a row it had not read and no trigger has computed a
\* reset from a draft that had been reset since, a ready draft is of a take no older than
\* the one in the bucket when the last force that left it pending read the drafts: for any
\* number of answers, clients, takes, triggers and attempts (transcribe_answers.py:61).
THEOREM ForcedDraftsAreOfTheirTakes == TranscriptionSpec => []DraftsAreOfTheirTakes
<1>1. DraftsInv => DraftsAreOfTheirTakes
  BY DEF DraftsInv, DraftsAreOfTheirTakes, ForcesHold, ForcedDraftIsOfTheNewTake
<1> QED
  BY <1>1, DraftsInvariant, PTL

=============================================================================
