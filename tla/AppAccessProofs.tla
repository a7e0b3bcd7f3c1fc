-------------------------- MODULE AppAccessProofs --------------------------
(***************************************************************************)
(* Proofs about access to an application, for any number of request and    *)
(* grant rows, roles, server processes and handlers in flight, and any     *)
(* cache lifetime and delay.                                               *)
(***************************************************************************)
EXTENDS AppAccess, FiniteSetTheorems, TLAPS

USE AccessAssumption DEF Horizon

\* Handlers of grants name a role, and rows that are there.
CallsAreReal ==
    \A c \in Calls :
        /\ call[c].kind \in Granting \cup {"revoke"} => call[c].role \in Roles
        /\ \A g \in call[c].found : grant[g] \in Grants

\* The handlers that grant on behalf of requests grant the default role; a
\* plain grant names no request.
GrantsTheDefault ==
    \A c \in Calls :
        /\ call[c].kind \in {"create", "approve", "sweep"} => call[c].role = default_role
        /\ call[c].kind = "assign" => call[c].ids = {}

\* A grant there is, or one a handler has found, was once given.
GrantedIsGiven ==
    /\ \A g \in GrantIds : grant[g] # NULL => grant[g].role \in given
    /\ \A c \in Calls : call[c].found # {} => call[c].role \in given

\* A cached answer was right when its read began, a read's answer no longer ago
\* than the read has waited, and the standing of the account is right now.
AnswersWereRight ==
    /\ since[Standing(grant)] = 0
    /\ \A p \in Procs :
          cache[p] # NULL => since[cache[p].answer] <= cache[p].age + MaxDelay
    /\ \A c \in Calls :
          At(c, {"check"}, "listed") => since[call[c].answer] <= call[c].age

AccessInv == TypeOK /\ CallsAreReal /\ GrantsTheDefault /\ GrantedIsGiven /\ AnswersWereRight
             /\ ApprovedIsGranted

-----------------------------------------------------------------------------
LEMMA IdleIsTyped == IdleCall \in Handlers
BY DEF IdleCall, Handlers, Answers

LEMMA StandingIsAnswer == ASSUME NEW gs PROVE Standing(gs) \in Answers
BY DEF Standing, Answers

\* Beginning a handler types its record.
LEMMA BeginIsTyped ==
    ASSUME TypeOK, NEW c \in Calls, NEW kind \in Kinds, NEW ids \in SUBSET RequestIds,
           NEW role \in Roles \cup {NULL}, Begin(c, kind, ids, role)
    PROVE  TypeOK'
<1>1. [IdleCall EXCEPT !.kind = kind, !.pc = "loaded", !.ids = ids, !.role = role]
        \in Handlers
  BY IdleIsTyped DEF IdleCall, Handlers
<1>2. call' \in [Calls -> Handlers]
  BY <1>1 DEF Begin, TypeOK
<1> QED
  BY <1>2 DEF Begin, TypeOK

\* Ending one leaves its slot idle.
LEMMA EndIsTyped ==
    ASSUME TypeOK, NEW c \in Calls, End(c)
    PROVE  call' \in [Calls -> Handlers]
BY IdleIsTyped DEF End, TypeOK

\* What a handler reads of the grants goes into its record.
LEMMA FoundIsTyped ==
    ASSUME TypeOK, NEW c \in Calls, NEW found \in SUBSET GrantIds,
           call' = [call EXCEPT ![c].pc = "flushed", ![c].found = found]
    PROVE  call' \in [Calls -> Handlers]
<1>1. \A h \in Handlers : [h EXCEPT !.found = found] \in Handlers
  BY DEF Handlers
<1>2. \A h \in Handlers : [h EXCEPT !.pc = "flushed"] \in Handlers
  BY DEF Handlers
<1>3. \A h : [h EXCEPT !.pc = "flushed", !.found = found]
              = [[h EXCEPT !.pc = "flushed"] EXCEPT !.found = found]
  OBVIOUS
<1>4. [call[c] EXCEPT !.pc = "flushed", !.found = found] \in Handlers
  BY <1>1, <1>2, <1>3 DEF TypeOK
<1> QED
  BY <1>4 DEF TypeOK

LEMMA StatusesAreTyped ==
    ASSUME TypeOK, NEW c \in Calls, request' \in Approved(c)
    PROVE  request' \in [RequestIds -> Status \cup {NULL}]
BY DEF Approved, TypeOK, Status

LEMMA RegrantIsTyped ==
    ASSUME TypeOK, NEW gs \in [GrantIds -> Grants \cup {NULL}], Regrant(gs)
    PROVE  /\ grant' \in [GrantIds -> Grants \cup {NULL}]
           /\ since' \in [Answers -> 0..Horizon]
BY StandingIsAnswer DEF Regrant, TypeOK

LEMMA ForgetIsTyped ==
    ASSUME TypeOK, NEW p \in Procs, Forget(p)
    PROVE  cache' \in [Procs -> [answer : Answers, age : 0..(TTL - 1)] \cup {NULL}]
BY DEF Forget, TypeOK

-----------------------------------------------------------------------------
LEMMA TypeStep ==
    ASSUME TypeOK, CallsAreReal, [Next]_vars
    PROVE  TypeOK'
<1>1. ASSUME NEW c \in Calls, Handler(c)
      PROVE  TypeOK'
  <2>1. CASE BeginCreate(c)
    BY <2>1, BeginIsTyped DEF BeginCreate, Kinds, Granting
  <2>2. CASE CommitRequest(c)
    BY <2>2, EndIsTyped DEF CommitRequest, TypeOK, Status
  <2>3. CASE BeginReview(c)
    <3>1. PICK i \in RequestIds : Begin(c, "approve", {i}, default_role)
                                  \/ Begin(c, "reject", {i}, NULL)
      BY <2>3 DEF BeginReview, WithStatus
    <3> QED
      BY <3>1, BeginIsTyped DEF Kinds, Granting
  <2>4. CASE CommitReject(c)
    BY <2>4, EndIsTyped DEF CommitReject, TypeOK, Status
  <2>5. CASE BeginSweep(c)
    <3>1. WithStatus(RequestIds, "pending") \in SUBSET RequestIds
      BY DEF WithStatus
    <3> QED
      BY <2>5, <3>1, BeginIsTyped DEF BeginSweep, Kinds, Granting
  <2>6. CASE BeginAssign(c) \/ BeginRevoke(c)
    <3>1. PICK r \in Roles : Begin(c, "assign", {}, r) \/ Begin(c, "revoke", {}, r)
      BY <2>6 DEF BeginAssign, BeginRevoke
    <3> QED
      BY <3>1, BeginIsTyped DEF Kinds, Granting
  <2>7. CASE ReadGrants(c)
    <3>1. Found(call[c].role) \in SUBSET GrantIds
      BY DEF Found, Active, ActiveIn
    <3>2. call' \in [Calls -> Handlers]
      <4>1. CASE End(c)
        BY <4>1, EndIsTyped
      <4>2. CASE call' = [call EXCEPT ![c].pc = "flushed", ![c].found = Found(call[c].role)]
        BY <4>2, <3>1, FoundIsTyped
      <4> QED
        BY <2>7, <4>1, <4>2 DEF ReadGrants
    <3>3. cache' \in [Procs -> [answer : Answers, age : 0..(TTL - 1)] \cup {NULL}]
      BY <2>7, ForgetIsTyped DEF ReadGrants, TypeOK
    <3>4. overlapped' \in BOOLEAN
      <4>1. CASE overlapped' = overlapped
        BY <4>1 DEF TypeOK
      <4>2. CASE overlapped' = (overlapped \/
                  \E d \in Calls \ {c} : /\ At(d, Granting, "flushed")
                                         /\ call[d].found = {}
                                         /\ call[d].role = call[c].role)
        BY <4>2, Zenon
      <4> QED
        BY <2>7, <4>1, <4>2 DEF ReadGrants
    <3> QED
      BY <2>7, <3>2, <3>3, <3>4 DEF ReadGrants, TypeOK
  <2>8. CASE CommitGrant(c)
    <3>1. call[c].role \in Roles
      BY <2>8 DEF CommitGrant, CallsAreReal, At
    <3>2. PICK g \in GrantIds :
            Regrant([grant EXCEPT ![g] = [role |-> call[c].role, active |-> TRUE]])
      BY <2>8 DEF CommitGrant
    <3>3. [grant EXCEPT ![g] = [role |-> call[c].role, active |-> TRUE]]
            \in [GrantIds -> Grants \cup {NULL}]
      BY <3>1 DEF TypeOK, Grants
    <3>4. grant' \in [GrantIds -> Grants \cup {NULL}] /\ since' \in [Answers -> 0..Horizon]
      BY <3>2, <3>3, RegrantIsTyped
    <3>5. call' \in [Calls -> Handlers]
      <4>1. CASE End(c)
        BY <4>1, EndIsTyped
      <4>2. CASE call' = [call EXCEPT ![c].pc = "committed"]
        BY <4>2 DEF TypeOK, Handlers
      <4> QED
        BY <2>8, <4>1, <4>2 DEF CommitGrant
    <3>6. request' \in [RequestIds -> Status \cup {NULL}]
      BY <2>8, StatusesAreTyped DEF CommitGrant
    <3>7. auto_approve' \in BOOLEAN /\ given' \subseteq Roles
      BY <2>8, <3>1 DEF CommitGrant, TypeOK
    <3> QED
      BY <2>8, <3>4, <3>5, <3>6, <3>7 DEF CommitGrant, TypeOK
  <2>9. CASE KeepGrant(c)
    <3>1. request' \in [RequestIds -> Status \cup {NULL}]
      BY <2>9, StatusesAreTyped DEF KeepGrant, TypeOK
    <3>2. auto_approve' \in BOOLEAN
      BY <2>9 DEF KeepGrant
    <3> QED
      BY <2>9, <3>1, <3>2, EndIsTyped DEF KeepGrant, TypeOK
  <2>10. CASE CommitRevoke(c)
    <3>1. [g \in GrantIds |-> IF g \in call[c].found
                              THEN [grant[g] EXCEPT !.active = FALSE] ELSE grant[g]]
            \in [GrantIds -> Grants \cup {NULL}]
      BY <2>10 DEF CommitRevoke, CallsAreReal, TypeOK, Grants
    <3>2. call' \in [Calls -> Handlers]
      BY <2>10 DEF CommitRevoke, TypeOK, Handlers
    <3> QED
      BY <2>10, <3>1, <3>2, RegrantIsTyped DEF CommitRevoke, TypeOK
  <2>11. CASE Invalidate(c)
    BY <2>11, EndIsTyped, ForgetIsTyped DEF Invalidate, TypeOK
  <2>12. CASE ListRoles(c)
    <3>1. PICK p \in Procs :
            call' = [call EXCEPT ![c] = [IdleCall EXCEPT
                       !.kind = "check", !.pc = "listed", !.proc = p,
                       !.answer = Standing(grant)]]
      BY <2>12 DEF ListRoles
    <3>2. [IdleCall EXCEPT !.kind = "check", !.pc = "listed", !.proc = p,
                           !.answer = Standing(grant)] \in Handlers
      BY IdleIsTyped, StandingIsAnswer DEF IdleCall, Handlers, Kinds
    <3> QED
      BY <2>12, <3>1, <3>2 DEF ListRoles, TypeOK
  <2>13. CASE FillCache(c)
    <3>1. call[c].answer \in Answers
      BY DEF TypeOK, Handlers
    <3>2. [answer |-> call[c].answer, age |-> 0] \in [answer : Answers, age : 0..(TTL - 1)]
      BY <3>1
    <3>3. cache' \in [Procs -> [answer : Answers, age : 0..(TTL - 1)] \cup {NULL}]
      BY <2>13, <3>2 DEF FillCache, TypeOK
    <3> QED
      BY <2>13, <3>3, EndIsTyped DEF FillCache, TypeOK
  <2>14. CASE Die(c)
    BY <2>14, EndIsTyped DEF Die, TypeOK
  <2> QED
    BY <1>1, <2>1, <2>2, <2>3, <2>4, <2>5, <2>6, <2>7, <2>8, <2>9, <2>10, <2>11,
       <2>12, <2>13, <2>14 DEF Handler
<1>2. ASSUME NEW p \in Procs, Evict(p)
      PROVE  TypeOK'
  BY <1>2, ForgetIsTyped DEF Evict, TypeOK
<1>3. CASE SwitchOff
  BY <1>3 DEF SwitchOff, TypeOK
<1>4. CASE Tick
  <2>1. call' \in [Calls -> Handlers]
    <3>1. ASSUME NEW c \in Calls, At(c, {"check"}, "listed")
          PROVE  [call[c] EXCEPT !.age = @ + 1] \in Handlers
      <4>1. call[c] \in Handlers /\ call[c].age + 1 \in 0..MaxDelay
        BY <1>4, <3>1 DEF Tick, TypeOK, Handlers
      <4> QED
        BY <4>1 DEF Handlers
    <3> QED
      BY <1>4, <3>1 DEF Tick, TypeOK
  <2>2. cache' \in [Procs -> [answer : Answers, age : 0..(TTL - 1)] \cup {NULL}]
    <3>1. \A p \in Procs : cache[p] # NULL /\ cache[p].age + 1 # TTL =>
             [cache[p] EXCEPT !.age = @ + 1] \in [answer : Answers, age : 0..(TTL - 1)]
      BY DEF TypeOK
    <3> QED
      BY <1>4, <3>1 DEF Tick
  <2>3. since' \in [Answers -> 0..Horizon]
    BY <1>4 DEF Tick, TypeOK, Older
  <2> QED
    BY <1>4, <2>1, <2>2, <2>3 DEF Tick, TypeOK
<1>5. CASE UNCHANGED vars
  BY <1>5 DEF vars, TypeOK
<1> QED
  BY <1>1, <1>2, <1>3, <1>4, <1>5 DEF Next, CheckHit

-----------------------------------------------------------------------------
\* What the begun handlers are.
LEMMA BeginIsReal ==
    ASSUME TypeOK, CallsAreReal, NEW c \in Calls, NEW kind, NEW ids, NEW role,
           Begin(c, kind, ids, role), kind \in Granting \cup {"revoke"} => role \in Roles
    PROVE  CallsAreReal'
BY DEF Begin, CallsAreReal, TypeOK, IdleCall

LEMMA EndIsReal ==
    ASSUME TypeOK, CallsAreReal, NEW c \in Calls, End(c),
           \A g \in GrantIds : grant[g] \in Grants => grant'[g] \in Grants
    PROVE  CallsAreReal'
BY DEF End, CallsAreReal, TypeOK, IdleCall, Granting, Handlers

LEMMA CallsStep ==
    ASSUME TypeOK, CallsAreReal, [Next]_vars
    PROVE  CallsAreReal'
<1>1. ASSUME NEW c \in Calls, Handler(c)
      PROVE  CallsAreReal'
  <2>1. CASE BeginCreate(c) \/ BeginReview(c) \/ BeginSweep(c)
    <3>1. PICK kind, ids : \/ Begin(c, kind, ids, default_role)
                           \/ Begin(c, kind, ids, NULL) /\ kind \in {"request", "reject"}
      BY <2>1, Zenon DEF BeginCreate, BeginReview, BeginSweep
    <3> QED
      BY <3>1, BeginIsReal DEF Granting
  <2>2. CASE BeginAssign(c) \/ BeginRevoke(c)
    BY <2>2, BeginIsReal DEF BeginAssign, BeginRevoke
  <2>3. CASE CommitRequest(c) \/ CommitReject(c) \/ KeepGrant(c)
             \/ Invalidate(c) \/ FillCache(c) \/ Die(c)
    BY <2>3, EndIsReal DEF CommitRequest, CommitReject, KeepGrant, Invalidate, FillCache, Die
  <2>4. CASE ReadGrants(c)
    <3>1. CASE End(c)
      BY <2>4, <3>1, EndIsReal DEF ReadGrants
    <3>2. CASE call' = [call EXCEPT ![c].pc = "flushed", ![c].found = Found(call[c].role)]
      <4>1. \A g \in Found(call[c].role) : grant[g] \in Grants
        BY DEF Found, Active, ActiveIn, TypeOK
      <4> QED
        BY <2>4, <3>2, <4>1 DEF ReadGrants, CallsAreReal, TypeOK, Handlers
    <3> QED
      BY <2>4, <3>1, <3>2 DEF ReadGrants
  <2>5. CASE CommitGrant(c)
    <3>1. call[c].role \in Roles
      BY <2>5 DEF CommitGrant, CallsAreReal, At
    <3>2. \A g \in GrantIds : grant[g] \in Grants => grant'[g] \in Grants
      BY <2>5, <3>1 DEF CommitGrant, Regrant, TypeOK, Grants
    <3>3. CASE End(c)
      BY <3>2, <3>3, EndIsReal
    <3>4. CASE call' = [call EXCEPT ![c].pc = "committed"]
      BY <3>2, <3>4 DEF CallsAreReal, TypeOK, Handlers
    <3> QED
      BY <2>5, <3>3, <3>4 DEF CommitGrant
  <2>6. CASE CommitRevoke(c)
    <3>1. \A g \in GrantIds : grant[g] \in Grants => grant'[g] \in Grants
      BY <2>6 DEF CommitRevoke, Regrant, TypeOK, Grants
    <3> QED
      BY <2>6, <3>1 DEF CommitRevoke, CallsAreReal, TypeOK, Handlers
  <2>7. CASE ListRoles(c)
    BY <2>7 DEF ListRoles, CallsAreReal, TypeOK, IdleCall, Granting
  <2> QED
    BY <1>1, <2>1, <2>2, <2>3, <2>4, <2>5, <2>6, <2>7 DEF Handler
<1>2. CASE Tick
  BY <1>2 DEF Tick, CallsAreReal, TypeOK, Handlers
<1>3. CASE UNCHANGED <<call, grant>>
  BY <1>3 DEF CallsAreReal
<1> QED
  BY <1>1, <1>2, <1>3 DEF Next, CheckHit, Evict, SwitchOff, vars

\* What a step may do to one handler's role, requests and findings: begin it,
\* end it, record what it found, or leave them as they are.
HandlerSteps(c) ==
    \/ /\ call'[c].kind = call[c].kind /\ call'[c].role = call[c].role
       /\ call'[c].ids = call[c].ids
       /\ call'[c].found \in {call[c].found, Active(call[c].role)}
    \/ /\ call'[c].found = {}
       /\ \/ call'[c].kind \in {"create", "approve", "sweep"} /\ call'[c].role = default_role
          \/ call'[c].kind = "assign" /\ call'[c].ids = {}
          \/ call'[c].kind \in {"none", "request", "reject", "revoke", "check"}

LEMMA BeginSteps ==
    ASSUME TypeOK, NEW c \in Calls, NEW kind, NEW ids, NEW role,
           Begin(c, kind, ids, role),
           \/ kind \in {"create", "approve", "sweep"} /\ role = default_role
           \/ kind = "assign" /\ ids = {}
           \/ kind \in {"request", "reject", "revoke"}
    PROVE  \A d \in Calls : HandlerSteps(d)
BY DEF Begin, TypeOK, IdleCall, HandlerSteps

LEMMA EndSteps ==
    ASSUME TypeOK, NEW c \in Calls, End(c)
    PROVE  \A d \in Calls : HandlerSteps(d)
BY DEF End, TypeOK, IdleCall, HandlerSteps

LEMMA EveryHandlerSteps ==
    ASSUME TypeOK, [Next]_vars
    PROVE  \A d \in Calls : HandlerSteps(d)
<1>1. ASSUME NEW c \in Calls, Handler(c)
      PROVE  \A d \in Calls : HandlerSteps(d)
  <2>1. CASE BeginCreate(c) \/ BeginReview(c)
    BY <2>1, BeginSteps DEF BeginCreate, BeginReview
  <2>2. CASE BeginSweep(c) \/ BeginAssign(c) \/ BeginRevoke(c)
    BY <2>2, BeginSteps DEF BeginSweep, BeginAssign, BeginRevoke
  <2>3. CASE CommitRequest(c) \/ CommitReject(c) \/ KeepGrant(c)
             \/ Invalidate(c) \/ FillCache(c) \/ Die(c)
    BY <2>3, EndSteps DEF CommitRequest, CommitReject, KeepGrant, Invalidate, FillCache, Die
  <2>4. CASE ReadGrants(c)
    <3>1. CASE End(c)
      BY <3>1, EndSteps
    <3>2. CASE call' = [call EXCEPT ![c].pc = "flushed", ![c].found = Found(call[c].role)]
      BY <3>2 DEF TypeOK, Handlers, HandlerSteps, Found
    <3> QED
      BY <2>4, <3>1, <3>2 DEF ReadGrants
  <2>5. CASE CommitGrant(c) \/ CommitRevoke(c)
    <3>1. CASE End(c)
      BY <3>1, EndSteps
    <3>2. CASE call' = [call EXCEPT ![c].pc = "committed"]
      BY <3>2 DEF TypeOK, Handlers, HandlerSteps
    <3> QED
      BY <2>5, <3>1, <3>2 DEF CommitGrant, CommitRevoke
  <2>6. CASE ListRoles(c)
    BY <2>6 DEF ListRoles, TypeOK, IdleCall, HandlerSteps
  <2> QED
    BY <1>1, <2>1, <2>2, <2>3, <2>4, <2>5, <2>6 DEF Handler
<1>2. CASE Tick
  BY <1>2 DEF Tick, TypeOK, Handlers, HandlerSteps
<1>3. CASE UNCHANGED call
  BY <1>3 DEF HandlerSteps
<1> QED
  BY <1>1, <1>2, <1>3 DEF Next, CheckHit, Evict, SwitchOff, vars

LEMMA DefaultStep ==
    ASSUME TypeOK, GrantsTheDefault, [Next]_vars
    PROVE  GrantsTheDefault'
BY EveryHandlerSteps DEF GrantsTheDefault, HandlerSteps

-----------------------------------------------------------------------------
\* What the grants and the roles ever given become.
LEMMA GivenGrows ==
    ASSUME TypeOK, CallsAreReal, GrantedIsGiven, [Next]_vars
    PROVE  /\ given \subseteq given'
           /\ \A g \in GrantIds : grant'[g] # NULL => grant'[g].role \in given'
<1>1. ASSUME NEW c \in Calls, CommitGrant(c)
      PROVE  /\ given \subseteq given'
             /\ \A g \in GrantIds : grant'[g] # NULL => grant'[g].role \in given'
  BY <1>1 DEF CommitGrant, Regrant, GrantedIsGiven, TypeOK
<1>2. ASSUME NEW c \in Calls, CommitRevoke(c)
      PROVE  /\ given \subseteq given'
             /\ \A g \in GrantIds : grant'[g] # NULL => grant'[g].role \in given'
  <2>1. ASSUME NEW g \in GrantIds, grant'[g] # NULL
        PROVE  grant[g] # NULL /\ grant'[g].role = grant[g].role
    <3>1. CASE g \in call[c].found
      <4>1. grant[g] \in Grants /\ grant[g] # NULL
        BY <3>1 DEF CallsAreReal, TypeOK, Grants
      <4>2. grant'[g] = [grant[g] EXCEPT !.active = FALSE]
        BY <1>2, <3>1 DEF CommitRevoke, Regrant
      <4> QED
        BY <4>1, <4>2 DEF Grants
    <3>2. CASE g \notin call[c].found
      BY <1>2, <2>1, <3>2 DEF CommitRevoke, Regrant
    <3> QED
      BY <3>1, <3>2
  <2> QED
    BY <1>2, <2>1 DEF CommitRevoke, GrantedIsGiven
<1>3. CASE UNCHANGED <<grant, given>>
  BY <1>3 DEF GrantedIsGiven
<1> QED
  BY <1>1, <1>2, <1>3 DEF Next, Handler, Begin, BeginCreate, BeginReview, BeginSweep,
     BeginAssign, BeginRevoke, CommitRequest, CommitReject, ReadGrants, KeepGrant,
     Invalidate, ListRoles, FillCache, Die, CheckHit, Evict, SwitchOff, Tick, vars

LEMMA GivenStep ==
    ASSUME TypeOK, CallsAreReal, GrantedIsGiven, [Next]_vars
    PROVE  GrantedIsGiven'
<1>1. ASSUME NEW c \in Calls, call'[c].found # {}
      PROVE  call'[c].role \in given'
  <2>1. /\ call'[c].role = call[c].role
        /\ call'[c].found \in {call[c].found, Active(call[c].role)}
    BY <1>1, EveryHandlerSteps DEF HandlerSteps
  <2>2. call[c].role \in given
    BY <1>1, <2>1 DEF GrantedIsGiven, Active, ActiveIn
  <2> QED
    BY <2>1, <2>2, GivenGrows
<1> QED
  BY <1>1, GivenGrows DEF GrantedIsGiven

\* An approval is stored by a handler that grants the default role, or that has
\* found it granted.
LEMMA ApprovedStep ==
    ASSUME AccessInv, [Next]_vars
    PROVE  ApprovedIsGranted'
<1> USE DEF AccessInv
<1>1. ASSUME NEW i \in RequestIds, request'[i] = "approved"
      PROVE  default_role \in given'
  <2>1. CASE request[i] = "approved"
    BY <2>1, GivenGrows DEF ApprovedIsGranted
  <2>2. CASE request[i] # "approved"
    <3>1. PICK c \in Calls : CommitGrant(c) \/ KeepGrant(c)
      BY <1>1, <2>2 DEF Next, Handler, Begin, BeginCreate, BeginReview, BeginSweep,
         BeginAssign, BeginRevoke, CommitRequest, CommitReject, ReadGrants, CommitRevoke,
         Invalidate, ListRoles, FillCache, Die, CheckHit, Evict, SwitchOff, Tick, vars, TypeOK
    <3>2. request' \in Approved(c) /\ call[c].kind \in Granting
      BY <1>1, <2>2, <3>1 DEF CommitGrant, KeepGrant, At
    <3>3. call[c].kind # "assign" /\ Needed(c)
      BY <1>1, <2>2, <3>2 DEF Approved, GrantsTheDefault, Needed
    <3>4. call[c].role = default_role
      BY <3>2, <3>3 DEF Granting, GrantsTheDefault
    <3> QED
      BY <3>1, <3>3, <3>4, GivenGrows DEF CommitGrant, KeepGrant, GrantedIsGiven
  <2> QED
    BY <2>1, <2>2
<1> QED
  BY <1>1 DEF ApprovedIsGranted

-----------------------------------------------------------------------------
\* A change of the grants only makes answers fresher.
LEMMA RegrantIsFresh ==
    ASSUME TypeOK, NEW gs, Regrant(gs)
    PROVE  /\ since'[Standing(grant')] = 0
           /\ \A a \in Answers : since'[a] <= since[a]
BY StandingIsAnswer DEF Regrant, TypeOK

LEMMA AnswersStep ==
    ASSUME TypeOK, CallsAreReal, AnswersWereRight, [Next]_vars
    PROVE  AnswersWereRight'
<1>0. TypeOK'
  BY TypeStep
<1>1. CASE UNCHANGED <<grant, since>> /\ UNCHANGED <<cache, call>>
  BY <1>1 DEF AnswersWereRight, At
<1>2. ASSUME NEW c \in Calls, Handler(c)
      PROVE  AnswersWereRight'
  <2>1. /\ since'[Standing(grant')] = 0
        /\ \A a \in Answers : since'[a] <= since[a]
    <3>1. CASE UNCHANGED <<grant, since>>
      BY <3>1 DEF AnswersWereRight, TypeOK
    <3>2. CASE CommitGrant(c) \/ CommitRevoke(c)
      BY <3>2, RegrantIsFresh DEF CommitGrant, CommitRevoke
    <3> QED
      BY <1>2, <3>1, <3>2 DEF Handler, Begin, BeginCreate, BeginReview, BeginSweep,
         BeginAssign, BeginRevoke, CommitRequest, CommitReject, ReadGrants, KeepGrant,
         Invalidate, ListRoles, FillCache, Die
  <2>2. \A d \in Calls : At(d, {"check"}, "listed")' =>
           \/ At(d, {"check"}, "listed") /\ call'[d] = call[d]
           \/ call'[d].answer = Standing(grant) /\ call'[d].age = 0
              /\ UNCHANGED <<grant, since>>
    <3>1. CASE End(c)
      BY <3>1 DEF End, At, TypeOK, IdleCall
    <3>2. CASE ListRoles(c)
      BY <3>2 DEF ListRoles, At, TypeOK, IdleCall
    <3>3. CASE call'[c].pc # "listed" /\ \A d \in Calls \ {c} : call'[d] = call[d]
      BY <3>3 DEF At
    <3>4. CASE ReadGrants(c) \/ CommitGrant(c) \/ CommitRevoke(c)
      <4>1. CASE call' = [call EXCEPT ![c].pc = "committed"]
        BY <3>3, <4>1 DEF TypeOK, Handlers
      <4>2. CASE call' = [call EXCEPT ![c].pc = "flushed", ![c].found = Found(call[c].role)]
        BY <3>3, <4>2 DEF TypeOK, Handlers
      <4> QED
        BY <3>1, <3>4, <4>1, <4>2 DEF ReadGrants, CommitGrant, CommitRevoke
    <3>5. ASSUME NEW kind, NEW ids, NEW role, Begin(c, kind, ids, role)
          PROVE  call'[c].pc # "listed" /\ \A d \in Calls \ {c} : call'[d] = call[d]
      BY <3>5 DEF Begin, TypeOK, IdleCall
    <3> QED
      BY <1>2, <3>1, <3>2, <3>3, <3>4, <3>5 DEF Handler, BeginCreate, BeginReview, BeginSweep,
         BeginAssign, BeginRevoke, CommitRequest, CommitReject, KeepGrant,
         Invalidate, FillCache, Die
  <2>3. \A d \in Calls : At(d, {"check"}, "listed")' => since'[call'[d].answer] <= call'[d].age
    <3> SUFFICES ASSUME NEW d \in Calls, At(d, {"check"}, "listed")'
                 PROVE  since'[call'[d].answer] <= call'[d].age
      OBVIOUS
    <3>1. CASE At(d, {"check"}, "listed") /\ call'[d] = call[d]
      <4>1. call[d].answer \in Answers /\ call[d].age \in Int
        BY DEF TypeOK, Handlers
      <4>2. since'[call[d].answer] \in Int /\ since[call[d].answer] \in Int
        BY <1>0, <4>1 DEF TypeOK
      <4>3. since[call[d].answer] <= call[d].age
        BY <3>1 DEF AnswersWereRight
      <4> QED
        BY <2>1, <3>1, <4>1, <4>2, <4>3
    <3>2. CASE call'[d].answer = Standing(grant) /\ call'[d].age = 0
               /\ UNCHANGED <<grant, since>>
      BY <3>2 DEF AnswersWereRight
    <3> QED
      BY <2>2, <3>1, <3>2
  <2>4. \A p \in Procs : cache'[p] # NULL =>
           \/ cache'[p] = cache[p]
           \/ /\ At(c, {"check"}, "listed")
              /\ cache'[p] = [answer |-> call[c].answer, age |-> 0]
    <3>1. CASE FillCache(c)
      BY <3>1 DEF FillCache, TypeOK
    <3>2. CASE UNCHANGED cache
      BY <3>2
    <3>3. CASE \E p \in Procs : Forget(p)
      BY <3>3 DEF Forget, TypeOK
    <3> QED
      BY <1>2, <3>1, <3>2, <3>3 DEF Handler, Begin, BeginCreate, BeginReview, BeginSweep,
         BeginAssign, BeginRevoke, CommitRequest, CommitReject, ReadGrants, CommitGrant,
         KeepGrant, CommitRevoke, Invalidate, ListRoles, Die
  <2>5. \A p \in Procs : cache'[p] # NULL =>
           since'[cache'[p].answer] <= cache'[p].age + MaxDelay
    <3> SUFFICES ASSUME NEW p \in Procs, cache'[p] # NULL
                 PROVE  since'[cache'[p].answer] <= cache'[p].age + MaxDelay
      OBVIOUS
    <3>1. CASE cache'[p] = cache[p]
      <4>1. cache[p].answer \in Answers /\ cache[p].age \in Int
        BY <3>1 DEF TypeOK
      <4>2. since'[cache[p].answer] \in Int /\ since[cache[p].answer] \in Int
        BY <1>0, <4>1 DEF TypeOK
      <4>3. since[cache[p].answer] <= cache[p].age + MaxDelay
        BY <3>1 DEF AnswersWereRight
      <4> QED
        BY <2>1, <3>1, <4>1, <4>2, <4>3
    <3>2. CASE /\ At(c, {"check"}, "listed")
               /\ cache'[p] = [answer |-> call[c].answer, age |-> 0]
      <4>1. call[c].answer \in Answers /\ call[c].age \in 0..MaxDelay
        BY DEF TypeOK, Handlers
      <4>2. since'[call[c].answer] <= since[call[c].answer]
        BY <2>1, <4>1
      <4>3. since[call[c].answer] <= call[c].age
        BY <3>2 DEF AnswersWereRight
      <4>4. since[call[c].answer] \in Int /\ since'[call[c].answer] \in Int
        BY <1>0, <4>1 DEF TypeOK
      <4> QED
        BY <3>2, <4>1, <4>2, <4>3, <4>4
    <3> QED
      BY <2>4, <3>1, <3>2
  <2> QED
    BY <2>1, <2>3, <2>5 DEF AnswersWereRight
<1>3. ASSUME NEW p \in Procs, Evict(p)
      PROVE  AnswersWereRight'
  BY <1>3 DEF Evict, Forget, AnswersWereRight, TypeOK, At
<1>4. CASE Tick
  <2>1. \A a \in Answers : since'[a] <= since[a] + 1
    BY <1>4 DEF Tick, TypeOK, Older
  <2>2. since'[Standing(grant')] = 0
    BY <1>4, StandingIsAnswer DEF Tick
  <2>3. ASSUME NEW p \in Procs, cache'[p] # NULL
        PROVE  since'[cache'[p].answer] <= cache'[p].age + MaxDelay
    <3>1. /\ cache[p] # NULL
          /\ cache'[p] = [cache[p] EXCEPT !.age = @ + 1]
      BY <1>4, <2>3 DEF Tick
    <3>2. cache[p] \in [answer : Answers, age : 0..(TTL - 1)]
      BY <3>1 DEF TypeOK
    <3>3. since[cache[p].answer] <= cache[p].age + MaxDelay
      BY <3>1 DEF AnswersWereRight
    <3>4. since[cache[p].answer] \in Int /\ since'[cache[p].answer] \in Int
      BY <3>2, <1>4 DEF Tick, TypeOK, Older
    <3> QED
      BY <2>1, <3>1, <3>2, <3>3, <3>4
  <2>4. ASSUME NEW c \in Calls, At(c, {"check"}, "listed")'
        PROVE  since'[call'[c].answer] <= call'[c].age
    <3>1. /\ At(c, {"check"}, "listed")
          /\ call'[c] = [call[c] EXCEPT !.age = @ + 1]
      BY <1>4, <2>4 DEF Tick, At, TypeOK, Handlers
    <3>2. call[c] \in Handlers
      BY DEF TypeOK
    <3>3. call'[c].answer = call[c].answer /\ call'[c].age = call[c].age + 1
      BY <3>1, <3>2 DEF Handlers
    <3>4. call[c].answer \in Answers /\ call[c].age \in Int
      BY <3>2 DEF Handlers
    <3>5. since[call[c].answer] \in Int /\ since'[call[c].answer] \in Int
      BY <3>4, <1>4 DEF Tick, TypeOK, Older
    <3>6. since[call[c].answer] <= call[c].age
      BY <3>1 DEF AnswersWereRight
    <3> QED
      BY <2>1, <3>3, <3>4, <3>5, <3>6
  <2> QED
    BY <2>2, <2>3, <2>4 DEF AnswersWereRight
<1> QED
  BY <1>1, <1>2, <1>3, <1>4 DEF Next, CheckHit, SwitchOff, vars

-----------------------------------------------------------------------------
LEMMA AccessInvariant == Spec => []AccessInv
<1>1. Init => AccessInv
  <2> SUFFICES ASSUME Init PROVE AccessInv
    OBVIOUS
  <2>1. call \in [Calls -> Handlers]
    BY IdleIsTyped DEF Init
  <2>2. since \in [Answers -> 0..Horizon]
    BY DEF Init
  <2>3. CallsAreReal /\ GrantsTheDefault /\ GrantedIsGiven
    BY DEF Init, CallsAreReal, GrantsTheDefault, GrantedIsGiven, IdleCall, Granting
  <2>4. TypeOK
    BY <2>1, <2>2 DEF Init, TypeOK
  <2>5. AnswersWereRight
    BY DEF Init, AnswersWereRight, Standing, Answers, At, IdleCall
  <2>6. ApprovedIsGranted
    BY DEF Init, ApprovedIsGranted
  <2> QED
    BY <2>3, <2>4, <2>5, <2>6 DEF AccessInv
<1>2. AccessInv /\ [Next]_vars => AccessInv'
  BY TypeStep, CallsStep, DefaultStep, GivenStep, AnswersStep, ApprovedStep DEF AccessInv
<1> QED
  BY <1>1, <1>2, PTL DEF Spec

\* The columns of requests, grants and applications, the cache entries and the
\* handlers in flight keep their types, and entries and reads their ages.
THEOREM AccessTypeCorrect == Spec => []TypeOK
<1>1. AccessInv => TypeOK
  BY DEF AccessInv
<1> QED
  BY <1>1, AccessInvariant, PTL

\* Whoever reviews, sweeps or files at once, however many: an approved request
\* was committed with a grant of the default role or after one.
THEOREM ApprovedMeansGranted == Spec => []ApprovedIsGranted
<1>1. AccessInv => ApprovedIsGranted
  BY DEF AccessInv
<1> QED
  BY <1>1, AccessInvariant, PTL

\* However many processes keep caches and however the reads that fill them race
\* the changes that empty them, no cached answer is older than an entry's life
\* and the longest wait of a read together.
THEOREM CacheIsBounded == Spec => []CacheIsRecent
<1>1. AccessInv => CacheIsRecent
  <2> SUFFICES ASSUME AccessInv, NEW p \in Procs, cache[p] # NULL
               PROVE  since[cache[p].answer] < Horizon
    BY DEF CacheIsRecent
  <2>1. cache[p] \in [answer : Answers, age : 0..(TTL - 1)]
    BY DEF AccessInv, TypeOK
  <2>2. since[cache[p].answer] <= cache[p].age + MaxDelay
    BY DEF AccessInv, AnswersWereRight
  <2>3. since[cache[p].answer] \in Int
    BY <2>1 DEF AccessInv, TypeOK
  <2> QED
    BY <2>1, <2>2, <2>3
<1> QED
  BY <1>1, AccessInvariant, PTL

-----------------------------------------------------------------------------
\* c has read that the role it grants is not granted yet.
FoundNone(c) == At(c, Granting, "flushed") /\ call[c].found = {}

\* While no two such reads have overlapped, who has found none is alone with
\* that, none has been granted since, and no role is granted twice.
GrantsAreSingle ==
    overlapped \/
        /\ \A r \in Roles : \A g, h \in Active(r) : g = h
        /\ \A c \in Calls : FoundNone(c) => Active(call[c].role) = {}
        /\ \A c, d \in Calls : FoundNone(c) /\ FoundNone(d) /\ call[c].role = call[d].role
                              => c = d

\* A step that lets no handler find none, and adds no active grant.
LEMMA SingleStays ==
    ASSUME GrantsAreSingle, CallsAreReal,
           \A d \in Calls : FoundNone(d)' => FoundNone(d) /\ call'[d].role = call[d].role,
           \A r \in Roles : Active(r)' \subseteq Active(r), UNCHANGED overlapped
    PROVE  GrantsAreSingle'
<1>1. \A d \in Calls : FoundNone(d) => call[d].role \in Roles
  BY DEF FoundNone, At, CallsAreReal
<1> QED
  BY <1>1 DEF GrantsAreSingle

LEMMA SingleStep ==
    ASSUME AccessInv, GrantsAreSingle, [Next]_vars
    PROVE  GrantsAreSingle'
<1> USE DEF AccessInv
<1>1. ASSUME NEW c \in Calls, End(c), UNCHANGED <<grant, overlapped>>
      PROVE  GrantsAreSingle'
  <2>1. \A d \in Calls : FoundNone(d)' => FoundNone(d) /\ call'[d].role = call[d].role
    BY <1>1 DEF End, FoundNone, At, IdleCall, TypeOK
  <2> QED
    BY <1>1, <2>1, SingleStays DEF Active
<1>2. ASSUME NEW c \in Calls, NEW kind, NEW ids, NEW role, Begin(c, kind, ids, role)
      PROVE  GrantsAreSingle'
  <2>1. \A d \in Calls : FoundNone(d)' => FoundNone(d) /\ call'[d].role = call[d].role
    BY <1>2 DEF Begin, FoundNone, At, IdleCall, TypeOK
  <2> QED
    BY <1>2, <2>1, SingleStays DEF Begin, Active
<1>3. ASSUME NEW c \in Calls, ReadGrants(c)
      PROVE  GrantsAreSingle'
  <2>1. CASE End(c) /\ UNCHANGED overlapped
    BY <1>1, <1>3, <2>1 DEF ReadGrants
  <2>2. CASE /\ call' = [call EXCEPT ![c].pc = "flushed", ![c].found = Found(call[c].role)]
             /\ overlapped' = (overlapped \/
                   \E d \in Calls \ {c} : /\ At(d, Granting, "flushed")
                                          /\ call[d].found = {}
                                          /\ call[d].role = call[c].role)
             /\ ~overlapped'
    <3>1. ~overlapped
      BY <2>2, Zenon
    <3>2. ~\E d \in Calls \ {c} : /\ At(d, Granting, "flushed")
                                  /\ call[d].found = {}
                                  /\ call[d].role = call[c].role
      BY <2>2, Zenon
    <3>3. /\ \A d \in Calls \ {c} : call'[d] = call[d]
          /\ call'[c].role = call[c].role /\ call'[c].found = Active(call[c].role)
      BY <2>2 DEF TypeOK, Handlers, Found
    <3>4. /\ \A d \in Calls \ {c} : FoundNone(d)' <=> FoundNone(d)
          /\ FoundNone(c)' => Active(call[c].role) = {}
          /\ \A d \in Calls \ {c} : FoundNone(d) => call[d].role # call[c].role
      BY <3>2, <3>3 DEF FoundNone, At
    <3>5. grant' = grant
      BY <1>3 DEF ReadGrants
    <3> QED
      BY <3>1, <3>3, <3>4, <3>5 DEF GrantsAreSingle, Active
  <2>3. CASE overlapped'
    BY <2>3 DEF GrantsAreSingle
  <2> QED
    BY <1>3, <2>1, <2>2, <2>3 DEF ReadGrants
<1>4. ASSUME NEW c \in Calls, CommitGrant(c), ~overlapped
      PROVE  GrantsAreSingle'
  <2>1. PICK g \in GrantIds :
          grant' = [grant EXCEPT ![g] = [role |-> call[c].role, active |-> TRUE]]
    BY <1>4 DEF CommitGrant, Regrant
  <2>2. FoundNone(c) /\ call[c].role \in Roles /\ Active(call[c].role) = {}
    BY <1>4 DEF CommitGrant, FoundNone, GrantsAreSingle, At, CallsAreReal
  <2>3. \A r \in Roles : Active(r)' \subseteq IF r = call[c].role THEN {g} ELSE Active(r)
    BY <2>1, <2>2 DEF Active, ActiveIn, TypeOK
  <2>4. ~FoundNone(c)'
    BY <1>4 DEF CommitGrant, End, IdleCall, FoundNone, At, TypeOK, Handlers
  <2>5. \A d \in Calls \ {c} : call'[d] = call[d] /\ (FoundNone(d)' <=> FoundNone(d))
    BY <1>4 DEF CommitGrant, End, FoundNone, At, TypeOK
  <2>6. \A d \in Calls \ {c} : FoundNone(d) =>
           call[d].role \in Roles /\ call[d].role # call[c].role
    BY <1>4, <2>2 DEF GrantsAreSingle, FoundNone, At, CallsAreReal
  <2>7. \A r \in Roles : \A h, k \in Active(r)' : h = k
    BY <1>4, <2>2, <2>3 DEF GrantsAreSingle
  <2>8. \A d \in Calls : FoundNone(d)' => Active(call[d].role)' = {}
    BY <1>4, <2>3, <2>4, <2>5, <2>6 DEF GrantsAreSingle
  <2>9. \A d, e \in Calls : FoundNone(d)' /\ FoundNone(e)' /\ call'[d].role = call'[e].role
                            => d = e
    BY <1>4, <2>4, <2>5 DEF GrantsAreSingle
  <2> QED
    BY <2>5, <2>7, <2>8, <2>9, <2>4 DEF GrantsAreSingle
<1>5. ASSUME NEW c \in Calls, CommitRevoke(c)
      PROVE  GrantsAreSingle'
  <2>1. \A g \in GrantIds : grant'[g] # NULL /\ grant'[g].active => grant'[g] = grant[g]
    <3> SUFFICES ASSUME NEW g \in GrantIds, g \in call[c].found
                 PROVE  ~grant'[g].active
      BY <1>5 DEF CommitRevoke, Regrant
    <3>1. grant[g] \in Grants /\ grant'[g] = [grant[g] EXCEPT !.active = FALSE]
      BY <1>5 DEF CommitRevoke, Regrant, CallsAreReal
    <3> QED
      BY <3>1 DEF Grants
  <2>2. \A r \in Roles : Active(r)' \subseteq Active(r)
    BY <2>1 DEF Active, ActiveIn
  <2>3. \A d \in Calls : FoundNone(d)' => FoundNone(d) /\ call'[d].role = call[d].role
    BY <1>5 DEF CommitRevoke, FoundNone, At, TypeOK, Handlers
  <2> QED
    BY <1>5, <2>2, <2>3, SingleStays DEF CommitRevoke
<1>6. ASSUME NEW c \in Calls, ListRoles(c)
      PROVE  GrantsAreSingle'
  <2>1. \A d \in Calls : FoundNone(d)' => FoundNone(d) /\ call'[d].role = call[d].role
    BY <1>6 DEF ListRoles, FoundNone, At, IdleCall, TypeOK
  <2> QED
    BY <1>6, <2>1, SingleStays DEF ListRoles, Active
<1>7. CASE Tick
  <2>1. \A d \in Calls : FoundNone(d)' => FoundNone(d) /\ call'[d].role = call[d].role
    BY <1>7 DEF Tick, FoundNone, At, TypeOK, Handlers
  <2> QED
    BY <1>7, <2>1, SingleStays DEF Tick, Active
<1>8. CASE UNCHANGED <<call, grant, overlapped>>
  <2>1. \A d \in Calls : FoundNone(d)' => FoundNone(d) /\ call'[d].role = call[d].role
    BY <1>8 DEF FoundNone, At
  <2> QED
    BY <1>8, <2>1, SingleStays DEF Active
<1>9. ASSUME NEW c \in Calls, Handler(c)
      PROVE  GrantsAreSingle'
  <2>1. CASE BeginCreate(c) \/ BeginReview(c) \/ BeginSweep(c) \/ BeginAssign(c) \/ BeginRevoke(c)
    <3>1. PICK kind, ids, role : Begin(c, kind, ids, role)
      BY <2>1, Zenon DEF BeginCreate, BeginReview, BeginSweep, BeginAssign, BeginRevoke
    <3> QED
      BY <3>1, <1>2
  <2>2. CASE \/ CommitRequest(c) \/ CommitReject(c) \/ KeepGrant(c)
             \/ Invalidate(c) \/ FillCache(c) \/ Die(c)
    BY <2>2, <1>1 DEF CommitRequest, CommitReject, KeepGrant, Invalidate, FillCache, Die
  <2>3. CASE CommitGrant(c) /\ overlapped
    BY <2>3 DEF CommitGrant, GrantsAreSingle
  <2> QED
    BY <1>9, <2>1, <2>2, <2>3, <1>3, <1>4, <1>5, <1>6 DEF Handler
<1> QED
  BY <1>7, <1>8, <1>9 DEF Next, CheckHit, Evict, SwitchOff, vars

\* A role is granted twice only if two handlers read at once that it was not:
\* every other grant finds the first, whatever revocations come between.
THEOREM RolesAreGrantedOnce == Spec => []OneGrantEach
<1>1. Init => GrantsAreSingle
  BY DEF Init, GrantsAreSingle, Active, ActiveIn, FoundNone, At, IdleCall, Granting
<1>2. AccessInv /\ GrantsAreSingle /\ [Next]_vars => GrantsAreSingle'
  BY SingleStep
<1>3. GrantsAreSingle => OneGrantEach
  <2> SUFFICES ASSUME GrantsAreSingle, ~overlapped, NEW r \in Roles
               PROVE  Cardinality(Active(r)) <= 1
    BY DEF OneGrantEach
  <2>1. CASE Active(r) = {}
    BY <2>1, FS_EmptySet
  <2>2. ASSUME NEW g \in Active(r) PROVE Cardinality(Active(r)) <= 1
    <3>1. Active(r) = {g}
      BY DEF GrantsAreSingle
    <3>2. Cardinality({g}) = 1
      BY FS_Singleton
    <3> QED
      BY <3>1, <3>2
  <2> QED
    BY <2>1, <2>2
<1> QED
  BY <1>1, <1>2, <1>3, AccessInvariant, PTL DEF Spec

=============================================================================
