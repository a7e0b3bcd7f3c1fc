----------------------------- MODULE AppAccess -----------------------------
(***************************************************************************)
(* One account's access to one application: the requests it files, the     *)
(* role grants that admit it, the switch that approves requests by itself, *)
(* and the cache each server process keeps of its roles.                   *)
(*                                                                         *)
(* Every granting handler reads the active grants of the role before it    *)
(* inserts one; no unique key backs that read.  A handler that has changed *)
(* a request's row holds its lock from the flush before that read to its   *)
(* commit.  The cache is emptied in the handler's own process only, after  *)
(* the commit or, where the caller commits, before it.                     *)
(***************************************************************************)
EXTENDS Integers, FiniteSets

CONSTANTS
    RequestIds,   \* ids of access_requests rows
    GrantIds,     \* ids of user_app_roles rows
    Roles,        \* the roles of the application
    default_role, \* default_role_for the application
    Procs,        \* server processes
    Calls,        \* requests to the server in flight at a time
    NULL,         \* no row, no entry
    TTL,          \* life of a cache entry, in ticks
    MaxDelay      \* the longest a handler waits for the roles it asked for

ASSUME AccessAssumption ==
    /\ default_role \in Roles
    /\ NULL \notin Roles \cup RequestIds \cup Procs
    /\ NULL \notin {"pending", "approved", "rejected"}
    /\ NULL \notin [role : Roles, active : BOOLEAN]
    /\ TTL \in Nat \ {0}
    /\ MaxDelay \in Nat

VARIABLES
    auto_approve,  \* apps.auto_approve
    request,       \* access_requests: the status of each row
    grant,         \* user_app_roles: the role of each row, and whether it is active
    cache,         \* _roles_cache of each process: its answer, its age
    call,          \* the handlers in flight
    since,         \* history: how long ago the account was in, and out
    given,         \* history: the roles it was ever granted
    overlapped     \* history: two handlers read that a role is not granted yet

vars == <<auto_approve, request, grant, cache, call, since, given, overlapped>>

\* Ages are counted up to there.
Horizon == TTL + MaxDelay

Status == {"pending", "approved", "rejected"}
Answers == {"in", "out"}
Grants == [role : Roles, active : BOOLEAN]
Granting == {"create", "approve", "sweep", "assign"}
Kinds == Granting \cup {"request", "reject", "revoke", "check"}

Handlers == [kind : Kinds \cup {"none"},
             pc : {"idle", "loaded", "flushed", "committed", "listed"},
             proc : Procs \cup {NULL}, ids : SUBSET RequestIds,
             role : Roles \cup {NULL}, found : SUBSET GrantIds,
             answer : Answers, age : 0..MaxDelay]

IdleCall == [kind |-> "none", pc |-> "idle", proc |-> NULL, ids |-> {}, role |-> NULL,
             found |-> {}, answer |-> "out", age |-> 0]

TypeOK ==
    /\ auto_approve \in BOOLEAN
    /\ request \in [RequestIds -> Status \cup {NULL}]
    /\ grant \in [GrantIds -> Grants \cup {NULL}]
    /\ cache \in [Procs -> [answer : Answers, age : 0..(TTL - 1)] \cup {NULL}]
    /\ call \in [Calls -> Handlers]
    /\ since \in [Answers -> 0..Horizon]
    /\ given \subseteq Roles
    /\ overlapped \in BOOLEAN

Init ==
    /\ auto_approve \in BOOLEAN
    /\ request = [i \in RequestIds |-> NULL]
    /\ grant = [g \in GrantIds |-> NULL]
    /\ cache = [p \in Procs |-> NULL]
    /\ call = [c \in Calls |-> IdleCall]
    /\ since = [a \in Answers |-> IF a = "in" THEN Horizon ELSE 0]
    /\ given = {}
    /\ overlapped = FALSE

-----------------------------------------------------------------------------
ActiveIn(gs, r) == {g \in GrantIds : gs[g] # NULL /\ gs[g].active /\ gs[g].role = r}
Active(r) == ActiveIn(grant, r)

\* Whether list_roles returns something.
Standing(gs) == IF \E g \in GrantIds : gs[g] # NULL /\ gs[g].active THEN "in" ELSE "out"

WithStatus(i, s) == {j \in RequestIds : request[j] = s} \cap i

At(c, kinds, pc) == call[c].kind \in kinds /\ call[c].pc = pc

End(c) == call' = [call EXCEPT ![c] = IdleCall]

Begin(c, kind, ids, role) ==
    /\ call[c] = IdleCall
    /\ call' = [call EXCEPT ![c] = [IdleCall EXCEPT
                   !.kind = kind, !.pc = "loaded", !.ids = ids, !.role = role]]
    /\ UNCHANGED <<auto_approve, request, grant, cache, since, given, overlapped>>

\* Another handler has changed one of these requests and not committed.
Locked(c) ==
    \E d \in Calls \ {c} : /\ At(d, {"approve", "sweep"}, "flushed")
                           /\ call[d].ids \cap call[c].ids # {}

\* The grants change: the history follows.
Regrant(gs) ==
    /\ grant' = gs
    /\ since' = [since EXCEPT ![Standing(gs)] = 0]

-----------------------------------------------------------------------------
(* Filing and reviewing.                                                   *)

\* create_access_request: a pending or approved one is answered as it is.
BeginCreate(c) ==
    /\ WithStatus(RequestIds, "pending") \cup WithStatus(RequestIds, "approved") = {}
    /\ IF auto_approve THEN Begin(c, "create", {}, default_role)
       ELSE Begin(c, "request", {}, NULL)

CommitRequest(c) ==
    /\ At(c, {"request"}, "loaded")
    /\ \E i \in RequestIds :
          /\ request[i] = NULL
          /\ request' = [request EXCEPT ![i] = "pending"]
    /\ End(c)
    /\ UNCHANGED <<auto_approve, grant, cache, since, given, overlapped>>

\* review_access_request
BeginReview(c) ==
    \E i \in WithStatus(RequestIds, "pending") :
        \/ Begin(c, "approve", {i}, default_role)
        \/ Begin(c, "reject", {i}, NULL)

CommitReject_Denied(c) ==
    /\ At(c, {"reject"}, "loaded")
    /\ ~Locked(c)
    /\ request' = [i \in RequestIds |-> IF i \in call[c].ids THEN "denied" ELSE request[i]]
    /\ End(c)
    /\ UNCHANGED <<auto_approve, grant, cache, since, given, overlapped>>

\* The UPDATE names the row only, not the status it was decided on.
CommitReject(c) ==
    /\ At(c, {"reject"}, "loaded")
    /\ ~Locked(c)
    /\ request' = [i \in RequestIds |-> IF i \in call[c].ids THEN "rejected" ELSE request[i]]
    /\ End(c)
    /\ UNCHANGED <<auto_approve, grant, cache, since, given, overlapped>>

\* update_app: switching auto_approve on sweeps up what is pending ...
BeginSweep(c) ==
    /\ ~auto_approve
    /\ Begin(c, "sweep", WithStatus(RequestIds, "pending"), default_role)

\* ... and switching it off touches nothing else.
SwitchOff ==
    /\ auto_approve
    /\ auto_approve' = FALSE
    /\ UNCHANGED <<request, grant, cache, call, since, given, overlapped>>

BeginAssign(c) == \E r \in Roles : Begin(c, "assign", {}, r)
BeginRevoke(c) == \E r \in Roles : Begin(c, "revoke", {}, r)

-----------------------------------------------------------------------------
(* Granting and revoking.                                                  *)

Found_None(r) == {}

Found(r) == Active(r)

\* grant_app_role without commit empties the cache as soon as it has inserted.
ForgetsEarly(c) == call[c].kind \in {"create", "sweep"} /\ Found(call[c].role) = {}

\* invalidate_roles, in the process of its caller: that process shows nowhere
\* else, so it is chosen here.
Forget(p) == cache' = [cache EXCEPT ![p] = NULL]

\* A sweep of no request grants nothing.
Needed(c) == call[c].kind # "sweep" \/ call[c].ids # {}

\* The changed requests are flushed, then the active grants of the role are
\* read: more than one is an error, and so is none to revoke.
ReadGrants(c) ==
    /\ At(c, Granting \cup {"revoke"}, "loaded")
    /\ ~Locked(c)
    /\ LET found == Found(call[c].role) IN
       IF \/ Cardinality(found) > 1 /\ Needed(c)
          \/ found = {} /\ call[c].kind = "revoke"
       THEN End(c) /\ UNCHANGED <<cache, overlapped>>
       ELSE /\ call' = [call EXCEPT ![c].pc = "flushed", ![c].found = found]
            /\ IF ForgetsEarly(c) /\ Needed(c) THEN \E p \in Procs : Forget(p)
               ELSE cache' = cache
            /\ overlapped' = (overlapped \/
                  \E d \in Calls \ {c} : /\ At(d, Granting, "flushed")
                                         /\ call[d].found = {}
                                         /\ call[d].role = call[c].role)
    /\ UNCHANGED <<auto_approve, request, grant, since, given>>

\* What a committed grant makes of the requests: the swept, reviewed or new ones.
Approved(c) ==
    IF call[c].kind = "create"
    THEN {[request EXCEPT ![i] = "approved"] : i \in WithStatus(RequestIds, NULL)}
    ELSE {[i \in RequestIds |-> IF i \in call[c].ids THEN "approved" ELSE request[i]]}

\* The insert and the statuses in one commit.
CommitGrant(c) ==
    /\ At(c, Granting, "flushed")
    /\ call[c].found = {} /\ Needed(c)
    /\ request' \in Approved(c)
    /\ \E g \in GrantIds :
          /\ grant[g] = NULL
          /\ Regrant([grant EXCEPT ![g] = [role |-> call[c].role, active |-> TRUE]])
    /\ given' = given \cup {call[c].role}
    /\ auto_approve' = (auto_approve \/ call[c].kind = "sweep")
    /\ IF call[c].kind \in {"approve", "assign"}
       THEN call' = [call EXCEPT ![c].pc = "committed"] ELSE End(c)
    /\ UNCHANGED <<cache, overlapped>>

KeepGrant_Unfound(c) ==
    /\ At(c, Granting, "flushed")
    /\ request' \in Approved(c)
    /\ auto_approve' = (auto_approve \/ call[c].kind = "sweep")
    /\ End(c)
    /\ UNCHANGED <<grant, cache, since, given, overlapped>>

\* The role is held already, or there was no one to grant it to.  Only callers
\* that commit themselves keep the statuses: grant_app_role returns first.
KeepGrant(c) ==
    /\ At(c, Granting, "flushed")
    /\ call[c].found # {} \/ ~Needed(c)
    /\ IF call[c].kind \in {"create", "sweep"}
       THEN request' \in Approved(c) ELSE request' = request
    /\ auto_approve' = (auto_approve \/ call[c].kind = "sweep")
    /\ End(c)
    /\ UNCHANGED <<grant, cache, since, given, overlapped>>

CommitRevoke(c) ==
    /\ At(c, {"revoke"}, "flushed")
    /\ Regrant([g \in GrantIds |-> IF g \in call[c].found
                                   THEN [grant[g] EXCEPT !.active = FALSE] ELSE grant[g]])
    /\ call' = [call EXCEPT ![c].pc = "committed"]
    /\ UNCHANGED <<auto_approve, request, cache, given, overlapped>>

\* The cache is emptied after the commit.
Invalidate(c) ==
    /\ At(c, Kinds, "committed")
    /\ \E p \in Procs : Forget(p)
    /\ End(c)
    /\ UNCHANGED <<auto_approve, request, grant, since, given, overlapped>>

-----------------------------------------------------------------------------
(* require_app_access.                                                     *)

Older(age) == IF age < Horizon THEN age + 1 ELSE Horizon

CheckHit_Renews(p) ==
    /\ cache[p] # NULL
    /\ cache' = [cache EXCEPT ![p].age = 0]
    /\ UNCHANGED <<auto_approve, request, grant, call, since, given, overlapped>>

\* An entry that has not lapsed is the answer, and stays as it is.
CheckHit(p) ==
    /\ cache[p] # NULL
    /\ UNCHANGED vars

\* Without one the roles are read ...
ListRoles(c) ==
    \E p \in Procs :
        /\ call[c] = IdleCall
        /\ cache[p] = NULL
        /\ call' = [call EXCEPT ![c] = [IdleCall EXCEPT
                      !.kind = "check", !.pc = "listed", !.proc = p,
                      !.answer = Standing(grant)]]
        /\ UNCHANGED <<auto_approve, request, grant, cache, since, given, overlapped>>

\* ... and cached when they have arrived, whatever happened meanwhile.
FillCache(c) ==
    /\ At(c, {"check"}, "listed")
    /\ cache' = [cache EXCEPT ![call[c].proc] = [answer |-> call[c].answer, age |-> 0]]
    /\ End(c)
    /\ UNCHANGED <<auto_approve, request, grant, since, given, overlapped>>

\* An entry is pushed out by others, or goes with its process.
Evict(p) ==
    /\ cache[p] # NULL
    /\ Forget(p)
    /\ UNCHANGED <<auto_approve, request, grant, call, since, given, overlapped>>

\* The client goes away or the process stops before the commit, or after it.
Die(c) ==
    /\ call[c] # IdleCall
    /\ End(c)
    /\ UNCHANGED <<auto_approve, request, grant, cache, since, given, overlapped>>

\* Time passes: entries of age TTL lapse, and no read takes longer than MaxDelay.
Tick ==
    /\ \A c \in Calls : call[c].age < MaxDelay \/ ~At(c, {"check"}, "listed")
    /\ call' = [c \in Calls |-> IF At(c, {"check"}, "listed")
                                THEN [call[c] EXCEPT !.age = @ + 1] ELSE call[c]]
    /\ cache' = [p \in Procs |->
                   IF cache[p] = NULL \/ cache[p].age + 1 = TTL THEN NULL
                   ELSE [cache[p] EXCEPT !.age = @ + 1]]
    /\ since' = [a \in Answers |-> IF a = Standing(grant) THEN 0 ELSE Older(since[a])]
    /\ UNCHANGED <<auto_approve, request, grant, given, overlapped>>

-----------------------------------------------------------------------------
Handler(c) ==
    \/ BeginCreate(c) \/ CommitRequest(c)
    \/ BeginReview(c) \/ CommitReject(c)
    \/ BeginSweep(c) \/ BeginAssign(c) \/ BeginRevoke(c)
    \/ ReadGrants(c) \/ CommitGrant(c) \/ KeepGrant(c) \/ CommitRevoke(c)
    \/ Invalidate(c) \/ ListRoles(c) \/ FillCache(c) \/ Die(c)

Next ==
    \/ \E c \in Calls : Handler(c)
    \/ \E p \in Procs : CheckHit(p) \/ Evict(p)
    \/ SwitchOff \/ Tick

Spec == Init /\ [][Next]_vars

-----------------------------------------------------------------------------
(* Properties.                                                             *)

\* Nobody is told "approved" without the role: whoever reviews, sweeps or files
\* at once, an approved request was committed with its grant or after one.
ApprovedIsGranted ==
    (\E i \in RequestIds : request[i] = "approved") => default_role \in given

\* Two active grants of a role make every later has_role, grant and revoke of it
\* fail; that takes two handlers that read at once that there was none.
OneGrantEach == overlapped \/ \A r \in Roles : Cardinality(Active(r)) <= 1

\* What a process answers from its cache was true at most TTL + MaxDelay ago,
\* although only the process of the change forgets it, and although a check may
\* put back what the change's own process has just forgotten.
CacheIsRecent ==
    \A p \in Procs : cache[p] # NULL => since[cache[p].answer] < Horizon

\* An approval that is answered as approved is stored.
ApprovalIsKept ==
    [][\A c \in Calls :
          call[c].kind = "approve" /\ (CommitGrant(c) \/ KeepGrant(c))
          => \A i \in call[c].ids : request'[i] = "approved"]_vars

=============================================================================
