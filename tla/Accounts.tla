------------------------------ MODULE Accounts ------------------------------
(***************************************************************************)
(* Accounts: signing up and in, refresh tokens, the links that reset a     *)
(* forgotten password, what administrators change, and the cache of        *)
(* accounts that every authenticated request is admitted by.               *)
(*                                                                         *)
(* A request that waits between reading and writing is split there: the    *)
(* hash of a password and the token between reading the account and        *)
(* inserting the session, the mail between the statements and the commit   *)
(* of a reset link.  A statement of an open transaction sees what was      *)
(* committed when it began, and what it writes shows at the commit.        *)
(*                                                                         *)
(* An account is named by its address, a password by the number of the     *)
(* request that set it.  Times are left out: a cached account may lapse at *)
(* any moment, and a session or link that has expired is one of which      *)
(* nothing more is asked.                                                  *)
(***************************************************************************)
EXTENDS Sql, Naturals, FiniteSets

CONSTANTS
    Users,        \* addresses
    Registered,   \* those with an account at first, all active
    Admins,       \* those of them who are platform administrators
    Owners,       \* those owning rows whose foreign key forbids deleting them
    Tokens,       \* ids of refresh_tokens rows
    Links,        \* ids of password_reset_tokens rows
    Requests,     \* requests in flight at a time
    MaxRequests   \* bound on the requests begun, not counting those that fill the cache

ASSUME AccountsAssumption ==
    /\ Registered \subseteq Users
    /\ Admins \subseteq Registered
    /\ NULL \notin Users \cup Tokens \cup Links
    /\ MaxRequests \in Nat

VARIABLES
    account,     \* users
    refresh,     \* refresh_tokens
    link,        \* password_reset_tokens
    gone,        \* addresses whose account was deleted; another of that address is not followed
    mailed,      \* links in a mail that was sent, with their accounts
    access,      \* accounts an access token was issued to, taken to be valid for ever
    cache,       \* _user_cache
    req,         \* requests in flight
    begun,       \* history: requests begun, the number of the last one
    strays,      \* history: sessions issued while a reset of the account was committing
    overlapped,  \* history: accounts for which two links were asked at a time
    shared,      \* history: links that two resets held at a time
    uses,        \* history: how many passwords each link has set
    lost         \* history: links whose request stopped before its commit

accountVars == <<account, refresh, link, gone, mailed, access, cache, req, begun, strays, overlapped,
          shared, uses, lost>>

Entries == [is_active : BOOLEAN, is_platform_admin : BOOLEAN]
AccountRows == [password_hash : Nat, is_active : BOOLEAN, is_platform_admin : BOOLEAN]
TokenRows == [user : Users, password : Nat, revoked : BOOLEAN]
LinkRows == [user : Users, used : BOOLEAN]
RequestRows == [pc : {"idle", "signing_up", "verified", "forgot", "stamped", "mailed", "validated",
                      "revoked", "missed"},
                n : Nat, user : Users \cup {NULL}, link : Links \cup {NULL},
                seen : SUBSET (Tokens \cup Links), read : AccountRows \cup {NULL}]

\* SQL NULL is no row.
ASSUME AccountRowAssumption == NULL \notin Entries \cup AccountRows \cup TokenRows \cup LinkRows

IdleRequest == [pc |-> "idle", n |-> 0, user |-> NULL, link |-> NULL, seen |-> {}, read |-> NULL]

AccountsTypeOK ==
    /\ account \in [Users -> AccountRows \cup {NULL}]
    /\ refresh \in [Tokens -> TokenRows \cup {NULL}]
    /\ link \in [Links -> LinkRows \cup {NULL}]
    /\ gone \subseteq {u \in Users : account[u] = NULL}
    /\ mailed \subseteq Links \X Users
    /\ access \subseteq Users
    /\ cache \in [Users -> Entries \cup {NULL}]
    /\ req \in [Requests -> RequestRows]
    /\ begun \in Nat
    /\ strays \subseteq Tokens
    /\ overlapped \subseteq Users
    /\ shared \cup lost \subseteq Links
    /\ uses \in [Links -> Nat]
    \* the foreign keys
    /\ \A t \in Tokens : refresh[t] # NULL => account[refresh[t].user] # NULL
    /\ \A k \in Links : link[k] # NULL => account[link[k].user] # NULL

NewAccount(password, admin) ==
    [password_hash |-> password, is_active |-> TRUE, is_platform_admin |-> admin]

AccountsInit ==
    /\ account = [u \in Users |-> IF u \in Registered THEN NewAccount(0, u \in Admins) ELSE NULL]
    /\ refresh = [t \in Tokens |-> NULL]
    /\ link = [k \in Links |-> NULL]
    /\ gone = {}
    /\ mailed = {}
    /\ access = {}
    /\ cache = [u \in Users |-> NULL]
    /\ req = [r \in Requests |-> IdleRequest]
    /\ begun = 0
    /\ strays = {}
    /\ overlapped = {}
    /\ shared = {}
    /\ uses = [k \in Links |-> 0]
    /\ lost = {}

-----------------------------------------------------------------------------
User(r) == req[r].user
RequestAt(r, pc) == req[r].pc = pc
End(r) == req' = [req EXCEPT ![r] = IdleRequest]
Holding(u, pcs) == {r \in Requests : req[r].user = u /\ req[r].pc \in pcs}

Start(r, pc, u, k, read) ==
    /\ req[r] = IdleRequest
    /\ begun < MaxRequests
    /\ begun' = begun + 1
    /\ req' = [req EXCEPT ![r] = [pc |-> pc, n |-> begun + 1, user |-> u, link |-> k,
                                 seen |-> {}, read |-> read]]

MayAuthenticate(u) == account[u] # NULL /\ account[u].is_active

-----------------------------------------------------------------------------
(* Signing up, in and out.                                                 *)

\* signup_user, once it has found no account of that address.
BeginSignup(r) ==
    /\ \E u \in Users \ gone : account[u] = NULL /\ Start(r, "signing_up", u, NULL, NULL)
    /\ UNCHANGED <<gone, account, refresh, link, mailed, access, cache, strays, overlapped, shared, uses, lost>>

\* The unique address refuses the second of two accounts; tokens are issued next.
CommitSignup(r) ==
    /\ RequestAt(r, "signing_up")
    /\ IF account[User(r)] # NULL \/ User(r) \in gone
       THEN End(r) /\ UNCHANGED account
       ELSE /\ account' = [account EXCEPT ![User(r)] = NewAccount(req[r].n, FALSE)]
            /\ req' = [req EXCEPT ![r].pc = "verified", ![r].read = NewAccount(req[r].n, FALSE)]
    /\ UNCHANGED <<gone, refresh, link, mailed, access, cache, begun, strays, overlapped, shared, uses, lost>>

\* authenticate_user, given the password the account has.
BeginLogin(r) ==
    /\ \E u \in Users : MayAuthenticate(u) /\ Start(r, "verified", u, NULL, account[u])
    /\ UNCHANGED <<gone, account, refresh, link, mailed, access, cache, strays, overlapped, shared, uses, lost>>

\* issue_tokens; the foreign key refuses the session of a deleted account.
IssueTokens(r) ==
    /\ RequestAt(r, "verified")
    /\ LET u == User(r)
       IN  IF account[u] = NULL
           THEN UNCHANGED <<refresh, access, strays>>
           ELSE \E t \in Tokens :
                  /\ refresh[t] = NULL
                  /\ refresh' = [refresh EXCEPT ![t] = [user |-> u, password |-> req[r].read.password_hash,
                                                       revoked |-> FALSE]]
                  /\ access' = access \cup {u}
                  /\ strays' = IF req[r].read.password_hash # account[u].password_hash \/ Holding(u, {"revoked"}) # {}
                               THEN strays \cup {t} ELSE strays \ {t}
    /\ End(r)
    /\ UNCHANGED <<gone, account, link, mailed, cache, begun, overlapped, shared, uses, lost>>

Live(t) == refresh[t] # NULL /\ ~refresh[t].revoked

\* refresh_access_token: the session and the account are looked up in the database.
RefreshAccessToken(t) ==
    /\ Live(t)
    /\ MayAuthenticate(refresh[t].user)
    /\ access' = access \cup {refresh[t].user}
    /\ UNCHANGED <<gone, account, refresh, link, mailed, cache, req, begun, strays, overlapped, shared, uses, lost>>

\* revoke_refresh_token
Logout(t) ==
    /\ Live(t)
    /\ refresh' = [refresh EXCEPT ![t].revoked = TRUE]
    /\ UNCHANGED <<gone, account, link, mailed, access, cache, req, begun, strays, overlapped, shared, uses, lost>>

-----------------------------------------------------------------------------
(* A forgotten password.                                                   *)

BeginForgot(r) ==
    /\ \E u \in Users : account[u] # NULL /\ Start(r, "forgot", u, NULL, NULL)
    /\ UNCHANGED <<gone, account, refresh, link, mailed, access, cache, strays, overlapped, shared, uses, lost>>

Unused(u) == {k \in Links : link[k] # NULL /\ link[k].user = u /\ ~link[k].used}

Superseded_None(u) == {}

\* The links that asking for a new one marks used.
Superseded(u) == Unused(u)

\* The UPDATE of the older links and the INSERT of the new one, not yet committed.
StampLinks(r) ==
    /\ RequestAt(r, "forgot")
    /\ LET u == User(r)
       IN  IF account[u] = NULL
           THEN End(r) /\ UNCHANGED overlapped
           ELSE /\ \E k \in Links :
                     /\ link[k] = NULL
                     /\ \A q \in Requests : req[q].link # k
                     /\ \A v \in Users : <<k, v>> \notin mailed
                     /\ req' = [req EXCEPT ![r].pc = "stamped", ![r].link = k, ![r].seen = Superseded(u)]
                /\ overlapped' = IF Holding(u, {"stamped", "mailed"}) = {} THEN overlapped
                                 ELSE overlapped \cup {u}
    /\ UNCHANGED <<gone, account, refresh, link, mailed, access, cache, begun, strays, shared, uses, lost>>

\* send_password_reset_email, before the commit.
SendMail(r) ==
    /\ RequestAt(r, "stamped")
    /\ mailed' = mailed \cup {<<req[r].link, User(r)>>}
    /\ req' = [req EXCEPT ![r].pc = "mailed"]
    /\ UNCHANGED <<gone, account, refresh, link, access, cache, begun, strays, overlapped, shared, uses, lost>>

CommitForgot_Forgotten(r) ==
    /\ RequestAt(r, "mailed")
    /\ End(r)
    /\ UNCHANGED <<gone, account, refresh, link, mailed, access, cache, begun, strays, overlapped, shared, uses, lost>>

CommitForgot(r) ==
    /\ RequestAt(r, "mailed")
    /\ link' = [k \in Links |->
          IF k = req[r].link THEN [user |-> User(r), used |-> FALSE]
          ELSE IF k \in req[r].seen THEN [link[k] EXCEPT !.used = TRUE]
          ELSE link[k]]
    /\ End(r)
    /\ UNCHANGED <<gone, account, refresh, mailed, access, cache, begun, strays, overlapped, shared, uses, lost>>

\* validate_reset_token: the link is read as unused.
BeginPasswordReset(r) ==
    /\ \E k \in Links :
          /\ link[k] # NULL /\ ~link[k].used
          /\ Start(r, "validated", link[k].user, k, NULL)
          /\ shared' = IF \E q \in Requests : req[q].link = k THEN shared \cup {k} ELSE shared
    /\ UNCHANGED <<gone, account, refresh, link, mailed, access, cache, strays, overlapped, uses, lost>>

Revocable_None(u) == {}

\* The sessions that a reset revokes, as its UPDATE sees them.
Revocable(u) == {t \in Tokens : Live(t) /\ refresh[t].user = u}

\* The flush writes the account, which locks it, and the sessions seen then.
RevokeAll(r) ==
    /\ RequestAt(r, "validated")
    /\ Holding(User(r), {"revoked"}) = {}
    /\ IF account[User(r)] = NULL THEN End(r)
       ELSE req' = [req EXCEPT ![r].pc = "revoked", ![r].seen = Revocable(User(r))]
    /\ UNCHANGED <<gone, account, refresh, link, mailed, access, cache, begun, strays, overlapped, shared, uses, lost>>

CommitPasswordReset_LinkKept(r) ==
    /\ RequestAt(r, "revoked")
    /\ account' = [account EXCEPT ![User(r)].password_hash = req[r].n]
    /\ refresh' = [t \in Tokens |-> IF t \in req[r].seen THEN [refresh[t] EXCEPT !.revoked = TRUE] ELSE refresh[t]]
    /\ uses' = [uses EXCEPT ![req[r].link] = @ + 1]
    /\ End(r)
    /\ UNCHANGED <<gone, link, mailed, access, cache, begun, strays, overlapped, shared, lost>>

CommitPasswordReset(r) ==
    /\ RequestAt(r, "revoked")
    /\ account' = [account EXCEPT ![User(r)].password_hash = req[r].n]
    /\ link' = [link EXCEPT ![req[r].link].used = TRUE]
    /\ refresh' = [t \in Tokens |-> IF t \in req[r].seen THEN [refresh[t] EXCEPT !.revoked = TRUE] ELSE refresh[t]]
    /\ uses' = [uses EXCEPT ![req[r].link] = @ + 1]
    /\ End(r)
    /\ UNCHANGED <<gone, mailed, access, cache, begun, strays, overlapped, shared, lost>>

-----------------------------------------------------------------------------
(* Being admitted, and what accounts change.                               *)

Entry_AlwaysActive(row) == [is_active |-> TRUE, is_platform_admin |-> row.is_platform_admin]

\* What set_cached_user keeps of the account.
Entry(row) == [is_active |-> row.is_active, is_platform_admin |-> row.is_platform_admin]

\* get_current_user_from_access_token, on a miss: the account is read ...
Miss(r) ==
    /\ req[r] = IdleRequest
    /\ \E u \in access :
          /\ cache[u] = NULL /\ account[u] # NULL
          /\ req' = [req EXCEPT ![r] = [IdleRequest EXCEPT !.pc = "missed", !.user = u, !.read = account[u]]]
    /\ UNCHANGED <<gone, account, refresh, link, mailed, access, cache, begun, strays, overlapped, shared, uses, lost>>

\* ... and then cached as read.
Fill(r) ==
    /\ RequestAt(r, "missed")
    /\ cache' = [cache EXCEPT ![User(r)] = Entry(req[r].read)]
    /\ End(r)
    /\ UNCHANGED <<gone, account, refresh, link, mailed, access, begun, strays, overlapped, shared, uses, lost>>

\* The entry is as old as the cache keeps any.
Lapses(u) ==
    /\ cache[u] # NULL
    /\ cache' = [cache EXCEPT ![u] = NULL]
    /\ UNCHANGED <<gone, account, refresh, link, mailed, access, req, begun, strays, overlapped, shared, uses, lost>>

\* A request of u is let in on what the cache says.
Admitted(u) == u \in access /\ cache[u] # NULL /\ cache[u].is_active
AdmittedAsAdmin(u) == Admitted(u) /\ cache[u].is_platform_admin

\* A row that an open transaction has written makes other writers wait.
Unlocked(u) == Holding(u, {"revoked", "stamped", "mailed"}) = {}

\* update_user for an administrator: the cache is not told.
AdminUpdates(a, u) ==
    /\ AdmittedAsAdmin(a)
    /\ account[u] # NULL
    /\ Holding(u, {"revoked"}) = {}
    /\ \/ account' = [account EXCEPT ![u].is_active = ~@]
       \/ account' = [account EXCEPT ![u].is_platform_admin = ~@]
    /\ UNCHANGED <<gone, refresh, link, mailed, access, cache, req, begun, strays, overlapped, shared, uses, lost>>

\* update_me: whatever else it changes, the cached account goes.
UpdateMe(u) ==
    /\ Admitted(u)
    /\ account[u] # NULL
    /\ cache' = [cache EXCEPT ![u] = NULL]
    /\ UNCHANGED <<gone, account, refresh, link, mailed, access, req, begun, strays, overlapped, shared, uses, lost>>

RemoveAccount_NoCascade(u) ==
    /\ account[u] # NULL
    /\ u \notin Owners
    /\ Unlocked(u)
    /\ account' = [account EXCEPT ![u] = NULL]
    /\ gone' = gone \cup {u}
    /\ UNCHANGED <<refresh, link, mailed, access, req, begun, strays, overlapped, shared, uses, lost>>

\* The account goes with its sessions and links, unless another table keeps it.
RemoveAccount(u) ==
    /\ account[u] # NULL
    /\ u \notin Owners
    /\ Unlocked(u)
    /\ account' = [account EXCEPT ![u] = NULL]
    /\ refresh' = [t \in Tokens |-> IF refresh[t] # NULL /\ refresh[t].user = u THEN NULL ELSE refresh[t]]
    /\ link' = [k \in Links |-> IF link[k] # NULL /\ link[k].user = u THEN NULL ELSE link[k]]
    /\ gone' = gone \cup {u}
    /\ UNCHANGED <<mailed, access, req, begun, strays, overlapped, shared, uses, lost>>

\* delete_me empties the cache of the account, api/users.py does not.
DeleteMe(u) == Admitted(u) /\ RemoveAccount(u) /\ cache' = [cache EXCEPT ![u] = NULL]
AdminDeletes(a, u) == AdmittedAsAdmin(a) /\ RemoveAccount(u) /\ UNCHANGED cache

\* The process stops, or the mail cannot be sent: what is not committed is rolled back.
RequestStops(r) ==
    /\ req[r].pc \in {"verified", "stamped", "mailed", "revoked"}
    /\ lost' = IF RequestAt(r, "mailed") THEN lost \cup {req[r].link} ELSE lost
    /\ End(r)
    /\ UNCHANGED <<gone, account, refresh, link, mailed, access, cache, begun, strays, overlapped, shared, uses>>

Steps(r) ==
    \/ BeginSignup(r) \/ CommitSignup(r) \/ BeginLogin(r) \/ IssueTokens(r)
    \/ BeginForgot(r) \/ StampLinks(r) \/ SendMail(r) \/ CommitForgot(r)
    \/ BeginPasswordReset(r) \/ RevokeAll(r) \/ CommitPasswordReset(r)
    \/ Miss(r) \/ Fill(r) \/ RequestStops(r)

AccountsNext ==
    \/ \E r \in Requests : Steps(r)
    \/ \E t \in Tokens : RefreshAccessToken(t) \/ Logout(t)
    \/ \E u \in Users : Lapses(u) \/ UpdateMe(u) \/ DeleteMe(u)
    \/ \E a \in Users, u \in Users : AdminUpdates(a, u) \/ AdminDeletes(a, u)

\* Every entry of the cache reaches its age, and a request that has read the account fills it.
AccountsSpec == AccountsInit /\ [][AccountsNext]_accountVars /\ \A u \in Users : WF_accountVars(Lapses(u))
             /\ \A r \in Requests : WF_accountVars(Fill(r))

-----------------------------------------------------------------------------
(* Properties.                                                             *)

\* A session outlives the password it was opened with only when it was being issued
\* while the password was reset: every other one the reset revokes
\* (reset_password_with_token.py:24).
SessionsDieWithThePassword ==
    \A t \in Tokens : Live(t) /\ refresh[t].password # account[refresh[t].user].password_hash
                        => t \in strays

\* Asking for a link puts an end to the older ones, unless two were asked for at a time
\* (request_password_reset.py:27).
OneLinkAtATime == \A u \in Users : Cardinality(Unused(u)) <= 1 \/ u \in overlapped

\* A link sets one password, unless two resets had read it unused (reset_password_with_token.py:15).
LinkWorksOnce == \A k \in Links : uses[k] <= 1 \/ k \in shared

\* Once the request has ended, the link in the mail is a link the database knows, unless
\* the request stopped between the mail and its commit or the account is gone
\* (request_password_reset.py:62).
MailedLinkIsKnown ==
    \A x \in mailed : \/ link[x[1]] # NULL
                      \/ \E r \in Requests : req[r].link = x[1] /\ RequestAt(r, "mailed")
                      \/ x[1] \in lost
                      \/ account[x[2]] = NULL

\* An account that stays deactivated or deleted is in the end let in no more, though no
\* administrator's change empties the cache (auth_cache.py:5, api/users.py:42).
DeactivationTakesHold ==
    \A u \in Users : <>[](~MayAuthenticate(u)) => <>[](~Admitted(u))

\* A reset does what it promises: the mailed link is known, is the only one and sets one password,
\* and the sessions of the old one end, each but for the races named above
\* (request_password_reset.py, reset_password_with_token.py).
ResetsAreSound ==
    /\ AccountsTypeOK /\ SessionsDieWithThePassword
    /\ MailedLinkIsKnown /\ OneLinkAtATime /\ LinkWorksOnce

=============================================================================
