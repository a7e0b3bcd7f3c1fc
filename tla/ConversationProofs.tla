------------------------- MODULE ConversationProofs -------------------------
(***************************************************************************)
(* Theorems about Accounts, Interviews, Chats and AgentPrompts.            *)
(*                                                                         *)
(* A password that is forgotten is reset as promised, each race the code   *)
(* leaves named, because every request knows what it holds: a request that *)
(* makes a link makes it alone and has seen the unused ones, one that sets *)
(* a password has a link that was mailed to its account and has revoked    *)
(* what is live (RequestsAreKnown).  An interview keeps what was answered  *)
(* and is reported once, because every call in flight is on an interview   *)
(* as it was at some time (InterviewsInv).  A chat is answered in order,   *)
(* because a request alone on its chat has heard all that was before it    *)
(* (ChatsInv).  Prompts render whole and versions name one template,       *)
(* because a row is always valid and its newest version the one published  *)
(* last (PromptsInv).                                                      *)
(*                                                                         *)
(* A step that leaves the links alone is one lemma, whatever request it    *)
(* is of (QuietStep); so is one that writes a row of a prompt              *)
(* (RowsAreWritten); the others have a lemma each.                         *)
(***************************************************************************)
EXTENDS Accounts, Interviews, Chats, AgentPrompts, FiniteSetTheorems, TLAPS

-----------------------------------------------------------------------------
(* Accounts: the inductive invariant.                                      *)

IsMailed(k) == \E v \in Users : <<k, v>> \in mailed
Asking(r) == req[r].pc \in {"stamped", "mailed"}
Resetting(r) == req[r].pc \in {"validated", "revoked"}

\* What a request knows of its account, and has of the links.
RequestKnown(r) ==
    /\ req[r].pc # "idle" => User(r) \in Users
    /\ req[r].pc \in {"verified", "missed"} => req[r].read # NULL
    /\ req[r].link # NULL => Asking(r) \/ Resetting(r)

\* A link that is being made is its request's alone.
AskingKnown(r) ==
    LET k == req[r].link  u == User(r)
    IN  Asking(r) =>
          /\ k \in Links /\ link[k] = NULL /\ uses[k] = 0
          /\ account[u] # NULL
          /\ \A l \in req[r].seen : l \in Links /\ link[l] # NULL /\ link[l].user = u
          /\ \A p \in Requests : req[p].link = k => p = r
          /\ RequestAt(r, "stamped") => ~IsMailed(k)
          /\ RequestAt(r, "mailed") => <<k, u>> \in mailed
          /\ u \notin overlapped =>
                /\ Unused(u) \subseteq req[r].seen
                /\ \A p \in Requests : Asking(p) /\ User(p) = u => p = r

ResettingKnown(r) ==
    LET k == req[r].link  u == User(r)
    IN  /\ Resetting(r) =>
              /\ k \in Links /\ <<k, u>> \in mailed
              /\ u \in gone \/ (account[u] # NULL /\ link[k] # NULL /\ link[k].user = u)
              /\ k \notin shared => /\ uses[k] = 0
                                    /\ \A p \in Requests : req[p].link = k => p = r
        /\ RequestAt(r, "revoked") =>
              /\ account[u] # NULL
              /\ \A t \in req[r].seen : t \in Tokens /\ refresh[t] # NULL /\ refresh[t].user = u
              /\ \A t \in Tokens : Live(t) /\ refresh[t].user = u => t \in req[r].seen \cup strays
              /\ \A p \in Requests : RequestAt(p, "revoked") /\ User(p) = u => p = r

RequestsAreKnown == \A r \in Requests : RequestKnown(r) /\ AskingKnown(r) /\ ResettingKnown(r)

\* Every link was mailed, to one account.
LinksAreMailed ==
    /\ \A k \in Links : link[k] # NULL => <<k, link[k].user>> \in mailed
    /\ \A k \in Links : uses[k] # 0 => IsMailed(k)
    /\ \A x \in mailed, y \in mailed : x[1] = y[1] => x[2] = y[2]
    /\ \A x \in mailed : account[x[2]] # NULL \/ x[2] \in gone

LinksAreUsedOnce ==
    \A k \in Links : k \notin shared => /\ uses[k] \in {0, 1}
                                        /\ uses[k] = 1 => link[k] = NULL \/ link[k].used

OneUnused == \A u \in Users : u \notin overlapped => \A k, l \in Unused(u) : k = l

AccountsInv ==
    /\ AccountsTypeOK /\ RequestsAreKnown
    /\ LinksAreMailed /\ LinksAreUsedOnce /\ OneUnused
    /\ SessionsDieWithThePassword /\ MailedLinkIsKnown

-----------------------------------------------------------------------------
(* Types of the accounts.                                                  *)

LEMMA IdleTyped == IdleRequest \in RequestRows
BY DEF IdleRequest, RequestRows

\* A request in flight is put in another state: the others are as they were.
LEMMA RequestMoves ==
    ASSUME AccountsTypeOK, NEW r \in Requests, NEW row \in RequestRows, req' = [req EXCEPT ![r] = row]
    PROVE  /\ req' \in [Requests -> RequestRows]
           /\ req'[r] = row
           /\ \A p \in Requests : p # r => req'[p] = req[p]
BY DEF AccountsTypeOK

LEMMA RequestRow ==
    ASSUME AccountsTypeOK, NEW r \in Requests
    PROVE  /\ req[r] \in RequestRows
           /\ req[r].pc \in {"idle", "signing_up", "verified", "forgot", "stamped", "mailed",
                             "validated", "revoked", "missed"}
           /\ req[r].n \in Nat /\ req[r].user \in Users \cup {NULL} /\ req[r].link \in Links \cup {NULL}
           /\ req[r].seen \subseteq Tokens \cup Links /\ req[r].read \in AccountRows \cup {NULL}
BY DEF AccountsTypeOK, RequestRows

\* The row with which a request begins.
StartedRow(pc, u, k, read) ==
    [pc |-> pc, n |-> begun + 1, user |-> u, link |-> k, seen |-> {}, read |-> read]

LEMMA Started ==
    ASSUME AccountsTypeOK, NEW r \in Requests, NEW u \in Users, NEW k \in Links \cup {NULL},
           NEW read \in AccountRows \cup {NULL},
           NEW pc \in {"signing_up", "verified", "forgot", "validated"}, Start(r, pc, u, k, read)
    PROVE  /\ StartedRow(pc, u, k, read) \in RequestRows
           /\ req' = [req EXCEPT ![r] = StartedRow(pc, u, k, read)]
           /\ begun' \in Nat /\ req[r] = IdleRequest
BY DEF Start, StartedRow, AccountsTypeOK, RequestRows

LEMMA AccountRowsKept ==
    ASSUME NEW row \in AccountRows, NEW n \in Nat
    PROVE  /\ [row EXCEPT !.password_hash = n] \in AccountRows
           /\ [row EXCEPT !.password_hash = n].password_hash = n
           /\ [row EXCEPT !.is_active = ~@] \in AccountRows
           /\ [row EXCEPT !.is_active = ~@].password_hash = row.password_hash
           /\ [row EXCEPT !.is_platform_admin = ~@] \in AccountRows
           /\ [row EXCEPT !.is_platform_admin = ~@].password_hash = row.password_hash
           /\ Entry(row) \in Entries
BY DEF AccountRows, Entry, Entries

LEMMA LinkRowsKept ==
    ASSUME NEW row \in LinkRows
    PROVE  /\ [row EXCEPT !.used = TRUE] \in LinkRows /\ [row EXCEPT !.used = TRUE] # NULL
           /\ [row EXCEPT !.used = TRUE].user = row.user /\ [row EXCEPT !.used = TRUE].used
<1>1. [row EXCEPT !.used = TRUE] \in LinkRows
  BY DEF LinkRows
<1> QED BY <1>1, AccountRowAssumption DEF LinkRows

LEMMA TokenRowsKept ==
    ASSUME NEW row \in TokenRows
    PROVE  /\ [row EXCEPT !.revoked = TRUE] \in TokenRows /\ [row EXCEPT !.revoked = TRUE] # NULL
           /\ [row EXCEPT !.revoked = TRUE].user = row.user
           /\ [row EXCEPT !.revoked = TRUE].password = row.password
           /\ [row EXCEPT !.revoked = TRUE].revoked
<1>1. [row EXCEPT !.revoked = TRUE] \in TokenRows
  BY DEF TokenRows
<1> QED BY <1>1, AccountRowAssumption DEF TokenRows

LEMMA NewAccountTyped ==
    ASSUME NEW n \in Nat, NEW admin \in BOOLEAN
    PROVE  /\ NewAccount(n, admin) \in AccountRows /\ NewAccount(n, admin) # NULL
           /\ NewAccount(n, admin).password_hash = n
<1>1. NewAccount(n, admin) \in AccountRows
  BY DEF NewAccount, AccountRows
<1> QED BY <1>1, AccountRowAssumption DEF NewAccount

-----------------------------------------------------------------------------
(* Steps that leave the links alone.                                       *)

\* A request that holds no link and no row.
Plain(r) == RequestKnown(r) /\ ~Asking(r) /\ ~Resetting(r) /\ req[r].link = NULL

RequestsGo ==
    \A r \in Requests : \/ req'[r] = req[r]
                        \/ Plain(r)' /\ (RequestAt(r, "mailed") => req[r].link \in lost')

\* Accounts come and change, but not their passwords, and none comes back.
AccountsStand ==
    \A u \in Users : /\ account[u] # NULL => /\ account'[u] # NULL
                                             /\ account'[u].password_hash = account[u].password_hash
                     /\ u \in gone => account'[u] = NULL

\* Sessions end or are issued, with the password there is or else astray.
SessionsStand ==
    \A t \in Tokens :
        \/ /\ refresh[t] # NULL => /\ refresh'[t] # NULL
                                   /\ refresh'[t].user = refresh[t].user
                                   /\ refresh'[t].password = refresh[t].password
           /\ Live(t)' => Live(t)
           /\ t \in strays => t \in strays'
        \/ /\ refresh[t] = NULL /\ refresh'[t] # NULL
           /\ refresh'[t].user \in Users
           /\ account[refresh'[t].user] # NULL
           /\ \/ t \in strays'
              \/ /\ refresh'[t].password = account[refresh'[t].user].password_hash
                 /\ Holding(refresh'[t].user, {"revoked"}) = {}

LEMMA QuietStep ==
    ASSUME AccountsInv, RequestsGo, AccountsStand, SessionsStand, lost \subseteq lost',
           UNCHANGED <<link, gone, mailed, overlapped, shared, uses>>
    PROVE  /\ RequestsAreKnown' /\ LinksAreMailed' /\ LinksAreUsedOnce' /\ OneUnused'
           /\ SessionsDieWithThePassword' /\ MailedLinkIsKnown'
<1>1. LinksAreMailed' /\ LinksAreUsedOnce'
  <2>1. \A x \in mailed : x[2] \in Users
    BY DEF AccountsInv, AccountsTypeOK
  <2>2. \A x \in mailed : account'[x[2]] # NULL \/ x[2] \in gone
    BY <2>1 DEF AccountsInv, LinksAreMailed, AccountsStand
  <2> QED BY <2>2 DEF AccountsInv, LinksAreMailed, LinksAreUsedOnce, IsMailed
<1>2. OneUnused'
  BY DEF AccountsInv, OneUnused, Unused
<1>3. SessionsDieWithThePassword'
  <2> SUFFICES ASSUME NEW t \in Tokens, Live(t)', t \notin strays'
               PROVE  refresh'[t].password = account'[refresh'[t].user].password_hash
    BY DEF SessionsDieWithThePassword, Live
  <2>1. CASE refresh[t] # NULL
    <3>1. /\ Live(t) /\ t \notin strays /\ refresh'[t].user = refresh[t].user
          /\ refresh'[t].password = refresh[t].password
      BY <2>1 DEF SessionsStand
    <3>2. /\ refresh[t].user \in Users /\ account[refresh[t].user] # NULL
          /\ refresh[t].password = account[refresh[t].user].password_hash
      BY <2>1, <3>1 DEF AccountsInv, AccountsTypeOK, TokenRows, SessionsDieWithThePassword
    <3> QED BY <3>1, <3>2 DEF AccountsStand
  <2>2. CASE refresh[t] = NULL
    BY <2>2 DEF SessionsStand, AccountsStand, Live
  <2> QED BY <2>1, <2>2
<1>4. MailedLinkIsKnown'
  <2> SUFFICES ASSUME NEW x \in mailed
               PROVE  \/ link[x[1]] # NULL
                      \/ \E p \in Requests : req'[p].link = x[1] /\ req'[p].pc = "mailed"
                      \/ x[1] \in lost'
                      \/ account'[x[2]] = NULL
    BY DEF MailedLinkIsKnown, RequestAt
  <2>1. \/ link[x[1]] # NULL
        \/ \E p \in Requests : req[p].link = x[1] /\ RequestAt(p, "mailed")
        \/ x[1] \in lost
        \/ account[x[2]] = NULL
    BY DEF AccountsInv, MailedLinkIsKnown
  <2>2. ASSUME NEW p \in Requests, req[p].link = x[1], RequestAt(p, "mailed")
        PROVE  x[1] \in lost' \/ \E q \in Requests : req'[q].link = x[1] /\ req'[q].pc = "mailed"
    BY <2>2 DEF RequestAt, RequestsGo
  <2>3. ASSUME account[x[2]] = NULL PROVE account'[x[2]] = NULL
    <3>1. x[2] \in Users /\ x[2] \in gone
      BY <2>3 DEF AccountsInv, AccountsTypeOK, LinksAreMailed
    <3> QED BY <3>1 DEF AccountsStand
  <2> QED BY <2>1, <2>2, <2>3
<1>5. ASSUME NEW p \in Requests PROVE (RequestKnown(p) /\ AskingKnown(p) /\ ResettingKnown(p))'
  <2>1. CASE Plain(p)'
    BY <2>1 DEF Plain, AskingKnown, ResettingKnown, Asking, Resetting, RequestAt
  <2>2. CASE req'[p] = req[p]
    <3>1. RequestKnown(p) /\ AskingKnown(p) /\ ResettingKnown(p)
      BY DEF AccountsInv, RequestsAreKnown
    <3>2. \A q \in Requests : /\ Asking(q)' => Asking(q) /\ User(q)' = User(q)
                              /\ RequestAt(q, "revoked")' => RequestAt(q, "revoked") /\ User(q)' = User(q)
                              /\ req'[q].link = req[q].link \/ req'[q].link = NULL
      BY DEF RequestsGo, Plain, Asking, Resetting, RequestAt, User
    <3>3. AskingKnown(p)'
      <4> SUFFICES ASSUME Asking(p)' PROVE AskingKnown(p)'
        BY DEF AskingKnown
      <4>1. Asking(p) /\ req[p].link \in Links /\ req[p].link # NULL /\ User(p) \in Users
        BY <2>2, <3>1, AccountsAssumption DEF Asking, AskingKnown, RequestKnown
      <4>2. account'[User(p)] # NULL
        BY <3>1, <4>1 DEF AskingKnown, AccountsStand
      <4> QED BY <2>2, <3>1, <3>2, <4>1, <4>2 DEF AskingKnown, Asking, RequestAt, User, IsMailed, Unused
    <3>4. ResettingKnown(p)'
      <4> SUFFICES ASSUME Resetting(p)' PROVE ResettingKnown(p)'
        BY DEF ResettingKnown, Resetting, RequestAt
      <4>1. Resetting(p) /\ req[p].link \in Links /\ req[p].link # NULL /\ User(p) \in Users
        BY <2>2, <3>1, AccountsAssumption DEF Resetting, ResettingKnown, RequestKnown
      <4>2. account[User(p)] # NULL => account'[User(p)] # NULL
        BY <4>1 DEF AccountsStand
      <4>3. ASSUME RequestAt(p, "revoked")'
            PROVE  /\ account'[User(p)] # NULL
                   /\ \A t \in req[p].seen : t \in Tokens /\ refresh'[t] # NULL /\ refresh'[t].user = User(p)
                   /\ \A t \in Tokens : Live(t)' /\ refresh'[t].user = User(p) => t \in req[p].seen \cup strays'
                   /\ \A q \in Requests : RequestAt(q, "revoked")' /\ User(q)' = User(p) => q = p
        <5>1. RequestAt(p, "revoked")
          BY <2>2, <4>3 DEF RequestAt
        <5>2. /\ account[User(p)] # NULL
              /\ \A t \in req[p].seen : t \in Tokens /\ refresh[t] # NULL /\ refresh[t].user = User(p)
              /\ \A t \in Tokens : Live(t) /\ refresh[t].user = User(p) => t \in req[p].seen \cup strays
              /\ \A q \in Requests : RequestAt(q, "revoked") /\ User(q) = User(p) => q = p
          BY <3>1, <5>1 DEF ResettingKnown
        <5>3. \A t \in req[p].seen : refresh'[t] # NULL /\ refresh'[t].user = User(p)
          BY <5>2 DEF SessionsStand
        <5>4. ASSUME NEW t \in Tokens, Live(t)', refresh'[t].user = User(p)
              PROVE  t \in req[p].seen \cup strays'
          <6>1. CASE refresh[t] # NULL
            BY <5>2, <5>4, <6>1 DEF SessionsStand
          <6>2. CASE refresh[t] = NULL
            <7>1. p \in Holding(User(p), {"revoked"})
              BY <5>1 DEF Holding, RequestAt, User
            <7> QED BY <5>4, <6>2, <7>1 DEF SessionsStand, Live
          <6> QED BY <6>1, <6>2
        <5> QED BY <3>2, <4>2, <5>2, <5>3, <5>4
      <4> QED BY <2>2, <3>1, <3>2, <4>1, <4>2, <4>3 DEF ResettingKnown, Resetting, RequestAt, User
    <3> QED BY <2>2, <3>1, <3>3, <3>4 DEF RequestKnown, Asking, Resetting, User
  <2> QED BY <2>1, <2>2 DEF RequestsGo
<1> QED BY <1>1, <1>2, <1>3, <1>4, <1>5 DEF RequestsAreKnown

-----------------------------------------------------------------------------
(* The quiet steps, action by action.                                      *)

PlainRow(row) ==
    /\ row.link = NULL /\ row.pc \in {"idle", "signing_up", "verified", "forgot", "missed"}
    /\ row.pc # "idle" => row.user \in Users
    /\ row.pc \in {"verified", "missed"} => row.read # NULL

LEMMA RequestTurnsPlain ==
    ASSUME AccountsInv, NEW r \in Requests, NEW row \in RequestRows, PlainRow(row),
           req' = [req EXCEPT ![r] = row], RequestAt(r, "mailed") => req[r].link \in lost'
    PROVE  req' \in [Requests -> RequestRows] /\ RequestsGo
<1>1. /\ req' \in [Requests -> RequestRows] /\ req'[r] = row
      /\ \A p \in Requests : p # r => req'[p] = req[p]
  BY RequestMoves DEF AccountsInv
<1>2. Plain(r)'
  BY <1>1 DEF Plain, PlainRow, RequestKnown, Asking, Resetting, User
<1> QED BY <1>1, <1>2 DEF RequestsGo

LEMMA RequestEnds ==
    ASSUME AccountsInv, NEW r \in Requests, End(r), RequestAt(r, "mailed") => req[r].link \in lost'
    PROVE  req' \in [Requests -> RequestRows] /\ RequestsGo
<1>1. PlainRow(IdleRequest)
  BY DEF PlainRow, IdleRequest
<1> QED BY <1>1, IdleTyped, RequestTurnsPlain DEF End

LEMMA RequestBegins ==
    ASSUME AccountsInv, NEW r \in Requests, NEW u \in Users, NEW read \in AccountRows \cup {NULL},
           NEW pc \in {"signing_up", "verified", "forgot"}, pc = "verified" => read # NULL,
           Start(r, pc, u, NULL, read)
    PROVE  req' \in [Requests -> RequestRows] /\ RequestsGo /\ begun' \in Nat
<1>1. /\ StartedRow(pc, u, NULL, read) \in RequestRows /\ begun' \in Nat
      /\ req' = [req EXCEPT ![r] = StartedRow(pc, u, NULL, read)]
      /\ req[r] = IdleRequest
  BY Started DEF AccountsInv
<1>2. PlainRow(StartedRow(pc, u, NULL, read))
  BY DEF PlainRow, StartedRow
<1>3. ~RequestAt(r, "mailed")
  BY <1>1 DEF RequestAt, IdleRequest
<1> QED BY <1>1, <1>2, <1>3, RequestTurnsPlain

\* Neither an account nor a session changes.
LEMMA NothingButRequests ==
    ASSUME AccountsInv, req' \in [Requests -> RequestRows], RequestsGo, begun' \in Nat,
           cache' \in [Users -> Entries \cup {NULL}], access' \subseteq Users,
           lost \subseteq lost', lost' \subseteq Links,
           UNCHANGED <<gone, account, refresh, link, mailed, strays, overlapped, shared, uses>>
    PROVE  AccountsInv'
<1>1. AccountsTypeOK'
  BY DEF AccountsInv, AccountsTypeOK
<1>2. AccountsStand
  BY DEF AccountsInv, AccountsTypeOK, AccountsStand
<1>3. SessionsStand
  BY DEF SessionsStand, Live
<1> QED BY <1>1, <1>2, <1>3, QuietStep DEF AccountsInv

MissedRow(row, u) == [row EXCEPT !.pc = "missed", !.user = u, !.read = account[u]]

LEMMA MissedRowTyped ==
    ASSUME NEW row \in RequestRows, NEW u \in Users, account[u] \in AccountRows
    PROVE  /\ MissedRow(row, u) \in RequestRows /\ MissedRow(row, u).pc = "missed"
           /\ MissedRow(row, u).user = u /\ MissedRow(row, u).link = row.link
           /\ MissedRow(row, u).read = account[u]
BY DEF RequestRows, MissedRow

LEMMA QuietRequests ==
    ASSUME AccountsInv, NEW r \in Requests,
           \/ BeginSignup(r) \/ BeginLogin(r) \/ BeginForgot(r) \/ Miss(r) \/ Fill(r) \/ RequestStops(r)
    PROVE  AccountsInv'
<1>1. CASE BeginSignup(r)
  <2>1. PICK u \in Users : Start(r, "signing_up", u, NULL, NULL)
    BY <1>1 DEF BeginSignup
  <2>2. req' \in [Requests -> RequestRows] /\ RequestsGo /\ begun' \in Nat
    BY <2>1, RequestBegins
  <2>3. AccountsTypeOK
    BY DEF AccountsInv
  <2> QED BY <1>1, <2>2, <2>3, NothingButRequests DEF BeginSignup, AccountsTypeOK
<1>2. CASE BeginLogin(r)
  <2>1. PICK u \in Users : MayAuthenticate(u) /\ Start(r, "verified", u, NULL, account[u])
    BY <1>2 DEF BeginLogin
  <2>2. account[u] \in AccountRows /\ account[u] # NULL
    BY <2>1 DEF MayAuthenticate, AccountsInv, AccountsTypeOK
  <2>3. req' \in [Requests -> RequestRows] /\ RequestsGo /\ begun' \in Nat
    BY <2>1, <2>2, RequestBegins
  <2>4. AccountsTypeOK
    BY DEF AccountsInv
  <2> QED BY <1>2, <2>3, <2>4, NothingButRequests DEF BeginLogin, AccountsTypeOK
<1>3. CASE BeginForgot(r)
  <2>1. PICK u \in Users : Start(r, "forgot", u, NULL, NULL)
    BY <1>3 DEF BeginForgot
  <2>2. req' \in [Requests -> RequestRows] /\ RequestsGo /\ begun' \in Nat
    BY <2>1, RequestBegins
  <2>3. AccountsTypeOK
    BY DEF AccountsInv
  <2> QED BY <1>3, <2>2, <2>3, NothingButRequests DEF BeginForgot, AccountsTypeOK
<1>4. CASE Miss(r)
  <2>1. PICK u \in access : account[u] # NULL /\ req' = [req EXCEPT ![r] = MissedRow(IdleRequest, u)]
    BY <1>4 DEF Miss, MissedRow
  <2>2. u \in Users /\ account[u] \in AccountRows /\ AccountsTypeOK
    BY <2>1 DEF AccountsInv, AccountsTypeOK
  <2>3. req[r] = IdleRequest /\ IdleRequest.pc = "idle" /\ IdleRequest.link = NULL
    BY <1>4 DEF Miss, IdleRequest
  <2>4. MissedRow(IdleRequest, u) \in RequestRows /\ PlainRow(MissedRow(IdleRequest, u))
    BY <2>1, <2>2, <2>3, IdleTyped, MissedRowTyped DEF PlainRow
  <2>5. ~RequestAt(r, "mailed")
    BY <2>3 DEF RequestAt
  <2>6. req' \in [Requests -> RequestRows] /\ RequestsGo
    BY <2>1, <2>4, <2>5, RequestTurnsPlain
  <2> QED BY <1>4, <2>2, <2>6, NothingButRequests DEF Miss, AccountsTypeOK
<1>5. CASE Fill(r)
  <2>1. AccountsTypeOK /\ ~RequestAt(r, "mailed")
    BY <1>5 DEF AccountsInv, Fill, RequestAt
  <2>2. req' \in [Requests -> RequestRows] /\ RequestsGo
    BY <1>5, <2>1, RequestEnds DEF Fill
  <2>3. req[r].read \in AccountRows /\ User(r) \in Users
    BY <1>5, <2>1, RequestRow DEF Fill, RequestAt, AccountsInv, RequestsAreKnown, RequestKnown
  <2>4. cache' \in [Users -> Entries \cup {NULL}]
    BY <1>5, <2>1, <2>3, AccountRowsKept DEF Fill, AccountsTypeOK
  <2> QED BY <1>5, <2>1, <2>2, <2>4, NothingButRequests DEF Fill, AccountsTypeOK
<1>6. CASE RequestStops(r)
  <2>1. AccountsTypeOK /\ (RequestAt(r, "mailed") => req[r].link \in lost' /\ req[r].link \in Links)
    BY <1>6 DEF AccountsInv, RequestStops, RequestAt, RequestsAreKnown, AskingKnown, Asking
  <2>2. req' \in [Requests -> RequestRows] /\ RequestsGo
    BY <1>6, <2>1, RequestEnds DEF RequestStops
  <2>3. lost \subseteq lost' /\ lost' \subseteq Links
    BY <1>6, <2>1 DEF RequestStops, AccountsTypeOK
  <2> QED BY <1>6, <2>1, <2>2, <2>3, NothingButRequests DEF RequestStops, AccountsTypeOK
<1> QED BY <1>1, <1>2, <1>3, <1>4, <1>5, <1>6

\* No request of a password moves.
LEMMA QuietCalls ==
    ASSUME AccountsInv,
           \/ \E t \in Tokens : RefreshAccessToken(t)
           \/ \E u \in Users : Lapses(u) \/ UpdateMe(u)
    PROVE  AccountsInv'
<1> AccountsTypeOK
  BY DEF AccountsInv
<1>1. /\ cache' \in [Users -> Entries \cup {NULL}] /\ access' \subseteq Users /\ begun' \in Nat
      /\ UNCHANGED <<gone, account, refresh, link, mailed, req, strays, overlapped, shared, uses, lost>>
  <2>1. CASE \E t \in Tokens : RefreshAccessToken(t)
    BY <2>1 DEF RefreshAccessToken, Live, AccountsTypeOK, TokenRows
  <2>2. CASE \E u \in Users : Lapses(u) \/ UpdateMe(u)
    BY <2>2 DEF Lapses, UpdateMe, AccountsTypeOK
  <2> QED BY <2>1, <2>2
<1>2. req' \in [Requests -> RequestRows] /\ RequestsGo
  BY <1>1 DEF AccountsTypeOK, RequestsGo
<1> QED BY <1>1, <1>2, NothingButRequests DEF AccountsTypeOK

LEMMA CommitSignupKeeps ==
    ASSUME AccountsInv, NEW r \in Requests, CommitSignup(r)
    PROVE  AccountsInv'
<1> AccountsTypeOK
  BY DEF AccountsInv
<1>1. /\ RequestAt(r, "signing_up") /\ ~RequestAt(r, "mailed") /\ User(r) \in Users /\ req[r].n \in Nat
  BY RequestRow DEF AccountsInv, CommitSignup, RequestAt, RequestsAreKnown, RequestKnown
<1>2. CASE account[User(r)] # NULL \/ User(r) \in gone
  <2>1. End(r) /\ UNCHANGED <<account, gone, refresh, link, mailed, access, cache, begun, strays, overlapped,
                              shared, uses, lost>>
    BY <1>2 DEF CommitSignup
  <2>2. req' \in [Requests -> RequestRows] /\ RequestsGo
    BY <1>1, <2>1, RequestEnds
  <2> QED BY <2>1, <2>2, NothingButRequests DEF AccountsTypeOK
<1>3. CASE ~(account[User(r)] # NULL \/ User(r) \in gone)
  <2> DEFINE row == NewAccount(req[r].n, FALSE)
             verified == [req[r] EXCEPT !.pc = "verified", !.read = row]
  <2>1. /\ account' = [account EXCEPT ![User(r)] = row]
        /\ req' = [req EXCEPT ![r].pc = "verified", ![r].read = row]
        /\ UNCHANGED <<gone, refresh, link, mailed, access, cache, begun, strays, overlapped, shared, uses, lost>>
    BY <1>3 DEF CommitSignup
  <2>2. row \in AccountRows /\ row # NULL
    BY <1>1, NewAccountTyped
  <2>3. req' = [req EXCEPT ![r] = verified]
    <3> DEFINE one == [req EXCEPT ![r] = [req[r] EXCEPT !.pc = "verified"]]
    <3>1. req' = [one EXCEPT ![r] = [one[r] EXCEPT !.read = row]]
      BY <2>1
    <3>2. one[r] = [req[r] EXCEPT !.pc = "verified"]
      BY DEF AccountsTypeOK
    <3>3. [one[r] EXCEPT !.read = row] = verified
      BY <3>2, RequestRow DEF RequestRows
    <3> HIDE DEF row
    <3> QED BY <3>1, <3>3 DEF AccountsTypeOK
  <2>4. /\ verified \in RequestRows /\ verified.pc = "verified" /\ verified.user = User(r)
        /\ verified.link = req[r].link /\ verified.read = row
    <3> HIDE DEF row
    <3> QED BY <2>2, RequestRow DEF RequestRows, User
  <2>5. req[r].link = NULL
    BY <1>1 DEF AccountsInv, RequestsAreKnown, RequestKnown, Asking, Resetting, RequestAt
  <2>6. PlainRow(verified)
    BY <1>1, <2>2, <2>4, <2>5 DEF PlainRow
  <2>7. req' \in [Requests -> RequestRows] /\ RequestsGo
    <3> HIDE DEF verified
    <3> QED BY <1>1, <2>3, <2>4, <2>6, RequestTurnsPlain
  <2> HIDE DEF row, verified
  <2>8. AccountsTypeOK'
    BY <1>1, <2>1, <2>2, <2>7, <1>3 DEF AccountsTypeOK, TokenRows, LinkRows
  <2>9. AccountsStand
    BY <1>1, <1>3, <2>1, <2>2 DEF AccountsTypeOK, AccountsStand
  <2>10. SessionsStand
    BY <2>1 DEF SessionsStand, Live
  <2> QED BY <2>1, <2>7, <2>8, <2>9, <2>10, QuietStep DEF AccountsInv
<1> QED BY <1>2, <1>3

LEMMA IssueTokensKeeps ==
    ASSUME AccountsInv, NEW r \in Requests, IssueTokens(r)
    PROVE  AccountsInv'
<1> DEFINE u == User(r)
<1>1. /\ AccountsTypeOK /\ RequestAt(r, "verified") /\ ~RequestAt(r, "mailed") /\ u \in Users /\ End(r)
      /\ UNCHANGED <<gone, account, link, mailed, cache, begun, overlapped, shared, uses, lost>>
  BY DEF AccountsInv, IssueTokens, RequestAt, RequestsAreKnown, RequestKnown
<1>2. req' \in [Requests -> RequestRows] /\ RequestsGo
  BY <1>1, RequestEnds
<1>3. CASE account[u] = NULL
  BY <1>1, <1>2, <1>3, NothingButRequests DEF IssueTokens, AccountsTypeOK
<1>4. CASE account[u] # NULL
  <2> DEFINE row == [user |-> u, password |-> req[r].read.password_hash, revoked |-> FALSE]
             astray == req[r].read.password_hash # account[u].password_hash \/ Holding(u, {"revoked"}) # {}
  <2>1. PICK t \in Tokens :
            /\ refresh[t] = NULL /\ refresh' = [refresh EXCEPT ![t] = row] /\ access' = access \cup {u}
            /\ strays' = IF astray THEN strays \cup {t} ELSE strays \ {t}
    BY <1>4 DEF IssueTokens
  <2>2. req[r].read \in AccountRows
    BY <1>1, RequestRow DEF AccountsInv, RequestsAreKnown, RequestKnown, RequestAt
  <2>3. row \in TokenRows /\ row # NULL
    <3>1. row \in TokenRows
      BY <1>1, <2>2 DEF TokenRows, AccountRows
    <3> QED BY <3>1, AccountRowAssumption
  <2>4. /\ refresh' \in [Tokens -> TokenRows \cup {NULL}] /\ refresh'[t] = row
        /\ \A s \in Tokens : s # t => refresh'[s] = refresh[s]
    BY <1>1, <2>1, <2>3 DEF AccountsTypeOK
  <2>5. AccountsTypeOK'
    <3>1. \A s \in Tokens : refresh'[s] # NULL => account[refresh'[s].user] # NULL
      BY <1>1, <1>4, <2>4 DEF AccountsTypeOK
    <3>2. access' \subseteq Users /\ strays' \subseteq Tokens
      BY <1>1, <2>1 DEF AccountsTypeOK
    <3> QED BY <1>1, <1>2, <2>4, <3>1, <3>2 DEF AccountsTypeOK
  <2>6. AccountsStand
    BY <1>1 DEF AccountsTypeOK, AccountsStand
  <2>7. SessionsStand
    <3> SUFFICES ASSUME NEW s \in Tokens PROVE SessionsStand!(s)
      BY DEF SessionsStand
    <3>1. CASE s # t
      BY <2>1, <2>4, <3>1 DEF Live
    <3>2. CASE s = t
      <4>1. t \in strays' \/ (row.password = account[u].password_hash /\ Holding(u, {"revoked"}) = {})
        BY <2>1
      <4> QED BY <1>1, <1>4, <2>1, <2>3, <2>4, <3>2, <4>1
    <3> QED BY <3>1, <3>2
  <2> QED BY <1>1, <1>2, <2>5, <2>6, <2>7, QuietStep DEF AccountsInv
<1> QED BY <1>3, <1>4

LEMMA LogoutKeeps ==
    ASSUME AccountsInv, NEW t \in Tokens, Logout(t)
    PROVE  AccountsInv'
<1>1. /\ AccountsTypeOK /\ Live(t) /\ refresh[t] \in TokenRows
      /\ refresh' = [refresh EXCEPT ![t] = [refresh[t] EXCEPT !.revoked = TRUE]]
      /\ UNCHANGED <<gone, account, link, mailed, access, cache, req, begun, strays, overlapped, shared, uses, lost>>
  BY DEF Logout, Live, AccountsInv, AccountsTypeOK
<1> DEFINE row == [refresh[t] EXCEPT !.revoked = TRUE]
<1>2. /\ row \in TokenRows /\ row # NULL /\ row.user = refresh[t].user
      /\ row.password = refresh[t].password /\ row.revoked
  BY <1>1, TokenRowsKept
<1> HIDE DEF row
<1>3. /\ refresh' \in [Tokens -> TokenRows \cup {NULL}] /\ refresh'[t] = row
      /\ \A s \in Tokens : s # t => refresh'[s] = refresh[s]
  BY <1>1, <1>2 DEF AccountsTypeOK, row
<1>4. AccountsTypeOK'
  <2>1. \A s \in Tokens : refresh'[s] # NULL => account[refresh'[s].user] # NULL
    BY <1>1, <1>2, <1>3 DEF AccountsTypeOK, Live
  <2> QED BY <1>1, <1>3, <2>1 DEF AccountsTypeOK
<1>5. SessionsStand
  BY <1>1, <1>2, <1>3 DEF SessionsStand, Live
<1>6. AccountsStand /\ RequestsGo
  BY <1>1 DEF AccountsTypeOK, AccountsStand, RequestsGo
<1> QED BY <1>1, <1>4, <1>5, <1>6, QuietStep DEF AccountsInv

LEMMA AdminUpdatesKeeps ==
    ASSUME AccountsInv, NEW a \in Users, NEW u \in Users, AdminUpdates(a, u)
    PROVE  AccountsInv'
<1>1. /\ AccountsTypeOK /\ account[u] # NULL /\ account[u] \in AccountRows
      /\ UNCHANGED <<gone, refresh, link, mailed, access, cache, req, begun, strays, overlapped, shared, uses, lost>>
  BY DEF AdminUpdates, AccountsInv, AccountsTypeOK
<1>2. PICK row \in AccountRows : /\ account' = [account EXCEPT ![u] = row]
                                 /\ row.password_hash = account[u].password_hash
  <2>1. CASE account' = [account EXCEPT ![u].is_active = ~@]
    BY <1>1, <2>1, AccountRowsKept
  <2>2. CASE account' = [account EXCEPT ![u].is_platform_admin = ~@]
    BY <1>1, <2>2, AccountRowsKept
  <2> QED BY <2>1, <2>2 DEF AdminUpdates
<1>3. row # NULL
  BY AccountRowAssumption
<1>4. AccountsTypeOK'
  <2>1. account' \in [Users -> AccountRows \cup {NULL}] /\ \A v \in Users : account'[v] = NULL <=> account[v] = NULL
    BY <1>1, <1>2, <1>3 DEF AccountsTypeOK
  <2>2. \A t \in Tokens : refresh[t] # NULL => account'[refresh[t].user] # NULL
    BY <1>1, <2>1 DEF AccountsTypeOK, TokenRows
  <2>3. \A k \in Links : link[k] # NULL => account'[link[k].user] # NULL
    BY <1>1, <2>1 DEF AccountsTypeOK, LinkRows
  <2>4. gone \subseteq {v \in Users : account'[v] = NULL}
    BY <1>1, <2>1 DEF AccountsTypeOK
  <2> QED BY <1>1, <2>1, <2>2, <2>3, <2>4 DEF AccountsTypeOK
<1>5. AccountsStand
  BY <1>1, <1>2, <1>3 DEF AccountsTypeOK, AccountsStand
<1>6. SessionsStand /\ RequestsGo
  BY <1>1 DEF SessionsStand, Live, RequestsGo
<1> QED BY <1>1, <1>4, <1>5, <1>6, QuietStep DEF AccountsInv

-----------------------------------------------------------------------------
(* The steps of a link.                                                    *)

StampedRow(row, k, seen) == [row EXCEPT !.pc = "stamped", !.link = k, !.seen = seen]

LEMMA StampedRowTyped ==
    ASSUME NEW row \in RequestRows, NEW k \in Links, NEW seen \in SUBSET Links
    PROVE  /\ StampedRow(row, k, seen) \in RequestRows /\ StampedRow(row, k, seen).pc = "stamped"
           /\ StampedRow(row, k, seen).user = row.user /\ StampedRow(row, k, seen).link = k
           /\ StampedRow(row, k, seen).seen = seen
BY DEF RequestRows, StampedRow

\* What holds of the links and the sessions holds on when they stay.
LEMMA LinksStay ==
    ASSUME AccountsInv, UNCHANGED <<gone, account, refresh, link, mailed, strays, uses, lost>>,
           overlapped \subseteq overlapped', shared \subseteq shared'
    PROVE  LinksAreMailed' /\ LinksAreUsedOnce' /\ OneUnused' /\ SessionsDieWithThePassword'
<1>1. LinksAreMailed' /\ LinksAreUsedOnce'
  BY DEF AccountsInv, LinksAreMailed, LinksAreUsedOnce, IsMailed
<1>2. OneUnused'
  BY DEF AccountsInv, OneUnused, Unused
<1>3. SessionsDieWithThePassword'
  BY DEF AccountsInv, SessionsDieWithThePassword, Live
<1> QED BY <1>1, <1>2, <1>3

LEMMA StampLinksKeeps ==
    ASSUME AccountsInv, NEW r \in Requests, NEW u \in Users, u = User(r), StampLinks(r)
    PROVE  AccountsInv'
<1>1. /\ AccountsTypeOK /\ RequestAt(r, "forgot") /\ ~RequestAt(r, "mailed")
      /\ ~Asking(r) /\ ~Resetting(r) /\ req[r] \in RequestRows
      /\ UNCHANGED <<gone, account, refresh, link, mailed, access, cache, begun, strays, shared, uses, lost>>
  BY DEF AccountsInv, AccountsTypeOK, StampLinks, RequestAt, RequestsAreKnown, RequestKnown, Asking, Resetting
<1>2. CASE account[u] = NULL
  <2>1. End(r) /\ UNCHANGED overlapped
    BY <1>2 DEF StampLinks
  <2>2. req' \in [Requests -> RequestRows] /\ RequestsGo
    BY <1>1, <2>1, RequestEnds
  <2> QED BY <1>1, <2>1, <2>2, NothingButRequests DEF AccountsTypeOK
<1>3. CASE account[u] # NULL
  <2>1. PICK k \in Links :
            /\ link[k] = NULL /\ (\A q \in Requests : req[q].link # k)
            /\ \A v \in Users : <<k, v>> \notin mailed
            /\ req' = [req EXCEPT ![r].pc = "stamped", ![r].link = k, ![r].seen = Superseded(u)]
    BY <1>3 DEF StampLinks
  <2>2. overlapped' = IF Holding(u, {"stamped", "mailed"}) = {} THEN overlapped ELSE overlapped \cup {u}
    BY <1>3 DEF StampLinks
  <2> DEFINE seen == Superseded(u)
             stamped == StampedRow(req[r], k, seen)
  <2>3. seen = Unused(u) /\ seen \in SUBSET Links
    BY DEF Superseded, Unused
  <2>4. req' = [req EXCEPT ![r] = stamped]
    <3> DEFINE one == [req EXCEPT ![r] = [req[r] EXCEPT !.pc = "stamped"]]
               two == [one EXCEPT ![r] = [one[r] EXCEPT !.link = k]]
    <3>1. req' = [two EXCEPT ![r] = [two[r] EXCEPT !.seen = seen]]
      BY <2>1
    <3>2. one[r] = [req[r] EXCEPT !.pc = "stamped"] /\ one[r] \in RequestRows
      BY <1>1 DEF AccountsTypeOK, RequestRows
    <3>3. two[r] = [one[r] EXCEPT !.link = k] /\ two[r] \in RequestRows
      <4> HIDE DEF one
      <4>1. one[r] \in RequestRows /\ DOMAIN one = Requests
        BY <1>1, <3>2 DEF one, AccountsTypeOK
      <4> QED BY <4>1 DEF RequestRows
    <3>4. [two[r] EXCEPT !.seen = seen] = stamped
      <4> HIDE DEF one, two, seen
      <4> QED BY <1>1, <3>2, <3>3 DEF RequestRows, StampedRow
    <3> HIDE DEF stamped, seen
    <3> QED BY <1>1, <3>1, <3>4 DEF AccountsTypeOK
  <2>5. /\ stamped \in RequestRows /\ stamped.pc = "stamped" /\ stamped.user = u
        /\ stamped.link = k /\ stamped.seen = seen
    <3> HIDE DEF seen
    <3> QED BY <1>1, <2>3, StampedRowTyped DEF User
  <2> HIDE DEF stamped, seen
  <2>6. /\ req' \in [Requests -> RequestRows] /\ req'[r] = stamped
        /\ \A p \in Requests : p # r => req'[p] = req[p]
    BY <1>1, <2>4, <2>5, RequestMoves
  <2>7. overlapped \subseteq overlapped' /\ overlapped' \subseteq Users
    BY <1>1, <2>2 DEF AccountsTypeOK
  <2>8. AccountsTypeOK'
    BY <1>1, <2>6, <2>7 DEF AccountsTypeOK
  <2>9. LinksAreMailed' /\ LinksAreUsedOnce' /\ OneUnused' /\ SessionsDieWithThePassword'
    BY <1>1, <2>7, LinksStay
  <2>10. MailedLinkIsKnown'
    <3>1. \A p \in Requests : RequestAt(p, "mailed") => req'[p] = req[p]
      BY <1>1, <2>6
    <3> QED BY <1>1, <3>1 DEF AccountsInv, MailedLinkIsKnown, RequestAt
  <2>11. (RequestKnown(r) /\ AskingKnown(r) /\ ResettingKnown(r))'
    <3>1. uses[k] = 0 /\ ~IsMailed(k)
      BY <2>1 DEF AccountsInv, LinksAreMailed, IsMailed
    <3>2. \A p \in Requests : p # r => req'[p].link # k
      BY <2>1, <2>6
    <3>3. ASSUME u \notin overlapped', NEW p \in Requests, Asking(p)', User(p)' = u PROVE p = r
      BY <2>2, <2>6, <3>3 DEF Asking, User, Holding
    <3>4. \A l \in seen : l \in Links /\ link[l] # NULL /\ link[l].user = u
      BY <2>3 DEF Unused
    <3>5. AskingKnown(r)'
      <4>1. req'[r].link = k /\ req'[r].user = u /\ req'[r].seen = seen /\ req'[r].pc = "stamped"
        BY <2>5, <2>6
      <4>2. Unused(u)' \subseteq seen /\ ~IsMailed(k)'
        BY <1>1, <2>3, <3>1 DEF Unused, IsMailed
      <4>3. \A p \in Requests : Asking(p)' /\ req'[p].user = u => p = r \/ u \in overlapped'
        BY <3>3 DEF User
      <4> QED BY <1>1, <1>3, <2>1, <3>1, <3>2, <3>4, <4>1, <4>2, <4>3 DEF AskingKnown, RequestAt, User
    <3>6. RequestKnown(r)' /\ ResettingKnown(r)'
      BY <1>1, <2>5, <2>6 DEF RequestKnown, ResettingKnown, Asking, Resetting, RequestAt, User
    <3> QED BY <3>5, <3>6
  <2>12. ASSUME NEW p \in Requests, p # r PROVE (RequestKnown(p) /\ AskingKnown(p) /\ ResettingKnown(p))'
    <3>1. req'[p] = req[p] /\ RequestKnown(p) /\ AskingKnown(p) /\ ResettingKnown(p) /\ req[p].link # k
      BY <2>1, <2>6, <2>12 DEF AccountsInv, RequestsAreKnown
    <3>2. \A q \in Requests : req'[q].link = req[p].link => req[q].link = req[p].link
      BY <2>5, <2>6, <3>1
    <3>3. ASSUME Asking(p), User(p) \notin overlapped', NEW q \in Requests, Asking(q)', User(q)' = User(p)
          PROVE  Asking(q) /\ User(q) = User(p)
      BY <2>2, <2>5, <2>6, <2>12, <3>3 DEF Asking, User, Holding
    <3>4. AskingKnown(p)'
      <4>1. Asking(p)' <=> Asking(p)
        BY <3>1 DEF Asking
      <4> QED BY <1>1, <2>7, <3>1, <3>2, <3>3, <4>1 DEF AskingKnown, RequestAt, User, IsMailed, Unused
    <3>5. \A q \in Requests : RequestAt(q, "revoked")' => req'[q] = req[q]
      BY <2>5, <2>6 DEF RequestAt
    <3>6. ResettingKnown(p)'
      BY <1>1, <3>1, <3>2, <3>5 DEF ResettingKnown, Resetting, RequestAt, User, Live
    <3> QED BY <3>1, <3>4, <3>6 DEF RequestKnown, Asking, Resetting, User
  <2> QED BY <2>8, <2>9, <2>10, <2>11, <2>12 DEF AccountsInv, RequestsAreKnown
<1> QED BY <1>2, <1>3

LEMMA SendMailKeeps ==
    ASSUME AccountsInv, NEW r \in Requests, NEW u \in Users, u = User(r), SendMail(r)
    PROVE  AccountsInv'
<1> DEFINE k == req[r].link
<1>1. /\ AccountsTypeOK /\ RequestAt(r, "stamped") /\ Asking(r) /\ req[r] \in RequestRows
      /\ mailed' = mailed \cup {<<k, u>>} /\ req' = [req EXCEPT ![r] = [req[r] EXCEPT !.pc = "mailed"]]
      /\ UNCHANGED <<gone, account, refresh, link, access, cache, begun, strays, overlapped, shared, uses, lost>>
  BY DEF AccountsInv, AccountsTypeOK, SendMail, RequestAt, Asking
<1> DEFINE row == [req[r] EXCEPT !.pc = "mailed"]
<1>2. /\ row \in RequestRows /\ row.pc = "mailed" /\ row.user = u /\ row.link = k /\ row.seen = req[r].seen
  BY <1>1 DEF RequestRows, User
<1> HIDE DEF row
<1>3. /\ req' \in [Requests -> RequestRows] /\ req'[r] = row
      /\ \A p \in Requests : p # r => req'[p] = req[p]
  BY <1>1, <1>2, RequestMoves DEF row
<1>4. /\ RequestKnown(r) /\ AskingKnown(r)
      /\ k \in Links /\ link[k] = NULL /\ uses[k] = 0 /\ account[u] # NULL /\ ~IsMailed(k)
      /\ \A p \in Requests : req[p].link = k => p = r
  BY <1>1 DEF AccountsInv, RequestsAreKnown, AskingKnown, User
<1>5. ASSUME NEW x \in mailed PROVE x[1] # k /\ x[1] \in Links /\ x[2] \in Users
  <2>1. x[1] \in Links /\ x[2] \in Users /\ <<x[1], x[2]>> \in mailed
    <3>1. x \in Links \X Users
      BY <1>1 DEF AccountsTypeOK
    <3> QED BY <3>1
  <2> QED BY <1>4, <2>1 DEF IsMailed
<1>6. AccountsTypeOK'
  BY <1>1, <1>3, <1>4 DEF AccountsTypeOK
<1>7. LinksAreMailed'
  <2> SUFFICES /\ \A l \in Links : link[l] # NULL => <<l, link[l].user>> \in mailed'
               /\ \A l \in Links : uses[l] # 0 => \E v \in Users : <<l, v>> \in mailed'
               /\ \A x \in mailed', y \in mailed' : x[1] = y[1] => x[2] = y[2]
               /\ \A x \in mailed' : account[x[2]] # NULL \/ x[2] \in gone
    BY <1>1 DEF LinksAreMailed, IsMailed
  <2>1. /\ \A l \in Links : link[l] # NULL => <<l, link[l].user>> \in mailed
        /\ \A l \in Links : uses[l] # 0 => IsMailed(l)
        /\ \A x \in mailed, y \in mailed : x[1] = y[1] => x[2] = y[2]
        /\ \A x \in mailed : account[x[2]] # NULL \/ x[2] \in gone
    BY DEF AccountsInv, LinksAreMailed
  <2> HIDE DEF k
  <2> QED BY <1>1, <1>4, <1>5, <2>1 DEF IsMailed
<1>8. LinksAreUsedOnce' /\ OneUnused' /\ SessionsDieWithThePassword'
  <2>1. LinksAreUsedOnce'
    BY <1>1 DEF AccountsInv, LinksAreUsedOnce
  <2>2. OneUnused'
    BY <1>1 DEF AccountsInv, OneUnused, Unused
  <2>3. SessionsDieWithThePassword'
    BY <1>1 DEF AccountsInv, SessionsDieWithThePassword, Live
  <2> QED BY <2>1, <2>2, <2>3
<1>9. MailedLinkIsKnown'
  <2> SUFFICES ASSUME NEW x \in mailed'
               PROVE  \/ link[x[1]] # NULL
                      \/ \E p \in Requests : req'[p].link = x[1] /\ req'[p].pc = "mailed"
                      \/ x[1] \in lost
                      \/ account[x[2]] = NULL
    BY <1>1 DEF MailedLinkIsKnown, RequestAt
  <2>1. CASE x = <<k, u>>
    BY <1>2, <1>3, <2>1
  <2>2. CASE x \in mailed
    <3>1. ASSUME NEW p \in Requests, req[p].link = x[1], RequestAt(p, "mailed")
          PROVE  req'[p].link = x[1] /\ req'[p].pc = "mailed"
      BY <1>1, <1>3, <3>1 DEF RequestAt
    <3> QED BY <2>2, <3>1 DEF AccountsInv, MailedLinkIsKnown
  <2> QED BY <1>1, <2>1, <2>2
<1>10. (RequestKnown(r) /\ AskingKnown(r) /\ ResettingKnown(r))'
  <2>1. /\ req'[r].link = k /\ req'[r].user = u /\ req'[r].seen = req[r].seen /\ req'[r].pc = "mailed"
        /\ req[r].user = u
    BY <1>2, <1>3 DEF User
  <2>2. \A p \in Requests : req'[p].link = req[p].link /\ req'[p].user = req[p].user /\ (Asking(p)' => Asking(p))
    BY <1>1, <1>2, <1>3 DEF Asking, User
  <2>3. AskingKnown(r)'
    <3>1. <<k, u>> \in mailed'
      BY <1>1
    <3>2. /\ \A l \in req[r].seen : l \in Links /\ link[l] # NULL /\ link[l].user = u
          /\ u \notin overlapped => /\ Unused(u) \subseteq req[r].seen
                                    /\ \A p \in Requests : Asking(p) /\ User(p) = u => p = r
      BY <1>1, <1>4 DEF AskingKnown, User
    <3>3. Unused(u)' = Unused(u)
      BY <1>1 DEF Unused
    <3>4. \A p \in Requests : req'[p].link = k => p = r
      BY <1>4, <2>2
    <3> HIDE DEF k
    <3> QED BY <1>1, <1>4, <2>1, <2>2, <3>1, <3>2, <3>3, <3>4 DEF AskingKnown, RequestAt, User
  <2>4. RequestKnown(r)' /\ ResettingKnown(r)'
    BY <2>1 DEF RequestKnown, ResettingKnown, Asking, Resetting, RequestAt, User
  <2> QED BY <2>3, <2>4
<1>11. ASSUME NEW p \in Requests, p # r PROVE (RequestKnown(p) /\ AskingKnown(p) /\ ResettingKnown(p))'
  <2>1. /\ req'[p] = req[p] /\ RequestKnown(p) /\ AskingKnown(p) /\ ResettingKnown(p) /\ req[p].link # k
    BY <1>3, <1>4, <1>11 DEF AccountsInv, RequestsAreKnown
  <2>2. \A q \in Requests : req'[q].link = req[q].link /\ req'[q].user = req[q].user /\ (Asking(q)' => Asking(q))
    BY <1>1, <1>2, <1>3 DEF Asking, User
  <2>3. AskingKnown(p)'
    <3>1. Asking(p)' <=> Asking(p)
      BY <2>1 DEF Asking
    <3>2. \A v \in Users : <<req[p].link, v>> \in mailed' <=> <<req[p].link, v>> \in mailed
      BY <1>1, <2>1
    <3>3. IsMailed(req[p].link)' <=> IsMailed(req[p].link)
      BY <2>1, <3>2 DEF IsMailed
    <3>4. Unused(User(p))' = Unused(User(p)) /\ User(p)' = User(p)
      BY <1>1, <2>1 DEF Unused, User
    <3>5. Asking(p) => User(p) \in Users
      BY <2>1 DEF RequestKnown, Asking
    <3> HIDE DEF k
    <3>6. /\ req'[p].pc = req[p].pc /\ req'[p].link = req[p].link /\ req'[p].user = req[p].user
          /\ req'[p].seen = req[p].seen
      BY <2>1
    <3>7. \A q \in Requests : Asking(q)' /\ req'[q].user = req[p].user => Asking(q) /\ User(q) = User(p)
      BY <2>2 DEF User
    <3>8. \A q \in Requests : req'[q].link = req[p].link => req[q].link = req[p].link
      BY <2>2
    <3>9. Asking(p) =>
            /\ req[p].link \in Links /\ link'[req[p].link] = NULL /\ uses'[req[p].link] = 0
            /\ account'[User(p)] # NULL
            /\ \A l \in req[p].seen : l \in Links /\ link'[l] # NULL /\ link'[l].user = User(p)
            /\ \A q \in Requests : req'[q].link = req[p].link => q = p
      BY <1>1, <2>1, <3>8 DEF AskingKnown
    <3>10. Asking(p) =>
            /\ RequestAt(p, "stamped") => ~IsMailed(req[p].link)'
            /\ RequestAt(p, "mailed") => <<req[p].link, User(p)>> \in mailed'
            /\ User(p) \notin overlapped' =>
                  /\ Unused(User(p))' \subseteq req[p].seen
                  /\ \A q \in Requests : Asking(q)' /\ req'[q].user = req[p].user => q = p
      BY <1>1, <2>1, <3>2, <3>3, <3>4, <3>5, <3>7 DEF AskingKnown
    <3> QED BY <3>1, <3>4, <3>6, <3>9, <3>10 DEF AskingKnown, RequestAt, User
  <2>4. ResettingKnown(p)'
    <3>1. \A q \in Requests : RequestAt(q, "revoked")' => req'[q] = req[q]
      BY <1>2, <1>3 DEF RequestAt
    <3> HIDE DEF k
    <3> QED BY <1>1, <2>1, <2>2, <3>1 DEF ResettingKnown, Resetting, RequestAt, User, Live
  <2> QED BY <2>1, <2>3, <2>4 DEF RequestKnown, Asking, Resetting, User
<1> QED BY <1>6, <1>7, <1>8, <1>9, <1>10, <1>11 DEF AccountsInv, RequestsAreKnown

\* Accounts, mails and sessions stay, and the links that resets hold.
LEMMA CommitForgotKeeps ==
    ASSUME AccountsInv, NEW r \in Requests, NEW u \in Users, NEW k \in Links,
           u = User(r), k = req[r].link, CommitForgot(r)
    PROVE  AccountsInv'
<1>1. /\ AccountsTypeOK /\ RequestAt(r, "mailed") /\ Asking(r) /\ End(r)
      /\ UNCHANGED <<gone, account, refresh, mailed, access, cache, begun, strays, overlapped, shared, uses, lost>>
  BY DEF AccountsInv, CommitForgot, RequestAt, Asking
<1>2. /\ link[k] = NULL /\ uses[k] = 0 /\ account[u] # NULL /\ <<k, u>> \in mailed
      /\ \A l \in req[r].seen : l \in Links /\ link[l] # NULL /\ link[l].user = u
      /\ \A p \in Requests : req[p].link = k => p = r
      /\ u \notin overlapped => /\ Unused(u) \subseteq req[r].seen
                                /\ \A p \in Requests : Asking(p) /\ User(p) = u => p = r
  BY <1>1 DEF AccountsInv, RequestsAreKnown, AskingKnown, User
<1>3. /\ req' \in [Requests -> RequestRows] /\ req'[r] = IdleRequest
      /\ \A p \in Requests : p # r => req'[p] = req[p]
  BY <1>1, IdleTyped, RequestMoves DEF End
<1>4. /\ link' \in [Links -> LinkRows \cup {NULL}] /\ link'[k] # NULL /\ link'[k].user = u /\ ~link'[k].used
      /\ \A l \in Links : l # k =>
            /\ link'[l] = NULL <=> link[l] = NULL
            /\ link[l] # NULL => /\ link'[l].user = link[l].user
                                 /\ link[l].used => link'[l].used
            /\ l \in req[r].seen => link'[l].used
  <2> DEFINE row == [user |-> u, used |-> FALSE]
  <2>1. row \in LinkRows /\ row # NULL
    <3>1. row \in LinkRows
      BY DEF LinkRows
    <3> QED BY <3>1, AccountRowAssumption
  <2>2. link' = [l \in Links |-> IF l = k THEN row
                                 ELSE IF l \in req[r].seen THEN [link[l] EXCEPT !.used = TRUE] ELSE link[l]]
    BY DEF CommitForgot
  <2>3. /\ link'[k] = row
        /\ \A l \in Links : l # k => /\ l \in req[r].seen => link'[l] = [link[l] EXCEPT !.used = TRUE]
                                     /\ l \notin req[r].seen => link'[l] = link[l]
        /\ DOMAIN link' = Links /\ link' = [l \in Links |-> link'[l]]
    BY <2>2
  <2>4. \A l \in Links : l \in req[r].seen => link[l] \in LinkRows /\ link[l] # NULL
    BY <1>1, <1>2 DEF AccountsTypeOK
  <2>5. row.user = u /\ row.used = FALSE
    OBVIOUS
  <2> HIDE DEF row
  <2>6. ASSUME NEW l \in Links, l # k, l \in req[r].seen
        PROVE  /\ link'[l] \in LinkRows /\ link'[l] # NULL /\ link[l] # NULL
               /\ link'[l].user = link[l].user /\ link'[l].used
    <3>1. link[l] \in LinkRows /\ link[l] # NULL /\ link'[l] = [link[l] EXCEPT !.used = TRUE]
      BY <2>3, <2>4, <2>6
    <3> QED BY <3>1, LinkRowsKept
  <2>7. \A l \in Links : link'[l] \in LinkRows \cup {NULL}
    BY <1>1, <2>1, <2>3, <2>6 DEF AccountsTypeOK
  <2>8. link' \in [Links -> LinkRows \cup {NULL}]
    BY <2>3, <2>7
  <2> QED BY <2>1, <2>3, <2>5, <2>6, <2>8
<1>5. \A l \in Links : link[l] # NULL => l # k
  BY <1>2
<1>6. AccountsTypeOK'
  <2>1. \A l \in Links : link'[l] # NULL => account[link'[l].user] # NULL
    BY <1>1, <1>2, <1>4 DEF AccountsTypeOK
  <2> QED BY <1>1, <1>3, <1>4, <2>1 DEF AccountsTypeOK
<1>7. LinksAreMailed'
  BY <1>1, <1>2, <1>4 DEF AccountsInv, LinksAreMailed, IsMailed
<1>8. LinksAreUsedOnce'
  BY <1>1, <1>2, <1>4 DEF AccountsInv, LinksAreUsedOnce
<1>9. OneUnused'
  <2> SUFFICES ASSUME NEW v \in Users, v \notin overlapped, NEW l \in Unused(v)', NEW m \in Unused(v)' PROVE l = m
    BY <1>1 DEF OneUnused
  <2>1. \A x \in Unused(v)' : x \in Links /\ (x = k \/ (x \in Unused(v) /\ x \notin req[r].seen))
    BY <1>4 DEF Unused
  <2>2. CASE v = u
    BY <1>2, <2>1, <2>2
  <2>3. CASE v # u
    <3>1. k \notin Unused(v)'
      BY <1>4, <2>3 DEF Unused
    <3> QED BY <2>1, <3>1 DEF AccountsInv, OneUnused
  <2> QED BY <2>2, <2>3
<1>10. SessionsDieWithThePassword'
  BY <1>1 DEF AccountsInv, SessionsDieWithThePassword, Live
<1>11. MailedLinkIsKnown'
  <2> SUFFICES ASSUME NEW x \in mailed
               PROVE  \/ link'[x[1]] # NULL
                      \/ \E p \in Requests : req'[p].link = x[1] /\ req'[p].pc = "mailed"
                      \/ x[1] \in lost
                      \/ account[x[2]] = NULL
    BY <1>1 DEF MailedLinkIsKnown, RequestAt
  <2>1. x[1] \in Links
    BY <1>1 DEF AccountsTypeOK
  <2>2. ASSUME NEW p \in Requests, req[p].link = x[1], RequestAt(p, "mailed")
        PROVE  link'[x[1]] # NULL \/ (req'[p].link = x[1] /\ req'[p].pc = "mailed")
    BY <1>3, <1>4, <2>2 DEF RequestAt
  <2> QED BY <1>4, <2>1, <2>2 DEF AccountsInv, MailedLinkIsKnown
<1>12. ASSUME NEW p \in Requests PROVE (RequestKnown(p) /\ AskingKnown(p) /\ ResettingKnown(p))'
  <2>1. CASE p = r
    BY <1>3, <2>1 DEF RequestKnown, AskingKnown, ResettingKnown, Asking, Resetting, RequestAt, IdleRequest
  <2>2. CASE p # r
    <3>1. /\ req'[p] = req[p] /\ RequestKnown(p) /\ AskingKnown(p) /\ ResettingKnown(p) /\ req[p].link # k
      BY <1>2, <1>3, <2>2 DEF AccountsInv, RequestsAreKnown
    <3>2. \A q \in Requests : req'[q] = req[q] \/ (req'[q].link = NULL /\ req'[q].pc = "idle")
      BY <1>3 DEF IdleRequest
    <3>3. AskingKnown(p)'
      <4> SUFFICES ASSUME Asking(p) PROVE AskingKnown(p)'
        BY <3>1 DEF AskingKnown, Asking
      <4>1. req[p].link \in Links /\ req[p].link # NULL /\ link'[req[p].link] = NULL
        BY <1>4, <3>1, AccountsAssumption DEF AskingKnown
      <4>2. \A l \in req[p].seen : l \in Links /\ link'[l] # NULL /\ link'[l].user = User(p)
        BY <1>2, <1>4, <3>1 DEF AskingKnown
      <4>3. User(p) \notin overlapped => Unused(User(p))' \subseteq req[p].seen
        <5> SUFFICES ASSUME User(p) \notin overlapped, NEW l \in Unused(User(p))' PROVE l \in req[p].seen
          OBVIOUS
        <5>1. User(p) # u
          BY <1>2, <2>2
        <5>2. User(p)' = User(p)
          BY <3>1 DEF User
        <5>3. l \in Unused(User(p))
          BY <1>4, <5>1, <5>2 DEF Unused
        <5> QED BY <3>1, <5>3 DEF AskingKnown
      <4>4. User(p) \notin overlapped => \A q \in Requests : Asking(q)' /\ User(q)' = User(p) => q = p
        BY <3>1, <3>2 DEF AskingKnown, Asking, User
      <4>5. User(p)' = User(p)
        BY <3>1 DEF User
      <4>6. \A q \in Requests : req'[q].link = req[p].link => q = p
        BY <3>1, <3>2, <4>1 DEF AskingKnown
      <4> QED BY <1>1, <3>1, <4>1, <4>2, <4>3, <4>4, <4>5, <4>6 DEF AskingKnown, RequestAt, IsMailed
    <3>4. ResettingKnown(p)'
      <4> SUFFICES ASSUME Resetting(p) PROVE ResettingKnown(p)'
        BY <3>1 DEF ResettingKnown, Resetting, RequestAt
      <4>1. req[p].link \in Links /\ req[p].link # NULL
        BY <3>1, AccountsAssumption DEF ResettingKnown
      <4>2. \A q \in Requests : /\ RequestAt(q, "revoked")' => req'[q] = req[q]
                                /\ req'[q].link = req[p].link => req'[q] = req[q]
        BY <3>2, <4>1 DEF RequestAt
      <4> QED BY <1>1, <1>4, <3>1, <4>1, <4>2 DEF ResettingKnown, Resetting, RequestAt, User, Live
    <3> QED BY <3>1, <3>3, <3>4 DEF RequestKnown, Asking, Resetting, User
  <2> QED BY <2>1, <2>2
<1> QED BY <1>6, <1>7, <1>8, <1>9, <1>10, <1>11, <1>12 DEF AccountsInv, RequestsAreKnown

\* A request that is making a link is not disturbed by those of other links.
LEMMA AskingStands ==
    ASSUME NEW p \in Requests, AskingKnown(p), req'[p] = req[p], UNCHANGED <<mailed, overlapped>>,
           Asking(p) => /\ link'[req[p].link] = NULL /\ uses'[req[p].link] = 0 /\ account'[User(p)] # NULL
                        /\ \A l \in req[p].seen : link'[l] # NULL /\ link'[l].user = User(p)
                        /\ \A l \in Links : link'[l] # NULL /\ link'[l].user = User(p) /\ ~link'[l].used
                                                => link[l] # NULL /\ link[l].user = User(p) /\ ~link[l].used
                        /\ \A q \in Requests : req'[q].link = req[p].link => q = p,
           \A q \in Requests : Asking(q)' => Asking(q) /\ User(q)' = User(q)
    PROVE  AskingKnown(p)'
<1> SUFFICES ASSUME Asking(p) PROVE AskingKnown(p)'
  BY DEF AskingKnown, Asking
<1>1. User(p)' = User(p)
  BY DEF User
<1>2. Unused(User(p))' \subseteq Unused(User(p))
  BY <1>1 DEF Unused
<1>3. User(p) \notin overlapped =>
          /\ Unused(User(p))' \subseteq req[p].seen
          /\ \A q \in Requests : Asking(q)' /\ User(q)' = User(p) => q = p
  BY <1>2 DEF AskingKnown
<1>4. IsMailed(req[p].link)' <=> IsMailed(req[p].link)
  BY DEF IsMailed
<1>5. /\ req[p].link \in Links
      /\ \A l \in req[p].seen : l \in Links
      /\ RequestAt(p, "stamped") => ~IsMailed(req[p].link)
      /\ RequestAt(p, "mailed") => <<req[p].link, User(p)>> \in mailed
  BY DEF AskingKnown
<1> QED BY <1>1, <1>3, <1>4, <1>5 DEF AskingKnown, RequestAt

\* Nor one that holds a link that is there to set a password.
LEMMA ResettingStands ==
    ASSUME NEW p \in Requests, ResettingKnown(p), req'[p] = req[p], UNCHANGED mailed, shared \subseteq shared',
           strays \subseteq strays',
           Resetting(p) =>
                /\ \/ User(p) \in gone'
                   \/ /\ account'[User(p)] # NULL
                      /\ link'[req[p].link] # NULL /\ link'[req[p].link].user = User(p)
                /\ req[p].link \notin shared' =>
                      /\ uses'[req[p].link] = 0
                      /\ \A q \in Requests : req'[q].link = req[p].link => q = p,
           RequestAt(p, "revoked") =>
                /\ account'[User(p)] # NULL
                /\ \A t \in req[p].seen : refresh'[t] # NULL /\ refresh'[t].user = User(p)
                /\ \A t \in Tokens : Live(t)' /\ refresh'[t].user = User(p)
                                        => Live(t) /\ refresh[t].user = User(p)
                /\ \A q \in Requests : RequestAt(q, "revoked")' /\ User(q)' = User(p) => q = p
    PROVE  ResettingKnown(p)'
<1>1. User(p)' = User(p) /\ (Resetting(p)' <=> Resetting(p)) /\ (RequestAt(p, "revoked")' <=> RequestAt(p, "revoked"))
  BY DEF User, Resetting, RequestAt
<1>2. ASSUME Resetting(p)
      PROVE  /\ req'[p].link \in Links /\ <<req'[p].link, User(p)>> \in mailed'
             /\ \/ User(p) \in gone'
                \/ /\ account'[User(p)] # NULL
                   /\ link'[req'[p].link] # NULL /\ link'[req'[p].link].user = User(p)
             /\ req'[p].link \notin shared' => /\ uses'[req'[p].link] = 0
                                            /\ \A q \in Requests : req'[q].link = req'[p].link => q = p
  BY <1>2 DEF ResettingKnown
<1>3. ASSUME RequestAt(p, "revoked")
      PROVE  /\ account'[User(p)] # NULL
             /\ \A t \in req'[p].seen : t \in Tokens /\ refresh'[t] # NULL /\ refresh'[t].user = User(p)
             /\ \A t \in Tokens : Live(t)' /\ refresh'[t].user = User(p) => t \in req'[p].seen \cup strays'
             /\ \A q \in Requests : RequestAt(q, "revoked")' /\ User(q)' = User(p) => q = p
  BY <1>3 DEF ResettingKnown
<1> QED BY <1>1, <1>2, <1>3 DEF ResettingKnown

LEMMA BeginPasswordResetKeeps ==
    ASSUME AccountsInv, NEW r \in Requests, BeginPasswordReset(r)
    PROVE  AccountsInv'
<1>1. PICK k \in Links :
          /\ link[k] # NULL /\ ~link[k].used /\ Start(r, "validated", link[k].user, k, NULL)
          /\ shared' = IF \E q \in Requests : req[q].link = k THEN shared \cup {k} ELSE shared
  BY DEF BeginPasswordReset
<1>2. /\ AccountsTypeOK
      /\ UNCHANGED <<gone, account, refresh, link, mailed, access, cache, strays, overlapped, uses, lost>>
  BY DEF AccountsInv, BeginPasswordReset
<1>3. PICK u \in Users : u = link[k].user /\ account[u] # NULL /\ <<k, u>> \in mailed
  BY <1>1, <1>2 DEF AccountsInv, AccountsTypeOK, LinkRows, LinksAreMailed
<1> DEFINE row == StartedRow("validated", u, k, NULL)
<1>4. row \in RequestRows /\ req' = [req EXCEPT ![r] = row] /\ begun' \in Nat /\ req[r] = IdleRequest
  BY <1>1, <1>2, <1>3, Started
<1>5. /\ row.pc = "validated" /\ row.user = u /\ row.link = k
      /\ IdleRequest.pc = "idle" /\ IdleRequest.link = NULL
  BY DEF StartedRow, IdleRequest
<1> HIDE DEF row
<1>6. /\ req' \in [Requests -> RequestRows] /\ req'[r] = row
      /\ \A p \in Requests : p # r => req'[p] = req[p]
  BY <1>2, <1>4, RequestMoves
<1>7. shared \subseteq shared' /\ shared' \subseteq Links
  BY <1>1, <1>2 DEF AccountsTypeOK
<1>8. AccountsTypeOK'
  BY <1>2, <1>4, <1>6, <1>7 DEF AccountsTypeOK
<1>9. LinksAreMailed' /\ LinksAreUsedOnce' /\ OneUnused' /\ SessionsDieWithThePassword'
  BY <1>2, <1>7, LinksStay
<1>10. MailedLinkIsKnown'
  <2>1. \A p \in Requests : RequestAt(p, "mailed") => req'[p] = req[p]
    BY <1>4, <1>5, <1>6 DEF RequestAt
  <2> QED BY <1>2, <2>1 DEF AccountsInv, MailedLinkIsKnown, RequestAt
<1>11. (RequestKnown(r) /\ AskingKnown(r) /\ ResettingKnown(r))'
  <2>1. k \notin shared' => uses[k] = 0
    BY <1>1, <1>7 DEF AccountsInv, LinksAreUsedOnce
  <2>2. k \notin shared' => \A p \in Requests : req'[p].link = k => p = r
    BY <1>1, <1>6
  <2>3. req'[r].pc = "validated" /\ req'[r].user = u /\ req'[r].link = k
    BY <1>5, <1>6
  <2>4. ResettingKnown(r)'
    BY <1>1, <1>2, <1>3, <2>1, <2>2, <2>3 DEF ResettingKnown, Resetting, RequestAt, User
  <2>5. RequestKnown(r)' /\ AskingKnown(r)'
    BY <2>3 DEF RequestKnown, AskingKnown, Asking, Resetting, User
  <2> QED BY <2>4, <2>5
<1>12. ASSUME NEW p \in Requests, p # r PROVE (RequestKnown(p) /\ AskingKnown(p) /\ ResettingKnown(p))'
  <2>1. req'[p] = req[p] /\ RequestKnown(p) /\ AskingKnown(p) /\ ResettingKnown(p)
    BY <1>6, <1>12 DEF AccountsInv, RequestsAreKnown
  <2>2. AskingKnown(p)'
    <3>1. \A q \in Requests : Asking(q)' => req'[q] = req[q]
      BY <1>5, <1>6 DEF Asking
    <3>2. Asking(p) => \A q \in Requests : req'[q].link = req[p].link => q = p
      BY <1>1, <1>5, <1>6, <2>1 DEF AskingKnown
    <3>3. Asking(p) => /\ link[req[p].link] = NULL /\ uses[req[p].link] = 0 /\ account[User(p)] # NULL
                       /\ \A l \in req[p].seen : link[l] # NULL /\ link[l].user = User(p)
      BY <2>1 DEF AskingKnown
    <3>4. \A q \in Requests : Asking(q)' => Asking(q) /\ User(q)' = User(q)
      BY <3>1 DEF Asking, User
    <3> QED BY <1>2, <2>1, <3>2, <3>3, <3>4, AskingStands
  <2>3. ResettingKnown(p)'
    <3>1. Resetting(p) /\ req[p].link \notin shared' => \A q \in Requests : req'[q].link = req[p].link => q = p
      BY <1>1, <1>5, <1>6, <1>7, <1>12, <2>1 DEF ResettingKnown
    <3>2. \A q \in Requests : RequestAt(q, "revoked")' => RequestAt(q, "revoked") /\ User(q)' = User(q)
      BY <1>5, <1>6 DEF RequestAt, User
    <3>3. \A t \in Tokens : Live(t)' <=> Live(t)
      BY <1>2 DEF Live
    <3>4. Resetting(p) => /\ \/ User(p) \in gone
                             \/ account[User(p)] # NULL /\ link[req[p].link] # NULL /\ link[req[p].link].user = User(p)
                          /\ req[p].link \notin shared' => uses[req[p].link] = 0
      BY <1>7, <2>1 DEF ResettingKnown
    <3>5. RequestAt(p, "revoked") =>
             /\ account[User(p)] # NULL
             /\ \A t \in req[p].seen : refresh[t] # NULL /\ refresh[t].user = User(p)
             /\ \A q \in Requests : RequestAt(q, "revoked")' /\ User(q)' = User(p) => q = p
      BY <2>1, <3>2 DEF ResettingKnown
    <3> QED BY <1>2, <1>7, <2>1, <3>1, <3>3, <3>4, <3>5, ResettingStands
  <2> QED BY <2>1, <2>2, <2>3 DEF RequestKnown, Asking, Resetting, User
<1> QED BY <1>8, <1>9, <1>10, <1>11, <1>12 DEF AccountsInv, RequestsAreKnown

LEMMA RevokeAllKeeps ==
    ASSUME AccountsInv, NEW r \in Requests, NEW u \in Users, u = User(r), RevokeAll(r)
    PROVE  AccountsInv'
<1>1. /\ AccountsTypeOK /\ RequestAt(r, "validated") /\ Resetting(r) /\ ~RequestAt(r, "mailed")
      /\ Holding(u, {"revoked"}) = {} /\ req[r] \in RequestRows
      /\ UNCHANGED <<gone, account, refresh, link, mailed, access, cache, begun, strays, overlapped, shared, uses, lost>>
  BY DEF AccountsInv, AccountsTypeOK, RevokeAll, RequestAt, Resetting
<1>2. CASE account[u] = NULL
  <2>1. req' \in [Requests -> RequestRows] /\ RequestsGo
    BY <1>1, <1>2, RequestEnds DEF RevokeAll
  <2> QED BY <1>1, <2>1, NothingButRequests DEF AccountsTypeOK
<1>3. CASE account[u] # NULL
  <2> DEFINE seen == Revocable(u)
             row == [req[r] EXCEPT !.pc = "revoked", !.seen = seen]
  <2>1. req' = [req EXCEPT ![r].pc = "revoked", ![r].seen = seen]
    BY <1>3 DEF RevokeAll
  <2>2. seen \in SUBSET Tokens /\ \A t \in seen : refresh[t] # NULL /\ refresh[t].user = u
    BY DEF Revocable, Live
  <2>3. \A t \in Tokens : Live(t) /\ refresh[t].user = u => t \in seen
    BY DEF Revocable
  <2> HIDE DEF seen
  <2>4. /\ row \in RequestRows /\ row.pc = "revoked" /\ row.user = u
        /\ row.link = req[r].link /\ row.seen = seen
    BY <1>1, <2>2 DEF RequestRows, User
  <2>5. req' = [req EXCEPT ![r] = row]
    <3> DEFINE one == [req EXCEPT ![r] = [req[r] EXCEPT !.pc = "revoked"]]
    <3>1. req' = [one EXCEPT ![r] = [one[r] EXCEPT !.seen = seen]]
      BY <2>1
    <3>2. one[r] = [req[r] EXCEPT !.pc = "revoked"]
      BY <1>1 DEF AccountsTypeOK
    <3>3. [one[r] EXCEPT !.seen = seen] = row
      BY <1>1, <3>2 DEF RequestRows
    <3> HIDE DEF row
    <3> QED BY <1>1, <3>1, <3>3 DEF AccountsTypeOK
  <2> HIDE DEF row
  <2>6. /\ req' \in [Requests -> RequestRows] /\ req'[r] = row
        /\ \A p \in Requests : p # r => req'[p] = req[p]
    BY <1>1, <2>4, <2>5, RequestMoves
  <2>7. AccountsTypeOK'
    BY <1>1, <2>6 DEF AccountsTypeOK
  <2>8. LinksAreMailed' /\ LinksAreUsedOnce' /\ OneUnused' /\ SessionsDieWithThePassword'
    BY <1>1, LinksStay
  <2>9. MailedLinkIsKnown'
    <3>1. \A p \in Requests : RequestAt(p, "mailed") => req'[p] = req[p]
      BY <1>1, <2>6
    <3> QED BY <1>1, <3>1 DEF AccountsInv, MailedLinkIsKnown, RequestAt
  <2>10. \A q \in Requests : req'[q].link = req[q].link /\ req'[q].user = req[q].user
    BY <2>4, <2>6 DEF User
  <2>11. (RequestKnown(r) /\ AskingKnown(r) /\ ResettingKnown(r))'
    <3>1. ResettingKnown(r)
      BY DEF AccountsInv, RequestsAreKnown
    <3>2. req'[r].pc = "revoked" /\ req'[r].user = u /\ req'[r].link = req[r].link /\ req'[r].seen = seen
      BY <2>4, <2>6
    <3>3. \A q \in Requests : RequestAt(q, "revoked")' /\ User(q)' = u => q = r
      BY <1>1, <2>6 DEF RequestAt, User, Holding
    <3>4. /\ req[r].link \in Links /\ <<req[r].link, u>> \in mailed
          /\ u \in gone \/ (account[u] # NULL /\ link[req[r].link] # NULL /\ link[req[r].link].user = u)
          /\ req[r].link \notin shared => /\ uses[req[r].link] = 0
                                          /\ \A q \in Requests : req[q].link = req[r].link => q = r
      BY <1>1, <3>1 DEF ResettingKnown, User
    <3>5. \A t \in Tokens : Live(t)' <=> Live(t)
      BY <1>1 DEF Live
    <3>6. ResettingKnown(r)'
      BY <1>1, <1>3, <2>2, <2>3, <2>10, <3>2, <3>3, <3>4, <3>5 DEF ResettingKnown, RequestAt, User
    <3>7. RequestKnown(r)' /\ AskingKnown(r)'
      BY <3>2 DEF RequestKnown, AskingKnown, Asking, Resetting, User
    <3> QED BY <3>6, <3>7
  <2>12. ASSUME NEW p \in Requests, p # r PROVE (RequestKnown(p) /\ AskingKnown(p) /\ ResettingKnown(p))'
    <3>1. req'[p] = req[p] /\ RequestKnown(p) /\ AskingKnown(p) /\ ResettingKnown(p)
      BY <2>6, <2>12 DEF AccountsInv, RequestsAreKnown
    <3>2. AskingKnown(p)'
      <4>1. \A q \in Requests : Asking(q)' => Asking(q) /\ User(q)' = User(q)
        BY <2>4, <2>6 DEF Asking, User
      <4>2. Asking(p) => /\ link[req[p].link] = NULL /\ uses[req[p].link] = 0 /\ account[User(p)] # NULL
                         /\ \A l \in req[p].seen : link[l] # NULL /\ link[l].user = User(p)
                         /\ \A q \in Requests : req'[q].link = req[p].link => q = p
        BY <2>10, <3>1 DEF AskingKnown
      <4> QED BY <1>1, <3>1, <4>1, <4>2, AskingStands
    <3>3. ResettingKnown(p)'
      <4>1. ASSUME RequestAt(p, "revoked"), NEW q \in Requests, RequestAt(q, "revoked")', User(q)' = User(p)
            PROVE  q = p
        <5>1. CASE q = r
          <6>1. p \in Holding(u, {"revoked"})
            BY <2>4, <2>6, <4>1, <5>1 DEF RequestAt, User, Holding
          <6> QED BY <1>1, <6>1
        <5>2. CASE q # r
          BY <2>6, <3>1, <4>1, <5>2 DEF RequestAt, User, ResettingKnown
        <5> QED BY <5>1, <5>2
      <4>2. \A t \in Tokens : Live(t)' <=> Live(t)
        BY <1>1 DEF Live
      <4>3. Resetting(p) => /\ \/ User(p) \in gone
                               \/ account[User(p)] # NULL /\ link[req[p].link] # NULL /\ link[req[p].link].user = User(p)
                            /\ req[p].link \notin shared =>
                                  /\ uses[req[p].link] = 0
                                  /\ \A q \in Requests : req'[q].link = req[p].link => q = p
        BY <2>10, <3>1 DEF ResettingKnown
      <4>4. RequestAt(p, "revoked") =>
               /\ account[User(p)] # NULL
               /\ \A t \in req[p].seen : refresh[t] # NULL /\ refresh[t].user = User(p)
        BY <3>1 DEF ResettingKnown
      <4> QED BY <1>1, <3>1, <4>1, <4>2, <4>3, <4>4, ResettingStands
    <3> QED BY <3>1, <3>2, <3>3 DEF RequestKnown, Asking, Resetting, User
  <2> QED BY <2>7, <2>8, <2>9, <2>11, <2>12 DEF AccountsInv, RequestsAreKnown
<1> QED BY <1>2, <1>3

LEMMA CommitPasswordResetKeeps ==
    ASSUME AccountsInv, NEW r \in Requests, NEW u \in Users, NEW k \in Links,
           u = User(r), k = req[r].link, CommitPasswordReset(r)
    PROVE  AccountsInv'
<1>1. /\ AccountsTypeOK /\ RequestAt(r, "revoked") /\ Resetting(r) /\ ~RequestAt(r, "mailed") /\ req[r].n \in Nat
      /\ End(r) /\ UNCHANGED <<gone, mailed, access, cache, begun, strays, overlapped, shared, lost>>
  BY RequestRow DEF AccountsInv, CommitPasswordReset, RequestAt, Resetting
<1>2. ResettingKnown(r)
  BY DEF AccountsInv, RequestsAreKnown
<1>3. /\ account[u] # NULL
      /\ \A t \in req[r].seen : t \in Tokens /\ refresh[t] # NULL /\ refresh[t].user = u
      /\ \A t \in Tokens : Live(t) /\ refresh[t].user = u => t \in req[r].seen \cup strays
      /\ \A p \in Requests : RequestAt(p, "revoked") /\ User(p) = u => p = r
  BY <1>1, <1>2 DEF ResettingKnown
<1>4. /\ <<k, u>> \in mailed /\ link[k] # NULL /\ link[k].user = u
      /\ k \notin shared => uses[k] = 0 /\ \A p \in Requests : req[p].link = k => p = r
  <2>1. u \notin gone
    BY <1>1, <1>3 DEF AccountsTypeOK
  <2> QED BY <1>1, <1>2, <2>1 DEF ResettingKnown, User
<1>5. /\ req' \in [Requests -> RequestRows] /\ req'[r] = IdleRequest
      /\ \A p \in Requests : p # r => req'[p] = req[p]
  BY <1>1, IdleTyped, RequestMoves DEF End
<1>6. /\ account' \in [Users -> AccountRows \cup {NULL}]
      /\ \A v \in Users : (account'[v] = NULL <=> account[v] = NULL) /\ (v # u => account'[v] = account[v])
  <2> DEFINE row == [account[u] EXCEPT !.password_hash = req[r].n]
  <2>1. account[u] \in AccountRows
    BY <1>1, <1>3 DEF AccountsTypeOK
  <2>2. row \in AccountRows /\ row # NULL
    <3>1. row \in AccountRows
      BY <1>1, <2>1, AccountRowsKept
    <3> QED BY <3>1, AccountRowAssumption
  <2>3. account' = [account EXCEPT ![u] = row]
    BY DEF CommitPasswordReset
  <2> HIDE DEF row
  <2> QED BY <1>1, <1>3, <2>2, <2>3 DEF AccountsTypeOK
<1>7. /\ link' \in [Links -> LinkRows \cup {NULL}]
      /\ link'[k] # NULL /\ link'[k].user = u /\ link'[k].used
      /\ \A l \in Links : l # k => link'[l] = link[l]
  <2> DEFINE row == [link[k] EXCEPT !.used = TRUE]
  <2>1. link[k] \in LinkRows
    BY <1>1, <1>4 DEF AccountsTypeOK
  <2>2. row \in LinkRows /\ row # NULL /\ row.user = link[k].user /\ row.used
    BY <2>1, LinkRowsKept
  <2>3. link' = [link EXCEPT ![k] = row]
    BY DEF CommitPasswordReset
  <2> HIDE DEF row
  <2> QED BY <1>1, <1>4, <2>2, <2>3 DEF AccountsTypeOK
<1>8. /\ refresh' \in [Tokens -> TokenRows \cup {NULL}]
      /\ \A t \in Tokens : /\ refresh'[t] = NULL <=> refresh[t] = NULL
                           /\ refresh[t] # NULL => /\ refresh'[t].user = refresh[t].user
                                                   /\ refresh'[t].password = refresh[t].password
                           /\ Live(t)' => Live(t) /\ t \notin req[r].seen
  <2>1. refresh' = [t \in Tokens |-> IF t \in req[r].seen THEN [refresh[t] EXCEPT !.revoked = TRUE] ELSE refresh[t]]
    BY DEF CommitPasswordReset
  <2>2. \A t \in Tokens : /\ t \in req[r].seen => refresh'[t] = [refresh[t] EXCEPT !.revoked = TRUE]
                          /\ t \notin req[r].seen => refresh'[t] = refresh[t]
    BY <2>1
  <2>3. ASSUME NEW t \in Tokens, t \in req[r].seen
        PROVE  /\ refresh'[t] \in TokenRows /\ refresh'[t] # NULL /\ refresh[t] # NULL
               /\ refresh'[t].user = refresh[t].user /\ refresh'[t].password = refresh[t].password
               /\ refresh'[t].revoked
    <3>1. refresh[t] \in TokenRows /\ refresh[t] # NULL /\ refresh'[t] = [refresh[t] EXCEPT !.revoked = TRUE]
      BY <1>1, <1>3, <2>2, <2>3 DEF AccountsTypeOK
    <3> QED BY <3>1, TokenRowsKept
  <2>4. refresh' \in [Tokens -> TokenRows \cup {NULL}]
    <3>1. \A t \in Tokens : refresh'[t] \in TokenRows \cup {NULL}
      BY <1>1, <2>2, <2>3 DEF AccountsTypeOK
    <3>2. DOMAIN refresh' = Tokens /\ refresh' = [t \in Tokens |-> refresh'[t]]
      BY <2>1
    <3> QED BY <3>1, <3>2
  <2>5. ASSUME NEW t \in Tokens, Live(t)' PROVE Live(t) /\ t \notin req[r].seen
    BY <2>2, <2>3, <2>5 DEF Live
  <2> QED BY <2>2, <2>3, <2>4, <2>5
<1>9. /\ uses' \in [Links -> Nat] /\ uses'[k] = uses[k] + 1
      /\ \A l \in Links : l # k => uses'[l] = uses[l]
  <2>1. uses' = [uses EXCEPT ![k] = uses[k] + 1]
    BY DEF CommitPasswordReset
  <2> QED BY <1>1, <2>1 DEF AccountsTypeOK
<1>10. AccountsTypeOK'
  <2>1. \A t \in Tokens : refresh'[t] # NULL => account'[refresh'[t].user] # NULL
    BY <1>1, <1>6, <1>8 DEF AccountsTypeOK, TokenRows
  <2>2. \A l \in Links : link'[l] # NULL => account'[link'[l].user] # NULL
    BY <1>1, <1>3, <1>6, <1>7 DEF AccountsTypeOK, LinkRows
  <2>3. gone \subseteq {v \in Users : account'[v] = NULL}
    BY <1>1, <1>6 DEF AccountsTypeOK
  <2> QED BY <1>1, <1>5, <1>6, <1>7, <1>8, <1>9, <2>1, <2>2, <2>3 DEF AccountsTypeOK
<1>11. LinksAreMailed'
  <2>1. \A x \in mailed : x[2] \in Users
    BY <1>1 DEF AccountsTypeOK
  <2> QED BY <1>1, <1>4, <1>6, <1>7, <1>9, <2>1 DEF AccountsInv, LinksAreMailed, IsMailed
<1>12. LinksAreUsedOnce'
  BY <1>1, <1>4, <1>7, <1>9 DEF AccountsInv, LinksAreUsedOnce
<1>13. OneUnused'
  <2>1. \A v \in Users : Unused(v)' \subseteq Unused(v)
    BY <1>7 DEF Unused
  <2> QED BY <1>1, <2>1 DEF AccountsInv, OneUnused
<1>14. SessionsDieWithThePassword'
  <2> SUFFICES ASSUME NEW t \in Tokens, Live(t)', t \notin strays
               PROVE  refresh'[t].password = account'[refresh'[t].user].password_hash
    BY <1>1 DEF SessionsDieWithThePassword
  <2>1. Live(t) /\ refresh[t] # NULL /\ t \notin req[r].seen
    BY <1>8 DEF Live
  <2>2. refresh[t].user \in Users /\ refresh[t].user # u
    BY <1>1, <1>3, <2>1 DEF AccountsTypeOK, TokenRows
  <2> QED BY <1>6, <1>8, <2>1, <2>2 DEF AccountsInv, SessionsDieWithThePassword
<1>15. MailedLinkIsKnown'
  <2> SUFFICES ASSUME NEW x \in mailed
               PROVE  \/ link'[x[1]] # NULL
                      \/ \E p \in Requests : req'[p].link = x[1] /\ req'[p].pc = "mailed"
                      \/ x[1] \in lost
                      \/ account'[x[2]] = NULL
    BY <1>1 DEF MailedLinkIsKnown, RequestAt
  <2>1. x[1] \in Links /\ x[2] \in Users
    BY <1>1 DEF AccountsTypeOK
  <2>2. \A p \in Requests : RequestAt(p, "mailed") => req'[p] = req[p]
    BY <1>1, <1>5
  <2> QED BY <1>6, <1>7, <2>1, <2>2 DEF AccountsInv, MailedLinkIsKnown, RequestAt
<1>16. ASSUME NEW p \in Requests PROVE (RequestKnown(p) /\ AskingKnown(p) /\ ResettingKnown(p))'
  <2>1. CASE p = r
    BY <1>5, <2>1 DEF RequestKnown, AskingKnown, ResettingKnown, Asking, Resetting, RequestAt, IdleRequest
  <2>2. CASE p # r
    <3>1. req'[p] = req[p] /\ RequestKnown(p) /\ AskingKnown(p) /\ ResettingKnown(p)
      BY <1>5, <2>2 DEF AccountsInv, RequestsAreKnown
    <3>2. \A q \in Requests : req'[q] = req[q] \/ (req'[q].link = NULL /\ req'[q].pc = "idle")
      BY <1>5 DEF IdleRequest
    <3>3. AskingKnown(p)'
      <4>1. \A q \in Requests : Asking(q)' => Asking(q) /\ User(q)' = User(q)
        BY <3>2 DEF Asking, User
      <4>2. ASSUME Asking(p)
            PROVE  /\ link'[req[p].link] = NULL /\ uses'[req[p].link] = 0 /\ account'[User(p)] # NULL
                   /\ \A l \in req[p].seen : link'[l] # NULL /\ link'[l].user = User(p)
                   /\ \A l \in Links : link'[l] # NULL /\ link'[l].user = User(p) /\ ~link'[l].used
                                           => link[l] # NULL /\ link[l].user = User(p) /\ ~link[l].used
                   /\ \A q \in Requests : req'[q].link = req[p].link => q = p
        <5>1. req[p].link \in Links /\ req[p].link # NULL /\ req[p].link # k /\ User(p) \in Users
          BY <1>4, <3>1, <4>2, AccountsAssumption DEF AskingKnown, RequestKnown, Asking
        <5>2. \A q \in Requests : req'[q].link = req[p].link => q = p
          BY <3>1, <3>2, <4>2, <5>1 DEF AskingKnown
        <5>3. \A l \in req[p].seen : link'[l] # NULL /\ link'[l].user = User(p)
          BY <1>4, <1>7, <3>1, <4>2 DEF AskingKnown
        <5>4. link'[req[p].link] = NULL /\ uses'[req[p].link] = 0 /\ account'[User(p)] # NULL
          BY <1>6, <1>7, <1>9, <3>1, <4>2, <5>1 DEF AskingKnown
        <5> QED BY <1>7, <5>2, <5>3, <5>4
      <4> QED BY <1>1, <3>1, <4>1, <4>2, AskingStands
    <3>4. ResettingKnown(p)'
      <4>1. ASSUME Resetting(p)
            PROVE  /\ \/ User(p) \in gone
                      \/ /\ account'[User(p)] # NULL
                         /\ link'[req[p].link] # NULL /\ link'[req[p].link].user = User(p)
                   /\ req[p].link \notin shared =>
                         /\ uses'[req[p].link] = 0
                         /\ \A q \in Requests : req'[q].link = req[p].link => q = p
        <5>1. req[p].link \in Links /\ req[p].link # NULL /\ User(p) \in Users
          BY <3>1, <4>1, AccountsAssumption DEF ResettingKnown, RequestKnown, Resetting
        <5>2. User(p) \in gone \/ (account[User(p)] # NULL /\ link[req[p].link] # NULL /\ link[req[p].link].user = User(p))
          BY <3>1, <4>1 DEF ResettingKnown
        <5>3. ASSUME req[p].link \notin shared
              PROVE  uses'[req[p].link] = 0 /\ \A q \in Requests : req'[q].link = req[p].link => q = p
          <6>1. uses[req[p].link] = 0 /\ \A q \in Requests : req[q].link = req[p].link => q = p
            BY <3>1, <4>1, <5>3 DEF ResettingKnown
          <6>2. req[p].link # k
            BY <2>2, <6>1
          <6> QED BY <1>9, <3>2, <5>1, <6>1, <6>2
        <5>4. link[req[p].link] # NULL => /\ link'[req[p].link] # NULL
                                          /\ link'[req[p].link].user = link[req[p].link].user
          BY <1>4, <1>7, <5>1
        <5> QED BY <1>6, <5>1, <5>2, <5>3, <5>4
      <4>2. ASSUME RequestAt(p, "revoked")
            PROVE  /\ account'[User(p)] # NULL
                   /\ \A t \in req[p].seen : refresh'[t] # NULL /\ refresh'[t].user = User(p)
                   /\ \A t \in Tokens : Live(t)' /\ refresh'[t].user = User(p)
                                           => Live(t) /\ refresh[t].user = User(p)
                   /\ \A q \in Requests : RequestAt(q, "revoked")' /\ User(q)' = User(p) => q = p
        <5>1. User(p) \in Users
          BY <3>1, <4>2 DEF RequestKnown, RequestAt
        <5>2. \A q \in Requests : RequestAt(q, "revoked")' => RequestAt(q, "revoked") /\ User(q)' = User(q)
          BY <3>2 DEF RequestAt, User
        <5>3. \A t \in Tokens : Live(t)' => Live(t) /\ refresh'[t].user = refresh[t].user
          BY <1>8 DEF Live
        <5> QED BY <1>6, <1>8, <3>1, <4>2, <5>1, <5>2, <5>3 DEF ResettingKnown
      <4> QED BY <1>1, <3>1, <4>1, <4>2, ResettingStands
    <3> QED BY <3>1, <3>3, <3>4 DEF RequestKnown, Asking, Resetting, User
  <2> QED BY <2>1, <2>2
<1> QED BY <1>10, <1>11, <1>12, <1>13, <1>14, <1>15, <1>16 DEF AccountsInv, RequestsAreKnown

LEMMA RemoveAccountKeeps ==
    ASSUME AccountsInv, NEW u \in Users, RemoveAccount(u), cache' \in [Users -> Entries \cup {NULL}]
    PROVE  AccountsInv'
<1>1. /\ AccountsTypeOK /\ account[u] # NULL /\ Holding(u, {"revoked", "stamped", "mailed"}) = {}
      /\ gone' = gone \cup {u}
      /\ UNCHANGED <<mailed, access, req, begun, strays, overlapped, shared, uses, lost>>
  BY DEF AccountsInv, RemoveAccount, Unlocked
<1>2. /\ account' \in [Users -> AccountRows \cup {NULL}] /\ account'[u] = NULL
      /\ \A v \in Users : v # u => account'[v] = account[v]
  BY <1>1 DEF RemoveAccount, AccountsTypeOK
<1>3. /\ refresh' \in [Tokens -> TokenRows \cup {NULL}]
      /\ \A t \in Tokens : /\ refresh'[t] # NULL => refresh'[t] = refresh[t] /\ refresh[t].user # u
                           /\ refresh[t] # NULL /\ refresh[t].user # u => refresh'[t] = refresh[t]
  <2>1. refresh' = [t \in Tokens |-> IF refresh[t] # NULL /\ refresh[t].user = u THEN NULL ELSE refresh[t]]
    BY DEF RemoveAccount
  <2> QED BY <1>1, <2>1 DEF AccountsTypeOK
<1>4. /\ link' \in [Links -> LinkRows \cup {NULL}]
      /\ \A k \in Links : /\ link'[k] # NULL => link'[k] = link[k] /\ link[k].user # u
                          /\ link[k] # NULL /\ link[k].user # u => link'[k] = link[k]
  <2>1. link' = [k \in Links |-> IF link[k] # NULL /\ link[k].user = u THEN NULL ELSE link[k]]
    BY DEF RemoveAccount
  <2> QED BY <1>1, <2>1 DEF AccountsTypeOK
<1>5. AccountsTypeOK'
  <2>1. \A t \in Tokens : refresh'[t] # NULL => account'[refresh'[t].user] # NULL
    BY <1>1, <1>2, <1>3 DEF AccountsTypeOK, TokenRows
  <2>2. \A k \in Links : link'[k] # NULL => account'[link'[k].user] # NULL
    BY <1>1, <1>2, <1>4 DEF AccountsTypeOK, LinkRows
  <2>3. gone' \subseteq {v \in Users : account'[v] = NULL}
    BY <1>1, <1>2 DEF AccountsTypeOK
  <2> QED BY <1>1, <1>2, <1>3, <1>4, <2>1, <2>2, <2>3 DEF AccountsTypeOK
<1>6. LinksAreMailed'
  <2>1. \A x \in mailed : x[2] \in Users
    BY <1>1 DEF AccountsTypeOK
  <2> QED BY <1>1, <1>2, <1>4, <2>1 DEF AccountsInv, LinksAreMailed, IsMailed
<1>7. LinksAreUsedOnce'
  BY <1>1, <1>4 DEF AccountsInv, LinksAreUsedOnce
<1>8. OneUnused'
  <2>1. \A v \in Users : Unused(v)' \subseteq Unused(v)
    BY <1>4 DEF Unused
  <2> QED BY <1>1, <2>1 DEF AccountsInv, OneUnused
<1>9. SessionsDieWithThePassword'
  <2> SUFFICES ASSUME NEW t \in Tokens, Live(t)', t \notin strays
               PROVE  refresh'[t].password = account'[refresh'[t].user].password_hash
    BY <1>1 DEF SessionsDieWithThePassword
  <2>1. Live(t) /\ refresh'[t] = refresh[t] /\ refresh[t].user # u /\ refresh[t].user \in Users
    BY <1>1, <1>3 DEF Live, AccountsTypeOK, TokenRows
  <2> QED BY <1>2, <2>1 DEF AccountsInv, SessionsDieWithThePassword
<1>10. MailedLinkIsKnown'
  <2> SUFFICES ASSUME NEW x \in mailed, account'[x[2]] # NULL
               PROVE  \/ link'[x[1]] # NULL
                      \/ \E p \in Requests : req[p].link = x[1] /\ RequestAt(p, "mailed")
                      \/ x[1] \in lost
    BY <1>1 DEF MailedLinkIsKnown, RequestAt
  <2>1. x[1] \in Links /\ x[2] \in Users /\ x[2] # u
    BY <1>1, <1>2 DEF AccountsTypeOK
  <2>2. link[x[1]] # NULL => link[x[1]].user = x[2]
    <3>1. ASSUME link[x[1]] # NULL PROVE <<x[1], link[x[1]].user>> \in mailed
      BY <2>1, <3>1 DEF AccountsInv, LinksAreMailed
    <3> QED BY <3>1 DEF AccountsInv, LinksAreMailed
  <2> QED BY <1>2, <1>4, <2>1, <2>2 DEF AccountsInv, MailedLinkIsKnown
<1>11. ASSUME NEW p \in Requests PROVE (RequestKnown(p) /\ AskingKnown(p) /\ ResettingKnown(p))'
  <2>1. req'[p] = req[p] /\ RequestKnown(p) /\ AskingKnown(p) /\ ResettingKnown(p)
    BY <1>1 DEF AccountsInv, RequestsAreKnown
  <2>2. Asking(p) \/ RequestAt(p, "revoked") => User(p) \in Users /\ User(p) # u
    BY <1>1, <2>1 DEF Asking, RequestAt, Holding, User, RequestKnown
  <2>3. \A q \in Requests : req'[q] = req[q]
    BY <1>1
  <2>4. AskingKnown(p)'
    <3>1. \A q \in Requests : Asking(q)' => Asking(q) /\ User(q)' = User(q)
      BY <2>3 DEF Asking, User
    <3>2. Asking(p) => /\ link'[req[p].link] = NULL /\ uses'[req[p].link] = 0 /\ account'[User(p)] # NULL
                       /\ \A l \in req[p].seen : link'[l] # NULL /\ link'[l].user = User(p)
                       /\ \A q \in Requests : req'[q].link = req[p].link => q = p
      BY <1>1, <1>2, <1>4, <2>1, <2>2, <2>3 DEF AskingKnown
    <3>3. \A l \in Links : link'[l] # NULL => link'[l] = link[l]
      BY <1>4
    <3> QED BY <1>1, <2>1, <3>1, <3>2, <3>3, AskingStands
  <2>5. ResettingKnown(p)'
    <3>1. ASSUME Resetting(p)
          PROVE  /\ \/ User(p) \in gone'
                    \/ /\ account'[User(p)] # NULL
                       /\ link'[req[p].link] # NULL /\ link'[req[p].link].user = User(p)
                 /\ req[p].link \notin shared =>
                       /\ uses'[req[p].link] = 0
                       /\ \A q \in Requests : req'[q].link = req[p].link => q = p
      <4>1. User(p) \in Users /\ req[p].link \in Links
        BY <2>1, <3>1 DEF ResettingKnown, RequestKnown, Resetting
      <4> QED BY <1>1, <1>2, <1>4, <2>1, <2>3, <3>1, <4>1 DEF ResettingKnown
    <3>2. \A t \in Tokens : Live(t)' => Live(t) /\ refresh'[t] = refresh[t]
      BY <1>3 DEF Live
    <3>3. RequestAt(p, "revoked") =>
             /\ account'[User(p)] # NULL
             /\ \A t \in req[p].seen : refresh'[t] # NULL /\ refresh'[t].user = User(p)
      BY <1>2, <1>3, <2>1, <2>2 DEF ResettingKnown
    <3>4. RequestAt(p, "revoked") =>
             \A q \in Requests : RequestAt(q, "revoked")' /\ User(q)' = User(p) => q = p
      BY <2>1, <2>3 DEF ResettingKnown, RequestAt, User
    <3> QED BY <1>1, <2>1, <3>1, <3>2, <3>3, <3>4, ResettingStands
  <2> QED BY <2>1, <2>4, <2>5 DEF RequestKnown, Asking, Resetting, User
<1> QED BY <1>5, <1>6, <1>7, <1>8, <1>9, <1>10, <1>11 DEF AccountsInv, RequestsAreKnown

-----------------------------------------------------------------------------
(* The invariant.                                                          *)

LEMMA AccountsInvInit == AccountsInit => AccountsInv
<1> SUFFICES ASSUME AccountsInit PROVE AccountsInv
  OBVIOUS
<1>1. AccountsTypeOK
  <2>1. account \in [Users -> AccountRows \cup {NULL}]
    <3>1. \A u \in Users : (u \in Admins) \in BOOLEAN
      OBVIOUS
    <3>2. \A u \in Users : NewAccount(0, u \in Admins) \in AccountRows
      BY <3>1, NewAccountTyped
    <3> QED BY <3>2 DEF AccountsInit
  <2>2. req \in [Requests -> RequestRows]
    BY IdleTyped DEF AccountsInit
  <2> QED BY <2>1, <2>2 DEF AccountsInit, AccountsTypeOK
<1>2. \A r \in Requests : req[r].pc = "idle" /\ req[r].link = NULL
  BY DEF AccountsInit, IdleRequest
<1>3. RequestsAreKnown
  BY <1>2 DEF RequestsAreKnown, RequestKnown, AskingKnown, ResettingKnown, Asking, Resetting, RequestAt
<1>4. LinksAreMailed /\ LinksAreUsedOnce /\ OneUnused
  BY DEF AccountsInit, LinksAreMailed, LinksAreUsedOnce, OneUnused, IsMailed, Unused
<1>5. SessionsDieWithThePassword /\ MailedLinkIsKnown
  BY DEF AccountsInit, SessionsDieWithThePassword, MailedLinkIsKnown, Live
<1> QED BY <1>1, <1>3, <1>4, <1>5 DEF AccountsInv

LEMMA AccountsInvStep == AccountsInv /\ [AccountsNext]_accountVars => AccountsInv'
<1> SUFFICES ASSUME AccountsInv, [AccountsNext]_accountVars PROVE AccountsInv'
  OBVIOUS
<1>1. ASSUME NEW r \in Requests, Steps(r) PROVE AccountsInv'
  <2>1. RequestKnown(r) /\ AskingKnown(r) /\ ResettingKnown(r)
    BY DEF AccountsInv, RequestsAreKnown
  <2>2. CASE \/ BeginSignup(r) \/ BeginLogin(r) \/ BeginForgot(r) \/ Miss(r) \/ Fill(r) \/ RequestStops(r)
    BY <2>2, QuietRequests
  <2>3. CASE CommitSignup(r)
    BY <2>3, CommitSignupKeeps
  <2>4. CASE IssueTokens(r)
    <3>1. User(r) \in Users
      BY <2>1, <2>4 DEF IssueTokens, RequestAt, RequestKnown
    <3> QED BY <2>4, <3>1, IssueTokensKeeps
  <2>5. CASE StampLinks(r)
    <3>1. User(r) \in Users
      BY <2>1, <2>5 DEF StampLinks, RequestAt, RequestKnown
    <3> QED BY <2>5, <3>1, StampLinksKeeps
  <2>6. CASE SendMail(r)
    <3>1. User(r) \in Users
      BY <2>1, <2>6 DEF SendMail, RequestAt, RequestKnown
    <3> QED BY <2>6, <3>1, SendMailKeeps
  <2>7. CASE CommitForgot(r)
    <3>1. User(r) \in Users /\ req[r].link \in Links
      BY <2>1, <2>7 DEF CommitForgot, RequestAt, RequestKnown, AskingKnown, Asking
    <3> QED BY <2>7, <3>1, CommitForgotKeeps
  <2>8. CASE BeginPasswordReset(r)
    BY <2>8, BeginPasswordResetKeeps
  <2>9. CASE RevokeAll(r)
    <3>1. User(r) \in Users
      BY <2>1, <2>9 DEF RevokeAll, RequestAt, RequestKnown
    <3> QED BY <2>9, <3>1, RevokeAllKeeps
  <2>10. CASE CommitPasswordReset(r)
    <3>1. User(r) \in Users /\ req[r].link \in Links
      BY <2>1, <2>10 DEF CommitPasswordReset, RequestAt, RequestKnown, ResettingKnown, Resetting
    <3> QED BY <2>10, <3>1, CommitPasswordResetKeeps
  <2> QED BY <1>1, <2>2, <2>3, <2>4, <2>5, <2>6, <2>7, <2>8, <2>9, <2>10 DEF Steps
<1>2. ASSUME NEW t \in Tokens, RefreshAccessToken(t) \/ Logout(t) PROVE AccountsInv'
  BY <1>2, QuietCalls, LogoutKeeps
<1>3. ASSUME NEW u \in Users, Lapses(u) \/ UpdateMe(u) \/ DeleteMe(u) PROVE AccountsInv'
  <2>1. CASE Lapses(u) \/ UpdateMe(u)
    BY <2>1, QuietCalls
  <2>2. CASE DeleteMe(u)
    <3>1. RemoveAccount(u) /\ cache' \in [Users -> Entries \cup {NULL}]
      BY <2>2 DEF DeleteMe, AccountsInv, AccountsTypeOK
    <3> QED BY <3>1, RemoveAccountKeeps
  <2> QED BY <1>3, <2>1, <2>2
<1>4. ASSUME NEW a \in Users, NEW u \in Users, AdminUpdates(a, u) \/ AdminDeletes(a, u) PROVE AccountsInv'
  <2>1. CASE AdminUpdates(a, u)
    BY <2>1, AdminUpdatesKeeps
  <2>2. CASE AdminDeletes(a, u)
    <3>1. RemoveAccount(u) /\ cache' \in [Users -> Entries \cup {NULL}]
      BY <2>2 DEF AdminDeletes, AccountsInv, AccountsTypeOK
    <3> QED BY <3>1, RemoveAccountKeeps
  <2> QED BY <1>4, <2>1, <2>2
<1>5. CASE UNCHANGED accountVars
  <2>1. /\ req' \in [Requests -> RequestRows] /\ begun' \in Nat
        /\ cache' \in [Users -> Entries \cup {NULL}] /\ access' \subseteq Users /\ lost' \subseteq Links
    BY <1>5 DEF AccountsInv, AccountsTypeOK, accountVars
  <2>2. RequestsGo
    BY <1>5 DEF RequestsGo, accountVars
  <2> QED BY <1>5, <2>1, <2>2, NothingButRequests DEF accountVars
<1> QED BY <1>1, <1>2, <1>3, <1>4, <1>5 DEF AccountsNext

\* A set of equals has at most one member.
LEMMA AtMostOne ==
    ASSUME NEW S, \A x, y \in S : x = y
    PROVE  Cardinality(S) <= 1
<1>1. CASE S = {}
  BY <1>1, FS_EmptySet
<1>2. ASSUME NEW x \in S PROVE Cardinality(S) <= 1
  <2>1. S = {x}
    OBVIOUS
  <2> QED BY <2>1, FS_Singleton
<1> QED BY <1>1, <1>2

LEMMA AccountsInvImplies == AccountsInv => ResetsAreSound
<1> SUFFICES ASSUME AccountsInv PROVE ResetsAreSound
  OBVIOUS
<1>1. OneLinkAtATime
  <2> SUFFICES ASSUME NEW u \in Users, u \notin overlapped PROVE Cardinality(Unused(u)) <= 1
    BY DEF OneLinkAtATime
  <2>1. \A k, l \in Unused(u) : k = l
    BY DEF AccountsInv, OneUnused
  <2> QED BY <2>1, AtMostOne
<1>2. LinkWorksOnce
  BY DEF AccountsInv, LinksAreUsedOnce, LinkWorksOnce
<1> QED BY <1>1, <1>2 DEF AccountsInv, ResetsAreSound

\* Whatever the number of accounts, links and requests, a forgotten password is reset as promised:
\* the link in a mail is known, is the only unused one and sets one password, and the sessions of
\* the old password end, but for the races that ResetsAreSound names
\* (request_password_reset.py, reset_password_with_token.py, refresh tokens and account deletion).
THEOREM ResetsStaySound == AccountsSpec => []ResetsAreSound
<1>1. AccountsInit => AccountsInv
  BY AccountsInvInit
<1>2. AccountsInv /\ [AccountsNext]_accountVars => AccountsInv'
  BY AccountsInvStep
<1>3. AccountsInv => ResetsAreSound
  BY AccountsInvImplies
<1> QED BY <1>1, <1>2, <1>3, PTL DEF AccountsSpec

-----------------------------------------------------------------------------
(* Interviews.                                                             *)

\* What was posted was answered, once.
TurnsAreAcked ==
    \A i \in Interviews : interview[i] # NULL =>
        /\ IsInjective(interview[i].turns)
        /\ \A n \in ToSet(interview[i].turns) : <<n, i>> \in acked

\* A post works on the interview as it is, alone.
HeldFor(c) ==
    LET i == call[c].interview  seen == call[c].seen
    IN  /\ interview[i] = seen /\ seen.status = "in_progress"
        /\ call[c].n \notin ToSet(seen.turns)
        /\ \A d \in Callers : call[d].pc = "orchestrating" /\ call[d].interview = i => d = c

\* A completion works on the interview as it was: what came since is marked overtaken.
ReadFor(c) ==
    LET i == call[c].interview  seen == call[c].seen
    IN  /\ Len(seen.turns) >= MinTeamTurns
        /\ call[c].force \/ MissingDomains(seen.coverage) = {}
        /\ interview[i] # NULL =>
              /\ ToSet(seen.turns) \subseteq ToSet(interview[i].turns)
              /\ \A n \in ToSet(interview[i].turns) \ ToSet(seen.turns) : <<n, i>> \in overtaken

CallsAreReal ==
    \A c \in Callers : call[c].pc # "idle" =>
        /\ call[c].interview \in Interviews /\ call[c].seen # NULL /\ call[c].n \in 1 .. calls
        /\ IsInjective(call[c].seen.turns)
        /\ \A n \in ToSet(call[c].seen.turns) : <<n, call[c].interview>> \in acked
        /\ call[c].pc = "orchestrating" => HeldFor(c)
        /\ call[c].pc = "reporting" => ReadFor(c)

\* Who completed the interview was told of the report there is.
ToldIsTheReport ==
    \A x \in told : \/ interview[x[2]] = NULL
                    \/ report[x[2]] # NULL /\ report[x[2]].id = x[1]

InterviewsInv ==
    /\ InterviewsTypeOK
    /\ TurnsAreAcked /\ CallsAreReal /\ ToldIsTheReport
    /\ AnsweredTurnsStay /\ ReportIsOfTheInterview /\ OneReport

-----------------------------------------------------------------------------
(* Turns as a sequence and as a set.                                       *)

\* A turn appended is one more turn, told apart from the others if it is new.
LEMMA AppendedTurn ==
    ASSUME NEW s \in Seq(Nat), NEW n \in Nat
    PROVE  /\ Append(s, n) \in Seq(Nat)
           /\ ToSet(Append(s, n)) = ToSet(s) \cup {n}
           /\ IsInjective(s) /\ n \notin ToSet(s) => IsInjective(Append(s, n))
<1>1. Append(s, n) \in Seq(Nat) /\ Len(Append(s, n)) = Len(s) + 1
  OBVIOUS
<1>2. /\ DOMAIN s = 1 .. Len(s) /\ Len(s) \in Nat
      /\ DOMAIN Append(s, n) = 1 .. Len(s) + 1
      /\ \A k \in 1 .. Len(s) : Append(s, n)[k] = s[k]
      /\ Append(s, n)[Len(s) + 1] = n
  OBVIOUS
<1>3. ToSet(Append(s, n)) = ToSet(s) \cup {n}
  <2>1. ASSUME NEW x \in ToSet(Append(s, n)) PROVE x \in ToSet(s) \cup {n}
    <3>1. PICK k \in 1 .. Len(s) + 1 : x = Append(s, n)[k]
      BY <1>2 DEF ToSet
    <3>2. k \in 1 .. Len(s) \/ k = Len(s) + 1
      BY <1>2
    <3> QED BY <1>2, <3>1, <3>2 DEF ToSet
  <2>2. ASSUME NEW x \in ToSet(s) \cup {n} PROVE x \in ToSet(Append(s, n))
    <3>1. CASE x = n
      <4>1. Len(s) + 1 \in 1 .. Len(s) + 1
        BY <1>2
      <4> QED BY <1>2, <3>1, <4>1 DEF ToSet
    <3>2. CASE x \in ToSet(s)
      <4>1. PICK k \in 1 .. Len(s) : x = s[k]
        BY <1>2, <3>2 DEF ToSet
      <4>2. k \in 1 .. Len(s) + 1
        BY <1>2
      <4> QED BY <1>2, <4>1, <4>2 DEF ToSet
    <3> QED BY <3>1, <3>2
  <2> QED BY <2>1, <2>2
<1>4. ASSUME IsInjective(s), n \notin ToSet(s), NEW a \in 1 .. Len(s) + 1, NEW b \in 1 .. Len(s) + 1,
             Append(s, n)[a] = Append(s, n)[b]
      PROVE  a = b
  <2>1. \A k \in 1 .. Len(s) : s[k] \in ToSet(s)
    BY <1>2 DEF ToSet
  <2>2. /\ a \in 1 .. Len(s) \/ a = Len(s) + 1
        /\ b \in 1 .. Len(s) \/ b = Len(s) + 1
    BY <1>2
  <2>3. \A j, k \in 1 .. Len(s) : s[j] = s[k] => j = k
    BY <1>2, <1>4 DEF IsInjective
  <2> QED BY <1>2, <1>4, <2>1, <2>2, <2>3
<1> QED BY <1>1, <1>2, <1>3, <1>4 DEF IsInjective

\* As many turns as there are places, where no turn is there twice.
LEMMA TurnsCount ==
    ASSUME NEW s \in Seq(Nat), IsInjective(s)
    PROVE  Cardinality(ToSet(s)) = Len(s)
<1>1. DOMAIN s = 1 .. Len(s) /\ Len(s) \in Nat
  OBVIOUS
<1>2. s \in [1 .. Len(s) -> ToSet(s)]
  BY <1>1 DEF ToSet
<1>3. \A x \in ToSet(s) : \E k \in 1 .. Len(s) : s[k] = x
  BY <1>1 DEF ToSet
<1>4. s \in Bijection(1 .. Len(s), ToSet(s))
  BY <1>2, <1>3 DEF Bijection, Injection, Surjection
<1> QED BY <1>1, <1>4, FS_CountingElements DEF ExistsBijection

-----------------------------------------------------------------------------
(* Interviews keep what was said and get one report.                       *)

LEMMA NewInterview ==
    ASSUME InterviewsInv, NEW i \in Interviews, CreateInterview(i)
    PROVE  InterviewsInv'
<1> DEFINE row == [status |-> "in_progress", turns |-> <<>>, coverage |-> NoCoverage, evidence |-> {}]
<1>1. /\ row \in InterviewRows /\ row # NULL
      /\ row.turns = <<>> /\ row.evidence = {} /\ row.status = "in_progress"
  <2>1. <<>> \in Seq(Nat)
    OBVIOUS
  <2>2. NoCoverage \in Coverages
    BY DEF NoCoverage, Coverages
  <2>3. row \in InterviewRows
    BY <2>1, <2>2 DEF InterviewRows
  <2> QED BY <2>3, InterviewRowAssumption
<1>2. ToSet(<<>>) = {} /\ IsInjective(<<>>)
  BY DEF ToSet, IsInjective
<1>3. /\ interview[i] = NULL /\ interview' = [interview EXCEPT ![i] = row]
      /\ \A x \in acked \cup told : x[2] # i
      /\ UNCHANGED <<report, call, calls, acked, overtaken, told>>
  BY DEF CreateInterview
<1> HIDE DEF row
<1>4. /\ interview' \in [Interviews -> InterviewRows \cup {NULL}]
      /\ interview'[i] = row
      /\ \A j \in Interviews : j # i => interview'[j] = interview[j]
  BY <1>1, <1>3 DEF InterviewsInv, InterviewsTypeOK
<1>5. report[i] = NULL
  BY <1>3 DEF InterviewsInv, InterviewsTypeOK
<1>6. InterviewsTypeOK'
  BY <1>1, <1>2, <1>3, <1>4, <1>5 DEF InterviewsInv, InterviewsTypeOK, IsInterview
<1>7. TurnsAreAcked'
  BY <1>1, <1>2, <1>3, <1>4 DEF InterviewsInv, TurnsAreAcked
<1>8. CallsAreReal'
  <2> SUFFICES ASSUME NEW c \in Callers, call[c].pc # "idle"
               PROVE  /\ call[c].pc = "orchestrating" => HeldFor(c)'
                      /\ call[c].pc = "reporting" => ReadFor(c)'
    BY <1>3 DEF InterviewsInv, CallsAreReal
  <2>1. /\ call[c].interview \in Interviews /\ call[c].seen # NULL
        /\ \A n \in ToSet(call[c].seen.turns) : <<n, call[c].interview>> \in acked
        /\ call[c].pc = "orchestrating" => HeldFor(c)
        /\ call[c].pc = "reporting" => ReadFor(c)
    BY DEF InterviewsInv, CallsAreReal
  <2>2. CASE call[c].interview # i
    BY <1>3, <1>4, <2>1, <2>2 DEF HeldFor, ReadFor
  <2>3. CASE call[c].interview = i
    <3>1. call[c].pc # "orchestrating"
      BY <1>3, <2>1, <2>3 DEF HeldFor
    <3>2. ToSet(call[c].seen.turns) = {}
      <4>1. ASSUME NEW n \in ToSet(call[c].seen.turns) PROVE FALSE
        <5>1. <<n, i>> \in acked \cup told /\ <<n, i>>[2] = i
          BY <2>1, <2>3
        <5> QED BY <1>3, <5>1
      <4> QED BY <4>1
    <3> QED BY <1>1, <1>2, <1>3, <1>4, <2>1, <2>3, <3>1, <3>2 DEF ReadFor
  <2> QED BY <2>2, <2>3
<1>9. ToldIsTheReport' /\ AnsweredTurnsStay'
  <2>1. \A x \in acked \cup told : x[2] \in Interviews /\ x[2] # i
    BY <1>3 DEF InterviewsInv, InterviewsTypeOK
  <2> QED BY <1>3, <1>4, <2>1 DEF InterviewsInv, ToldIsTheReport, AnsweredTurnsStay
<1>10. ReportIsOfTheInterview'
  BY <1>1, <1>2, <1>3, <1>4, <1>5 DEF InterviewsInv, ReportIsOfTheInterview
<1>11. OneReport'
  BY <1>3 DEF InterviewsInv, OneReport
<1> QED BY <1>6, <1>7, <1>8, <1>9, <1>10, <1>11 DEF InterviewsInv

LEMMA ToldAgain ==
    ASSUME InterviewsInv, NEW i \in Interviews, CompleteAgain(i)
    PROVE  InterviewsInv'
<1>1. /\ report[i] # NULL /\ told' = told \cup {<<report[i].id, i>>}
      /\ UNCHANGED <<interview, report, call, calls, acked, overtaken>>
  BY DEF CompleteAgain
<1>2. interview[i] # NULL /\ report[i].id \in 1 .. calls
  BY <1>1 DEF InterviewsInv, InterviewsTypeOK
<1>3. InterviewsTypeOK'
  BY <1>1, <1>2 DEF InterviewsInv, InterviewsTypeOK, IsInterview
<1>4. TurnsAreAcked' /\ AnsweredTurnsStay' /\ ReportIsOfTheInterview'
  BY <1>1 DEF InterviewsInv, TurnsAreAcked, AnsweredTurnsStay, ReportIsOfTheInterview
<1>5. CallsAreReal'
  BY <1>1 DEF InterviewsInv, CallsAreReal, HeldFor, ReadFor
<1>6. ToldIsTheReport'
  BY <1>1, <1>2 DEF InterviewsInv, ToldIsTheReport
<1>7. OneReport'
  <2> SUFFICES ASSUME NEW x \in told', NEW y \in told', x[2] = y[2]
               PROVE  x[1] = y[1]
    BY DEF OneReport
  <2>1. \A z \in told : z[2] = i => z[1] = report[i].id
    BY <1>1, <1>2 DEF InterviewsInv, ToldIsTheReport
  <2> QED BY <1>1, <2>1 DEF InterviewsInv, OneReport
<1> QED BY <1>3, <1>4, <1>5, <1>6, <1>7 DEF InterviewsInv

\* A request that begins, of either kind.
LEMMA CallBegins ==
    ASSUME InterviewsInv, NEW c \in Callers, NEW i \in Interviews, interview[i] # NULL,
           NEW pc \in {"orchestrating", "reporting"}, NEW force \in BOOLEAN, Begin(c, pc, i, force),
           UNCHANGED <<interview, report, acked, overtaken, told>>,
           pc = "orchestrating" => interview[i].status = "in_progress" /\ Engaged(i, "orchestrating") = {},
           pc = "reporting" => CanComplete(interview[i], force)
    PROVE  InterviewsInv'
<1> DEFINE row == [pc |-> pc, n |-> calls + 1, interview |-> i, seen |-> interview[i], force |-> force]
<1>1. /\ interview[i] \in InterviewRows /\ IsInterview(interview[i])
      /\ IsInjective(interview[i].turns) /\ calls \in Nat /\ MaxCalls \in Nat
      /\ \A n \in ToSet(interview[i].turns) : <<n, i>> \in acked
  BY InterviewsAssumption DEF InterviewsInv, InterviewsTypeOK, TurnsAreAcked
<1>2. /\ row \in CallRows /\ row.pc = pc /\ row.n = calls + 1 /\ row.interview = i
      /\ row.seen = interview[i] /\ row.force = force
  BY <1>1 DEF CallRows
<1>3. /\ calls < MaxCalls /\ calls' = calls + 1 /\ call' = [call EXCEPT ![c] = row]
      /\ call[c] = IdleCall
  BY DEF Begin
<1> HIDE DEF row
<1>4. /\ call' \in [Callers -> CallRows] /\ call'[c] = row
      /\ \A d \in Callers : d # c => call'[d] = call[d]
  BY <1>2, <1>3 DEF InterviewsInv, InterviewsTypeOK
<1>5. calls' \in 0 .. MaxCalls /\ 1 .. calls \subseteq 1 .. calls' /\ calls + 1 \in 1 .. calls'
  BY <1>1, <1>3
<1>6. \A r : IsInterview(r) => IsInterview(r)'
  BY <1>5 DEF IsInterview
<1>7. InterviewsTypeOK'
  <2>1. \A d \in Callers : call'[d].n \in 0 .. calls' /\ (call'[d].seen # NULL => IsInterview(call[d].seen)')
    <3> SUFFICES ASSUME NEW d \in Callers
                 PROVE  call'[d].n \in 0 .. calls' /\ (call'[d].seen # NULL => IsInterview(call[d].seen)')
      OBVIOUS
    <3>1. CASE d = c
      BY <1>1, <1>2, <1>4, <1>5, <1>6, <3>1 DEF IsInterview
    <3>2. CASE d # c
      <4>1. call[d].n \in 0 .. calls /\ (call[d].seen # NULL => IsInterview(call[d].seen))
        BY DEF InterviewsInv, InterviewsTypeOK
      <4> QED BY <1>1, <1>3, <1>4, <1>5, <3>2, <4>1 DEF IsInterview
    <3> QED BY <3>1, <3>2
  <2> QED BY <1>4, <1>5, <2>1 DEF InterviewsInv, InterviewsTypeOK, IsInterview
<1>8. CallsAreReal'
  <2> SUFFICES ASSUME NEW d \in Callers, call'[d].pc # "idle"
               PROVE  /\ call'[d].interview \in Interviews /\ call'[d].seen # NULL /\ call'[d].n \in 1 .. calls'
                      /\ IsInjective(call'[d].seen.turns)
                      /\ \A n \in ToSet(call'[d].seen.turns) : <<n, call'[d].interview>> \in acked'
                      /\ call'[d].pc = "orchestrating" => HeldFor(d)'
                      /\ call'[d].pc = "reporting" => ReadFor(d)'
    BY DEF CallsAreReal
  <2>1. CASE d = c
    <3>1. calls + 1 \notin ToSet(interview[i].turns)
      BY <1>1 DEF IsInterview
    <3>2. ASSUME pc = "orchestrating" PROVE HeldFor(c)'
      <4>1. \A e \in Callers : call[e].pc = "orchestrating" => call[e].interview # i
        BY <3>2 DEF Engaged
      <4> QED BY <1>2, <1>4, <3>1, <3>2, <4>1 DEF HeldFor
    <3>3. ASSUME pc = "reporting" PROVE ReadFor(c)'
      BY <1>2, <1>4, <3>3 DEF ReadFor, CanComplete
    <3> QED BY <1>1, <1>2, <1>4, <1>5, <2>1, <3>2, <3>3
  <2>2. CASE d # c
    <3>1. /\ call[d].interview \in Interviews /\ call[d].seen # NULL /\ call[d].n \in 1 .. calls
          /\ IsInjective(call[d].seen.turns)
          /\ \A n \in ToSet(call[d].seen.turns) : <<n, call[d].interview>> \in acked
          /\ call[d].pc = "orchestrating" => HeldFor(d)
          /\ call[d].pc = "reporting" => ReadFor(d)
      BY <1>4, <2>2 DEF InterviewsInv, CallsAreReal
    <3>2. ASSUME call[d].pc = "orchestrating" PROVE HeldFor(d)'
      <4>1. pc = "orchestrating" => call[d].interview # i
        BY <3>2 DEF Engaged
      <4> QED BY <1>2, <1>4, <2>2, <3>1, <3>2, <4>1 DEF HeldFor
    <3>3. ASSUME call[d].pc = "reporting" PROVE ReadFor(d)'
      BY <1>4, <2>2, <3>1, <3>3 DEF ReadFor
    <3> QED BY <1>4, <1>5, <2>2, <3>1, <3>2, <3>3
  <2> QED BY <2>1, <2>2
<1>9. TurnsAreAcked' /\ AnsweredTurnsStay' /\ ReportIsOfTheInterview' /\ OneReport' /\ ToldIsTheReport'
  BY DEF InterviewsInv, TurnsAreAcked, AnsweredTurnsStay, ReportIsOfTheInterview, OneReport, ToldIsTheReport
<1> QED BY <1>7, <1>8, <1>9 DEF InterviewsInv

\* What is known of a request in flight.
LEMMA CallKnown ==
    ASSUME InterviewsInv, NEW c \in Callers, call[c].pc # "idle"
    PROVE  /\ call[c] \in CallRows /\ call[c].interview \in Interviews
           /\ call[c].seen \in InterviewRows /\ IsInterview(call[c].seen)
           /\ call[c].n \in 1 .. calls
           /\ IsInjective(call[c].seen.turns)
           /\ \A n \in ToSet(call[c].seen.turns) : <<n, call[c].interview>> \in acked
           /\ call[c].pc = "orchestrating" => HeldFor(c)
           /\ call[c].pc = "reporting" => ReadFor(c)
BY DEF InterviewsInv, InterviewsTypeOK, CallsAreReal, CallRows

\* A request that ends changes nothing about the others.
LEMMA CallEnds ==
    ASSUME InterviewsInv, NEW c \in Callers, Finish(c)
    PROVE  /\ call' \in [Callers -> CallRows] /\ call'[c] = IdleCall
           /\ \A d \in Callers : d # c => call'[d] = call[d]
<1>1. IdleCall \in CallRows
  BY DEF IdleCall, CallRows
<1> QED BY <1>1 DEF InterviewsInv, InterviewsTypeOK, Finish

\* The columns that a post writes, one after the other.
LEMMA Rewritten ==
    ASSUME NEW r \in InterviewRows, NEW t \in Seq(Nat), NEW v \in Coverages, NEW e \in SUBSET Nat
    PROVE  [[[r EXCEPT !.turns = t] EXCEPT !.coverage = v] EXCEPT !.evidence = e]
              = [status |-> r.status, turns |-> t, coverage |-> v, evidence |-> e]
<1> DEFINE one == [r EXCEPT !.turns = t]
           two == [one EXCEPT !.coverage = v]
           three == [two EXCEPT !.evidence = e]
<1>1. one \in InterviewRows /\ one.status = r.status /\ one.turns = t
  BY DEF InterviewRows
<1> HIDE DEF one
<1>2. two \in InterviewRows /\ two.status = r.status /\ two.turns = t /\ two.coverage = v
  BY <1>1 DEF InterviewRows
<1> HIDE DEF two
<1>3. /\ three \in InterviewRows
      /\ three.status = r.status /\ three.turns = t /\ three.coverage = v /\ three.evidence = e
  BY <1>2 DEF InterviewRows
<1> HIDE DEF three
<1>4. three = [status |-> r.status, turns |-> t, coverage |-> v, evidence |-> e]
  BY <1>3 DEF InterviewRows
<1> QED BY <1>4 DEF three, two, one

LEMMA Posted ==
    ASSUME InterviewsInv, NEW c \in Callers, CommitPost(c)
    PROVE  InterviewsInv'
<1> DEFINE i == call[c].interview
           n == call[c].n
           seen == call[c].seen
           turns == Append(seen.turns, n)
<1>1. /\ call[c].pc = "orchestrating"
      /\ acked' = acked \cup {<<n, i>>}
      /\ overtaken' = IF Engaged(i, "reporting") = {} THEN overtaken ELSE overtaken \cup {<<n, i>>}
      /\ Finish(c)
      /\ UNCHANGED <<report, calls, told>>
  BY DEF CommitPost
<1>2. PICK o \in Orchestrated(seen, n) :
         interview' = [interview EXCEPT ![i].turns = turns, ![i].coverage = o.coverage,
                                        ![i].evidence = o.evidence]
  BY DEF CommitPost
<1>3. /\ i \in Interviews /\ seen \in InterviewRows /\ IsInterview(seen) /\ n \in 1 .. calls
      /\ IsInjective(seen.turns) /\ interview[i] = seen /\ seen.status = "in_progress"
      /\ n \notin ToSet(seen.turns) /\ calls \in Nat
      /\ \A k \in ToSet(seen.turns) : <<k, i>> \in acked
      /\ \A d \in Callers : call[d].pc = "orchestrating" /\ call[d].interview = i => d = c
  BY <1>1, CallKnown DEF HeldFor, InterviewsInv, InterviewsTypeOK
<1> DEFINE row == [status |-> "in_progress", turns |-> turns, coverage |-> o.coverage, evidence |-> o.evidence]
<1>4. /\ seen.turns \in Seq(Nat) /\ seen # NULL /\ n \in Nat
      /\ seen = [status |-> "in_progress", turns |-> seen.turns, coverage |-> seen.coverage,
                 evidence |-> seen.evidence]
  BY <1>3, InterviewRowAssumption DEF InterviewRows
<1>5. /\ turns \in Seq(Nat) /\ ToSet(turns) = ToSet(seen.turns) \cup {n} /\ IsInjective(turns)
  BY <1>3, <1>4, AppendedTurn
<1>6. o.coverage \in Coverages /\ o.evidence \subseteq ToSet(turns) /\ ToSet(turns) \subseteq 1 .. calls
  BY <1>3, <1>5 DEF Orchestrated, IsInterview
<1>7. row \in InterviewRows /\ row # NULL
  <2>1. o.evidence \in SUBSET Nat
    BY <1>3, <1>6
  <2>2. row \in InterviewRows
    BY <1>5, <1>6, <2>1 DEF InterviewRows
  <2> QED BY <2>2, InterviewRowAssumption
<1>8. /\ interview' \in [Interviews -> InterviewRows \cup {NULL}]
      /\ interview'[i] = row
      /\ \A j \in Interviews : j # i => interview'[j] = interview[j]
  <2>1. interview \in [Interviews -> InterviewRows \cup {NULL}]
    BY DEF InterviewsInv, InterviewsTypeOK
  <2>2. interview' = [interview EXCEPT ![i] = row]
    <3> DEFINE one == [interview EXCEPT ![i].turns = turns]
               two == [one EXCEPT ![i].coverage = o.coverage]
    <3>1. one = [interview EXCEPT ![i] = [seen EXCEPT !.turns = turns]] /\ one[i] = [seen EXCEPT !.turns = turns]
      BY <1>3, <2>1
    <3>2. interview' = [two EXCEPT ![i].evidence = o.evidence]
      BY <1>2
    <3>3. [[[seen EXCEPT !.turns = turns] EXCEPT !.coverage = o.coverage] EXCEPT !.evidence = o.evidence] = row
      <4>1. o.evidence \in SUBSET Nat
        BY <1>3, <1>6
      <4> HIDE DEF turns
      <4> QED BY <1>3, <1>5, <1>6, <4>1, Rewritten
    <3>4. two = [interview EXCEPT ![i] = [[seen EXCEPT !.turns = turns] EXCEPT !.coverage = o.coverage]]
      <4> HIDE DEF one
      <4> QED BY <1>3, <2>1, <3>1
    <3>5. two[i] = [[seen EXCEPT !.turns = turns] EXCEPT !.coverage = o.coverage]
      BY <1>3, <2>1, <3>4
    <3> HIDE DEF one, two, row
    <3> QED BY <1>3, <2>1, <3>2, <3>3, <3>4, <3>5
  <2> HIDE DEF row
  <2> QED BY <1>3, <1>7, <2>1, <2>2
<1>9. row.status = "in_progress" /\ row.turns = turns /\ row.evidence = o.evidence
  OBVIOUS
<1> HIDE DEF row, turns
<1>10. /\ call' \in [Callers -> CallRows] /\ call'[c] = IdleCall
       /\ \A d \in Callers : d # c => call'[d] = call[d]
  BY <1>1, CallEnds
<1>11. report[i] = NULL
  BY <1>3, <1>4 DEF InterviewsInv, ReportIsOfTheInterview
<1>12. InterviewsTypeOK'
  <2>1. \A d \in Callers : call'[d].n \in 0 .. calls /\ (call'[d].seen # NULL => IsInterview(call'[d].seen))
    BY <1>3, <1>10 DEF InterviewsInv, InterviewsTypeOK, IdleCall
  <2>2. \A j \in Interviews : interview'[j] # NULL => IsInterview(interview'[j])
    BY <1>6, <1>8, <1>9 DEF InterviewsInv, InterviewsTypeOK, IsInterview
  <2>3. acked' \cup overtaken' \cup told' \subseteq (1 .. calls) \X Interviews
    BY <1>1, <1>3 DEF InterviewsInv, InterviewsTypeOK
  <2>4. \A j \in Interviews : report[j] # NULL => j # i /\ interview'[j] = interview[j]
    BY <1>8, <1>11
  <2> QED BY <1>1, <1>8, <1>10, <2>1, <2>2, <2>3, <2>4 DEF InterviewsInv, InterviewsTypeOK, IsInterview
<1>13. TurnsAreAcked'
  BY <1>1, <1>3, <1>5, <1>8, <1>9 DEF InterviewsInv, TurnsAreAcked
<1>14. CallsAreReal'
  <2> SUFFICES ASSUME NEW d \in Callers, call'[d].pc # "idle"
               PROVE  /\ call'[d].interview \in Interviews /\ call'[d].seen # NULL /\ call'[d].n \in 1 .. calls'
                      /\ IsInjective(call'[d].seen.turns)
                      /\ \A k \in ToSet(call'[d].seen.turns) : <<k, call'[d].interview>> \in acked'
                      /\ call'[d].pc = "orchestrating" => HeldFor(d)'
                      /\ call'[d].pc = "reporting" => ReadFor(d)'
    BY DEF CallsAreReal
  <2>1. d # c /\ call'[d] = call[d]
    BY <1>10 DEF IdleCall
  <2>2. /\ call[d].interview \in Interviews /\ call[d].seen # NULL /\ call[d].n \in 1 .. calls
        /\ IsInjective(call[d].seen.turns)
        /\ \A k \in ToSet(call[d].seen.turns) : <<k, call[d].interview>> \in acked
        /\ call[d].pc = "orchestrating" => HeldFor(d)
        /\ call[d].pc = "reporting" => ReadFor(d)
    BY <2>1 DEF InterviewsInv, CallsAreReal
  <2>3. ASSUME call[d].pc = "orchestrating" PROVE HeldFor(d)'
    <3>1. call[d].interview # i
      BY <1>3, <2>1, <2>3
    <3> QED BY <1>8, <1>10, <2>1, <2>2, <2>3, <3>1 DEF HeldFor, IdleCall
  <2>4. ASSUME call[d].pc = "reporting" PROVE ReadFor(d)'
    <3>1. CASE call[d].interview # i
      BY <1>1, <1>8, <2>1, <2>2, <2>4, <3>1 DEF ReadFor
    <3>2. CASE call[d].interview = i
      <4>1. d \in Engaged(i, "reporting")
        BY <2>4, <3>2 DEF Engaged
      <4>2. <<n, i>> \in overtaken' /\ overtaken \subseteq overtaken'
        BY <1>1, <4>1
      <4>3. interview[i] # NULL
        BY <1>3, <1>4
      <4> QED BY <1>3, <1>5, <1>8, <1>9, <2>1, <2>2, <2>4, <3>2, <4>2, <4>3 DEF ReadFor
    <3> QED BY <3>1, <3>2
  <2> QED BY <1>1, <2>1, <2>2, <2>3, <2>4
<1>15. ToldIsTheReport'
  <2> SUFFICES ASSUME NEW x \in told
               PROVE  interview'[x[2]] = NULL \/ (report[x[2]] # NULL /\ report[x[2]].id = x[1])
    BY <1>1 DEF ToldIsTheReport
  <2>1. x[2] \in Interviews
    BY DEF InterviewsInv, InterviewsTypeOK
  <2>2. interview[x[2]] = NULL \/ (report[x[2]] # NULL /\ report[x[2]].id = x[1])
    BY DEF InterviewsInv, ToldIsTheReport
  <2>3. interview[i] # NULL
    BY <1>3, <1>4
  <2> QED BY <1>8, <1>11, <2>1, <2>2, <2>3
<1>16. AnsweredTurnsStay'
  <2> SUFFICES ASSUME NEW x \in acked'
               PROVE  interview'[x[2]] = NULL \/ x[1] \in ToSet(interview'[x[2]].turns)
    BY DEF AnsweredTurnsStay
  <2>1. CASE x = <<n, i>>
    BY <1>5, <1>8, <1>9, <2>1
  <2>2. CASE x \in acked
    <3>1. x[2] \in Interviews /\ (interview[x[2]] = NULL \/ x[1] \in ToSet(interview[x[2]].turns))
      BY <2>2 DEF InterviewsInv, InterviewsTypeOK, AnsweredTurnsStay
    <3> QED BY <1>3, <1>4, <1>5, <1>8, <1>9, <3>1
  <2> QED BY <1>1, <2>1, <2>2
<1>17. ReportIsOfTheInterview'
  <2> SUFFICES ASSUME NEW j \in Interviews, interview'[j] # NULL
               PROVE  /\ interview'[j].status = "completed" <=> report[j] # NULL
                      /\ report[j] # NULL =>
                            /\ Cardinality(report[j].of) >= MinTeamTurns
                            /\ report[j].partial <=> MissingDomains(report[j].coverage) # {}
                            /\ \A k \in ToSet(interview'[j].turns) \ report[j].of : <<k, j>> \in overtaken'
    BY <1>1 DEF ReportIsOfTheInterview
  <2>1. CASE j = i
    BY <1>8, <1>9, <1>11, <2>1
  <2>2. CASE j # i
    <3>1. overtaken \subseteq overtaken' /\ interview'[j] = interview[j]
      BY <1>1, <1>8, <2>2
    <3> QED BY <3>1 DEF InterviewsInv, ReportIsOfTheInterview
  <2> QED BY <2>1, <2>2
<1>18. OneReport'
  BY <1>1 DEF InterviewsInv, OneReport
<1> QED BY <1>12, <1>13, <1>14, <1>15, <1>16, <1>17, <1>18 DEF InterviewsInv

\* A request that ends without writing.
LEMMA CallLeaves ==
    ASSUME InterviewsInv, NEW c \in Callers, Finish(c),
           UNCHANGED <<interview, report, calls, acked, overtaken, told>>
    PROVE  InterviewsInv'
<1>1. /\ call' \in [Callers -> CallRows] /\ call'[c] = IdleCall
      /\ \A d \in Callers : d # c => call'[d] = call[d]
  BY CallEnds
<1>2. InterviewsTypeOK'
  BY <1>1 DEF InterviewsInv, InterviewsTypeOK, IsInterview, IdleCall
<1>3. CallsAreReal'
  <2> SUFFICES ASSUME NEW d \in Callers, call'[d].pc # "idle"
               PROVE  /\ call'[d].interview \in Interviews /\ call'[d].seen # NULL /\ call'[d].n \in 1 .. calls'
                      /\ IsInjective(call'[d].seen.turns)
                      /\ \A k \in ToSet(call'[d].seen.turns) : <<k, call'[d].interview>> \in acked'
                      /\ call'[d].pc = "orchestrating" => HeldFor(d)'
                      /\ call'[d].pc = "reporting" => ReadFor(d)'
    BY DEF CallsAreReal
  <2>1. d # c /\ call'[d] = call[d]
    BY <1>1 DEF IdleCall
  <2>2. /\ call[d].interview \in Interviews /\ call[d].seen # NULL /\ call[d].n \in 1 .. calls
        /\ IsInjective(call[d].seen.turns)
        /\ \A k \in ToSet(call[d].seen.turns) : <<k, call[d].interview>> \in acked
        /\ call[d].pc = "orchestrating" => HeldFor(d)
        /\ call[d].pc = "reporting" => ReadFor(d)
    BY <2>1 DEF InterviewsInv, CallsAreReal
  <2>3. ASSUME call[d].pc = "orchestrating" PROVE HeldFor(d)'
    BY <1>1, <2>1, <2>2, <2>3 DEF HeldFor, IdleCall
  <2>4. ASSUME call[d].pc = "reporting" PROVE ReadFor(d)'
    BY <2>1, <2>2, <2>4 DEF ReadFor
  <2> QED BY <2>1, <2>2, <2>3, <2>4
<1>4. TurnsAreAcked' /\ AnsweredTurnsStay' /\ ReportIsOfTheInterview' /\ OneReport' /\ ToldIsTheReport'
  BY DEF InterviewsInv, TurnsAreAcked, AnsweredTurnsStay, ReportIsOfTheInterview, OneReport, ToldIsTheReport
<1> QED BY <1>2, <1>3, <1>4 DEF InterviewsInv

LEMMA Filed ==
    ASSUME InterviewsInv, NEW c \in Callers, CommitComplete(c),
           interview[call[c].interview] # NULL, report[call[c].interview] = NULL
    PROVE  InterviewsInv'
<1> DEFINE i == call[c].interview
           seen == call[c].seen
           row == [interview[i] EXCEPT !.status = "completed"]
           paper == Written(c)
<1>1. /\ call[c].pc = "reporting" /\ Engaged(i, "orchestrating") = {} /\ Finish(c)
      /\ report' = [report EXCEPT ![i] = paper]
      /\ interview' = [interview EXCEPT ![i].status = "completed"]
      /\ told' = told \cup {<<call[c].n, i>>}
      /\ UNCHANGED <<calls, acked, overtaken>>
  BY DEF CommitComplete, File
<1>2. /\ i \in Interviews /\ call[c].n \in 1 .. calls /\ seen \in InterviewRows /\ IsInterview(seen)
      /\ IsInjective(seen.turns) /\ Len(seen.turns) >= MinTeamTurns
      /\ call[c].force \/ MissingDomains(seen.coverage) = {}
      /\ ToSet(seen.turns) \subseteq ToSet(interview[i].turns)
      /\ \A n \in ToSet(interview[i].turns) \ ToSet(seen.turns) : <<n, i>> \in overtaken
      /\ call[c].force \in BOOLEAN /\ calls \in Nat
  <2>1. /\ call[c] \in CallRows /\ i \in Interviews /\ call[c].n \in 1 .. calls /\ seen \in InterviewRows
        /\ IsInterview(seen) /\ IsInjective(seen.turns) /\ ReadFor(c)
    BY <1>1, CallKnown
  <2>2. calls \in Nat
    BY InterviewsAssumption DEF InterviewsInv, InterviewsTypeOK
  <2>3. call[c].force \in BOOLEAN
    BY <2>1 DEF CallRows
  <2> QED BY <2>1, <2>2, <2>3 DEF ReadFor
<1>3. /\ paper.id = call[c].n /\ paper.of = ToSet(seen.turns) /\ paper.coverage = seen.coverage
      /\ paper.partial = (call[c].force /\ MissingDomains(seen.coverage) # {})
  BY DEF Written
<1>4. paper \in ReportRows /\ paper # NULL
  <2>1. seen.coverage \in Coverages /\ ToSet(seen.turns) \in SUBSET Nat /\ call[c].n \in Nat
    BY <1>2 DEF InterviewRows, IsInterview
  <2>2. (call[c].force /\ MissingDomains(seen.coverage) # {}) \in BOOLEAN
    BY <1>2
  <2>3. paper \in ReportRows
    BY <2>1, <2>2 DEF Written, ReportRows
  <2> QED BY <2>3, InterviewRowAssumption
<1>5. interview[i] \in InterviewRows
  BY <1>2 DEF InterviewsInv, InterviewsTypeOK
<1>6. /\ row \in InterviewRows /\ row.status = "completed" /\ row.turns = interview[i].turns
      /\ row.evidence = interview[i].evidence
  BY <1>5 DEF InterviewRows
<1>7. row # NULL
  BY <1>6, InterviewRowAssumption
<1> HIDE DEF row, paper
<1>8. /\ interview' \in [Interviews -> InterviewRows \cup {NULL}]
      /\ interview'[i] = row
      /\ \A j \in Interviews : j # i => interview'[j] = interview[j]
      /\ report' \in [Interviews -> ReportRows \cup {NULL}]
      /\ report'[i] = paper
      /\ \A j \in Interviews : j # i => report'[j] = report[j]
  BY <1>1, <1>2, <1>4, <1>6 DEF InterviewsInv, InterviewsTypeOK, row
<1>9. /\ call' \in [Callers -> CallRows] /\ call'[c] = IdleCall
      /\ \A d \in Callers : d # c => call'[d] = call[d]
  BY <1>1, CallEnds
<1>10. InterviewsTypeOK'
  <2>1. \A d \in Callers : call'[d].n \in 0 .. calls /\ (call'[d].seen # NULL => IsInterview(call'[d].seen))
    BY <1>2, <1>9 DEF InterviewsInv, InterviewsTypeOK, IdleCall
  <2>2. \A j \in Interviews : interview'[j] # NULL => IsInterview(interview'[j])
    BY <1>2, <1>6, <1>8 DEF InterviewsInv, InterviewsTypeOK, IsInterview
  <2>3. acked' \cup overtaken' \cup told' \subseteq (1 .. calls) \X Interviews
    BY <1>1, <1>2 DEF InterviewsInv, InterviewsTypeOK
  <2>4. \A j \in Interviews : report'[j] # NULL =>
           /\ interview'[j] # NULL /\ report'[j].id \in 1 .. calls
           /\ report'[j].of \subseteq ToSet(interview'[j].turns)
    BY <1>2, <1>3, <1>6, <1>7, <1>8 DEF InterviewsInv, InterviewsTypeOK
  <2> QED BY <1>1, <1>8, <1>9, <2>1, <2>2, <2>3, <2>4 DEF InterviewsInv, InterviewsTypeOK, IsInterview
<1>11. TurnsAreAcked' /\ AnsweredTurnsStay'
  <2>1. \A j \in Interviews : interview'[j] # NULL => interview[j] # NULL /\ interview'[j].turns = interview[j].turns
    BY <1>6, <1>8
  <2>2. \A x \in acked : x[2] \in Interviews
    BY DEF InterviewsInv, InterviewsTypeOK
  <2> QED BY <1>1, <2>1, <2>2 DEF InterviewsInv, TurnsAreAcked, AnsweredTurnsStay
<1>12. CallsAreReal'
  <2> SUFFICES ASSUME NEW d \in Callers, call'[d].pc # "idle"
               PROVE  /\ call'[d].interview \in Interviews /\ call'[d].seen # NULL /\ call'[d].n \in 1 .. calls'
                      /\ IsInjective(call'[d].seen.turns)
                      /\ \A k \in ToSet(call'[d].seen.turns) : <<k, call'[d].interview>> \in acked'
                      /\ call'[d].pc = "orchestrating" => HeldFor(d)'
                      /\ call'[d].pc = "reporting" => ReadFor(d)'
    BY DEF CallsAreReal
  <2>1. d # c /\ call'[d] = call[d]
    BY <1>9 DEF IdleCall
  <2>2. /\ call[d].interview \in Interviews /\ call[d].seen # NULL /\ call[d].n \in 1 .. calls
        /\ IsInjective(call[d].seen.turns)
        /\ \A k \in ToSet(call[d].seen.turns) : <<k, call[d].interview>> \in acked
        /\ call[d].pc = "orchestrating" => HeldFor(d)
        /\ call[d].pc = "reporting" => ReadFor(d)
    BY <2>1 DEF InterviewsInv, CallsAreReal
  <2>3. ASSUME call[d].pc = "orchestrating" PROVE HeldFor(d)'
    <3>1. call[d].interview # i
      BY <1>1, <2>3 DEF Engaged
    <3> QED BY <1>8, <1>9, <2>1, <2>2, <2>3, <3>1 DEF HeldFor, IdleCall
  <2>4. ASSUME call[d].pc = "reporting" PROVE ReadFor(d)'
    <3>1. CASE call[d].interview # i
      BY <1>1, <1>8, <2>1, <2>2, <2>4, <3>1 DEF ReadFor
    <3>2. CASE call[d].interview = i
      BY <1>1, <1>6, <1>8, <2>1, <2>2, <2>4, <3>2 DEF ReadFor
    <3> QED BY <3>1, <3>2
  <2> QED BY <1>1, <2>1, <2>2, <2>3, <2>4
<1>13. \A x \in told : x[2] \in Interviews /\ x[2] # i
  BY DEF InterviewsInv, InterviewsTypeOK, ToldIsTheReport
<1>14. ToldIsTheReport'
  BY <1>1, <1>2, <1>3, <1>4, <1>8, <1>13 DEF InterviewsInv, ToldIsTheReport
<1>15. OneReport'
  BY <1>1, <1>13 DEF InterviewsInv, OneReport
<1>16. ReportIsOfTheInterview'
  <2> SUFFICES ASSUME NEW j \in Interviews, interview'[j] # NULL
               PROVE  /\ interview'[j].status = "completed" <=> report'[j] # NULL
                      /\ report'[j] # NULL =>
                            /\ Cardinality(report'[j].of) >= MinTeamTurns
                            /\ report'[j].partial <=> MissingDomains(report'[j].coverage) # {}
                            /\ \A k \in ToSet(interview'[j].turns) \ report'[j].of : <<k, j>> \in overtaken'
    BY DEF ReportIsOfTheInterview
  <2>1. CASE j = i
    <3>1. Cardinality(ToSet(seen.turns)) = Len(seen.turns)
      BY <1>2, TurnsCount DEF InterviewRows
    <3> QED BY <1>1, <1>2, <1>3, <1>4, <1>6, <1>8, <2>1, <3>1
  <2>2. CASE j # i
    BY <1>1, <1>8, <2>2 DEF InterviewsInv, ReportIsOfTheInterview
  <2> QED BY <2>1, <2>2
<1> QED BY <1>10, <1>11, <1>12, <1>14, <1>15, <1>16 DEF InterviewsInv

LEMMA InterviewDeleted ==
    ASSUME InterviewsInv, NEW i \in Interviews, DeleteInterview(i)
    PROVE  InterviewsInv'
<1>1. /\ Engaged(i, "orchestrating") = {}
      /\ interview' = [interview EXCEPT ![i] = NULL]
      /\ report' = [report EXCEPT ![i] = NULL]
      /\ UNCHANGED <<call, calls, acked, overtaken, told>>
  BY DEF DeleteInterview
<1>2. /\ interview' \in [Interviews -> InterviewRows \cup {NULL}] /\ interview'[i] = NULL
      /\ \A j \in Interviews : j # i => interview'[j] = interview[j]
      /\ report' \in [Interviews -> ReportRows \cup {NULL}] /\ report'[i] = NULL
      /\ \A j \in Interviews : j # i => report'[j] = report[j]
  BY <1>1 DEF InterviewsInv, InterviewsTypeOK
<1>3. InterviewsTypeOK'
  BY <1>1, <1>2 DEF InterviewsInv, InterviewsTypeOK, IsInterview
<1>4. \A x \in acked \cup told : x[2] \in Interviews
  BY DEF InterviewsInv, InterviewsTypeOK
<1>5. TurnsAreAcked' /\ AnsweredTurnsStay' /\ ToldIsTheReport' /\ OneReport'
  BY <1>1, <1>2, <1>4 DEF InterviewsInv, TurnsAreAcked, AnsweredTurnsStay, ToldIsTheReport, OneReport
<1>6. ReportIsOfTheInterview'
  BY <1>1, <1>2 DEF InterviewsInv, ReportIsOfTheInterview
<1>7. CallsAreReal'
  BY <1>1, <1>2 DEF InterviewsInv, CallsAreReal, HeldFor, ReadFor, Engaged
<1> QED BY <1>3, <1>5, <1>6, <1>7 DEF InterviewsInv

LEMMA InterviewsInvHolds == InterviewsSpec => []InterviewsInv
<1>1. InterviewsInit => InterviewsInv
  <2> SUFFICES ASSUME InterviewsInit PROVE InterviewsInv
    OBVIOUS
  <2>1. IdleCall \in CallRows
    BY DEF IdleCall, CallRows
  <2>2. InterviewsTypeOK
    BY <2>1, InterviewsAssumption DEF InterviewsInit, InterviewsTypeOK, IdleCall
  <2> QED BY <2>2 DEF InterviewsInit, InterviewsInv, TurnsAreAcked, CallsAreReal, ToldIsTheReport,
                      AnsweredTurnsStay, ReportIsOfTheInterview, OneReport, IdleCall
<1>2. InterviewsInv /\ [InterviewsNext]_interviewVars => InterviewsInv'
  <2> SUFFICES ASSUME InterviewsInv, [InterviewsNext]_interviewVars PROVE InterviewsInv'
    OBVIOUS
  <2>1. ASSUME NEW i \in Interviews, CreateInterview(i) PROVE InterviewsInv'
    BY <2>1, NewInterview
  <2>2. ASSUME NEW i \in Interviews, CompleteAgain(i) PROVE InterviewsInv'
    BY <2>2, ToldAgain
  <2>3. ASSUME NEW c \in Callers, BeginPost(c) PROVE InterviewsInv'
    <3>1. PICK i \in Interviews : /\ interview[i] # NULL
                                  /\ Engaged(i, "orchestrating") = {}
                                  /\ Active(interview[i])
                                  /\ Begin(c, "orchestrating", i, FALSE)
      BY <2>3 DEF BeginPost
    <3>2. UNCHANGED <<interview, report, acked, overtaken, told>>
      BY <2>3 DEF BeginPost
    <3>3. interview[i].status = "in_progress"
      BY <3>1 DEF Active
    <3> QED BY <3>1, <3>2, <3>3, CallBegins
  <2>4. ASSUME NEW c \in Callers, CommitPost(c) PROVE InterviewsInv'
    BY <2>4, Posted
  <2>5. ASSUME NEW c \in Callers, NEW force \in BOOLEAN, BeginComplete(c, force) PROVE InterviewsInv'
    <3>1. PICK i \in Interviews : /\ interview[i] # NULL
                                  /\ CanComplete(interview[i], force)
                                  /\ Begin(c, "reporting", i, force)
      BY <2>5 DEF BeginComplete
    <3>2. UNCHANGED <<interview, report, acked, overtaken, told>>
      BY <2>5 DEF BeginComplete
    <3> QED BY <3>1, <3>2, CallBegins
  <2>6. ASSUME NEW c \in Callers, CommitComplete(c) PROVE InterviewsInv'
    <3>1. CASE interview[call[c].interview] = NULL \/ report[call[c].interview] # NULL
      BY <2>6, <3>1, CallLeaves DEF CommitComplete
    <3>2. CASE ~(interview[call[c].interview] = NULL \/ report[call[c].interview] # NULL)
      BY <2>6, <3>2, Filed
    <3> QED BY <3>1, <3>2
  <2>7. ASSUME NEW c \in Callers, Fails(c) PROVE InterviewsInv'
    BY <2>7, CallLeaves DEF Fails
  <2>8. ASSUME NEW i \in Interviews, DeleteInterview(i) PROVE InterviewsInv'
    BY <2>8, InterviewDeleted
  <2>9. CASE UNCHANGED interviewVars
    <3>1. UNCHANGED <<interview, report, call, calls, acked, overtaken, told>>
      BY <2>9 DEF interviewVars
    <3>2. InterviewsTypeOK'
      BY <3>1 DEF InterviewsInv, InterviewsTypeOK, IsInterview
    <3>3. CallsAreReal'
      BY <3>1 DEF InterviewsInv, CallsAreReal, HeldFor, ReadFor
    <3>4. TurnsAreAcked' /\ ToldIsTheReport' /\ AnsweredTurnsStay' /\ ReportIsOfTheInterview' /\ OneReport'
      BY <3>1 DEF InterviewsInv, TurnsAreAcked, ToldIsTheReport, AnsweredTurnsStay, ReportIsOfTheInterview,
           OneReport
    <3> QED BY <3>2, <3>3, <3>4 DEF InterviewsInv
  <2> QED BY <2>1, <2>2, <2>3, <2>4, <2>5, <2>6, <2>7, <2>8, <2>9 DEF InterviewsNext, TeamSteps, AdminSteps
<1> QED BY <1>1, <1>2, PTL DEF InterviewsSpec

\* For any number of interviews, domains and requests: an answered turn stays in its interview, a
\* completed interview has one report, that was earned, says when it is partial and is on every turn
\* but those posted while it was written (post_message.py:52, complete_interview.py:92).
THEOREM InterviewsKeepWhatWasSaid == InterviewsSpec => []InterviewsAreReported
<1>1. InterviewsInv => InterviewsAreReported
  BY DEF InterviewsInv, InterviewsAreReported
<1> QED BY <1>1, InterviewsInvHolds, PTL

-----------------------------------------------------------------------------
(* Chats: the inductive invariant.                                         *)

\* A request is on a chat that there is or was, and, with none beside it, has heard
\* what came before it.
SenderKnown(s) ==
    LET h == sender[s].chat  n == sender[s].n
    IN  IF sender[s].pc = "idle" THEN h = NULL
        ELSE /\ h \in ChatIds /\ n \in 1 .. talk
             /\ chat[h] # NULL \/ h \in deleted
             /\ sender[s].pc = "waiting" => chat[h] # NULL
             /\ chosen[h] # 0 /\ h \notin retitled => sender[s].title.by = "user"
             /\ n \notin crossed =>
                   /\ \A p \in Senders : sender[p].chat = h => p = s
                   /\ chat[h] # NULL /\ sender[s].pc # "streaming" =>
                         heard[n] = {m \in message : m.chat = h /\ m.at < sender[s].at}

\* What is written on a chat next is later than the questions it has.
MessagesAreInOrder ==
    /\ \A m \in message : m.at <= clock /\ m.n <= talk
    /\ \A q \in message : q.role = "user" /\ q.n \notin crossed =>
           \A s \in Senders : sender[s].chat = q.chat => q.at <= sender[s].at

\* A chat that is not yet there was given no title.
TitlesAreOfChats == \A h \in ChatIds : chat[h] = NULL /\ h \notin deleted => chosen[h] = 0

SendersAreKnown == \A s \in Senders : SenderKnown(s)

ChatsInv == ChatsAreInOrder /\ SendersAreKnown /\ MessagesAreInOrder /\ TitlesAreOfChats

-----------------------------------------------------------------------------
(* Types.                                                                  *)

LEMMA IdleSenderTyped ==
    ASSUME ChatsTypeOK
    PROVE  /\ IdleSender \in SenderRows /\ IdleSender.pc = "idle" /\ IdleSender.chat = NULL
           /\ IdleSender.n = 0 /\ IdleSender.at = 0
BY ChatsAssumption DEF ChatsTypeOK, IdleSender, SenderRows, Untitled, Titles

LEMMA SenderMoves ==
    ASSUME ChatsTypeOK, NEW s \in Senders, NEW row \in SenderRows, sender' = [sender EXCEPT ![s] = row]
    PROVE  /\ sender' \in [Senders -> SenderRows] /\ sender'[s] = row
           /\ \A p \in Senders : p # s => sender'[p] = sender[p]
BY DEF ChatsTypeOK

LEMMA SenderHangs ==
    ASSUME ChatsTypeOK, NEW s \in Senders, Hang(s)
    PROVE  /\ sender' \in [Senders -> SenderRows]
           /\ sender'[s].pc = "idle" /\ sender'[s].chat = NULL /\ sender'[s].n = 0 /\ sender'[s].at = 0
           /\ \A p \in Senders : p # s => sender'[p] = sender[p]
           /\ \A p \in Senders : \/ sender'[p] = sender[p]
                                 \/ sender'[p].pc = "idle" /\ sender'[p].chat = NULL
BY IdleSenderTyped, SenderMoves DEF Hang

LEMMA SenderRow ==
    ASSUME ChatsTypeOK, NEW s \in Senders
    PROVE  /\ sender[s] \in SenderRows
           /\ sender[s].pc \in {"idle", "sending", "waiting", "asking", "streaming"}
           /\ sender[s].n \in 0 .. MaxTalk /\ sender[s].chat \in ChatIds \cup {NULL}
           /\ sender[s].title \in Titles /\ sender[s].at \in Nat
           /\ sender[s].n <= talk /\ sender[s].at <= clock
BY DEF ChatsTypeOK, SenderRows

\* What a request knows stands while its chat, and what was said there before, do.
LEMMA SenderStands ==
    ASSUME NEW s \in Senders, SenderKnown(s), sender'[s] = sender[s],
           talk \in Nat, talk' \in Nat, talk <= talk', crossed \subseteq crossed',
           NEW h, h = sender[s].chat, NEW n, n = sender[s].n,
           sender[s].pc # "idle" =>
              /\ chat[h] # NULL \/ h \in deleted => chat'[h] # NULL \/ h \in deleted'
              /\ sender[s].pc = "waiting" => chat'[h] # NULL
              /\ chosen'[h] # 0 /\ h \notin retitled' => sender[s].title.by = "user"
              /\ n \notin crossed' =>
                    /\ \A p \in Senders : sender'[p].chat = h => p = s
                    /\ chat'[h] # NULL /\ sender[s].pc # "streaming" =>
                          /\ chat[h] # NULL /\ heard'[n] = heard[n]
                          /\ \A m : m.chat = h /\ m.at < sender[s].at => (m \in message' <=> m \in message)
    PROVE  SenderKnown(s)'
<1>1. CASE sender[s].pc = "idle"
  BY <1>1 DEF SenderKnown
<1>2. CASE sender[s].pc # "idle"
  <2>1. /\ h \in ChatIds /\ n \in 1 .. talk' /\ (chat'[h] # NULL \/ h \in deleted')
        /\ n \notin crossed' => n \notin crossed
    BY <1>2 DEF SenderKnown
  <2>2. ASSUME n \notin crossed', chat'[h] # NULL, sender[s].pc # "streaming"
        PROVE  heard'[n] = {m \in message' : m.chat = h /\ m.at < sender[s].at}
    <3>1. heard[n] = {m \in message : m.chat = h /\ m.at < sender[s].at}
      BY <1>2, <2>1, <2>2 DEF SenderKnown
    <3> QED BY <1>2, <2>2, <3>1
  <2> QED BY <1>2, <2>1, <2>2 DEF SenderKnown
<1> QED BY <1>1, <1>2

-----------------------------------------------------------------------------
(* The steps.                                                              *)

\* A request ends with nothing written, or waits for the model.
LEMMA NothingIsWritten ==
    ASSUME ChatsInv, NEW s \in Senders, Hang(s) \/ InsertQuestion(s),
           UNCHANGED <<chat, message, talk, clock, deleted, heard, crossed, chosen, retitled>>
    PROVE  ChatsInv'
<1>1. ChatsTypeOK /\ MessagesAreInOrder /\ SenderKnown(s)
  BY DEF ChatsInv, ChatsAreInOrder, SendersAreKnown
<1>2. /\ sender' \in [Senders -> SenderRows]
      /\ \A p \in Senders : p # s => sender'[p] = sender[p]
      /\ \/ sender'[s].pc = "idle" /\ sender'[s].chat = NULL /\ sender'[s].n = 0 /\ sender'[s].at = 0
         \/ /\ sender[s].pc = "sending" /\ chat[sender[s].chat] # NULL
            /\ sender'[s] = [sender[s] EXCEPT !.pc = "waiting"]
  <2>1. CASE Hang(s)
    BY <1>1, <2>1, SenderHangs
  <2>2. CASE ~Hang(s)
    <3> DEFINE row == [sender[s] EXCEPT !.pc = "waiting"]
    <3>1. /\ sender[s].pc = "sending" /\ chat[sender[s].chat] # NULL
          /\ sender' = [sender EXCEPT ![s] = row]
      BY <2>2 DEF InsertQuestion
    <3>2. row \in SenderRows
      BY <1>1, SenderRow DEF SenderRows
    <3> HIDE DEF row
    <3>3. sender' \in [Senders -> SenderRows] /\ sender'[s] = row /\ \A p \in Senders : p # s => sender'[p] = sender[p]
      BY <1>1, <3>1, <3>2, SenderMoves
    <3> QED BY <3>1, <3>3 DEF row
  <2> QED BY <2>1, <2>2
<1>3. \A p \in Senders : \/ sender'[p].pc = "idle" /\ sender'[p].chat = NULL /\ sender'[p].n = 0 /\ sender'[p].at = 0
                         \/ /\ sender'[p].chat = sender[p].chat /\ sender'[p].n = sender[p].n
                            /\ sender'[p].at = sender[p].at /\ sender'[p].title = sender[p].title
                            /\ sender'[p].pc = sender[p].pc
                               \/ (p = s /\ sender[p].pc = "sending" /\ sender'[p].pc = "waiting" /\ chat[sender[p].chat] # NULL)
  <2>1. sender[s] \in SenderRows
    BY <1>1, SenderRow
  <2> QED BY <1>2, <2>1 DEF SenderRows
<1>4. ChatsTypeOK'
  <2>1. \A p \in Senders : sender'[p].n <= talk /\ sender'[p].at <= clock
    BY <1>1, <1>3 DEF ChatsTypeOK
  <2> QED BY <1>1, <1>2, <2>1 DEF ChatsTypeOK
<1>5. QuestionsStay' /\ AnsweredInContext' /\ ChosenTitleStays' /\ TitlesAreOfChats'
  <2>1. QuestionsStay'
    <3>1. \A p \in Senders : sender'[p].pc = "streaming" => /\ sender[p].pc = "streaming"
                                                            /\ sender'[p].chat = sender[p].chat /\ sender'[p].n = sender[p].n
      BY <1>3
    <3> QED BY <3>1 DEF ChatsInv, ChatsAreInOrder, QuestionsStay, Asked
  <2>2. AnsweredInContext'
    BY DEF ChatsInv, ChatsAreInOrder, AnsweredInContext
  <2>3. ChosenTitleStays' /\ TitlesAreOfChats'
    BY DEF ChatsInv, ChatsAreInOrder, ChosenTitleStays, TitlesAreOfChats
  <2> QED BY <2>1, <2>2, <2>3
<1>6. MessagesAreInOrder'
  <2>1. \A q \in message : q.chat # NULL
    BY <1>1, ChatsAssumption DEF ChatsTypeOK, Messages
  <2> QED BY <1>1, <1>3, <2>1 DEF MessagesAreInOrder
<1>7. ASSUME NEW p \in Senders PROVE SenderKnown(p)'
  <2>1. SenderKnown(p) /\ (sender[p].pc # "idle" => sender[p].chat # NULL)
    BY ChatsAssumption DEF ChatsInv, SendersAreKnown, SenderKnown
  <2>2. CASE sender'[p].pc = "idle"
    BY <1>2, <1>3, <2>1, <2>2 DEF SenderKnown
  <2>3. CASE sender'[p].pc # "idle"
    <3>1. /\ sender'[p].chat = sender[p].chat /\ sender'[p].n = sender[p].n
          /\ sender'[p].at = sender[p].at /\ sender'[p].title = sender[p].title /\ sender[p].pc # "idle"
          /\ sender'[p].pc = sender[p].pc
               \/ (sender[p].pc = "sending" /\ sender'[p].pc = "waiting" /\ chat[sender[p].chat] # NULL)
      BY <1>3, <2>3
    <3>2. \A q \in Senders : sender'[q].chat = sender[p].chat => sender[q].chat = sender[p].chat
      BY <1>3, <2>1, <3>1
    <3> QED BY <2>1, <3>1, <3>2 DEF SenderKnown
  <2> QED BY <2>2, <2>3
<1> QED BY <1>4, <1>5, <1>6, <1>7 DEF ChatsInv, ChatsAreInOrder, SendersAreKnown

LEMMA RowTyped ==
    ASSUME ChatsInv, NEW s \in Senders, sender[s].pc # "idle", NEW role \in {"user", "assistant"}
    PROVE  /\ Row(s, role) \in Messages /\ Row(s, role).chat = sender[s].chat /\ Row(s, role).n = sender[s].n
           /\ Row(s, role).role = role /\ Row(s, role).at = sender[s].at
<1>1. SenderKnown(s) /\ ChatsTypeOK
  BY DEF ChatsInv, ChatsAreInOrder, SendersAreKnown
<1>2. sender[s].n \in 1 .. MaxTalk /\ sender[s].chat \in ChatIds /\ sender[s].at \in Nat
  BY <1>1, SenderRow, ChatsAssumption DEF SenderKnown, ChatsTypeOK
<1> QED BY <1>2 DEF Row, Messages

\* The title, when the request gives one.
LEMMA TitleLands ==
    ASSUME ChatsInv, NEW s \in Senders, sender[s].pc # "idle", chat[sender[s].chat] # NULL, Titled(s)
    PROVE  /\ chat' \in [ChatIds -> Titles \cup {NULL}]
           /\ \A h \in ChatIds : chat'[h] = NULL <=> chat[h] = NULL
           /\ \A h \in ChatIds : \/ chat'[h] = chat[h]
                                 \/ h = sender[s].chat /\ sender[s].title.by = "nobody"
<1>1. SenderKnown(s) /\ ChatsTypeOK
  BY DEF ChatsInv, ChatsAreInOrder, SendersAreKnown
<1>2. sender[s].n \in 0 .. MaxTalk /\ sender[s].chat \in ChatIds
  BY <1>1, SenderRow DEF SenderKnown
<1> DEFINE title == [by |-> "model", n |-> sender[s].n]
<1>3. title \in Titles /\ title # NULL
  <2>1. title \in Titles
    BY <1>2 DEF Titles
  <2> QED BY <2>1, ChatRowAssumption
<1>4. Names(s) => sender[s].title.by = "nobody"
  BY DEF Names, Untitled
<1>5. chat' = chat \/ (Names(s) /\ chat' = [chat EXCEPT ![sender[s].chat] = title])
  BY DEF Titled
<1> HIDE DEF title
<1> QED BY <1>1, <1>2, <1>3, <1>4, <1>5 DEF ChatsTypeOK

\* The answer is stored, with the question unless that was, and the request ends.
LEMMA AnswerLands ==
    ASSUME ChatsInv, NEW s \in Senders, NEW h, h = sender[s].chat, chat[h] # NULL, NEW rows,
           message' = message \cup rows, Titled(s), Hang(s),
           \/ sender[s].pc = "waiting" /\ rows = {Row(s, "user"), Row(s, "assistant")}
           \/ sender[s].pc = "streaming" /\ rows = {Row(s, "assistant")},
           UNCHANGED <<talk, clock, deleted, heard, crossed, chosen, retitled>>
    PROVE  ChatsInv'
<1>1. ChatsTypeOK /\ MessagesAreInOrder /\ SenderKnown(s) /\ sender[s].pc # "idle"
  BY DEF ChatsInv, ChatsAreInOrder, SendersAreKnown
<1>2. /\ h \in ChatIds /\ sender[s].n <= talk /\ sender[s].at <= clock /\ sender[s].at \in Nat
      /\ sender[s].n \notin crossed =>
            /\ \A p \in Senders : sender[p].chat = h => p = s
            /\ sender[s].pc # "streaming" => heard[sender[s].n] = {m \in message : m.chat = h /\ m.at < sender[s].at}
      /\ chosen[h] # 0 /\ h \notin retitled => sender[s].title.by = "user"
  BY <1>1, SenderRow DEF SenderKnown
<1>3. /\ \A m \in rows : m \in Messages /\ m.chat = h /\ m.n = sender[s].n /\ m.at = sender[s].at
      /\ \A m \in rows : m.role = "user" => m = Row(s, "user")
      /\ \A m \in rows : m.role = "user" => sender[s].pc = "waiting"
      /\ sender[s].pc = "waiting" => Row(s, "user") \in rows /\ Row(s, "user").role = "user"
  BY <1>1, RowTyped
<1>4. /\ sender' \in [Senders -> SenderRows]
      /\ sender'[s].pc = "idle" /\ sender'[s].chat = NULL /\ sender'[s].n = 0 /\ sender'[s].at = 0
      /\ \A p \in Senders : p # s => sender'[p] = sender[p]
      /\ \A p \in Senders : sender'[p] = sender[p] \/ (sender'[p].pc = "idle" /\ sender'[p].chat = NULL)
  BY <1>1, SenderHangs
<1>5. /\ chat' \in [ChatIds -> Titles \cup {NULL}]
      /\ \A g \in ChatIds : chat'[g] = NULL <=> chat[g] = NULL
      /\ \A g \in ChatIds : chat'[g] = chat[g] \/ (g = h /\ sender[s].title.by = "nobody")
  BY <1>1, TitleLands
<1>6. ChatsTypeOK'
  <2>1. message' \subseteq Messages /\ \A m \in message' : chat'[m.chat] # NULL
    <3>1. \A m \in message : m.chat \in ChatIds
      BY <1>1 DEF ChatsTypeOK, Messages
    <3> QED BY <1>1, <1>2, <1>3, <1>5, <3>1 DEF ChatsTypeOK
  <2>2. \A p \in Senders : sender'[p].n <= talk /\ sender'[p].at <= clock
    BY <1>1, <1>4 DEF ChatsTypeOK
  <2>3. deleted \subseteq {g \in ChatIds : chat'[g] = NULL}
    BY <1>1, <1>5 DEF ChatsTypeOK
  <2> QED BY <1>1, <1>4, <1>5, <2>1, <2>2, <2>3 DEF ChatsTypeOK
<1>7. QuestionsStay'
  <2>1. \A g, n : Asked(g, n) => Asked(g, n)'
    BY DEF Asked
  <2>2. \A n : n = sender[s].n => Asked(h, n)'
    <3>1. CASE sender[s].pc = "waiting"
      BY <1>1, <1>3, <3>1, RowTyped DEF Asked
    <3>2. CASE sender[s].pc = "streaming"
      BY <2>1, <3>2 DEF ChatsInv, ChatsAreInOrder, QuestionsStay
    <3> QED BY <3>1, <3>2, <1>1, SenderRow
  <2>3. ASSUME NEW m \in message' PROVE Asked(m.chat, m.n)'
    BY <1>3, <2>1, <2>2 DEF ChatsInv, ChatsAreInOrder, QuestionsStay
  <2>4. ASSUME NEW p \in Senders, sender'[p].pc = "streaming", NEW g, NEW n,
               g = sender'[p].chat, n = sender'[p].n, chat'[g] # NULL
        PROVE  Asked(g, n)'
    <3>1. p # s /\ sender'[p] = sender[p] /\ SenderKnown(p)
      BY <1>4, <2>4 DEF ChatsInv, SendersAreKnown
    <3>2. chat[g] # NULL
      BY <1>5, <2>4, <3>1 DEF SenderKnown
    <3> QED BY <2>1, <2>4, <3>1, <3>2 DEF ChatsInv, ChatsAreInOrder, QuestionsStay
  <2> QED BY <2>3, <2>4 DEF QuestionsStay, Asked
<1>8. AnsweredInContext'
  <2> SUFFICES ASSUME NEW q \in message', q.role = "user", q.n \notin crossed
               PROVE  heard[q.n] = {m \in message' : m.chat = q.chat /\ m.at < q.at}
    BY DEF AnsweredInContext
  <2>1. CASE q \in message
    <3>1. heard[q.n] = {m \in message : m.chat = q.chat /\ m.at < q.at}
      BY <2>1 DEF ChatsInv, ChatsAreInOrder, AnsweredInContext
    <3>2. \A m \in rows : ~(m.chat = q.chat /\ m.at < q.at)
      <4>1. q.at \in Nat /\ (q.chat = h => q.at <= sender[s].at)
        BY <1>1, <2>1 DEF MessagesAreInOrder, ChatsTypeOK, Messages
      <4> QED BY <1>2, <1>3, <4>1
    <3> QED BY <3>1, <3>2
  <2>2. CASE q \in rows
    <3>1. /\ sender[s].pc = "waiting" /\ q.chat = h /\ q.n = sender[s].n /\ q.at = sender[s].at
          /\ heard[q.n] = {m \in message : m.chat = h /\ m.at < sender[s].at}
      BY <1>2, <1>3, <2>2
    <3>2. \A m \in rows : ~(m.at < q.at)
      BY <1>2, <1>3, <3>1
    <3> QED BY <3>1, <3>2
  <2> QED BY <2>1, <2>2
<1>9. ChosenTitleStays' /\ TitlesAreOfChats'
  <2>1. ChosenTitleStays'
    BY <1>2, <1>5 DEF ChatsInv, ChatsAreInOrder, ChosenTitleStays
  <2>2. TitlesAreOfChats'
    BY <1>5 DEF ChatsInv, TitlesAreOfChats
  <2> QED BY <2>1, <2>2
<1>10. MessagesAreInOrder'
  <2>1. \A m \in message' : m.at <= clock /\ m.n <= talk
    BY <1>1, <1>2, <1>3 DEF MessagesAreInOrder
  <2>2. ASSUME NEW q \in message', q.role = "user", q.n \notin crossed, NEW p \in Senders, sender'[p].chat = q.chat
        PROVE  q.at <= sender'[p].at
    <3>1. q.chat # NULL
      BY <1>2, <1>3, <2>2, <1>1, ChatsAssumption DEF ChatsTypeOK, Messages
    <3>2. p # s /\ sender'[p] = sender[p]
      BY <1>4, <2>2, <3>1
    <3>3. CASE q \in message
      BY <1>1, <2>2, <3>2, <3>3 DEF MessagesAreInOrder
    <3>4. CASE q \in rows
      BY <1>2, <1>3, <2>2, <3>2, <3>4
    <3> QED BY <3>3, <3>4
  <2> QED BY <2>1, <2>2 DEF MessagesAreInOrder
<1>11. ASSUME NEW p \in Senders PROVE SenderKnown(p)'
  <2>1. CASE p = s
    BY <1>4, <2>1 DEF SenderKnown
  <2>2. CASE p # s
    <3> DEFINE g == sender[p].chat
               n == sender[p].n
    <3>1. sender'[p] = sender[p] /\ SenderKnown(p)
      BY <1>4, <2>2 DEF ChatsInv, SendersAreKnown
    <3>2. CASE sender[p].pc = "idle"
      BY <3>1, <3>2 DEF SenderKnown
    <3>3. CASE sender[p].pc # "idle"
      <4>1. g \in ChatIds /\ g # NULL /\ (chat'[g] = NULL <=> chat[g] = NULL)
        BY <1>5, <3>1, <3>3, ChatsAssumption DEF SenderKnown
      <4>2. n \notin crossed => g # h /\ \A q \in Senders : sender'[q].chat = g => q = p
        BY <1>4, <2>2, <3>1, <3>3, <4>1 DEF SenderKnown
      <4>3. ASSUME n \notin crossed
            PROVE  \A m : m.chat = g /\ m.at < sender[p].at => (m \in message' <=> m \in message)
        BY <1>3, <4>2, <4>3
      <4>4. talk \in Nat
        BY <1>1, ChatsAssumption DEF ChatsTypeOK
      <4>5. /\ sender[p].pc = "waiting" => chat[g] # NULL
            /\ chosen[g] # 0 /\ g \notin retitled => sender[p].title.by = "user"
        BY <3>1, <3>3 DEF SenderKnown
      <4> HIDE DEF g, n
      <4>6. g = sender[p].chat /\ n = sender[p].n
        BY DEF g, n
      <4> QED BY <3>1, <3>3, <4>1, <4>2, <4>3, <4>4, <4>5, <4>6, SenderStands
    <3> QED BY <3>2, <3>3
  <2> QED BY <2>1, <2>2
<1> QED BY <1>6, <1>7, <1>8, <1>9, <1>10, <1>11 DEF ChatsInv, ChatsAreInOrder, SendersAreKnown

StreamingRow(row, at) == [row EXCEPT !.pc = "streaming", !.at = at]

LEMMA StreamingRowTyped ==
    ASSUME NEW row \in SenderRows, NEW at \in Nat
    PROVE  /\ StreamingRow(row, at) \in SenderRows /\ StreamingRow(row, at).pc = "streaming"
           /\ StreamingRow(row, at).at = at /\ StreamingRow(row, at).chat = row.chat
           /\ StreamingRow(row, at).n = row.n /\ StreamingRow(row, at).title = row.title
BY DEF StreamingRow, SenderRows

\* The question of a stream is stored, and the next transaction begins.
LEMMA QuestionLands ==
    ASSUME ChatsInv, NEW s \in Senders, NEW h, h = sender[s].chat, chat[h] # NULL, CommitQuestion(s)
    PROVE  ChatsInv'
<1> DEFINE q0 == Row(s, "user")
<1>1. /\ ChatsTypeOK /\ MessagesAreInOrder /\ SenderKnown(s) /\ sender[s].pc = "asking"
      /\ message' = message \cup {q0} /\ clock' = clock + 1
      /\ sender' = [sender EXCEPT ![s].pc = "streaming", ![s].at = clock + 1]
      /\ UNCHANGED <<chat, talk, deleted, heard, crossed, chosen, retitled>>
  BY DEF ChatsInv, ChatsAreInOrder, SendersAreKnown, CommitQuestion
<1>2. /\ h \in ChatIds /\ sender[s].n \in 1 .. talk /\ sender[s].at <= clock /\ sender[s].at \in Nat
      /\ sender[s].n \notin crossed =>
            /\ \A p \in Senders : sender[p].chat = h => p = s
            /\ heard[sender[s].n] = {m \in message : m.chat = h /\ m.at < sender[s].at}
      /\ chosen[h] # 0 /\ h \notin retitled => sender[s].title.by = "user"
      /\ clock \in Nat /\ sender[s] \in SenderRows /\ talk \in Nat
  BY <1>1, SenderRow, ChatsAssumption DEF SenderKnown, ChatsTypeOK
<1>3. /\ q0 \in Messages /\ q0.chat = h /\ q0.n = sender[s].n /\ q0.at = sender[s].at /\ q0.role = "user"
  BY <1>1, RowTyped
<1> DEFINE row == StreamingRow(sender[s], clock + 1)
<1>4. /\ row \in SenderRows /\ row.pc = "streaming" /\ row.at = clock + 1 /\ row.chat = h
      /\ row.n = sender[s].n /\ row.title = sender[s].title
  <2>1. clock + 1 \in Nat /\ sender[s] \in SenderRows
    BY <1>2
  <2> QED BY <2>1, StreamingRowTyped
<1>5. sender' = [sender EXCEPT ![s] = row]
  <2> DEFINE one == [sender EXCEPT ![s] = [sender[s] EXCEPT !.pc = "streaming"]]
  <2>1. sender' = [one EXCEPT ![s] = [one[s] EXCEPT !.at = clock + 1]]
    BY <1>1
  <2>2. one[s] = [sender[s] EXCEPT !.pc = "streaming"]
    BY <1>1 DEF ChatsTypeOK
  <2>3. [one[s] EXCEPT !.at = clock + 1] = row
    BY <1>2, <2>2 DEF SenderRows, StreamingRow
  <2> HIDE DEF row
  <2> QED BY <1>1, <2>1, <2>3 DEF ChatsTypeOK
<1> HIDE DEF row, q0
<1>6. /\ sender' \in [Senders -> SenderRows] /\ sender'[s] = row
      /\ \A p \in Senders : p # s => sender'[p] = sender[p]
  BY <1>1, <1>4, <1>5, SenderMoves
<1>7. ChatsTypeOK'
  <2>1. \A p \in Senders : sender'[p].n <= talk /\ sender'[p].at <= clock'
    <3>1. \A p \in Senders : sender[p].n <= talk /\ sender[p].at <= clock /\ sender[p].at \in Nat
      BY <1>1, SenderRow
    <3> QED BY <1>1, <1>2, <1>4, <1>6, <3>1
  <2>2. message' \subseteq Messages /\ \A m \in message' : chat[m.chat] # NULL
    BY <1>1, <1>3 DEF ChatsTypeOK
  <2> QED BY <1>1, <1>2, <1>6, <2>1, <2>2 DEF ChatsTypeOK
<1>8. QuestionsStay'
  <2>1. \A g, n : Asked(g, n) => Asked(g, n)'
    BY <1>1 DEF Asked
  <2>2. \A n : n = sender[s].n => Asked(h, n)'
    BY <1>1, <1>3 DEF Asked
  <2>3. ASSUME NEW m \in message' PROVE Asked(m.chat, m.n)'
    BY <1>1, <1>3, <2>1, <2>2 DEF ChatsInv, ChatsAreInOrder, QuestionsStay
  <2>4. ASSUME NEW p \in Senders, sender'[p].pc = "streaming", NEW g, NEW n,
               g = sender'[p].chat, n = sender'[p].n, chat'[g] # NULL
        PROVE  Asked(g, n)'
    <3>1. CASE p = s
      BY <1>4, <1>6, <2>2, <2>4, <3>1
    <3>2. CASE p # s
      BY <1>1, <1>6, <2>1, <2>4, <3>2 DEF ChatsInv, ChatsAreInOrder, QuestionsStay
    <3> QED BY <3>1, <3>2
  <2> QED BY <2>3, <2>4 DEF QuestionsStay, Asked
<1>9. AnsweredInContext'
  <2> SUFFICES ASSUME NEW q \in message', q.role = "user", q.n \notin crossed
               PROVE  heard[q.n] = {m \in message' : m.chat = q.chat /\ m.at < q.at}
    BY <1>1 DEF AnsweredInContext
  <2>1. CASE q \in message
    <3>1. heard[q.n] = {m \in message : m.chat = q.chat /\ m.at < q.at}
      BY <2>1 DEF ChatsInv, ChatsAreInOrder, AnsweredInContext
    <3>2. ~(q0.chat = q.chat /\ q0.at < q.at)
      <4>1. q.at \in Nat /\ (q.chat = h => q.at <= sender[s].at)
        BY <1>1, <2>1 DEF MessagesAreInOrder, ChatsTypeOK, Messages
      <4> QED BY <1>2, <1>3, <4>1
    <3> QED BY <1>1, <3>1, <3>2
  <2>2. CASE q = q0
    <3>1. heard[q.n] = {m \in message : m.chat = h /\ m.at < sender[s].at}
      BY <1>2, <1>3, <2>2
    <3>2. ~(q0.at < q.at) /\ q.chat = h /\ q.at = sender[s].at
      BY <1>2, <1>3, <2>2
    <3> QED BY <1>1, <3>1, <3>2
  <2> QED BY <1>1, <2>1, <2>2
<1>10. ChosenTitleStays' /\ TitlesAreOfChats'
  BY <1>1 DEF ChatsInv, ChatsAreInOrder, ChosenTitleStays, TitlesAreOfChats
<1>11. MessagesAreInOrder'
  <2>1. \A m \in message' : m.at <= clock' /\ m.n <= talk
    <3>1. \A m \in message : m.at \in Nat /\ m.at <= clock /\ m.n <= talk
      BY <1>1 DEF MessagesAreInOrder, ChatsTypeOK, Messages
    <3> QED BY <1>1, <1>2, <1>3, <3>1
  <2>2. ASSUME NEW q \in message', q.role = "user", q.n \notin crossed, NEW p \in Senders, sender'[p].chat = q.chat
        PROVE  q.at <= sender'[p].at
    <3>1. q.at \in Nat /\ q.at <= clock
      BY <1>1, <1>2, <1>3 DEF MessagesAreInOrder, ChatsTypeOK, Messages
    <3>2. CASE p = s
      BY <1>2, <1>4, <1>6, <3>1, <3>2
    <3>3. CASE p # s
      <4>1. CASE q \in message
        BY <1>1, <1>6, <2>2, <3>3, <4>1 DEF MessagesAreInOrder
      <4>2. CASE q = q0
        BY <1>2, <1>3, <1>6, <2>2, <3>3, <4>2
      <4> QED BY <1>1, <4>1, <4>2
    <3> QED BY <3>2, <3>3
  <2> QED BY <1>1, <2>1, <2>2 DEF MessagesAreInOrder
<1>12. ASSUME NEW p \in Senders PROVE SenderKnown(p)'
  <2>0. \A q \in Senders : sender'[q].chat = sender[q].chat
    BY <1>4, <1>6
  <2>1. CASE p = s
    <3>1. sender'[s].pc = "streaming" /\ sender'[s].chat = h /\ sender'[s].n = sender[s].n
          /\ sender'[s].title = sender[s].title
      BY <1>4, <1>6
    <3>2. /\ chat'[h] # NULL /\ sender[s].n \in 1 .. talk'
          /\ chosen'[h] # 0 /\ h \notin retitled' => sender[s].title.by = "user"
          /\ sender[s].n \notin crossed' => \A q \in Senders : sender'[q].chat = h => q = s
      BY <1>1, <1>2, <2>0
    <3> QED BY <1>2, <2>1, <3>1, <3>2 DEF SenderKnown
  <2>2. CASE p # s
    <3> DEFINE g == sender[p].chat
               n == sender[p].n
    <3>1. sender'[p] = sender[p] /\ SenderKnown(p)
      BY <1>6, <2>2 DEF ChatsInv, SendersAreKnown
    <3>2. CASE sender[p].pc = "idle"
      BY <3>1, <3>2 DEF SenderKnown
    <3>3. CASE sender[p].pc # "idle"
      <4>1. n \notin crossed => g # h /\ \A q \in Senders : sender'[q].chat = g => q = p
        BY <2>0, <2>2, <3>1, <3>3 DEF SenderKnown
      <4>2. ASSUME n \notin crossed
            PROVE  \A m : m.chat = g /\ m.at < sender[p].at => (m \in message' <=> m \in message)
        BY <1>1, <1>3, <4>1, <4>2
      <4>3. /\ sender[p].pc = "waiting" => chat[g] # NULL
            /\ chosen[g] # 0 /\ g \notin retitled => sender[p].title.by = "user"
        BY <3>1, <3>3 DEF SenderKnown
      <4> HIDE DEF g, n
      <4>4. g = sender[p].chat /\ n = sender[p].n
        BY DEF g, n
      <4>5. /\ talk' = talk /\ chat' = chat /\ deleted' = deleted /\ heard' = heard
            /\ crossed' = crossed /\ chosen' = chosen /\ retitled' = retitled /\ talk \in Nat
        BY <1>1, <1>2
      <4> QED BY <3>1, <3>3, <4>1, <4>2, <4>3, <4>4, <4>5, SenderStands
    <3> QED BY <3>2, <3>3
  <2> QED BY <2>1, <2>2
<1> QED BY <1>7, <1>8, <1>9, <1>10, <1>11, <1>12 DEF ChatsInv, ChatsAreInOrder, SendersAreKnown

LEMMA ReadKeeps ==
    ASSUME ChatsInv, NEW s \in Senders, NEW pc \in {"sending", "asking"}, Read(s, pc)
    PROVE  ChatsInv'
<1> DEFINE row(h) == [pc |-> pc, n |-> talk + 1, chat |-> h, title |-> chat[h],
                      first |-> \A m \in History(h) : m.role # "user", at |-> clock + 1]
<1>1. PICK h \in ChatIds :
          /\ chat[h] # NULL
          /\ sender' = [sender EXCEPT ![s] = row(h)]
          /\ heard' = [heard EXCEPT ![talk + 1] = History(h)]
          /\ crossed' = IF Under(h) = {} THEN crossed
                        ELSE crossed \cup {talk + 1} \cup {sender[q].n : q \in Under(h)}
  BY DEF Read
<1>2. /\ ChatsTypeOK /\ MessagesAreInOrder /\ talk' = talk + 1 /\ clock' = clock + 1 /\ talk < MaxTalk
      /\ sender[s].pc = "idle" /\ sender[s].chat = NULL
      /\ UNCHANGED <<chat, message, deleted, chosen, retitled>>
  BY DEF ChatsInv, ChatsAreInOrder, Read, IdleSender
<1>3. talk \in Nat /\ clock \in Nat /\ talk + 1 \in 1 .. MaxTalk /\ MaxTalk \in Nat
  BY <1>2, ChatsAssumption DEF ChatsTypeOK
<1>4. /\ row(h) \in SenderRows /\ row(h).pc = pc /\ row(h).n = talk + 1 /\ row(h).chat = h
      /\ row(h).title = chat[h] /\ row(h).at = clock + 1
  <2>1. chat[h] \in Titles
    BY <1>1, <1>2 DEF ChatsTypeOK
  <2>2. (\A m \in History(h) : m.role # "user") \in BOOLEAN
    OBVIOUS
  <2> QED BY <1>3, <2>1, <2>2 DEF SenderRows
<1>5. /\ sender' \in [Senders -> SenderRows] /\ sender'[s] = row(h)
      /\ \A p \in Senders : p # s => sender'[p] = sender[p]
  <2> HIDE DEF row
  <2> QED BY <1>1, <1>2, <1>4, SenderMoves
<1> HIDE DEF row
<1>6. /\ History(h) = {m \in message : m.chat = h} /\ History(h) \subseteq message
      /\ heard' \in [1 .. MaxTalk -> SUBSET Messages] /\ heard'[talk + 1] = History(h)
      /\ \A n \in 1 .. talk : heard'[n] = heard[n]
  <2>1. History(h) \in SUBSET Messages
    BY <1>2 DEF History, ChatsTypeOK
  <2>2. heard \in [1 .. MaxTalk -> SUBSET Messages]
    BY <1>2 DEF ChatsTypeOK
  <2>3. 1 .. talk \subseteq 1 .. MaxTalk /\ talk + 1 \notin 1 .. talk
    BY <1>2, <1>3
  <2> QED BY <1>1, <1>3, <2>1, <2>2, <2>3 DEF History
<1>7. /\ crossed \subseteq crossed' /\ crossed' \subseteq 1 .. talk'
      /\ Under(h) # {} => talk + 1 \in crossed' /\ \A q \in Under(h) : sender[q].n \in crossed'
  <2>1. \A q \in Under(h) : sender[q].n \in 1 .. talk
    <3> TAKE q \in Under(h)
    <3>1. q \in Senders /\ sender[q].chat = h /\ SenderKnown(q)
      BY DEF Under, ChatsInv, SendersAreKnown
    <3> QED BY <1>1, <3>1, ChatsAssumption DEF SenderKnown
  <2>2. crossed \subseteq 1 .. talk
    BY <1>2 DEF ChatsTypeOK
  <2>3. CASE Under(h) = {}
    BY <1>1, <1>2, <1>3, <2>2, <2>3
  <2>4. CASE Under(h) # {}
    <3>1. crossed' = crossed \cup {talk + 1} \cup {sender[q].n : q \in Under(h)}
      BY <1>1, <2>4
    <3>2. talk + 1 \in crossed' /\ \A q \in Under(h) : sender[q].n \in crossed'
      BY <3>1
    <3>3. {sender[q].n : q \in Under(h)} \subseteq 1 .. talk
      BY <2>1
    <3>4. 1 .. talk \subseteq 1 .. talk' /\ talk + 1 \in 1 .. talk'
      BY <1>2, <1>3
    <3> QED BY <2>2, <3>1, <3>2, <3>3, <3>4
  <2> QED BY <2>3, <2>4
<1>8. ChatsTypeOK'
  <2>1. \A p \in Senders : sender'[p].n <= talk' /\ sender'[p].at <= clock'
    <3>1. \A p \in Senders : /\ sender[p].n <= talk /\ sender[p].at <= clock
                             /\ sender[p].at \in Nat /\ sender[p].n \in 0 .. MaxTalk
      BY <1>2, SenderRow
    <3> QED BY <1>2, <1>3, <1>4, <1>5, <3>1
  <2>2. chosen \in [ChatIds -> 0 .. talk']
    BY <1>2, <1>3 DEF ChatsTypeOK
  <2> QED BY <1>2, <1>3, <1>5, <1>6, <1>7, <2>1, <2>2 DEF ChatsTypeOK
<1>9. QuestionsStay'
  <2>1. \A g, n : Asked(g, n)' <=> Asked(g, n)
    BY <1>2 DEF Asked
  <2>2. \A p \in Senders : sender'[p].pc = "streaming" => sender'[p] = sender[p]
    BY <1>4, <1>5
  <2> QED BY <1>2, <2>1, <2>2 DEF ChatsInv, ChatsAreInOrder, QuestionsStay, Asked
<1>10. AnsweredInContext'
  <2> SUFFICES ASSUME NEW q \in message, q.role = "user", q.n \notin crossed'
               PROVE  heard'[q.n] = {m \in message : m.chat = q.chat /\ m.at < q.at}
    BY <1>2 DEF AnsweredInContext
  <2>1. q.n \in 1 .. talk
    BY <1>2, <1>3 DEF MessagesAreInOrder, ChatsTypeOK, Messages
  <2> QED BY <1>6, <1>7, <2>1 DEF ChatsInv, ChatsAreInOrder, AnsweredInContext
<1>11. ChosenTitleStays' /\ TitlesAreOfChats'
  BY <1>2 DEF ChatsInv, ChatsAreInOrder, ChosenTitleStays, TitlesAreOfChats
<1>12. MessagesAreInOrder'
  <2>1. \A m \in message : m.at \in Nat /\ m.at <= clock /\ m.n <= talk /\ m.n \in Nat
    BY <1>2 DEF MessagesAreInOrder, ChatsTypeOK, Messages
  <2>2. ASSUME NEW q \in message, q.role = "user", q.n \notin crossed', NEW p \in Senders, sender'[p].chat = q.chat
        PROVE  q.at <= sender'[p].at
    <3>1. CASE p = s
      BY <1>3, <1>4, <1>5, <2>1, <3>1
    <3>2. CASE p # s
      BY <1>2, <1>5, <1>7, <2>2, <3>2 DEF MessagesAreInOrder
    <3> QED BY <3>1, <3>2
  <2>3. \A m \in message' : m.at <= clock' /\ m.n <= talk'
    BY <1>2, <1>3, <2>1
  <2> QED BY <1>2, <2>2, <2>3 DEF MessagesAreInOrder
<1>13. ASSUME NEW p \in Senders PROVE SenderKnown(p)'
  <2>1. CASE p = s
    <3>1. chosen[h] # 0 /\ h \notin retitled => chat[h].by = "user"
      <4>1. chosen[h] # 0 /\ h \notin retitled => chat[h] = [by |-> "user", n |-> chosen[h]]
        BY <1>1 DEF ChatsInv, ChatsAreInOrder, ChosenTitleStays
      <4> QED BY <4>1
    <3>2. talk + 1 \notin crossed' => \A q \in Senders : sender'[q].chat = h => q = s
      BY <1>5, <1>7 DEF Under
    <3>3. heard'[talk + 1] = {m \in message : m.chat = h /\ m.at < clock + 1}
      <4>1. \A m \in message : m.at < clock + 1
        BY <1>2, <1>3 DEF MessagesAreInOrder, ChatsTypeOK, Messages
      <4> QED BY <1>6, <4>1
    <3>4. sender'[s].pc \in {"sending", "asking"} /\ sender'[s].chat = h /\ sender'[s].n = talk + 1
          /\ sender'[s].title = chat[h] /\ sender'[s].at = clock + 1
      BY <1>4, <1>5
    <3> QED BY <1>1, <1>2, <1>3, <2>1, <3>1, <3>2, <3>3, <3>4 DEF SenderKnown
  <2>2. CASE p # s
    <3> DEFINE g == sender[p].chat
               n == sender[p].n
    <3>1. sender'[p] = sender[p] /\ SenderKnown(p)
      BY <1>5, <2>2 DEF ChatsInv, SendersAreKnown
    <3>2. CASE sender[p].pc = "idle"
      BY <3>1, <3>2 DEF SenderKnown
    <3>3. CASE sender[p].pc # "idle"
      <4>1. n \in 1 .. talk /\ heard'[n] = heard[n]
        BY <1>6, <3>1, <3>3 DEF SenderKnown
      <4>2. g = h => n \in crossed'
        BY <1>7 DEF Under
      <4>3. n \notin crossed' => \A q \in Senders : sender'[q].chat = g => q = p
        BY <1>4, <1>5, <1>7, <3>1, <3>3, <4>2 DEF SenderKnown
      <4>4. /\ sender[p].pc = "waiting" => chat[g] # NULL
            /\ chosen[g] # 0 /\ g \notin retitled => sender[p].title.by = "user"
        BY <3>1, <3>3 DEF SenderKnown
      <4> HIDE DEF g, n
      <4>5. g = sender[p].chat /\ n = sender[p].n
        BY DEF g, n
      <4> QED BY <1>2, <1>3, <1>7, <3>1, <3>3, <4>1, <4>3, <4>4, <4>5, SenderStands
    <3> QED BY <3>2, <3>3
  <2> QED BY <2>1, <2>2
<1> QED BY <1>8, <1>9, <1>10, <1>11, <1>12, <1>13 DEF ChatsInv, ChatsAreInOrder, SendersAreKnown

\* A chat is made, or the user gives it a title.
LEMMA ChatIsTitled ==
    ASSUME ChatsInv, NEW h \in ChatIds, NEW title \in Titles, h \notin deleted,
           chat' = [chat EXCEPT ![h] = title],
           \/ /\ talk < MaxTalk /\ talk' = talk + 1 /\ title = [by |-> "user", n |-> talk + 1]
              /\ chosen' = [chosen EXCEPT ![h] = talk + 1]
              /\ retitled' = IF Under(h) = {} THEN retitled ELSE retitled \cup {h}
           \/ chat[h] = NULL /\ UNCHANGED <<talk, chosen, retitled>>,
           UNCHANGED <<message, sender, clock, deleted, heard, crossed>>
    PROVE  ChatsInv'
<1>1. ChatsTypeOK /\ MessagesAreInOrder /\ talk \in Nat /\ MaxTalk \in Nat /\ title # NULL
  BY ChatsAssumption, ChatRowAssumption DEF ChatsInv, ChatsAreInOrder, ChatsTypeOK
<1>2. talk' \in 0 .. MaxTalk /\ talk <= talk' /\ chosen' \in [ChatIds -> 0 .. talk'] /\ retitled' \subseteq ChatIds
  <2>1. CASE talk' = talk + 1 /\ talk < MaxTalk /\ chosen' = [chosen EXCEPT ![h] = talk + 1]
             /\ retitled' = IF Under(h) = {} THEN retitled ELSE retitled \cup {h}
    <3>1. 0 .. talk \subseteq 0 .. talk' /\ talk + 1 \in 0 .. talk'
      BY <1>1, <2>1
    <3>2. chosen' \in [ChatIds -> 0 .. talk']
      BY <1>1, <2>1, <3>1 DEF ChatsTypeOK
    <3> QED BY <1>1, <2>1, <3>2 DEF ChatsTypeOK
  <2>2. CASE UNCHANGED <<talk, chosen, retitled>>
    BY <1>1, <2>2 DEF ChatsTypeOK
  <2> QED BY <2>1, <2>2
<1>3. /\ chat' \in [ChatIds -> Titles \cup {NULL}] /\ chat'[h] = title
      /\ \A g \in ChatIds : g # h => chat'[g] = chat[g] /\ chosen'[g] = chosen[g]
      /\ \A g : g # h => (g \in retitled' <=> g \in retitled)
  BY <1>1 DEF ChatsTypeOK
<1>4. ChatsTypeOK'
  <2>1. \A m \in message : chat'[m.chat] # NULL
    BY <1>1, <1>3 DEF ChatsTypeOK, Messages
  <2>2. \A s \in Senders : sender[s].n <= talk'
    BY <1>1, <1>2, SenderRow
  <2>3. crossed \subseteq 1 .. talk'
    BY <1>1, <1>2 DEF ChatsTypeOK
  <2>4. deleted \subseteq {g \in ChatIds : chat'[g] = NULL}
    BY <1>1, <1>3 DEF ChatsTypeOK
  <2> QED BY <1>1, <1>2, <1>3, <2>1, <2>2, <2>3, <2>4 DEF ChatsTypeOK
<1>5. \A s \in Senders : SenderKnown(s)
  BY DEF ChatsInv, SendersAreKnown
<1>6. QuestionsStay'
  <2>1. \A s \in Senders : sender[s].pc = "streaming" /\ chat'[sender[s].chat] # NULL => chat[sender[s].chat] # NULL
    BY <1>3, <1>5 DEF SenderKnown
  <2> QED BY <2>1 DEF ChatsInv, ChatsAreInOrder, QuestionsStay, Asked
<1>7. AnsweredInContext'
  BY DEF ChatsInv, ChatsAreInOrder, AnsweredInContext
<1>8. ChosenTitleStays' /\ TitlesAreOfChats'
  <2>1. chosen[h] = 0 \/ chat[h] # NULL
    BY DEF ChatsInv, TitlesAreOfChats
  <2>2. \/ title = [by |-> "user", n |-> chosen'[h]]
        \/ chosen'[h] = chosen[h] /\ chosen[h] = 0
    BY <1>1, <2>1 DEF ChatsTypeOK
  <2>3. ChosenTitleStays'
    <3> SUFFICES ASSUME NEW g \in ChatIds, chat'[g] # NULL, chosen'[g] # 0, g \notin retitled'
                 PROVE  chat'[g] = [by |-> "user", n |-> chosen'[g]]
      BY DEF ChosenTitleStays
    <3>1. CASE g = h
      BY <1>3, <2>2, <3>1
    <3>2. CASE g # h
      BY <1>3, <3>2 DEF ChatsInv, ChatsAreInOrder, ChosenTitleStays
    <3> QED BY <3>1, <3>2
  <2>4. TitlesAreOfChats'
    BY <1>1, <1>3 DEF ChatsInv, TitlesAreOfChats
  <2> QED BY <2>3, <2>4
<1>9. MessagesAreInOrder'
  <2>1. \A m \in message : m.n <= talk'
    BY <1>1, <1>2 DEF MessagesAreInOrder, ChatsTypeOK, Messages
  <2> QED BY <1>1, <2>1 DEF MessagesAreInOrder
<1>10. ASSUME NEW p \in Senders PROVE SenderKnown(p)'
  <2>1. CASE sender[p].pc = "idle"
    BY <1>5, <2>1 DEF SenderKnown
  <2>2. CASE sender[p].pc # "idle"
    <3> DEFINE g == sender[p].chat
               n == sender[p].n
    <3>1. SenderKnown(p) /\ g \in ChatIds /\ (chat[g] # NULL \/ g \in deleted)
      BY <1>5, <2>2 DEF SenderKnown
    <3>2. p \in Under(g)
      BY DEF Under
    <3>3. chosen'[g] # 0 /\ g \notin retitled' => sender[p].title.by = "user"
      <4>1. chosen[g] # 0 /\ g \notin retitled => sender[p].title.by = "user"
        BY <2>2, <3>1 DEF SenderKnown
      <4>2. CASE g # h
        BY <1>3, <3>1, <4>1, <4>2
      <4>3. CASE g = h
        <5>1. chat[h] # NULL
          BY <3>1, <4>3
        <5>2. h \in retitled'
          BY <3>2, <4>3, <5>1
        <5> QED BY <4>3, <5>2
      <4> QED BY <4>2, <4>3
    <3>4. /\ chat[g] # NULL <=> chat'[g] # NULL
          /\ sender[p].pc = "waiting" => chat'[g] # NULL
          /\ n \notin crossed => \A q \in Senders : sender[q].chat = g => q = p
      BY <1>1, <1>3, <2>2, <3>1 DEF SenderKnown
    <3> HIDE DEF g, n
    <3>5. g = sender[p].chat /\ n = sender[p].n
      BY DEF g, n
    <3> QED BY <1>1, <1>2, <3>1, <3>3, <3>4, <3>5, SenderStands
  <2> QED BY <2>1, <2>2
<1> QED BY <1>4, <1>6, <1>7, <1>8, <1>9, <1>10 DEF ChatsInv, ChatsAreInOrder, SendersAreKnown

LEMMA DeleteChatKeeps ==
    ASSUME ChatsInv, NEW h \in ChatIds, DeleteChat(h)
    PROVE  ChatsInv'
<1>1. /\ ChatsTypeOK /\ chat[h] # NULL /\ (\A s \in Senders : sender[s].chat = h => sender[s].pc # "waiting")
      /\ chat' = [chat EXCEPT ![h] = NULL] /\ message' = {m \in message : m.chat # h} /\ deleted' = deleted \cup {h}
      /\ UNCHANGED <<sender, talk, clock, heard, crossed, chosen, retitled>>
  BY DEF ChatsInv, ChatsAreInOrder, DeleteChat, Deletable, Under
<1>2. /\ chat' \in [ChatIds -> Titles \cup {NULL}] /\ chat'[h] = NULL
      /\ \A g \in ChatIds : g # h => chat'[g] = chat[g]
  BY <1>1 DEF ChatsTypeOK
<1>3. \A m \in message : m.chat \in ChatIds
  BY <1>1 DEF ChatsTypeOK, Messages
<1>4. ChatsTypeOK'
  <2>1. message' \subseteq Messages /\ \A m \in message' : chat'[m.chat] # NULL
    BY <1>1, <1>2, <1>3 DEF ChatsTypeOK
  <2>2. deleted' \subseteq {g \in ChatIds : chat'[g] = NULL}
    BY <1>1, <1>2 DEF ChatsTypeOK
  <2> QED BY <1>1, <1>2, <2>1, <2>2 DEF ChatsTypeOK
<1>5. \A s \in Senders : SenderKnown(s)
  BY DEF ChatsInv, SendersAreKnown
<1>6. QuestionsStay'
  <2>1. \A g, n : g # h /\ Asked(g, n) => Asked(g, n)'
    BY <1>1 DEF Asked
  <2>2. ASSUME NEW m \in message' PROVE Asked(m.chat, m.n)'
    BY <1>1, <2>1 DEF ChatsInv, ChatsAreInOrder, QuestionsStay
  <2>3. ASSUME NEW p \in Senders, sender'[p].pc = "streaming", NEW g, NEW n,
               g = sender'[p].chat, n = sender'[p].n, chat'[g] # NULL
        PROVE  Asked(g, n)'
    <3>1. g \in ChatIds /\ g # h /\ chat[g] # NULL
      BY <1>1, <1>2, <1>5, <2>3 DEF SenderKnown
    <3> QED BY <1>1, <2>1, <2>3, <3>1 DEF ChatsInv, ChatsAreInOrder, QuestionsStay
  <2> QED BY <2>2, <2>3 DEF QuestionsStay, Asked
<1>7. AnsweredInContext'
  <2> SUFFICES ASSUME NEW q \in message', q.role = "user", q.n \notin crossed
               PROVE  heard[q.n] = {m \in message' : m.chat = q.chat /\ m.at < q.at}
    BY <1>1 DEF AnsweredInContext
  <2>1. heard[q.n] = {m \in message : m.chat = q.chat /\ m.at < q.at} /\ q.chat # h
    BY <1>1 DEF ChatsInv, ChatsAreInOrder, AnsweredInContext
  <2> QED BY <1>1, <2>1
<1>8. ChosenTitleStays' /\ TitlesAreOfChats'
  BY <1>1, <1>2 DEF ChatsInv, ChatsAreInOrder, ChosenTitleStays, TitlesAreOfChats
<1>9. MessagesAreInOrder'
  BY <1>1 DEF ChatsInv, MessagesAreInOrder
<1>10. ASSUME NEW p \in Senders PROVE SenderKnown(p)'
  <2>1. CASE sender[p].pc = "idle"
    BY <1>1, <1>5, <2>1 DEF SenderKnown
  <2>2. CASE sender[p].pc # "idle"
    <3> DEFINE g == sender[p].chat
               n == sender[p].n
    <3>1. SenderKnown(p) /\ g \in ChatIds /\ sender'[p] = sender[p]
      BY <1>1, <1>5, <2>2 DEF SenderKnown
    <3>2. /\ chat[g] # NULL \/ g \in deleted => chat'[g] # NULL \/ g \in deleted'
          /\ sender[p].pc = "waiting" => chat'[g] # NULL
          /\ chosen'[g] # 0 /\ g \notin retitled' => sender[p].title.by = "user"
          /\ n \notin crossed' => \A q \in Senders : sender'[q].chat = g => q = p
      BY <1>1, <1>2, <2>2, <3>1 DEF SenderKnown
    <3>3. ASSUME chat'[g] # NULL
          PROVE  chat[g] # NULL /\ \A m : m.chat = g => (m \in message' <=> m \in message)
      BY <1>1, <1>2, <3>1, <3>3
    <3> HIDE DEF g, n
    <3>4. /\ g = sender[p].chat /\ n = sender[p].n /\ talk \in Nat /\ talk' = talk
          /\ heard' = heard /\ crossed' = crossed
      BY <1>1, ChatsAssumption DEF g, n, ChatsTypeOK
    <3> QED BY <3>1, <3>2, <3>3, <3>4, SenderStands
  <2> QED BY <2>1, <2>2
<1> QED BY <1>4, <1>6, <1>7, <1>8, <1>9, <1>10 DEF ChatsInv, ChatsAreInOrder, SendersAreKnown

LEMMA ChatsInvInit == ChatsInit => ChatsInv
<1> SUFFICES ASSUME ChatsInit PROVE ChatsInv
  OBVIOUS
<1>1. MaxTalk \in Nat
  BY ChatsAssumption
<1>2. IdleSender \in SenderRows
  BY <1>1 DEF IdleSender, SenderRows, Untitled, Titles
<1>3. IdleSender.pc = "idle" /\ IdleSender.n = 0 /\ IdleSender.at = 0 /\ IdleSender.chat = NULL
  BY DEF IdleSender
<1>4. ChatsTypeOK
  BY <1>1, <1>2, <1>3 DEF ChatsInit, ChatsTypeOK
<1>5. SendersAreKnown
  BY <1>3 DEF ChatsInit, SendersAreKnown, SenderKnown
<1>6. QuestionsStay
  BY <1>3 DEF ChatsInit, QuestionsStay, Asked
<1> QED BY <1>4, <1>5, <1>6
        DEF ChatsInit, ChatsInv, ChatsAreInOrder, AnsweredInContext, ChosenTitleStays, MessagesAreInOrder,
            TitlesAreOfChats

LEMMA ChatsInvStep == ChatsInv /\ [ChatsNext]_chatVars => ChatsInv'
<1> SUFFICES ASSUME ChatsInv, [ChatsNext]_chatVars PROVE ChatsInv'
  OBVIOUS
<1>1. ASSUME NEW h \in ChatIds, CreateChat(h) \/ UpdateChat(h) \/ DeleteChat(h) PROVE ChatsInv'
  <2>1. ChatsTypeOK /\ talk \in Nat /\ MaxTalk \in Nat
    BY ChatsAssumption DEF ChatsInv, ChatsAreInOrder, ChatsTypeOK
  <2> DEFINE title == [by |-> "user", n |-> talk + 1]
  <2>2. talk < MaxTalk => title \in Titles
    BY <2>1 DEF Titles
  <2>3. Untitled \in Titles
    BY <2>1 DEF Untitled, Titles
  <2>4. CASE CreateChat(h)
    <3>1. CASE Choose(h)
      BY <2>2, <2>4, <3>1, ChatIsTitled DEF CreateChat, Choose
    <3>2. CASE ~Choose(h)
      BY <2>3, <2>4, <3>2, ChatIsTitled DEF CreateChat
    <3> QED BY <3>1, <3>2
  <2>5. CASE UpdateChat(h)
    <3>1. h \notin deleted
      BY <2>1, <2>5 DEF UpdateChat, ChatsTypeOK
    <3> QED BY <2>2, <2>5, <3>1, ChatIsTitled DEF UpdateChat, Choose
  <2>6. CASE DeleteChat(h)
    BY <2>6, DeleteChatKeeps
  <2> QED BY <1>1, <2>4, <2>5, <2>6
<1>2. ASSUME NEW s \in Senders, \/ BeginSend(s) \/ InsertQuestion(s) \/ CommitSend(s)
                                \/ BeginStream(s) \/ CommitQuestion(s) \/ CommitAnswer(s) \/ HangsUp(s)
      PROVE  ChatsInv'
  <2>1. SenderKnown(s)
    BY DEF ChatsInv, SendersAreKnown
  <2>2. CASE BeginSend(s) \/ BeginStream(s)
    BY <2>2, ReadKeeps DEF BeginSend, BeginStream
  <2>3. CASE InsertQuestion(s) \/ HangsUp(s)
    BY <2>3, NothingIsWritten DEF InsertQuestion, HangsUp
  <2>4. CASE CommitSend(s)
    <3>1. chat[sender[s].chat] # NULL /\ sender[s].pc = "waiting"
      BY <2>1, <2>4 DEF CommitSend, SenderKnown
    <3> QED BY <2>4, <3>1, AnswerLands DEF CommitSend
  <2>5. CASE CommitQuestion(s)
    <3>1. CASE chat[sender[s].chat] = NULL
      BY <2>5, <3>1, NothingIsWritten DEF CommitQuestion
    <3>2. CASE chat[sender[s].chat] # NULL
      BY <2>5, <3>2, QuestionLands
    <3> QED BY <3>1, <3>2
  <2>6. CASE CommitAnswer(s)
    <3>1. CASE chat[sender[s].chat] = NULL
      BY <2>6, <3>1, NothingIsWritten DEF CommitAnswer
    <3>2. CASE chat[sender[s].chat] # NULL
      BY <2>6, <3>2, AnswerLands DEF CommitAnswer
    <3> QED BY <3>1, <3>2
  <2> QED BY <1>2, <2>2, <2>3, <2>4, <2>5, <2>6
<1>3. CASE UNCHANGED chatVars
  BY <1>3 DEF chatVars, ChatsInv, ChatsAreInOrder, ChatsTypeOK, QuestionsStay, Asked, AnsweredInContext,
     ChosenTitleStays, SendersAreKnown, SenderKnown, MessagesAreInOrder, TitlesAreOfChats
<1> QED BY <1>1, <1>2, <1>3 DEF ChatsNext

\* Whatever the number of chats, requests and messages: a question stays when its answer does not
\* come, the model is given what was said before it, and a title the user gave stays, unless
\* requests on the chat overlapped (send_message.py, stream_message.py, update_chat.py).
THEOREM ChatsStayInOrder == ChatsSpec => []ChatsAreInOrder
<1>1. ChatsInv => ChatsAreInOrder
  BY DEF ChatsInv
<1> QED BY <1>1, ChatsInvInit, ChatsInvStep, PTL DEF ChatsSpec

-----------------------------------------------------------------------------
(* Agent prompts: the inductive invariant.                                 *)

\* The template of an interview's prompt uses what it must.
HealthPromptsAreValid == \A k \in PROMPT_KEYS : prompt[k] # NULL => prompt[k].uses = Placeholders(k)

\* The newest version is that of the row, and names its template.
PublishedIsOfTheRow ==
    /\ \A x \in published : /\ prompt[x[1]] # NULL
                            /\ x[1] \notin raced => x[2] <= prompt[x[1]].version
    /\ \A k \in Keys : prompt[k] # NULL => <<k, prompt[k].version, prompt[k].text>> \in published

\* An editor has the row as it is, when nobody else works on it.
EditorKnown(e) ==
    IF editor[e].pc = "idle" THEN editor[e].key = NULL
    ELSE LET k == editor[e].key
         IN  /\ k \in Edited /\ prompt[k] # NULL /\ editor[e].seen # NULL
             /\ k \notin raced => /\ editor[e].seen = prompt[k]
                                  /\ \A d \in Editors : editor[d].key = k => d = e

PromptsInv ==
    /\ PromptsAreWhole /\ HealthPromptsAreValid /\ PublishedIsOfTheRow
    /\ \A e \in Editors : EditorKnown(e)

-----------------------------------------------------------------------------
(* Templates.                                                              *)

LEMMA ReleaseRendersWhole ==
    ASSUME NEW k \in PROMPT_KEYS
    PROVE  k \in Keys /\ k \notin AgentId /\ Default(k) = Placeholders(k) /\ Mapping(k) = Placeholders(k)
<1>1. k \in Keys /\ k \notin AgentId
  BY DEF Keys, PROMPT_KEYS, AgentId
<1>2. Default(k) = Placeholders(k)
  BY DEF PROMPT_KEYS, Default, Placeholders, FacilitatorTemplate, CoveragePlannerTemplate, EvidenceMapperTemplate,
     ScoringTemplate, InterviewContextTemplate, TeamReportTemplate, AdminReportTemplate, GuardrailTemplate
<1>3. Mapping(k) = Placeholders(k)
  BY DEF PROMPT_KEYS, Mapping, Placeholders
<1> QED BY <1>1, <1>2, <1>3

LEMMA DefaultTyped ==
    ASSUME NEW k \in Keys
    PROVE  Placeholders(k) \subseteq Vocabulary /\ Default(k) \subseteq Vocabulary
<1>1. Placeholders(k) \subseteq Vocabulary
  BY DEF Vocabulary
<1>2. CASE k \in PROMPT_KEYS
  BY <1>1, <1>2, ReleaseRendersWhole
<1>3. CASE k \in AgentId
  <2>1. Default(k) = {}
    BY <1>3 DEF AgentId, Default
  <2> QED BY <1>1, <2>1
<1> QED BY <1>2, <1>3 DEF Keys

LEMMA DefaultRowTyped ==
    ASSUME NEW k \in Keys
    PROVE  /\ DefaultRow(k) \in Rows /\ DefaultRow(k) # NULL /\ DefaultRow(k).uses = Default(k)
           /\ DefaultRow(k).version = 1 /\ DefaultRow(k).text = 0
<1>1. DefaultRow(k) \in Rows
  BY DefaultTyped DEF DefaultRow, Rows
<1> QED BY <1>1, PromptRowAssumption DEF DefaultRow

LEMMA SubmittedTyped ==
    ASSUME NEW k \in Keys, NEW needs \in Submitted(k)
    PROVE  needs \in SUBSET Vocabulary
<1>1. Placeholders(k) \subseteq Vocabulary
  BY DefaultTyped
<1>2. "unknown" \in Vocabulary
  BY DEF Vocabulary
<1>3. needs \subseteq Placeholders(k) \cup {"unknown"}
  BY DEF Submitted
<1> QED BY <1>1, <1>2, <1>3

RowWith(row, text, needs, named) == [[[row EXCEPT !.text = text] EXCEPT !.uses = needs] EXCEPT !.named = named]

LEMMA RowWithKeeps ==
    ASSUME NEW row \in Rows, NEW text \in Nat, NEW needs \in SUBSET Vocabulary,
           NEW named \in {"release", "otherwise"}
    PROVE  RowWith(row, text, needs, named)
               = [text |-> text, uses |-> needs, named |-> named, version |-> row.version]
<1> DEFINE one == [row EXCEPT !.text = text]
           two == [one EXCEPT !.uses = needs]
           three == [two EXCEPT !.named = named]
<1>1. one \in Rows /\ one.text = text /\ one.version = row.version
  BY DEF Rows
<1>2. two \in Rows /\ two.text = text /\ two.uses = needs /\ two.version = row.version
  <2> HIDE DEF one
  <2> QED BY <1>1 DEF Rows
<1>3. three \in Rows /\ three.text = text /\ three.uses = needs /\ three.named = named /\ three.version = row.version
  <2> HIDE DEF two
  <2> QED BY <1>2 DEF Rows
<1>4. three = [text |-> text, uses |-> needs, named |-> named, version |-> row.version]
  <2> HIDE DEF three
  <2> QED BY <1>3 DEF Rows
<1> QED BY <1>4 DEF RowWith

LEMMA PromptsRender == (HealthPromptsAreValid => RenderedWhole) /\ (HealthPromptsAreValid' => RenderedWhole')
<1>1. \A k \in PROMPT_KEYS : Default(k) = Placeholders(k) /\ Mapping(k) = Placeholders(k)
  BY ReleaseRendersWhole
<1> QED BY <1>1 DEF HealthPromptsAreValid, RenderedWhole, InForce

-----------------------------------------------------------------------------
(* The steps of the replicas.                                              *)

LEMMA ReplicaGoes ==
    ASSUME AgentPromptsTypeOK, NEW r \in Replicas, NEW seen \in SUBSET Keys,
           NEW pc \in {"down", "agents", "between", "health", "up"}, Goes(r, pc, seen)
    PROVE  replica' \in [Replicas -> ReplicaRows]
BY DEF AgentPromptsTypeOK, Goes, ReplicaRows

\* Rows are inserted for prompts that have none, and replicas go on.
LEMMA RowsAreSeeded ==
    ASSUME PromptsInv, NEW keys \in SUBSET Keys, \A k \in keys : prompt[k] = NULL,
           Insert(keys) \/ UNCHANGED <<prompt, published>>,
           replica' \in [Replicas -> ReplicaRows], stops' \in 0 .. MaxStops, UNCHANGED <<editor, edits, raced>>
    PROVE  PromptsInv'
<1>1. AgentPromptsTypeOK /\ edits \in Nat
  BY AgentPromptsAssumption DEF PromptsInv, PromptsAreWhole, AgentPromptsTypeOK
<1>2. PICK new \in SUBSET keys :
          /\ prompt' = [k \in Keys |-> IF k \in new THEN DefaultRow(k) ELSE prompt[k]]
          /\ published' = published \cup {<<k, 1, 0>> : k \in new}
  <2>1. CASE Insert(keys)
    BY <2>1 DEF Insert
  <2>2. CASE UNCHANGED <<prompt, published>>
    <3>1. prompt' = [k \in Keys |-> IF k \in {} THEN DefaultRow(k) ELSE prompt[k]]
      BY <1>1, <2>2 DEF AgentPromptsTypeOK
    <3>2. published' = published \cup {<<k, 1, 0>> : k \in {}}
      BY <2>2
    <3>3. {} \in SUBSET keys
      OBVIOUS
    <3> QED BY <3>1, <3>2, <3>3
  <2> QED BY <2>1, <2>2
<1>3. \A k \in Keys : /\ k \in new => prompt'[k] = DefaultRow(k) /\ prompt[k] = NULL
                      /\ k \notin new => prompt'[k] = prompt[k]
  BY <1>2
<1>4. \A k \in new : k \in Keys /\ DefaultRow(k) \in Rows /\ DefaultRow(k) # NULL /\ DefaultRow(k).uses = Default(k)
                     /\ DefaultRow(k).version = 1 /\ DefaultRow(k).text = 0
  BY DefaultRowTyped
<1>5. \A x \in published : x[1] \in Keys /\ x[2] \in Nat /\ x[1] \notin new /\ prompt[x[1]] # NULL
  BY <1>1, <1>3 DEF AgentPromptsTypeOK, PromptsInv, PublishedIsOfTheRow
<1>6. \A x \in published' : x \in published \/ (x[1] \in new /\ x[2] = 1 /\ x[3] = 0)
  BY <1>2
<1>7. AgentPromptsTypeOK'
  <2>1. prompt' \in [Keys -> Rows \cup {NULL}]
    <3>1. \A k \in Keys : prompt'[k] \in Rows \cup {NULL}
      BY <1>1, <1>3, <1>4 DEF AgentPromptsTypeOK
    <3> QED BY <1>2, <3>1
  <2>2. \A k \in Keys : prompt'[k] # NULL => prompt'[k].text <= edits
    BY <1>1, <1>3, <1>4 DEF AgentPromptsTypeOK
  <2>3. published' \subseteq Keys \X Nat \X Nat
    BY <1>1, <1>2, <1>4 DEF AgentPromptsTypeOK
  <2> QED BY <1>1, <2>1, <2>2, <2>3 DEF AgentPromptsTypeOK
<1>8. HealthPromptsAreValid'
  BY <1>3, <1>4, ReleaseRendersWhole DEF PromptsInv, HealthPromptsAreValid
<1>9. VersionNamesATemplate'
  <2> SUFFICES ASSUME NEW x \in published', NEW y \in published', x[1] = y[1], x[2] = y[2], x[1] \notin raced
               PROVE  x[3] = y[3]
    BY DEF VersionNamesATemplate
  <2> QED BY <1>5, <1>6 DEF PromptsInv, PromptsAreWhole, VersionNamesATemplate
<1>10. PublishedIsOfTheRow'
  <2>1. \A x \in published' : prompt'[x[1]] # NULL /\ (x[1] \notin raced => x[2] <= prompt'[x[1]].version)
    BY <1>3, <1>4, <1>5, <1>6 DEF PromptsInv, PublishedIsOfTheRow
  <2>2. ASSUME NEW k \in Keys, prompt'[k] # NULL PROVE <<k, prompt'[k].version, prompt'[k].text>> \in published'
    <3>1. CASE k \in new
      BY <1>2, <1>3, <1>4, <3>1
    <3>2. CASE k \notin new
      BY <1>2, <1>3, <2>2, <3>2 DEF PromptsInv, PublishedIsOfTheRow
    <3> QED BY <3>1, <3>2
  <2> QED BY <2>1, <2>2 DEF PublishedIsOfTheRow
<1>11. ASSUME NEW e \in Editors PROVE EditorKnown(e)'
  <2>1. EditorKnown(e)
    BY DEF PromptsInv
  <2>2. editor[e].key \in Edited /\ prompt[editor[e].key] # NULL
            => prompt'[editor[e].key] = prompt[editor[e].key]
    BY <1>3, AgentPromptsAssumption
  <2> QED BY <2>1, <2>2 DEF EditorKnown
<1> QED BY <1>7, <1>8, <1>9, <1>10, <1>11, PromptsRender DEF PromptsInv, PromptsAreWhole

LEMMA ReplicasKeep ==
    ASSUME PromptsInv, NEW r \in Replicas, Starts(r) \/ Stops(r)
    PROVE  PromptsInv'
<1>1. AgentPromptsTypeOK /\ stops \in Nat /\ MaxStops \in Nat
  BY AgentPromptsAssumption DEF PromptsInv, PromptsAreWhole, AgentPromptsTypeOK
<1>2. /\ \A keys \in SUBSET Keys : Seeded(keys) \in SUBSET Keys
      /\ AgentId \in SUBSET Keys /\ PROMPT_KEYS \in SUBSET Keys /\ {} \in SUBSET Keys
  BY DEF Seeded, Keys
<1>3. CASE Boot(r)
  <2>1. replica' \in [Replicas -> ReplicaRows]
    BY <1>1, <1>2, <1>3, ReplicaGoes DEF Boot
  <2> QED BY <1>1, <1>2, <1>3, <2>1, RowsAreSeeded DEF Boot, AgentPromptsTypeOK
<1>4. CASE ReadHealth(r)
  <2>1. replica' \in [Replicas -> ReplicaRows]
    BY <1>1, <1>2, <1>4, ReplicaGoes DEF ReadHealth
  <2> QED BY <1>1, <1>2, <1>4, <2>1, RowsAreSeeded DEF ReadHealth, AgentPromptsTypeOK
<1>5. CASE SeedAgents(r)
  <2>1. replica' \in [Replicas -> ReplicaRows]
    BY <1>1, <1>2, <1>5, ReplicaGoes DEF SeedAgents
  <2> DEFINE keys == AgentId \ (replica[r].seen \cup Seeded(AgentId))
  <2>2. keys \in SUBSET Keys /\ \A k \in keys : prompt[k] = NULL
    BY <1>2 DEF Seeded
  <2> QED BY <1>1, <1>5, <2>1, <2>2, RowsAreSeeded DEF SeedAgents, AgentPromptsTypeOK
<1>6. CASE SeedHealth(r)
  <2>1. replica' \in [Replicas -> ReplicaRows]
    BY <1>1, <1>2, <1>6, ReplicaGoes DEF SeedHealth
  <2>2. CASE Seeded(Missing(r)) # {}
    BY <1>1, <1>2, <1>6, <2>1, <2>2, RowsAreSeeded DEF SeedHealth, AgentPromptsTypeOK
  <2>3. CASE Seeded(Missing(r)) = {}
    <3>1. Missing(r) \in SUBSET Keys /\ \A k \in Missing(r) : prompt[k] = NULL
      BY <1>2, <2>3 DEF Missing, Seeded
    <3> QED BY <1>1, <1>6, <2>1, <2>3, <3>1, RowsAreSeeded DEF SeedHealth, AgentPromptsTypeOK
  <2> QED BY <2>2, <2>3
<1>7. CASE Stops(r)
  <2>1. replica' \in [Replicas -> ReplicaRows]
    BY <1>1, <1>2, <1>7, ReplicaGoes DEF Stops
  <2>2. stops' \in 0 .. MaxStops
    BY <1>1, <1>7 DEF Stops
  <2> QED BY <1>1, <1>2, <1>7, <2>1, <2>2, RowsAreSeeded DEF Stops
<1> QED BY <1>3, <1>4, <1>5, <1>6, <1>7 DEF Starts

-----------------------------------------------------------------------------
(* The steps of the administrators.                                        *)

\* A request begins with the row as it is, and of two on one prompt that prompt is known to
\* be raced.
LEMMA RequestsBegin ==
    ASSUME PromptsInv, NEW e \in Editors, NEW pc \in {"editing", "resetting"}, Take(e, pc)
    PROVE  PromptsInv'
<1>1. AgentPromptsTypeOK /\ edits \in Nat /\ MaxEdits \in Nat /\ edits' = edits + 1 /\ edits' \in 0 .. MaxEdits
  BY AgentPromptsAssumption DEF PromptsInv, PromptsAreWhole, AgentPromptsTypeOK, Take
<1>2. UNCHANGED <<prompt, replica, stops, published>> /\ editor[e] = IdleEditor
  BY DEF Take
<1>3. PICK k \in Edited :
          /\ prompt[k] # NULL
          /\ editor' = [editor EXCEPT ![e] = [pc |-> pc, n |-> edits + 1, key |-> k, seen |-> prompt[k]]]
          /\ raced' = IF \E q \in Editors : editor[q].key = k THEN raced \cup {k} ELSE raced
  BY DEF Take
<1>4. k \in Keys /\ k # NULL /\ prompt[k] \in Rows
  BY <1>1, <1>3, AgentPromptsAssumption, PromptRowAssumption DEF AgentPromptsTypeOK
<1>5. /\ editor'[e].pc = pc /\ editor'[e].key = k /\ editor'[e].seen = prompt[k] /\ editor'[e].n = edits + 1
      /\ \A d \in Editors : d # e => editor'[d] = editor[d]
  BY <1>1, <1>3 DEF AgentPromptsTypeOK
<1>6. raced \subseteq raced' /\ raced' \subseteq Edited
  BY <1>1, <1>3 DEF AgentPromptsTypeOK
<1>7. AgentPromptsTypeOK'
  <2>1. editor' \in [Editors -> EditorRows]
    <3>1. [pc |-> pc, n |-> edits + 1, key |-> k, seen |-> prompt[k]] \in EditorRows
      BY <1>1, <1>4 DEF EditorRows
    <3> QED BY <1>1, <1>3, <3>1 DEF AgentPromptsTypeOK
  <2>2. \A d \in Editors : editor[d].n \in Nat
    BY <1>1 DEF AgentPromptsTypeOK, EditorRows
  <2>3. \A d \in Editors : editor'[d].n <= edits'
    BY <1>1, <1>5, <2>2 DEF AgentPromptsTypeOK
  <2>4. \A j \in Keys : prompt[j] # NULL => prompt[j].text \in Nat
    BY <1>1 DEF AgentPromptsTypeOK, Rows
  <2>5. \A j \in Keys : prompt'[j] # NULL => prompt'[j].text <= edits'
    BY <1>1, <1>2, <2>4 DEF AgentPromptsTypeOK
  <2> QED BY <1>1, <1>2, <1>6, <2>1, <2>3, <2>5 DEF AgentPromptsTypeOK
<1>8. HealthPromptsAreValid' /\ VersionNamesATemplate' /\ PublishedIsOfTheRow'
  <2>1. HealthPromptsAreValid'
    BY <1>2 DEF PromptsInv, HealthPromptsAreValid
  <2>2. VersionNamesATemplate'
    BY <1>2, <1>6 DEF PromptsInv, PromptsAreWhole, VersionNamesATemplate
  <2>3. PublishedIsOfTheRow'
    BY <1>2, <1>6 DEF PromptsInv, PublishedIsOfTheRow
  <2> QED BY <2>1, <2>2, <2>3
<1>9. ASSUME NEW d \in Editors PROVE EditorKnown(d)'
  <2>1. \A q \in Editors : EditorKnown(q)
    BY DEF PromptsInv
  <2>2. k \notin raced' => \A q \in Editors : editor[q].key # k
    BY <1>3
  <2>3. CASE d = e
    BY <1>2, <1>3, <1>4, <1>5, <2>2, <2>3 DEF EditorKnown
  <2>4. CASE d # e /\ editor[d].pc = "idle"
    BY <1>5, <2>1, <2>4 DEF EditorKnown
  <2>5. CASE d # e /\ editor[d].pc # "idle"
    <3> DEFINE j == editor[d].key
    <3>1. /\ j \in Edited /\ prompt[j] # NULL /\ editor[d].seen # NULL
          /\ j \notin raced => editor[d].seen = prompt[j] /\ \A q \in Editors : editor[q].key = j => q = d
      BY <2>1, <2>5 DEF EditorKnown
    <3>2. j \notin raced' => /\ editor[d].seen = prompt[j]
                             /\ \A q \in Editors : editor'[q].key = j => q = d
      BY <1>5, <1>6, <2>2, <2>5, <3>1
    <3> QED BY <1>2, <1>5, <2>5, <3>1, <3>2 DEF EditorKnown
  <2> QED BY <2>3, <2>4, <2>5
<1> QED BY <1>7, <1>8, <1>9, PromptsRender DEF PromptsInv, PromptsAreWhole

\* A request ends with a row that is as valid as what it replaces; alone on its prompt, it
\* makes a new version or leaves the template.
LEMMA RowsAreWritten ==
    ASSUME PromptsInv, NEW e \in Editors, editor[e].pc # "idle", NEW k, k = editor[e].key, NEW row \in Rows,
           row.text <= edits, k \in PROMPT_KEYS => row.uses = Placeholders(k),
           k \notin raced => \/ row.version > prompt[k].version
                             \/ row.version = prompt[k].version /\ row.text = prompt[k].text,
           prompt' = [prompt EXCEPT ![k] = row], published' = published \cup {<<k, row.version, row.text>>},
           Rest(e), UNCHANGED <<replica, edits, stops, raced>>
    PROVE  PromptsInv'
<1>1. AgentPromptsTypeOK
  BY DEF PromptsInv, PromptsAreWhole
<1>2. /\ k \in Edited /\ k \in Keys /\ k # NULL /\ prompt[k] # NULL /\ prompt[k] \in Rows /\ row # NULL
      /\ k \notin raced => \A d \in Editors : editor[d].key = k => d = e
  <2>1. EditorKnown(e)
    BY DEF PromptsInv
  <2> QED BY <1>1, <2>1, AgentPromptsAssumption, PromptRowAssumption DEF EditorKnown, AgentPromptsTypeOK
<1>3. prompt'[k] = row /\ \A j \in Keys : j # k => prompt'[j] = prompt[j]
  BY <1>1, <1>2 DEF AgentPromptsTypeOK
<1>4. editor'[e] = IdleEditor /\ \A d \in Editors : d # e => editor'[d] = editor[d]
  BY <1>1 DEF AgentPromptsTypeOK, Rest
<1>5. row.version \in Nat /\ row.text \in Nat /\ prompt[k].version \in Nat
  BY <1>2 DEF Rows
<1>6. \A x \in published : x[1] \in Keys /\ x[2] \in Nat
  BY <1>1 DEF AgentPromptsTypeOK
<1>7. AgentPromptsTypeOK'
  <2>1. editor' \in [Editors -> EditorRows]
    BY <1>1 DEF AgentPromptsTypeOK, Rest, IdleEditor, EditorRows
  <2>2. \A d \in Editors : editor'[d].n <= edits'
    BY <1>1, <1>4, AgentPromptsAssumption DEF AgentPromptsTypeOK, IdleEditor
  <2>3. prompt' \in [Keys -> Rows \cup {NULL}]
    BY <1>1, <1>2 DEF AgentPromptsTypeOK
  <2>4. \A j \in Keys : prompt'[j] # NULL => prompt'[j].text <= edits'
    BY <1>1, <1>3 DEF AgentPromptsTypeOK
  <2>5. published' \subseteq Keys \X Nat \X Nat
    BY <1>1, <1>2, <1>5 DEF AgentPromptsTypeOK
  <2> QED BY <1>1, <2>1, <2>2, <2>3, <2>4, <2>5 DEF AgentPromptsTypeOK
<1>8. HealthPromptsAreValid'
  BY <1>3, ReleaseRendersWhole DEF PromptsInv, HealthPromptsAreValid
<1>9. VersionNamesATemplate'
  <2> SUFFICES ASSUME NEW x \in published', NEW y \in published', x[1] = y[1], x[2] = y[2], x[1] \notin raced
               PROVE  x[3] = y[3]
    BY DEF VersionNamesATemplate
  <2>1. \A z \in published' : z \in published \/ (z[1] = k /\ z[2] = row.version /\ z[3] = row.text)
    OBVIOUS
  <2>2. ASSUME NEW z \in published, z[1] = k, z[2] = row.version, k \notin raced PROVE z[3] = row.text
    <3>1. z[2] <= prompt[k].version
      BY <2>2 DEF PromptsInv, PublishedIsOfTheRow
    <3>2. row.version = prompt[k].version /\ row.text = prompt[k].text
      BY <1>5, <2>2, <3>1
    <3>3. <<k, prompt[k].version, prompt[k].text>> \in published
      BY <1>2 DEF PromptsInv, PublishedIsOfTheRow
    <3> QED BY <2>2, <3>2, <3>3 DEF PromptsInv, PromptsAreWhole, VersionNamesATemplate
  <2>3. CASE x \in published /\ y \in published
    BY <2>3 DEF PromptsInv, PromptsAreWhole, VersionNamesATemplate
  <2> QED BY <2>1, <2>2, <2>3
<1>10. PublishedIsOfTheRow'
  <2>1. ASSUME NEW x \in published' PROVE prompt'[x[1]] # NULL /\ (x[1] \notin raced => x[2] <= prompt'[x[1]].version)
    <3>1. CASE x = <<k, row.version, row.text>>
      BY <1>2, <1>3, <1>5, <3>1
    <3>2. CASE x \in published /\ x[1] = k
      <4>1. k \notin raced => x[2] <= prompt[k].version
        BY <3>2 DEF PromptsInv, PublishedIsOfTheRow
      <4> QED BY <1>2, <1>3, <1>5, <1>6, <3>2, <4>1
    <3>3. CASE x \in published /\ x[1] # k
      BY <1>3, <1>6, <3>3 DEF PromptsInv, PublishedIsOfTheRow
    <3> QED BY <3>1, <3>2, <3>3
  <2>2. ASSUME NEW j \in Keys, prompt'[j] # NULL PROVE <<j, prompt'[j].version, prompt'[j].text>> \in published'
    BY <1>3, <2>2 DEF PromptsInv, PublishedIsOfTheRow
  <2> QED BY <2>1, <2>2 DEF PublishedIsOfTheRow
<1>11. ASSUME NEW d \in Editors PROVE EditorKnown(d)'
  <2>1. CASE d = e
    BY <1>4, <2>1 DEF EditorKnown, IdleEditor
  <2>2. CASE d # e /\ editor[d].pc = "idle"
    <3>1. EditorKnown(d)
      BY DEF PromptsInv
    <3> QED BY <1>4, <2>2, <3>1 DEF EditorKnown
  <2>3. CASE d # e /\ editor[d].pc # "idle"
    <3> DEFINE j == editor[d].key
    <3>1. /\ j \in Edited /\ prompt[j] # NULL /\ editor[d].seen # NULL
          /\ j \notin raced => editor[d].seen = prompt[j] /\ \A q \in Editors : editor[q].key = j => q = d
      BY <2>3 DEF PromptsInv, EditorKnown
    <3>2. j \in Keys /\ j # NULL
      BY <3>1, AgentPromptsAssumption, PromptRowAssumption
    <3>3. prompt'[j] # NULL /\ (j \notin raced => prompt'[j] = prompt[j])
      BY <1>2, <1>3, <2>3, <3>1, <3>2
    <3>4. \A q \in Editors : editor'[q].key = j => editor[q].key = j
      BY <1>4, <3>2 DEF IdleEditor
    <3> QED BY <1>4, <2>3, <3>1, <3>3, <3>4 DEF EditorKnown
  <2> QED BY <2>1, <2>2, <2>3
<1> QED BY <1>7, <1>8, <1>9, <1>10, <1>11, PromptsRender DEF PromptsInv, PromptsAreWhole

LEMMA UpdatesKeep ==
    ASSUME PromptsInv, NEW e \in Editors, CommitUpdate(e)
    PROVE  PromptsInv'
<1> DEFINE k == editor[e].key
           seen == editor[e].seen
<1>1. /\ AgentPromptsTypeOK /\ editor[e].pc = "editing" /\ Rest(e)
      /\ UNCHANGED <<replica, edits, stops, raced>>
  BY DEF PromptsInv, PromptsAreWhole, CommitUpdate
<1>2. /\ k \in Keys /\ prompt[k] \in Rows /\ seen \in Rows /\ prompt[k].text <= edits
      /\ k \notin raced => seen = prompt[k]
      /\ editor[e].n \in Nat /\ editor[e].n <= edits
  <2>1. EditorKnown(e)
    BY DEF PromptsInv
  <2> QED BY <1>1, <2>1, AgentPromptsAssumption DEF EditorKnown, AgentPromptsTypeOK, EditorRows
<1>3. seen.version \in Nat /\ prompt[k].version \in Nat
  BY <1>2 DEF Rows
<1>4. k \in PROMPT_KEYS => prompt[k].uses = Placeholders(k)
  BY <1>2, PromptRowAssumption DEF PromptsInv, HealthPromptsAreValid
<1>5. <<k, prompt[k].version, prompt[k].text>> \in published
  BY <1>2, PromptRowAssumption DEF PromptsInv, PublishedIsOfTheRow
<1>6. ASSUME NEW needs \in Submitted(k), Valid(k, needs), NEW named \in {prompt[k].named, "otherwise"},
             Publish(e, editor[e].n, needs, named)
      PROVE  PromptsInv'
  <2>1. \A row : row = [text |-> editor[e].n, uses |-> needs, named |-> named, version |-> seen.version + 1]
                    => PromptsInv'
    <3> SUFFICES ASSUME NEW row,
                        row = [text |-> editor[e].n, uses |-> needs, named |-> named, version |-> seen.version + 1]
                 PROVE  PromptsInv'
      OBVIOUS
    <3>1. row \in Rows
      BY <1>2, <1>3, SubmittedTyped DEF Rows
    <3>2. k \in PROMPT_KEYS => row.uses = Placeholders(k)
      BY <1>6, ReleaseRendersWhole DEF Valid
    <3>3. row.text <= edits /\ (k \notin raced => row.version > prompt[k].version)
      BY <1>2, <1>3
    <3>4. prompt' = [prompt EXCEPT ![k] = row] /\ published' = published \cup {<<k, row.version, row.text>>}
      BY <1>6 DEF Publish
    <3> QED BY <1>1, <3>1, <3>2, <3>3, <3>4, RowsAreWritten
  <2> QED BY <2>1
<1>7. CASE UNCHANGED <<prompt, published>>
  <2>1. prompt' = [prompt EXCEPT ![k] = prompt[k]]
    BY <1>1, <1>2, <1>7 DEF AgentPromptsTypeOK
  <2>2. published' = published \cup {<<k, prompt[k].version, prompt[k].text>>}
    BY <1>5, <1>7
  <2> QED BY <1>1, <1>2, <1>4, <2>1, <2>2, RowsAreWritten
<1>8. CASE prompt' = [prompt EXCEPT ![k].named = "otherwise"] /\ UNCHANGED published
  <2>1. \A row : row = [prompt[k] EXCEPT !.named = "otherwise"] => PromptsInv'
    <3> SUFFICES ASSUME NEW row, row = [prompt[k] EXCEPT !.named = "otherwise"]
                 PROVE  PromptsInv'
      OBVIOUS
    <3>1. /\ row \in Rows /\ row.text = prompt[k].text /\ row.uses = prompt[k].uses
          /\ row.version = prompt[k].version
      BY <1>2 DEF Rows
    <3>2. prompt' = [prompt EXCEPT ![k] = row]
      BY <1>8
    <3>3. published' = published \cup {<<k, row.version, row.text>>}
      BY <1>5, <1>8, <3>1
    <3> QED BY <1>1, <1>2, <1>4, <3>1, <3>2, <3>3, RowsAreWritten
  <2> QED BY <2>1
<1> QED BY <1>6, <1>7, <1>8 DEF CommitUpdate

LEMMA ResetsKeep ==
    ASSUME PromptsInv, NEW e \in Editors, CommitReset(e)
    PROVE  PromptsInv'
<1> DEFINE k == editor[e].key
           seen == editor[e].seen
           text == IF seen.text # 0 THEN 0 ELSE prompt[k].text
           needs == IF seen.text # 0 THEN Default(k) ELSE prompt[k].uses
           named == IF seen.named # "release" THEN "release" ELSE prompt[k].named
<1>1. /\ AgentPromptsTypeOK /\ editor[e].pc = "resetting" /\ Rest(e)
      /\ UNCHANGED <<replica, edits, stops, raced>>
  BY DEF PromptsInv, PromptsAreWhole, CommitReset
<1>2. /\ k \in Keys /\ prompt[k] \in Rows /\ seen \in Rows /\ prompt[k].text <= edits
      /\ k \notin raced => seen = prompt[k]
      /\ edits \in Nat
  <2>1. EditorKnown(e)
    BY DEF PromptsInv
  <2> QED BY <1>1, <2>1, AgentPromptsAssumption DEF EditorKnown, AgentPromptsTypeOK, EditorRows
<1>3. seen.version \in Nat /\ prompt[k].version \in Nat /\ prompt[k].text \in Nat
  BY <1>2 DEF Rows
<1>4. k \in PROMPT_KEYS => needs = Placeholders(k)
  BY <1>2, PromptRowAssumption, ReleaseRendersWhole DEF PromptsInv, HealthPromptsAreValid
<1>5. text \in Nat /\ text <= edits /\ needs \in SUBSET Vocabulary /\ named \in {"release", "otherwise"}
  BY <1>2, <1>3, DefaultTyped DEF Rows
<1>6. CASE Bumps(e)
  <2>1. \A row : row = [text |-> text, uses |-> needs, named |-> named, version |-> seen.version + 1] => PromptsInv'
    <3> SUFFICES ASSUME NEW row,
                        row = [text |-> text, uses |-> needs, named |-> named, version |-> seen.version + 1]
                 PROVE  PromptsInv'
      OBVIOUS
    <3>1. row \in Rows
      BY <1>3, <1>5 DEF Rows
    <3>2. row.text <= edits /\ (k \notin raced => row.version > prompt[k].version)
      BY <1>2, <1>3, <1>5
    <3>3. prompt' = [prompt EXCEPT ![k] = row] /\ published' = published \cup {<<k, row.version, row.text>>}
      BY <1>6 DEF CommitReset, Publish
    <3>4. k \in PROMPT_KEYS => row.uses = Placeholders(k)
      BY <1>4
    <3> HIDE DEF text, needs, named
    <3> QED BY <1>1, <3>1, <3>2, <3>3, <3>4, RowsAreWritten
  <2> QED BY <2>1
<1>7. CASE ~Bumps(e)
  <2>1. text = prompt[k].text /\ needs = prompt[k].uses
    BY <1>7 DEF Bumps
  <2>2. \A row : row = [text |-> text, uses |-> needs, named |-> named, version |-> prompt[k].version] => PromptsInv'
    <3> SUFFICES ASSUME NEW row,
                        row = [text |-> text, uses |-> needs, named |-> named, version |-> prompt[k].version]
                 PROVE  PromptsInv'
      OBVIOUS
    <3>1. row \in Rows /\ row.text = text /\ row.uses = needs /\ row.version = prompt[k].version
      BY <1>3, <1>5 DEF Rows
    <3>2. prompt' = [prompt EXCEPT ![k] = row] /\ published' = published \cup {<<k, row.version, row.text>>}
      <4>1. prompt' = [prompt EXCEPT ![k].text = text, ![k].uses = needs, ![k].named = named]
        BY <1>7 DEF CommitReset
      <4>2. published' = published \cup {<<k, prompt[k].version, text>>}
        BY <1>7 DEF CommitReset
      <4> HIDE DEF text, needs, named, k, seen
      <4>3. row = RowWith(prompt[k], text, needs, named)
        BY <1>2, <1>5, RowWithKeeps
      <4>4. DOMAIN prompt = Keys
        BY <1>1 DEF AgentPromptsTypeOK
      <4>5. prompt' = [prompt EXCEPT ![k] = RowWith(prompt[k], text, needs, named)]
        BY <1>2, <4>1, <4>4 DEF RowWith
      <4>6. prompt' = [prompt EXCEPT ![k] = row]
        BY <1>2, <1>5, <4>3, <4>5
      <4> QED BY <3>1, <4>2, <4>6
    <3> HIDE DEF text, needs, named
    <3> QED BY <1>1, <1>4, <1>5, <2>1, <3>1, <3>2, RowsAreWritten
  <2> QED BY <2>2
<1> QED BY <1>6, <1>7

-----------------------------------------------------------------------------
(* The theorem.                                                            *)

LEMMA PromptsBegin == AgentPromptsInit => PromptsInv
<1> SUFFICES ASSUME AgentPromptsInit PROVE PromptsInv
  OBVIOUS
<1> USE DEF AgentPromptsInit
<1>1. AgentPromptsTypeOK
  BY AgentPromptsAssumption DEF AgentPromptsTypeOK, IdleEditor, Down, EditorRows, ReplicaRows
<1>2. HealthPromptsAreValid
  BY DEF HealthPromptsAreValid, Keys
<1>3. VersionNamesATemplate /\ PublishedIsOfTheRow
  BY DEF VersionNamesATemplate, PublishedIsOfTheRow
<1>4. \A e \in Editors : EditorKnown(e)
  BY DEF EditorKnown, IdleEditor
<1> QED BY <1>1, <1>2, <1>3, <1>4, PromptsRender DEF PromptsInv, PromptsAreWhole

LEMMA PromptsStep == PromptsInv /\ [AgentPromptsNext]_promptVars => PromptsInv'
<1> SUFFICES ASSUME PromptsInv, [AgentPromptsNext]_promptVars PROVE PromptsInv'
  OBVIOUS
<1>1. ASSUME NEW r \in Replicas, Starts(r) \/ Stops(r) PROVE PromptsInv'
  BY <1>1, ReplicasKeep
<1>2. ASSUME NEW e \in Editors, BeginUpdate(e) \/ BeginReset(e) PROVE PromptsInv'
  BY <1>2, RequestsBegin DEF BeginUpdate, BeginReset
<1>3. ASSUME NEW e \in Editors, CommitUpdate(e) PROVE PromptsInv'
  BY <1>3, UpdatesKeep
<1>4. ASSUME NEW e \in Editors, CommitReset(e) PROVE PromptsInv'
  BY <1>4, ResetsKeep
<1>5. CASE UNCHANGED promptVars
  BY <1>5 DEF promptVars, PromptsInv, PromptsAreWhole, AgentPromptsTypeOK, RenderedWhole, InForce,
     VersionNamesATemplate, HealthPromptsAreValid, PublishedIsOfTheRow, EditorKnown
<1> QED BY <1>1, <1>2, <1>3, <1>4, <1>5 DEF AgentPromptsNext

\* Whatever administrators edit and reset while replicas start, seed and stop, an agent of the
\* interviews is asked with every placeholder filled in and nothing dropped of what it is given,
\* and a version of a prompt names one template, unless two administrators worked on that prompt
\* at a time (agents/prompts.py, update_prompt.py, reset_prompt.py).
THEOREM PromptsStayWhole == AgentPromptsSpec => []PromptsAreWhole
<1>1. PromptsInv => PromptsAreWhole
  BY DEF PromptsInv
<1> QED BY <1>1, PromptsBegin, PromptsStep, PTL DEF AgentPromptsSpec

=============================================================================
