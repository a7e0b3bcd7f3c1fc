-------------------------- MODULE DirectoryProofs --------------------------
(***************************************************************************)
(* Theorems about Directory, Phases and Catalogue.                         *)
(*                                                                         *)
(* Access is as decided: lists and statistics are about operators, proved  *)
(* for any finite organizations; that a project has a manager, an address  *)
(* one invitation and an invitation one answer, because the request in     *)
(* between is alone with its project, address or invitation unless it is   *)
(* marked that somebody else was there (CreatorsAreAlone, AskersAreAlone,  *)
(* AnswersAreAlone).                                                       *)
(*                                                                         *)
(* Lists of phases are whole: what a list half read names depends on what  *)
(* it names (ListsAreClosed).                                              *)
(*                                                                         *)
(* The catalogue is true: a request holds a recording as it is but for its *)
(* status, or another has written it meanwhile, which is marked (HeldAs);  *)
(* a removal has every recording of its storyteller, but for such ones     *)
(* (Removing).  A commit of one row is one lemma (RowWriteKeeps), and so   *)
(* is a step that writes no row (QuietKeeps).                              *)
(***************************************************************************)
EXTENDS Directory, Phases, Catalogue, FiniteSetTheorems, TLAPS

USE DirectoryAssumption, DirectoryRowAssumption

-----------------------------------------------------------------------------
(* The directory: the inductive invariant.                                 *)

AnswersOn(r) == request[r].pc \in {"accepting", "looked", "granted", "declining"}

\* A request has whom and what it is about; projects stay.
RequestKnown(r) ==
    LET q == request[r]
    IN  /\ q.pc = "idle" => q = NoRequest
        /\ q.pc # "idle" => q.user \in Users /\ q.project \in Projects /\ project[q.project] # NULL
        /\ q.pc = "inviting" => q.email \in Users /\ q.role \in Roles
        /\ AnswersOn(r) => q.invite \in Invites /\ q.role \in Roles

\* A project being created has one creator and, as long as nobody else has seen to it, nobody
\* has an access to it.
CreatorsAreAlone ==
    \A r \in Requests : request[r].pc = "created" =>
        /\ \A s \in Requests : request[s].pc = "created" /\ request[s].project = request[r].project => s = r
        /\ request[r].project \in meddled \/ \A u \in Users : access[<<request[r].project, u>>] = NULL

\* One request asks an address into a project; when it has found no invitation pending there is none.
AskersAreAlone ==
    \A p \in Projects, u \in Users : <<p, u>> \notin doubled =>
        /\ \A r, s \in Asking(p, u) : r = s
        /\ \A i, j \in Pending(p, u) : i = j
        /\ \A r \in Asking(p, u) : request[r].invite = NULL => Pending(p, u) = {}

\* An invitation is answered by one request while it is pending, and has given an access before
\* its answer only by that request.
AnswersAreAlone ==
    \A i \in Invites :
        /\ i \notin mixed =>
              /\ invite[i] # NULL => \A r, s \in Answering(i) : r = s
              /\ invite[i] # NULL /\ Answering(i) # {} => invite[i].status = "pending"
              /\ i \in gave /\ (invite[i] = NULL \/ invite[i].status = "pending") =>
                    \E r \in Answering(i) : request[r].pc = "granted"
        /\ \A r \in Answering(i) : request[r].pc = "granted" /\ invite[i] # NULL => i \in gave

\* Invitations are to projects there are, and few projects are an organization's.
InvitesAreReal ==
    /\ \A i \in Invites : invite[i] # NULL => project[invite[i].project] # NULL
    /\ IsFiniteSet(orgAccess)

DirectoryInv ==
    /\ DirectoryTypeOK
    /\ \A r \in Requests : RequestKnown(r)
    /\ InvitesAreReal
    /\ CreatorsAreAlone /\ ProjectsHaveManagers
    /\ AskersAreAlone
    /\ AnswersAreAlone /\ AnswersAreTrue

-----------------------------------------------------------------------------
(* Types.                                                                  *)

LEMMA RequestGoes ==
    ASSUME DirectoryTypeOK, NEW r \in Requests, NEW q \in RequestRows, request' = [request EXCEPT ![r] = q]
    PROVE  /\ request' \in [Requests -> RequestRows] /\ request'[r] = q
           /\ \A s \in Requests : s # r => request'[s] = request[s]
BY DEF DirectoryTypeOK

LEMMA RequestEnds ==
    ASSUME DirectoryTypeOK, NEW r \in Requests, End(r)
    PROVE  /\ request' \in [Requests -> RequestRows] /\ request'[r] = NoRequest
           /\ \A s \in Requests : s # r => request'[s] = request[s]
<1>1. NoRequest \in RequestRows
  BY DEF NoRequest, RequestOf, RequestRows
<1> QED BY <1>1, RequestGoes DEF End

LEMMA OrganizationsTyped ==
    ASSUME DirectoryTypeOK, OrganizationSteps
    PROVE  DirectoryTypeOK'
<1> USE DEF people, projects, invitations
<1>1. CASE CreateOrganization
  <2>1. PICK o \in Orgs, slug \in Slugs, u \in Users \cup {NULL} :
            /\ org[o] = NULL /\ SlugIsFree(slug, o)
            /\ u # NULL => user[u] # NULL
            /\ org' = [org EXCEPT ![o] = [slug |-> slug, manager_id |-> u]]
    BY <1>1 DEF CreateOrganization
  <2>2. [slug |-> slug, manager_id |-> u] \in OrgRows
    BY DEF OrgRows
  <2>3. /\ org' \in [Orgs -> OrgRows \cup {NULL}]
        /\ org'[o].slug = slug /\ org'[o].manager_id = u /\ org'[o] # NULL
        /\ \A q \in Orgs : q # o => org'[q] = org[q]
    BY <2>1, <2>2 DEF DirectoryTypeOK
  <2>4. UNCHANGED <<user, language, member, project, access, orgAccess, request, meddled, invite, gave, mixed, doubled>>
    BY <1>1 DEF CreateOrganization
  <2>5. \A q, z \in Orgs : org'[q] # NULL /\ org'[z] # NULL /\ org'[q].slug = org'[z].slug => q = z
    BY <2>1, <2>3 DEF DirectoryTypeOK, SlugIsFree
  <2>6. \A q \in Orgs : org'[q] # NULL /\ org'[q].manager_id # NULL => user[org'[q].manager_id] # NULL
    BY <2>1, <2>3 DEF DirectoryTypeOK
  <2>7. \A q \in Orgs : org[q] # NULL => org'[q] # NULL
    BY <2>3
  <2> QED BY <2>3, <2>4, <2>5, <2>6, <2>7 DEF DirectoryTypeOK
<1>2. CASE UpdateOrganization
  <2>1. PICK o \in Orgs, slug \in Slugs, u \in Users :
            /\ org[o] # NULL /\ SlugIsFree(slug, o) /\ user[u] # NULL
            /\ org' \in {[org EXCEPT ![o].slug = slug], [org EXCEPT ![o].manager_id = u]}
    BY <1>2 DEF UpdateOrganization
  <2>2. org[o] \in OrgRows
    BY <2>1 DEF DirectoryTypeOK
  <2>3. PICK row \in OrgRows :
            /\ org' = [org EXCEPT ![o] = row]
            /\ \/ row.slug = slug /\ row.manager_id = org[o].manager_id
               \/ row.slug = org[o].slug /\ row.manager_id = u
    <3>1. CASE org' = [org EXCEPT ![o].slug = slug]
      <4>1. [org[o] EXCEPT !.slug = slug] \in OrgRows
        BY <2>2 DEF OrgRows
      <4> QED BY <2>2, <3>1, <4>1 DEF OrgRows
    <3>2. CASE org' = [org EXCEPT ![o].manager_id = u]
      <4>1. [org[o] EXCEPT !.manager_id = u] \in OrgRows
        BY <2>2 DEF OrgRows
      <4> QED BY <2>2, <3>2, <4>1 DEF OrgRows
    <3> QED BY <2>1, <3>1, <3>2
  <2>4. /\ org' \in [Orgs -> OrgRows \cup {NULL}] /\ org'[o] = row /\ row # NULL
        /\ \A q \in Orgs : q # o => org'[q] = org[q]
    BY <2>3 DEF DirectoryTypeOK
  <2>5. UNCHANGED <<user, language, member, project, access, orgAccess, request, meddled, invite, gave, mixed, doubled>>
    BY <1>2 DEF UpdateOrganization
  <2>6. \A q, z \in Orgs : org'[q] # NULL /\ org'[z] # NULL /\ org'[q].slug = org'[z].slug => q = z
    BY <2>1, <2>3, <2>4 DEF DirectoryTypeOK, SlugIsFree
  <2>7. \A q \in Orgs : org'[q] # NULL /\ org'[q].manager_id # NULL => user[org'[q].manager_id] # NULL
    BY <2>1, <2>3, <2>4 DEF DirectoryTypeOK
  <2>8. \A q \in Orgs : org[q] # NULL => org'[q] # NULL
    BY <2>1, <2>4
  <2> QED BY <2>4, <2>5, <2>6, <2>7, <2>8 DEF DirectoryTypeOK
<1>3. CASE AddMember \/ RemoveMember \/ UpdateMemberRole
  <2>1. PICK o \in Orgs, u \in Users, role \in Roles \cup {NULL} :
            /\ member' = [member EXCEPT ![<<o, u>>] = role]
            /\ role # NULL => org[o] # NULL /\ user[u] # NULL
    <3>1. \A o \in Orgs, u \in Users : member[<<o, u>>] # NULL => org[o] # NULL /\ user[u] # NULL
      BY DEF DirectoryTypeOK
    <3>2. CASE AddMember
      BY <3>2 DEF AddMember
    <3>3. CASE RemoveMember
      BY <3>3 DEF RemoveMember
    <3>4. CASE UpdateMemberRole
      <4>1. PICK o \in Orgs, u \in Users, role \in Roles :
                member[<<o, u>>] # NULL /\ member' = [member EXCEPT ![<<o, u>>] = role]
        BY <3>4 DEF UpdateMemberRole
      <4> QED BY <3>1, <4>1
    <3> QED BY <1>3, <3>2, <3>3, <3>4
  <2>2. /\ member' \in [Orgs \X Users -> Roles \cup {NULL}]
        /\ \A q \in Orgs, v \in Users : member'[<<q, v>>] # NULL => member'[<<q, v>>] = member[<<q, v>>] \/ (q = o /\ v = u /\ role # NULL)
    BY <2>1 DEF DirectoryTypeOK
  <2>3. UNCHANGED <<user, language, org, project, access, orgAccess, request, meddled, invite, gave, mixed, doubled>>
    BY <1>3 DEF AddMember, RemoveMember, UpdateMemberRole
  <2>4. \A q \in Orgs, v \in Users : member'[<<q, v>>] # NULL => org[q] # NULL /\ user[v] # NULL
    BY <2>1, <2>2 DEF DirectoryTypeOK
  <2> QED BY <2>2, <2>3, <2>4 DEF DirectoryTypeOK
<1> QED BY <1>1, <1>2, <1>3 DEF OrganizationSteps

\* The other steps that write tables only: languages, the language of a project, what an
\* organization may open, the deactivation of an account.
Tables == CreateLanguage \/ UpdateProject \/ GrantOrganizationAccess \/ RevokeOrganizationAccess \/ Deactivate

LEMMA TablesTyped ==
    ASSUME DirectoryTypeOK, Tables
    PROVE  /\ DirectoryTypeOK' /\ UNCHANGED <<access, request, meddled, invite, gave, mixed, doubled>>
           /\ \A p \in Projects : project'[p] = NULL <=> project[p] = NULL
           /\ IsFiniteSet(orgAccess) => IsFiniteSet(orgAccess')
<1> USE DEF people, organizations, projects, invitations
<1>1. CASE CreateLanguage
  <2>1. /\ UNCHANGED <<user, member, org, project, access, orgAccess, request, meddled, invite, gave, mixed, doubled>>
        /\ language' \subseteq Languages /\ language \subseteq language'
    BY <1>1 DEF CreateLanguage, DirectoryTypeOK
  <2> QED BY <2>1 DEF DirectoryTypeOK
<1>2. CASE UpdateProject
  <2>1. UNCHANGED <<user, language, org, member, access, orgAccess, request, meddled, invite, gave, mixed, doubled>>
    BY <1>2 DEF UpdateProject
  <2>2. PICK p \in Projects, l \in language : project[p] # NULL /\ project' = [project EXCEPT ![p] = l]
    BY <1>2 DEF UpdateProject
  <2>3. l \in Languages /\ l # NULL
    BY DEF DirectoryTypeOK
  <2>4. /\ project' \in [Projects -> Languages \cup {NULL}]
        /\ \A q \in Projects : project'[q] = project[q] \/ (project[q] # NULL /\ project'[q] = l)
    BY <2>2, <2>3 DEF DirectoryTypeOK
  <2>5. \A q \in Projects : project'[q] = NULL <=> project[q] = NULL
    BY <2>3, <2>4
  <2> QED BY <2>1, <2>4, <2>5 DEF DirectoryTypeOK
<1>3. CASE GrantOrganizationAccess
  <2>1. UNCHANGED <<user, language, org, member, access, project, request, meddled, invite, gave, mixed, doubled>>
    BY <1>3 DEF GrantOrganizationAccess
  <2>2. PICK p \in Projects, o \in Orgs : project[p] # NULL /\ org[o] # NULL /\ orgAccess' = orgAccess \cup {<<p, o>>}
    BY <1>3 DEF GrantOrganizationAccess
  <2>3. IsFiniteSet(orgAccess) => IsFiniteSet(orgAccess')
    BY <2>2, FS_AddElement
  <2> QED BY <2>1, <2>2, <2>3 DEF DirectoryTypeOK
<1>4. CASE RevokeOrganizationAccess
  <2>1. UNCHANGED <<user, language, org, member, access, project, request, meddled, invite, gave, mixed, doubled>>
    BY <1>4 DEF RevokeOrganizationAccess
  <2>2. orgAccess' \subseteq orgAccess
    BY <1>4 DEF RevokeOrganizationAccess
  <2>3. IsFiniteSet(orgAccess) => IsFiniteSet(orgAccess')
    BY <2>2, FS_Subset
  <2> QED BY <2>1, <2>2, <2>3 DEF DirectoryTypeOK
<1>5. CASE Deactivate
  <2>1. UNCHANGED <<language, org, member, access, project, orgAccess, request, meddled, invite, gave, mixed, doubled>>
    BY <1>5 DEF Deactivate
  <2>2. PICK u \in Users : user[u] = "active" /\ user' = [user EXCEPT ![u] = "inactive"]
    BY <1>5 DEF Deactivate, Active
  <2>3. /\ user' \in [Users -> {"active", "inactive", NULL}]
        /\ \A v \in Users : user[v] # NULL => user'[v] # NULL
    BY <2>2 DEF DirectoryTypeOK
  <2>4. \A i \in Invites : invite[i] # NULL => invite[i].invited_by \in Users
    BY DEF DirectoryTypeOK, InviteRows
  <2>5. \A o \in Orgs : org[o] # NULL /\ org[o].manager_id # NULL => org[o].manager_id \in Users
    BY DEF DirectoryTypeOK, OrgRows
  <2> QED BY <2>1, <2>3, <2>4, <2>5 DEF DirectoryTypeOK
<1> QED BY <1>1, <1>2, <1>3, <1>4, <1>5 DEF Tables

LEMMA RequestOfTyped ==
    ASSUME NEW pc \in {"idle", "created", "inviting", "accepting", "declining"}, NEW u \in Users \cup {NULL},
           NEW p \in Projects \cup {NULL}, NEW i \in Invites \cup {NULL}, NEW e \in Users \cup {NULL},
           NEW role \in Roles \cup {NULL}
    PROVE  /\ RequestOf(pc, u, p, i, e, role) \in RequestRows
           /\ RequestOf(pc, u, p, i, e, role).pc = pc /\ RequestOf(pc, u, p, i, e, role).user = u
           /\ RequestOf(pc, u, p, i, e, role).project = p /\ RequestOf(pc, u, p, i, e, role).invite = i
           /\ RequestOf(pc, u, p, i, e, role).email = e /\ RequestOf(pc, u, p, i, e, role).role = role
BY DEF RequestOf, RequestRows

LEMMA LookedTyped ==
    ASSUME NEW q \in RequestRows, NEW saw \in BOOLEAN
    PROVE  /\ Looked(q, saw) \in RequestRows /\ Looked(q, saw).pc = "looked"
           /\ Looked(q, saw).user = q.user /\ Looked(q, saw).project = q.project
           /\ Looked(q, saw).invite = q.invite /\ Looked(q, saw).role = q.role
BY DEF Looked, RequestRows

LEMMA RenewedTyped ==
    ASSUME NEW row \in InviteRows, NEW q \in RequestRows, q.user \in Users, q.role \in Roles
    PROVE  /\ Renewed(row, q) \in InviteRows /\ Renewed(row, q).invited_by = q.user
           /\ Renewed(row, q).project = row.project /\ Renewed(row, q).email = row.email
           /\ Renewed(row, q).status = row.status
<1>1. q.user \in Users /\ q.role \in Roles
  OBVIOUS
<1> QED BY <1>1 DEF Renewed, InviteRows

LEMMA NewInviteTyped ==
    ASSUME NEW q \in RequestRows, q.user \in Users, q.role \in Roles, q.project \in Projects, q.email \in Users
    PROVE  /\ NewInvite(q) \in InviteRows /\ NewInvite(q).invited_by = q.user
           /\ NewInvite(q).project = q.project /\ NewInvite(q).email = q.email
           /\ NewInvite(q).status = "pending"
BY DEF NewInvite, InviteRows

\* The steps of requests, and those on accesses, leave accounts, organizations and projects alone.
LEMMA TypesStand ==
    ASSUME DirectoryTypeOK, UNCHANGED <<user, org, member, language, project, orgAccess>>,
           access' \in [Projects \X Users -> Roles \cup {NULL}], request' \in [Requests -> RequestRows],
           invite' \in [Invites -> InviteRows \cup {NULL}], meddled' \subseteq Projects,
           gave' \subseteq Invites, mixed' \subseteq Invites, doubled' \subseteq Projects \X Users,
           \A p \in Projects, u \in Users : access'[<<p, u>>] # NULL => project[p] # NULL /\ user[u] # NULL,
           \A i \in Invites : invite'[i] # NULL => user[invite'[i].invited_by] # NULL
    PROVE  DirectoryTypeOK'
BY DEF DirectoryTypeOK

-----------------------------------------------------------------------------
(* What a step leaves as it was.                                           *)

LEMMA RequestsKnownStill ==
    ASSUME \A s \in Requests : RequestKnown(s),
           \A p \in Projects : project[p] # NULL => project'[p] # NULL,
           \A s \in Requests : request'[s] = request[s] \/ RequestKnown(s)'
    PROVE  \A s \in Requests : RequestKnown(s)'
<1> SUFFICES ASSUME NEW s \in Requests, request'[s] = request[s]
             PROVE  RequestKnown(s)'
  OBVIOUS
<1>1. RequestKnown(s)
  OBVIOUS
<1> QED BY <1>1 DEF RequestKnown, AnswersOn

LEMMA EndedIsKnown ==
    ASSUME NEW s \in Requests, request'[s] = NoRequest
    PROVE  RequestKnown(s)'
BY DEF RequestKnown, AnswersOn, NoRequest, RequestOf

LEMMA CreatorsStand ==
    ASSUME CreatorsAreAlone, ProjectsHaveManagers, \A s \in Requests : RequestKnown(s),
           \A s \in Requests : request'[s].pc = "created" => request'[s] = request[s],
           \A s \in Requests : request[s].pc = "created" =>
               request'[s] = request[s] \/ request[s].project \in meddled',
           meddled \subseteq meddled',
           \A p \in Projects : project'[p] # NULL => project[p] # NULL,
           \A p \in Projects : \/ p \in meddled'
                               \/ \A u \in Users : access'[<<p, u>>] = access[<<p, u>>]
                               \/ /\ ~BeingCreated(p)
                                  /\ \A u \in Users : access[<<p, u>>] = "manager" => access'[<<p, u>>] = "manager"
    PROVE  CreatorsAreAlone' /\ ProjectsHaveManagers'
<1>1. CreatorsAreAlone'
  <2> SUFFICES ASSUME NEW r \in Requests, request'[r].pc = "created"
               PROVE  /\ \A s \in Requests : request'[s].pc = "created" /\ request'[s].project = request'[r].project => s = r
                      /\ request'[r].project \in meddled' \/ \A u \in Users : access'[<<request'[r].project, u>>] = NULL
    BY DEF CreatorsAreAlone
  <2>1. request'[r] = request[r] /\ request[r].pc = "created"
    OBVIOUS
  <2>2. \A s \in Requests : request'[s].pc = "created" /\ request'[s].project = request'[r].project => s = r
    BY <2>1 DEF CreatorsAreAlone
  <2>3. request[r].project \in Projects
    BY <2>1 DEF RequestKnown
  <2>4. BeingCreated(request[r].project)
    BY <2>1 DEF BeingCreated
  <2>5. request[r].project \in meddled' \/ \A u \in Users : access'[<<request[r].project, u>>] = access[<<request[r].project, u>>]
    BY <2>3, <2>4
  <2>6. request[r].project \in meddled \/ \A u \in Users : access[<<request[r].project, u>>] = NULL
    BY <2>1 DEF CreatorsAreAlone
  <2> QED BY <2>1, <2>2, <2>5, <2>6
<1>2. ProjectsHaveManagers'
  <2> SUFFICES ASSUME NEW p \in Projects, project'[p] # NULL, p \notin meddled', ~BeingCreated(p)'
               PROVE  \E u \in Users : access'[<<p, u>>] = "manager"
    BY DEF ProjectsHaveManagers
  <2>1. ~BeingCreated(p)
    BY DEF BeingCreated
  <2>2. PICK u \in Users : access[<<p, u>>] = "manager"
    BY <2>1 DEF ProjectsHaveManagers
  <2> QED BY <2>2
<1> QED BY <1>1, <1>2

LEMMA AskersStand ==
    ASSUME AskersAreAlone, doubled \subseteq doubled',
           \A s \in Requests : request'[s].pc = "inviting" => request'[s] = request[s],
           \A i \in Invites : invite'[i] # NULL /\ invite'[i].status = "pending" =>
               /\ invite[i] # NULL /\ invite[i].status = "pending"
               /\ invite[i].project = invite'[i].project /\ invite[i].email = invite'[i].email
    PROVE  AskersAreAlone'
<1> SUFFICES ASSUME NEW p \in Projects, NEW u \in Users, <<p, u>> \notin doubled'
             PROVE  /\ \A r, s \in Asking(p, u)' : r = s
                    /\ \A i, j \in Pending(p, u)' : i = j
                    /\ \A r \in Asking(p, u)' : request'[r].invite = NULL => Pending(p, u)' = {}
  BY DEF AskersAreAlone
<1>1. /\ \A r, s \in Asking(p, u) : r = s
      /\ \A i, j \in Pending(p, u) : i = j
      /\ \A r \in Asking(p, u) : request[r].invite = NULL => Pending(p, u) = {}
  BY DEF AskersAreAlone
<1>2. Pending(p, u)' \subseteq Pending(p, u)
  BY DEF Pending
<1>3. Asking(p, u)' \subseteq Asking(p, u) /\ \A r \in Asking(p, u)' : request'[r] = request[r]
  BY DEF Asking
<1> QED BY <1>1, <1>2, <1>3

LEMMA AnsweringIs ==
    ASSUME NEW i \in Invites, NEW r
    PROVE  r \in Answering(i) <=> r \in Requests /\ request[r].invite = i /\ AnswersOn(r)
BY DEF Answering, AnswersOn

LEMMA AnswersStill ==
    ASSUME AnswersAreAlone, AnswersAreTrue, UNCHANGED <<gave, mixed>>,
           \A s \in Requests : AnswersOn(s) \/ AnswersOn(s)' => request'[s] = request[s],
           \A i \in Invites :
               \/ /\ invite'[i] = NULL <=> invite[i] = NULL
                  /\ invite[i] # NULL => invite'[i].status = invite[i].status
               \/ /\ invite[i] = NULL /\ invite'[i] # NULL /\ invite'[i].status = "pending"
                  /\ Answering(i) = {}
    PROVE  AnswersAreAlone' /\ AnswersAreTrue'
<1>1. ASSUME NEW i \in Invites
      PROVE  Answering(i)' = Answering(i) /\ \A r \in Answering(i) : request'[r] = request[r]
  BY DEF Answering, AnswersOn
<1>2. AnswersAreAlone'
  <2> SUFFICES ASSUME NEW i \in Invites
               PROVE  /\ i \notin mixed =>
                            /\ invite'[i] # NULL => \A r, s \in Answering(i)' : r = s
                            /\ invite'[i] # NULL /\ Answering(i)' # {} => invite'[i].status = "pending"
                            /\ i \in gave /\ (invite'[i] = NULL \/ invite'[i].status = "pending") =>
                                  \E r \in Answering(i)' : request'[r].pc = "granted"
                      /\ \A r \in Answering(i)' : request'[r].pc = "granted" /\ invite'[i] # NULL => i \in gave
    BY DEF AnswersAreAlone
  <2>1. /\ i \notin mixed =>
              /\ invite[i] # NULL => \A r, s \in Answering(i) : r = s
              /\ invite[i] # NULL /\ Answering(i) # {} => invite[i].status = "pending"
              /\ i \in gave /\ (invite[i] = NULL \/ invite[i].status = "pending") =>
                    \E r \in Answering(i) : request[r].pc = "granted"
        /\ \A r \in Answering(i) : request[r].pc = "granted" /\ invite[i] # NULL => i \in gave
    BY DEF AnswersAreAlone
  <2>2. Answering(i)' = Answering(i) /\ \A r \in Answering(i) : request'[r] = request[r]
    BY <1>1
  <2>3. CASE /\ invite'[i] = NULL <=> invite[i] = NULL
             /\ invite[i] # NULL => invite'[i].status = invite[i].status
    BY <2>1, <2>2, <2>3
  <2>4. CASE /\ invite[i] = NULL /\ invite'[i] # NULL /\ invite'[i].status = "pending"
             /\ Answering(i) = {}
    BY <2>1, <2>2, <2>4
  <2> QED BY <2>3, <2>4
<1>3. AnswersAreTrue'
  BY DEF AnswersAreTrue
<1> QED BY <1>2, <1>3

-----------------------------------------------------------------------------
(* Each step keeps the invariant.                                          *)

\* A step that leaves the requests, the invitations and what is remembered of both.
LEMMA InvStands ==
    ASSUME DirectoryInv, DirectoryTypeOK', UNCHANGED <<access, request, meddled, invite, gave, mixed, doubled>>,
           \A p \in Projects : project'[p] = NULL <=> project[p] = NULL,
           IsFiniteSet(orgAccess')
    PROVE  DirectoryInv'
<1> USE DEF DirectoryInv
<1>1. \A s \in Requests : RequestKnown(s)'
  BY RequestsKnownStill
<1>2. InvitesAreReal'
  <2>1. \A i \in Invites : invite[i] # NULL => invite[i].project \in Projects
    BY DEF DirectoryTypeOK, InviteRows
  <2> QED BY <2>1 DEF InvitesAreReal
<1>3. CreatorsAreAlone' /\ ProjectsHaveManagers'
  BY CreatorsStand
<1>4. AskersAreAlone'
  BY AskersStand
<1>5. AnswersAreAlone' /\ AnswersAreTrue'
  <2>1. \A i \in Invites : invite'[i] = invite[i]
    OBVIOUS
  <2> QED BY <2>1, AnswersStill
<1> QED BY <1>1, <1>2, <1>3, <1>4, <1>5

LEMMA OrganizationsKeep ==
    ASSUME DirectoryInv, OrganizationSteps
    PROVE  DirectoryInv'
<1>1. DirectoryTypeOK'
  BY OrganizationsTyped DEF DirectoryInv
<1>2. UNCHANGED <<project, orgAccess, access, request, meddled, invite, gave, mixed, doubled>>
  BY DEF OrganizationSteps, CreateOrganization, UpdateOrganization, AddMember, RemoveMember, UpdateMemberRole,
         people, projects, invitations
<1>3. IsFiniteSet(orgAccess') /\ \A p \in Projects : project'[p] = NULL <=> project[p] = NULL
  BY <1>2 DEF DirectoryInv, InvitesAreReal
<1> QED BY <1>1, <1>2, <1>3, InvStands

LEMMA TablesKeep ==
    ASSUME DirectoryInv, Tables
    PROVE  DirectoryInv'
<1>1. DirectoryTypeOK /\ IsFiniteSet(orgAccess)
  BY DEF DirectoryInv, InvitesAreReal
<1>2. /\ DirectoryTypeOK' /\ UNCHANGED <<access, request, meddled, invite, gave, mixed, doubled>>
      /\ \A p \in Projects : project'[p] = NULL <=> project[p] = NULL
      /\ IsFiniteSet(orgAccess')
  BY <1>1, TablesTyped
<1> QED BY <1>2, InvStands

\* A step of the requests alone, of those that neither answer nor ask.
LEMMA CreationKeeps ==
    ASSUME DirectoryInv, NEW r \in Requests, CreateProject(r)
    PROVE  DirectoryInv'
<1> USE DEF DirectoryInv
<1>1. UNCHANGED <<user, language, org, member, access, orgAccess, meddled, invite, gave, mixed, doubled>>
  BY DEF CreateProject, people, organizations, invitations
<1>2. PICK p \in Projects, u \in Users, l \in language :
          /\ project[p] = NULL /\ project' = [project EXCEPT ![p] = l]
          /\ request' = [request EXCEPT ![r] = RequestOf("created", u, p, NULL, NULL, NULL)]
  BY DEF CreateProject
<1>3. request[r] = NoRequest /\ request[r].pc = "idle"
  BY DEF CreateProject, Idle, NoRequest, RequestOf
<1>4. /\ RequestOf("created", u, p, NULL, NULL, NULL) \in RequestRows
      /\ RequestOf("created", u, p, NULL, NULL, NULL).pc = "created"
      /\ RequestOf("created", u, p, NULL, NULL, NULL).user = u
      /\ RequestOf("created", u, p, NULL, NULL, NULL).project = p
  BY RequestOfTyped
<1>5. /\ request' \in [Requests -> RequestRows]
      /\ request'[r].pc = "created" /\ request'[r].user = u /\ request'[r].project = p
      /\ \A s \in Requests : s # r => request'[s] = request[s]
  BY <1>2, <1>4 DEF DirectoryTypeOK
<1>6. l \in Languages /\ l # NULL
  BY DEF DirectoryTypeOK
<1>7. /\ project' \in [Projects -> Languages \cup {NULL}] /\ project'[p] = l
      /\ \A q \in Projects : q # p => project'[q] = project[q]
  BY <1>2, <1>6 DEF DirectoryTypeOK
<1>8. \A q \in Projects : project[q] # NULL => project'[q] # NULL
  BY <1>2, <1>7
<1>9. DirectoryTypeOK'
  BY <1>1, <1>2, <1>5, <1>7, <1>8 DEF DirectoryTypeOK
<1>10. \A s \in Requests : RequestKnown(s)'
  <2>1. RequestKnown(r)'
    BY <1>5, <1>6, <1>7 DEF RequestKnown, AnswersOn
  <2> QED BY <1>5, <1>8, <2>1, RequestsKnownStill
<1>11. InvitesAreReal'
  <2>1. \A i \in Invites : invite[i] # NULL => invite[i].project \in Projects
    BY DEF DirectoryTypeOK, InviteRows
  <2> QED BY <1>1, <1>8, <2>1 DEF InvitesAreReal
<1>12. CreatorsAreAlone'
  <2>1. \A s \in Requests : request[s].pc = "created" => request[s].project \in Projects /\ request[s].project # p
    BY <1>2 DEF RequestKnown
  <2>2. \A v \in Users : access[<<p, v>>] = NULL
    BY <1>2 DEF DirectoryTypeOK
  <2> QED BY <1>1, <1>3, <1>5, <2>1, <2>2 DEF CreatorsAreAlone
<1>13. ProjectsHaveManagers'
  <2> SUFFICES ASSUME NEW q \in Projects, project'[q] # NULL, q \notin meddled', ~BeingCreated(q)'
               PROVE  \E v \in Users : access'[<<q, v>>] = "manager"
    BY DEF ProjectsHaveManagers
  <2>1. q # p
    BY <1>5 DEF BeingCreated
  <2>2. ~BeingCreated(q)
    BY <1>3, <1>5 DEF BeingCreated
  <2> QED BY <1>1, <1>7, <2>1, <2>2 DEF ProjectsHaveManagers
<1>14. AskersAreAlone'
  BY <1>1, <1>5, AskersStand
<1>15. AnswersAreAlone' /\ AnswersAreTrue'
  <2>1. \A s \in Requests : AnswersOn(s) \/ AnswersOn(s)' => request'[s] = request[s]
    BY <1>3, <1>5 DEF AnswersOn
  <2> QED BY <1>1, <2>1, AnswersStill
<1> QED BY <1>9, <1>10, <1>11, <1>12, <1>13, <1>14, <1>15

\* What a grant makes of the accesses.
LEMMA GrantedTyped ==
    ASSUME DirectoryTypeOK, NEW p \in Projects, NEW u \in Users, NEW role \in Roles, access' = Granted(p, u, role)
    PROVE  /\ access' \in [Projects \X Users -> Roles \cup {NULL}]
           /\ access'[<<p, u>>] = IF access[<<p, u>>] # NULL THEN access[<<p, u>>] ELSE role
           /\ \A q \in Projects, v \in Users : q # p \/ v # u => access'[<<q, v>>] = access[<<q, v>>]
BY DEF Granted, DirectoryTypeOK

LEMMA ManagerIsMade ==
    ASSUME DirectoryInv, NEW r \in Requests, MakeManager(r)
    PROVE  DirectoryInv'
<1> USE DEF DirectoryInv
<1> DEFINE p == request[r].project
           u == request[r].user
<1>1. /\ UNCHANGED <<user, language, org, member, project, orgAccess, meddled, invite, gave, mixed, doubled>>
      /\ request[r].pc = "created" /\ user[u] # NULL /\ access' = Granted(p, u, "manager") /\ End(r)
  BY DEF MakeManager, people, organizations, invitations
<1>2. p \in Projects /\ u \in Users /\ project[p] # NULL
  BY <1>1 DEF RequestKnown
<1> HIDE DEF p, u
<1>3. /\ access' \in [Projects \X Users -> Roles \cup {NULL}]
      /\ access'[<<p, u>>] = IF access[<<p, u>>] # NULL THEN access[<<p, u>>] ELSE "manager"
      /\ \A q \in Projects, v \in Users : q # p \/ v # u => access'[<<q, v>>] = access[<<q, v>>]
  <2>1. DirectoryTypeOK /\ "manager" \in Roles
    BY DEF Roles
  <2> QED BY <1>1, <1>2, <2>1, GrantedTyped
<1>4. /\ request' \in [Requests -> RequestRows] /\ request'[r] = NoRequest
      /\ \A s \in Requests : s # r => request'[s] = request[s]
  BY <1>1, RequestEnds
<1>5. NoRequest.pc = "idle"
  BY DEF NoRequest, RequestOf
<1>6. DirectoryTypeOK'
  <2>1. \A q \in Projects, v \in Users : access'[<<q, v>>] # NULL => project[q] # NULL /\ user[v] # NULL
    BY <1>1, <1>2, <1>3 DEF DirectoryTypeOK
  <2> QED BY <1>1, <1>3, <1>4, <2>1 DEF DirectoryTypeOK
<1>7. \A s \in Requests : RequestKnown(s)'
  BY <1>1, <1>4, EndedIsKnown, RequestsKnownStill
<1>8. InvitesAreReal'
  <2>1. \A i \in Invites : invite[i] # NULL => invite[i].project \in Projects
    BY DEF DirectoryTypeOK, InviteRows
  <2> QED BY <1>1, <2>1 DEF InvitesAreReal
<1>9. p = request[r].project
  BY DEF p
<1>10. CreatorsAreAlone'
  <2> SUFFICES ASSUME NEW s \in Requests, request'[s].pc = "created"
               PROVE  /\ \A t \in Requests : request'[t].pc = "created" /\ request'[t].project = request'[s].project => t = s
                      /\ request'[s].project \in meddled' \/ \A v \in Users : access'[<<request'[s].project, v>>] = NULL
    BY DEF CreatorsAreAlone
  <2>1. s # r /\ request'[s] = request[s]
    BY <1>4, <1>5
  <2>2. request[s].project \in Projects /\ request[s].project # p
    BY <1>1, <1>9, <2>1 DEF CreatorsAreAlone, RequestKnown
  <2>3. \A v \in Users : access'[<<request[s].project, v>>] = access[<<request[s].project, v>>]
    BY <1>3, <2>2
  <2>4. \A t \in Requests : request'[t].pc = "created" => request'[t] = request[t]
    BY <1>4, <1>5
  <2> QED BY <1>1, <2>1, <2>3, <2>4 DEF CreatorsAreAlone
<1>11. ProjectsHaveManagers'
  <2> SUFFICES ASSUME NEW q \in Projects, project'[q] # NULL, q \notin meddled', ~BeingCreated(q)'
               PROVE  \E v \in Users : access'[<<q, v>>] = "manager"
    BY DEF ProjectsHaveManagers
  <2>1. CASE q = p
    <3>1. access[<<p, u>>] = NULL
      BY <1>1, <1>2, <1>9, <2>1 DEF CreatorsAreAlone
    <3> QED BY <1>2, <1>3, <2>1, <3>1
  <2>2. CASE q # p
    <3>1. ~BeingCreated(q)
      BY <1>1, <1>4, <1>9, <2>2 DEF BeingCreated
    <3>2. PICK v \in Users : access[<<q, v>>] = "manager"
      BY <1>1, <3>1 DEF ProjectsHaveManagers
    <3> QED BY <1>3, <2>2, <3>2
  <2> QED BY <2>1, <2>2
<1>12. AskersAreAlone'
  <2>1. \A s \in Requests : request'[s].pc = "inviting" => request'[s] = request[s]
    BY <1>4, <1>5
  <2> QED BY <1>1, <2>1, AskersStand
<1>13. AnswersAreAlone' /\ AnswersAreTrue'
  <2>1. \A s \in Requests : AnswersOn(s) \/ AnswersOn(s)' => request'[s] = request[s]
    BY <1>1, <1>4, <1>5 DEF AnswersOn
  <2> QED BY <1>1, <2>1, AnswersStill
<1> QED BY <1>6, <1>7, <1>8, <1>10, <1>11, <1>12, <1>13

LEMMA AccessesKeep ==
    ASSUME DirectoryInv, GrantUserAccess \/ UpdateUserAccessRole \/ RevokeUserAccess
    PROVE  DirectoryInv'
<1> USE DEF DirectoryInv
<1>1. UNCHANGED <<user, language, org, member, project, orgAccess, request, invite, gave, mixed, doubled>>
  BY DEF GrantUserAccess, UpdateUserAccessRole, RevokeUserAccess, people, organizations, invitations
<1>2. PICK p \in Projects, u \in Users :
          /\ access' \in [Projects \X Users -> Roles \cup {NULL}]
          /\ access'[<<p, u>>] # NULL => project[p] # NULL /\ user[u] # NULL
          /\ \A q \in Projects, v \in Users : q # p \/ v # u => access'[<<q, v>>] = access[<<q, v>>]
          /\ \/ p \in meddled' /\ meddled' = meddled \cup {p}
             \/ /\ ~BeingCreated(p) /\ meddled' = meddled
                /\ access[<<p, u>>] # NULL => access'[<<p, u>>] = access[<<p, u>>]
  <2>1. CASE GrantUserAccess
    <3>1. PICK u \in Users, p \in Projects, role \in Roles :
              /\ project[p] # NULL /\ user[u] # NULL /\ access' = Granted(p, u, role)
              /\ meddled' = meddled \cup {q \in {p} : BeingCreated(q)}
      BY <2>1 DEF GrantUserAccess
    <3>2. /\ access' \in [Projects \X Users -> Roles \cup {NULL}]
          /\ access'[<<p, u>>] = IF access[<<p, u>>] # NULL THEN access[<<p, u>>] ELSE role
          /\ \A q \in Projects, v \in Users : q # p \/ v # u => access'[<<q, v>>] = access[<<q, v>>]
      BY <3>1, GrantedTyped
    <3>3. \/ p \in meddled' /\ meddled' = meddled \cup {p}
          \/ ~BeingCreated(p) /\ meddled' = meddled
      BY <3>1
    <3> QED BY <3>1, <3>2, <3>3
  <2>2. ASSUME NEW u \in Users, NEW p \in Projects, NEW role \in Roles \cup {NULL}, access[<<p, u>>] # NULL,
               access' = [access EXCEPT ![<<p, u>>] = role], meddled' = meddled \cup {p}
        PROVE  /\ access' \in [Projects \X Users -> Roles \cup {NULL}]
               /\ access'[<<p, u>>] # NULL => project[p] # NULL /\ user[u] # NULL
               /\ \A q \in Projects, v \in Users : q # p \/ v # u => access'[<<q, v>>] = access[<<q, v>>]
               /\ p \in meddled' /\ meddled' = meddled \cup {p}
    BY <2>2 DEF DirectoryTypeOK
  <2>3. CASE UpdateUserAccessRole
    <3>1. PICK u \in Users, p \in Projects, role \in Roles :
              /\ access[<<p, u>>] # NULL /\ access' = [access EXCEPT ![<<p, u>>] = role]
              /\ meddled' = meddled \cup {p}
      BY <2>3 DEF UpdateUserAccessRole
    <3> QED BY <2>2, <3>1
  <2>4. CASE RevokeUserAccess
    <3>1. PICK u \in Users, p \in Projects :
              /\ access[<<p, u>>] # NULL /\ access' = [access EXCEPT ![<<p, u>>] = NULL]
              /\ meddled' = meddled \cup {p}
      BY <2>4 DEF RevokeUserAccess
    <3> QED BY <2>2, <3>1
  <2> QED BY <2>1, <2>3, <2>4
<1>3. DirectoryTypeOK'
  <2>1. \A q \in Projects, v \in Users : access'[<<q, v>>] # NULL => project[q] # NULL /\ user[v] # NULL
    BY <1>2 DEF DirectoryTypeOK
  <2>2. meddled' \subseteq Projects
    BY <1>2 DEF DirectoryTypeOK
  <2> QED BY <1>1, <1>2, <2>1, <2>2 DEF DirectoryTypeOK
<1>4. \A s \in Requests : RequestKnown(s)'
  BY <1>1, RequestsKnownStill
<1>5. InvitesAreReal'
  BY <1>1 DEF InvitesAreReal
<1>6. CreatorsAreAlone' /\ ProjectsHaveManagers'
  <2>1. \A q \in Projects : \/ q \in meddled'
                            \/ \A v \in Users : access'[<<q, v>>] = access[<<q, v>>]
                            \/ /\ ~BeingCreated(q)
                               /\ \A v \in Users : access[<<q, v>>] = "manager" => access'[<<q, v>>] = "manager"
    <3> SUFFICES ASSUME NEW q \in Projects
                 PROVE  \/ q \in meddled'
                        \/ \A v \in Users : access'[<<q, v>>] = access[<<q, v>>]
                        \/ /\ ~BeingCreated(q)
                           /\ \A v \in Users : access[<<q, v>>] = "manager" => access'[<<q, v>>] = "manager"
      OBVIOUS
    <3>1. NULL # "manager"
      BY DEF Roles
    <3> QED BY <1>2, <3>1
  <2>2. meddled \subseteq meddled'
    BY <1>2
  <2> QED BY <1>1, <2>1, <2>2, CreatorsStand
<1>7. AskersAreAlone'
  BY <1>1, AskersStand
<1>8. AnswersAreAlone' /\ AnswersAreTrue'
  <2>1. \A i \in Invites : invite'[i] = invite[i]
    BY <1>1
  <2> QED BY <1>1, <2>1, AnswersStill
<1> QED BY <1>3, <1>4, <1>5, <1>6, <1>7, <1>8

\* What the steps of an answer and of an invitation leave to say of the creation of projects.
LEMMA CreatorsSame ==
    ASSUME CreatorsAreAlone, ProjectsHaveManagers, \A s \in Requests : RequestKnown(s),
           UNCHANGED <<project, access, meddled>>,
           \A s \in Requests : request[s].pc = "created" \/ request'[s].pc = "created" => request'[s] = request[s]
    PROVE  CreatorsAreAlone' /\ ProjectsHaveManagers'
BY CreatorsStand

LEMMA InvitingKeeps ==
    ASSUME DirectoryInv, NEW r \in Requests, BeginInvite(r)
    PROVE  DirectoryInv'
<1> USE DEF DirectoryInv
<1>1. UNCHANGED <<user, language, org, member, project, access, orgAccess, meddled, invite, gave, mixed>>
  BY DEF BeginInvite, people, organizations, projects
<1>2. PICK by \in Users, email \in Users, p \in Projects, role \in Roles :
          /\ project[p] # NULL
          /\ \E found \in IF Pending(p, email) = {} THEN {NULL} ELSE Pending(p, email) :
                request' = [request EXCEPT ![r] = RequestOf("inviting", by, p, found, email, role)]
          /\ doubled' = doubled \cup {x \in {<<p, email>>} : Asking(p, email) # {}}
  BY DEF BeginInvite
<1>3. PICK found \in Invites \cup {NULL} :
          /\ found = NULL => Pending(p, email) = {}
          /\ request' = [request EXCEPT ![r] = RequestOf("inviting", by, p, found, email, role)]
  <2>1. Pending(p, email) \subseteq Invites /\ NULL \notin Invites
    BY DEF Pending
  <2> QED BY <1>2, <2>1
<1>4. request[r] = NoRequest /\ request[r].pc = "idle"
  BY DEF BeginInvite, Idle, NoRequest, RequestOf
<1> DEFINE row == RequestOf("inviting", by, p, found, email, role)
<1>5. /\ row \in RequestRows /\ row.pc = "inviting" /\ row.user = by /\ row.project = p
      /\ row.invite = found /\ row.email = email /\ row.role = role
  BY RequestOfTyped
<1> HIDE DEF row
<1>6. request' = [request EXCEPT ![r] = row]
  BY <1>3 DEF row
<1>7. /\ request' \in [Requests -> RequestRows] /\ request'[r] = row
      /\ \A s \in Requests : s # r => request'[s] = request[s]
  BY <1>5, <1>6, RequestGoes
<1>8. DirectoryTypeOK'
  <2>1. doubled' \subseteq Projects \X Users
    BY <1>2 DEF DirectoryTypeOK
  <2> QED BY <1>1, <1>7, <2>1 DEF DirectoryTypeOK
<1>9. \A s \in Requests : RequestKnown(s)'
  <2>1. RequestKnown(r)'
    BY <1>1, <1>2, <1>5, <1>7 DEF RequestKnown, AnswersOn
  <2> QED BY <1>1, <1>7, <2>1, RequestsKnownStill
<1>10. InvitesAreReal'
  BY <1>1 DEF InvitesAreReal
<1>11. CreatorsAreAlone' /\ ProjectsHaveManagers'
  BY <1>1, <1>4, <1>5, <1>7, CreatorsSame
<1>12. AskersAreAlone'
  <2> SUFFICES ASSUME NEW q \in Projects, NEW v \in Users, <<q, v>> \notin doubled'
               PROVE  /\ \A s, t \in Asking(q, v)' : s = t
                      /\ \A i, j \in Pending(q, v)' : i = j
                      /\ \A s \in Asking(q, v)' : request'[s].invite = NULL => Pending(q, v)' = {}
    BY DEF AskersAreAlone
  <2>1. /\ \A s, t \in Asking(q, v) : s = t
        /\ \A i, j \in Pending(q, v) : i = j
        /\ \A s \in Asking(q, v) : request[s].invite = NULL => Pending(q, v) = {}
    BY <1>2 DEF AskersAreAlone
  <2>2. Pending(q, v)' = Pending(q, v)
    BY <1>1 DEF Pending
  <2>3. CASE q = p /\ v = email
    <3>1. Asking(p, email) = {}
      BY <1>2, <2>3
    <3>2. \A s \in Asking(q, v)' : s = r
      BY <1>7, <2>3, <3>1 DEF Asking
    <3>3. request'[r].invite = NULL => Pending(q, v) = {}
      BY <1>3, <1>5, <1>7, <2>3
    <3> QED BY <2>1, <2>2, <3>2, <3>3
  <2>4. CASE ~(q = p /\ v = email)
    <3>1. r \notin Asking(q, v)'
      BY <1>5, <1>7, <2>4 DEF Asking
    <3>2. Asking(q, v)' \subseteq Asking(q, v)
      BY <1>7, <3>1 DEF Asking
    <3>3. \A s \in Asking(q, v)' : request'[s] = request[s]
      BY <1>7, <3>1 DEF Asking
    <3> QED BY <2>1, <2>2, <3>2, <3>3
  <2> QED BY <2>3, <2>4
<1>13. AnswersAreAlone' /\ AnswersAreTrue'
  <2>1. \A s \in Requests : AnswersOn(s) \/ AnswersOn(s)' => request'[s] = request[s]
    BY <1>4, <1>5, <1>7 DEF AnswersOn
  <2>2. \A i \in Invites : invite'[i] = invite[i]
    BY <1>1
  <2> QED BY <1>1, <2>1, <2>2, AnswersStill
<1> QED BY <1>8, <1>9, <1>10, <1>11, <1>12, <1>13

LEMMA InvitationKeeps ==
    ASSUME DirectoryInv, NEW r \in Requests, CommitInvite(r)
    PROVE  DirectoryInv'
<1> USE DEF DirectoryInv
<1> DEFINE q == request[r]
<1>1. /\ UNCHANGED <<user, language, org, member, project, access, orgAccess, meddled, gave, mixed, doubled>>
      /\ q.pc = "inviting" /\ user[q.user] # NULL /\ End(r)
  BY DEF CommitInvite, people, organizations, projects
<1>2. /\ q \in RequestRows /\ q.user \in Users /\ q.project \in Projects /\ project[q.project] # NULL
      /\ q.email \in Users /\ q.role \in Roles
  BY <1>1 DEF RequestKnown, DirectoryTypeOK
<1>3. /\ request' \in [Requests -> RequestRows] /\ request'[r] = NoRequest
      /\ \A s \in Requests : s # r => request'[s] = request[s]
  BY <1>1, RequestEnds
<1>4. NoRequest.pc = "idle"
  BY DEF NoRequest, RequestOf
<1>5. IF q.invite = NULL
        THEN \E i \in FreshInvites : invite' = [invite EXCEPT ![i] = NewInvite(q)]
        ELSE /\ invite[q.invite] # NULL
             /\ invite' = [invite EXCEPT ![q.invite] = Renewed(invite[q.invite], q)]
  BY DEF CommitInvite
<1>6. q.invite \in Invites \cup {NULL}
  BY <1>2 DEF RequestRows
<1> HIDE DEF q
<1>7. PICK i \in Invites, row \in InviteRows :
          /\ invite' = [invite EXCEPT ![i] = row] /\ row.invited_by = q.user
          /\ \/ /\ q.invite = NULL /\ i \in FreshInvites
                /\ row.status = "pending" /\ row.project = q.project /\ row.email = q.email
             \/ /\ invite[i] # NULL
                /\ row.status = invite[i].status /\ row.project = invite[i].project /\ row.email = invite[i].email
  <2>1. CASE q.invite = NULL
    <3>1. PICK i \in FreshInvites : invite' = [invite EXCEPT ![i] = NewInvite(q)]
      BY <1>5, <2>1
    <3>2. i \in Invites
      BY DEF FreshInvites
    <3> QED BY <1>2, <2>1, <3>1, <3>2, NewInviteTyped
  <2>2. CASE q.invite # NULL
    <3>1. q.invite \in Invites /\ invite[q.invite] \in InviteRows /\ invite[q.invite] # NULL
      BY <1>5, <1>6, <2>2 DEF DirectoryTypeOK
    <3> QED BY <1>2, <1>5, <2>2, <3>1, RenewedTyped
  <2> QED BY <2>1, <2>2
<1>8. /\ invite' \in [Invites -> InviteRows \cup {NULL}] /\ invite'[i] = row /\ row # NULL
      /\ \A j \in Invites : j # i => invite'[j] = invite[j]
  BY <1>7 DEF DirectoryTypeOK
<1>9. DirectoryTypeOK'
  <2>1. \A j \in Invites : invite'[j] # NULL => user[invite'[j].invited_by] # NULL
    BY <1>1, <1>7, <1>8 DEF DirectoryTypeOK
  <2> QED BY <1>1, <1>3, <1>8, <2>1 DEF DirectoryTypeOK
<1>10. \A s \in Requests : RequestKnown(s)'
  BY <1>1, <1>3, EndedIsKnown, RequestsKnownStill
<1>11. InvitesAreReal'
  BY <1>1, <1>2, <1>7, <1>8 DEF InvitesAreReal
<1>12. CreatorsAreAlone' /\ ProjectsHaveManagers'
  BY <1>1, <1>3, <1>4, CreatorsSame DEF q
<1>13. AskersAreAlone'
  <2>1. \A s \in Requests : request'[s].pc = "inviting" => request'[s] = request[s] /\ s # r
    BY <1>3, <1>4
  <2>2. CASE invite[i] # NULL /\ row.status = invite[i].status
             /\ row.project = invite[i].project /\ row.email = invite[i].email
    BY <1>1, <1>8, <2>1, <2>2, AskersStand
  <2>3. CASE q.invite = NULL /\ i \in FreshInvites
             /\ row.status = "pending" /\ row.project = q.project /\ row.email = q.email
    <3> SUFFICES ASSUME NEW p \in Projects, NEW v \in Users, <<p, v>> \notin doubled'
                 PROVE  /\ \A s, t \in Asking(p, v)' : s = t
                        /\ \A j, k \in Pending(p, v)' : j = k
                        /\ \A s \in Asking(p, v)' : request'[s].invite = NULL => Pending(p, v)' = {}
      BY DEF AskersAreAlone
    <3>1. /\ \A s, t \in Asking(p, v) : s = t
          /\ \A j, k \in Pending(p, v) : j = k
          /\ \A s \in Asking(p, v) : request[s].invite = NULL => Pending(p, v) = {}
      BY <1>1 DEF AskersAreAlone
    <3>2. Asking(p, v)' \subseteq Asking(p, v) /\ \A s \in Asking(p, v)' : request'[s] = request[s] /\ s # r
      BY <2>1 DEF Asking
    <3>3. CASE p = q.project /\ v = q.email
      <4>1. r \in Asking(p, v)
        BY <1>1, <3>3 DEF Asking, q
      <4>2. Pending(p, v) = {}
        BY <2>3, <3>1, <4>1 DEF q
      <4>3. Asking(p, v)' = {}
        BY <3>1, <3>2, <4>1
      <4>4. \A j \in Pending(p, v)' : j = i
        BY <1>8, <4>2 DEF Pending
      <4> QED BY <4>3, <4>4
    <3>4. CASE ~(p = q.project /\ v = q.email)
      <4>1. Pending(p, v)' \subseteq Pending(p, v)
        BY <1>8, <2>3, <3>4 DEF Pending
      <4> QED BY <3>1, <3>2, <4>1
    <3> QED BY <3>3, <3>4
  <2> QED BY <1>7, <2>2, <2>3
<1>14. AnswersAreAlone' /\ AnswersAreTrue'
  <2>1. \A s \in Requests : AnswersOn(s) \/ AnswersOn(s)' => request'[s] = request[s]
    BY <1>1, <1>3, <1>4 DEF AnswersOn, q
  <2>2. i \in FreshInvites => invite[i] = NULL /\ Answering(i) = {}
    BY DEF FreshInvites, Answering
  <2>3. \A j \in Invites :
            \/ /\ invite'[j] = NULL <=> invite[j] = NULL
               /\ invite[j] # NULL => invite'[j].status = invite[j].status
            \/ /\ invite[j] = NULL /\ invite'[j] # NULL /\ invite'[j].status = "pending"
               /\ Answering(j) = {}
    BY <1>7, <1>8, <2>2
  <2> QED BY <1>1, <2>1, <2>3, AnswersStill
<1> QED BY <1>9, <1>10, <1>11, <1>12, <1>13, <1>14

\* An answer to an invitation is the steps of a request that leave all but one request alone.
LEMMA AnsweringKeeps ==
    ASSUME DirectoryInv, NEW r \in Requests, NEW pc \in {"accepting", "declining"}, BeginAnswer(r, pc)
    PROVE  DirectoryInv'
<1> USE DEF DirectoryInv
<1>1. UNCHANGED <<user, language, org, member, project, access, orgAccess, meddled, invite, gave, doubled>>
  BY DEF BeginAnswer, people, organizations, projects
<1>2. PICK u \in Users, i \in Invites :
          /\ invite[i] # NULL /\ invite[i].status = "pending"
          /\ request' = [request EXCEPT ![r] = RequestOf(pc, u, invite[i].project, i, NULL, invite[i].role)]
          /\ mixed' = mixed \cup {j \in {i} : Answering(j) # {}}
  BY DEF BeginAnswer, MayAnswer
<1>3. request[r] = NoRequest /\ request[r].pc = "idle"
  BY DEF BeginAnswer, Idle, NoRequest, RequestOf
<1>4. invite[i] \in InviteRows /\ invite[i].project \in Projects /\ invite[i].role \in Roles
  BY <1>2 DEF DirectoryTypeOK, InviteRows
<1> DEFINE row == RequestOf(pc, u, invite[i].project, i, NULL, invite[i].role)
<1>5. /\ row \in RequestRows /\ row.pc = pc /\ row.user = u /\ row.project = invite[i].project
      /\ row.invite = i /\ row.role = invite[i].role
  <2>1. /\ pc \in {"idle", "created", "inviting", "accepting", "declining"} /\ u \in Users \cup {NULL}
        /\ invite[i].project \in Projects \cup {NULL} /\ i \in Invites \cup {NULL}
        /\ NULL \in Users \cup {NULL} /\ invite[i].role \in Roles \cup {NULL}
    BY <1>4
  <2>2. /\ row.pc = pc /\ row.user = u /\ row.project = invite[i].project
        /\ row.invite = i /\ row.role = invite[i].role
    BY DEF RequestOf
  <2>3. row \in RequestRows
    BY <2>1 DEF RequestOf, RequestRows
  <2> QED BY <2>2, <2>3
<1>6. request' = [request EXCEPT ![r] = row]
  BY <1>2
<1> HIDE DEF row
<1>7. /\ request' \in [Requests -> RequestRows] /\ request'[r] = row
      /\ \A s \in Requests : s # r => request'[s] = request[s]
  BY <1>5, <1>6, RequestGoes
<1>8. DirectoryTypeOK'
  <2>1. mixed' \subseteq Invites
    BY <1>2 DEF DirectoryTypeOK
  <2> QED BY <1>1, <1>7, <2>1 DEF DirectoryTypeOK
<1>9. \A s \in Requests : RequestKnown(s)'
  <2>1. project[invite[i].project] # NULL
    BY <1>2 DEF InvitesAreReal
  <2>2. RequestKnown(r)'
    BY <1>1, <1>4, <1>5, <1>7, <2>1 DEF RequestKnown, AnswersOn
  <2> QED BY <1>1, <1>7, <2>2, RequestsKnownStill
<1>10. InvitesAreReal'
  BY <1>1 DEF InvitesAreReal
<1>11. CreatorsAreAlone' /\ ProjectsHaveManagers'
  BY <1>1, <1>3, <1>5, <1>7, CreatorsSame
<1>12. AskersAreAlone'
  BY <1>1, <1>5, <1>7, AskersStand
<1>13. \A j \in Invites : \A s : s \in Answering(j)' <=> s \in Answering(j) \/ (s = r /\ j = i)
  BY <1>3, <1>5, <1>7 DEF Answering
<1>14. mixed \subseteq mixed'
  BY <1>2
<1>15. AnswersAreAlone'
  <2> SUFFICES ASSUME NEW j \in Invites
               PROVE  /\ j \notin mixed' =>
                            /\ invite[j] # NULL => \A s, t \in Answering(j)' : s = t
                            /\ invite[j] # NULL /\ Answering(j)' # {} => invite[j].status = "pending"
                            /\ j \in gave /\ (invite[j] = NULL \/ invite[j].status = "pending") =>
                                  \E s \in Answering(j)' : request'[s].pc = "granted"
                      /\ \A s \in Answering(j)' : request'[s].pc = "granted" /\ invite[j] # NULL => j \in gave
    BY <1>1 DEF AnswersAreAlone
  <2>1. /\ j \notin mixed =>
              /\ invite[j] # NULL => \A s, t \in Answering(j) : s = t
              /\ invite[j] # NULL /\ Answering(j) # {} => invite[j].status = "pending"
              /\ j \in gave /\ (invite[j] = NULL \/ invite[j].status = "pending") =>
                    \E s \in Answering(j) : request[s].pc = "granted"
        /\ \A s \in Answering(j) : request[s].pc = "granted" /\ invite[j] # NULL => j \in gave
    BY DEF AnswersAreAlone
  <2>2. \A s \in Answering(j) : s # r /\ request'[s] = request[s]
    BY <1>3, <1>7 DEF Answering
  <2>3. request'[r].pc # "granted"
    BY <1>5, <1>7
  <2>4. j \notin mixed' /\ j = i => Answering(j) = {}
    BY <1>2
  <2> QED BY <1>2, <1>13, <1>14, <2>1, <2>2, <2>3, <2>4
<1>16. AnswersAreTrue'
  BY <1>1, <1>14 DEF AnswersAreTrue
<1> QED BY <1>8, <1>9, <1>10, <1>11, <1>12, <1>15, <1>16

LEMMA LookingKeeps ==
    ASSUME DirectoryInv, NEW r \in Requests, LookForAccess(r)
    PROVE  DirectoryInv'
<1> USE DEF DirectoryInv
<1>1. /\ UNCHANGED <<user, language, org, member, project, access, orgAccess, meddled, invite, gave, mixed, doubled>>
      /\ request[r].pc = "accepting"
  BY DEF LookForAccess, people, organizations, projects, invitations
<1>2. PICK saw \in BOOLEAN : request' = [request EXCEPT ![r] = Looked(request[r], saw)]
  <2>1. (access[<<request[r].project, request[r].user>>] # NULL) \in BOOLEAN
    OBVIOUS
  <2>2. request' = [request EXCEPT ![r] = Looked(request[r], access[<<request[r].project, request[r].user>>] # NULL)]
    BY DEF LookForAccess
  <2> QED BY <2>1, <2>2, Zenon
<1>3. request[r] \in RequestRows
  BY DEF DirectoryTypeOK
<1> DEFINE row == Looked(request[r], saw)
<1>4. /\ row \in RequestRows /\ row.pc = "looked" /\ row.user = request[r].user
      /\ row.project = request[r].project /\ row.invite = request[r].invite /\ row.role = request[r].role
  BY <1>3, LookedTyped
<1> HIDE DEF row
<1>5. request' = [request EXCEPT ![r] = row]
  BY <1>2 DEF row
<1>6. /\ request' \in [Requests -> RequestRows] /\ request'[r] = row
      /\ \A s \in Requests : s # r => request'[s] = request[s]
  BY <1>4, <1>5, RequestGoes
<1>7. DirectoryTypeOK'
  BY <1>1, <1>6 DEF DirectoryTypeOK
<1>8. \A s \in Requests : RequestKnown(s)'
  <2>1. RequestKnown(r)'
    BY <1>1, <1>4, <1>6 DEF RequestKnown, AnswersOn
  <2> QED BY <1>1, <1>6, <2>1, RequestsKnownStill
<1>9. InvitesAreReal'
  BY <1>1 DEF InvitesAreReal
<1>10. CreatorsAreAlone' /\ ProjectsHaveManagers'
  BY <1>1, <1>4, <1>6, CreatorsSame
<1>11. AskersAreAlone'
  BY <1>1, <1>4, <1>6, AskersStand
<1>12. \A j \in Invites : Answering(j)' = Answering(j)
  BY <1>1, <1>4, <1>6 DEF Answering
<1>13. \A s \in Requests : request'[s].pc = "granted" <=> request[s].pc = "granted"
  BY <1>1, <1>4, <1>6
<1>14. AnswersAreAlone'
  <2>1. \A j \in Invites : \A s \in Answering(j) : s \in Requests
    BY DEF Answering
  <2> QED BY <1>1, <1>12, <1>13, <2>1 DEF AnswersAreAlone
<1>15. AnswersAreTrue'
  BY <1>1 DEF AnswersAreTrue
<1> QED BY <1>7, <1>8, <1>9, <1>10, <1>11, <1>14, <1>15

LEMMA InvitedKeeps ==
    ASSUME DirectoryInv, NEW r \in Requests, GrantInvited(r)
    PROVE  DirectoryInv'
<1> USE DEF DirectoryInv
<1> DEFINE q == request[r]
<1>1. /\ UNCHANGED <<user, language, org, member, project, orgAccess, invite, mixed, doubled>>
      /\ q.pc = "looked" /\ gave' = gave \cup {q.invite}
      /\ meddled' = meddled \cup {p \in {q.project} : BeingCreated(p)}
  BY DEF GrantInvited, people, organizations
<1>2. /\ q \in RequestRows /\ q.user \in Users /\ q.project \in Projects /\ project[q.project] # NULL
      /\ q.invite \in Invites /\ q.role \in Roles
  BY <1>1 DEF RequestKnown, DirectoryTypeOK, AnswersOn
<1>3. [q EXCEPT !.pc = "granted"] \in RequestRows
  BY <1>2 DEF RequestRows
<1>4. PICK row \in RequestRows :
          /\ request' = [request EXCEPT ![r] = row]
          /\ row.pc = "granted" /\ row.user = q.user /\ row.project = q.project
          /\ row.invite = q.invite /\ row.role = q.role
  <2>1. request' = [request EXCEPT ![r] = [q EXCEPT !.pc = "granted"]]
    BY DEF GrantInvited
  <2> QED BY <1>2, <1>3, <2>1 DEF RequestRows
<1>5. /\ request' \in [Requests -> RequestRows] /\ request'[r] = row
      /\ \A s \in Requests : s # r => request'[s] = request[s]
  BY <1>4, RequestGoes
<1>6. /\ access' \in [Projects \X Users -> Roles \cup {NULL}]
      /\ \A p \in Projects, u \in Users :
            \/ access'[<<p, u>>] = access[<<p, u>>]
            \/ p = q.project /\ access[<<p, u>>] = NULL /\ u = q.user /\ user[u] # NULL
  <2>1. CASE access' = access
    BY <2>1 DEF DirectoryTypeOK
  <2>2. CASE /\ access[<<q.project, q.user>>] = NULL /\ user[q.user] # NULL
             /\ access' = [access EXCEPT ![<<q.project, q.user>>] = q.role]
    <3> HIDE DEF q
    <3> QED BY <1>2, <2>2, ZenonT(60) DEF DirectoryTypeOK
  <2> QED BY <2>1, <2>2 DEF GrantInvited
<1> HIDE DEF q
<1>7. DirectoryTypeOK'
  <2>1. \A p \in Projects, u \in Users : access'[<<p, u>>] # NULL => project[p] # NULL /\ user[u] # NULL
    BY <1>2, <1>6 DEF DirectoryTypeOK
  <2>2. meddled' \subseteq Projects /\ gave' \subseteq Invites
    BY <1>1, <1>2 DEF DirectoryTypeOK
  <2> QED BY <1>1, <1>5, <1>6, <2>1, <2>2 DEF DirectoryTypeOK
<1>8. \A s \in Requests : RequestKnown(s)'
  <2>1. RequestKnown(r)'
    BY <1>1, <1>2, <1>4, <1>5 DEF RequestKnown, AnswersOn
  <2> QED BY <1>1, <1>5, <2>1, RequestsKnownStill
<1>9. InvitesAreReal'
  BY <1>1 DEF InvitesAreReal
<1>10. CreatorsAreAlone' /\ ProjectsHaveManagers'
  <2>1. \A s \in Requests : request'[s].pc = "created" \/ request[s].pc = "created" => request'[s] = request[s]
    BY <1>1, <1>4, <1>5 DEF q
  <2>2. meddled \subseteq meddled'
    BY <1>1
  <2>3. \A p \in Projects : \/ p \in meddled'
                            \/ \A u \in Users : access'[<<p, u>>] = access[<<p, u>>]
                            \/ /\ ~BeingCreated(p)
                               /\ \A u \in Users : access[<<p, u>>] = "manager" => access'[<<p, u>>] = "manager"
    <3>1. NULL # "manager"
      BY DEF Roles
    <3> QED BY <1>1, <1>6, <3>1
  <2> QED BY <1>1, <2>1, <2>2, <2>3, CreatorsStand
<1>11. AskersAreAlone'
  BY <1>1, <1>4, <1>5, AskersStand
<1>12. \A j \in Invites : Answering(j)' = Answering(j)
  BY <1>1, <1>4, <1>5 DEF Answering, q
<1>13. r \in Answering(q.invite)
  BY <1>1 DEF Answering, q
<1>14. \A s \in Requests : request'[s].pc = "granted" <=> request[s].pc = "granted" \/ s = r
  BY <1>4, <1>5
<1>15. AnswersAreAlone'
  <2> SUFFICES ASSUME NEW j \in Invites
               PROVE  /\ j \notin mixed =>
                            /\ invite[j] # NULL => \A s, t \in Answering(j) : s = t
                            /\ invite[j] # NULL /\ Answering(j) # {} => invite[j].status = "pending"
                            /\ j \in gave' /\ (invite[j] = NULL \/ invite[j].status = "pending") =>
                                  \E s \in Answering(j) : request'[s].pc = "granted"
                      /\ \A s \in Answering(j) : request'[s].pc = "granted" /\ invite[j] # NULL => j \in gave'
    BY <1>1, <1>12 DEF AnswersAreAlone
  <2>1. /\ j \notin mixed =>
              /\ invite[j] # NULL => \A s, t \in Answering(j) : s = t
              /\ invite[j] # NULL /\ Answering(j) # {} => invite[j].status = "pending"
              /\ j \in gave /\ (invite[j] = NULL \/ invite[j].status = "pending") =>
                    \E s \in Answering(j) : request[s].pc = "granted"
        /\ \A s \in Answering(j) : request[s].pc = "granted" /\ invite[j] # NULL => j \in gave
    BY DEF AnswersAreAlone
  <2>2. \A s \in Answering(j) : s \in Requests
    BY DEF Answering
  <2>3. r \in Answering(j) => j = q.invite
    BY DEF Answering, q
  <2>4. j = q.invite => j \in gave' /\ request'[r].pc = "granted"
    BY <1>1, <1>4, <1>5
  <2>5. j # q.invite => (j \in gave' <=> j \in gave)
    BY <1>1
  <2>6. CASE j = q.invite
    BY <1>13, <2>1, <2>2, <2>4, <2>6
  <2>7. CASE j # q.invite
    BY <1>14, <2>1, <2>2, <2>3, <2>5, <2>7
  <2> QED BY <2>6, <2>7
<1>16. AnswersAreTrue'
  <2> SUFFICES ASSUME NEW j \in Invites, invite[j] # NULL
               PROVE  /\ invite[j].status = "accepted" => j \in gave'
                      /\ invite[j].status = "declined" => j \notin gave' \/ j \in mixed
    BY <1>1 DEF AnswersAreTrue
  <2>1. /\ invite[j].status = "accepted" => j \in gave
        /\ invite[j].status = "declined" => j \notin gave \/ j \in mixed
    BY DEF AnswersAreTrue
  <2>2. j = q.invite => j \in mixed \/ invite[j].status = "pending"
    BY <1>13 DEF AnswersAreAlone
  <2> QED BY <1>1, <2>1, <2>2
<1> QED BY <1>7, <1>8, <1>9, <1>10, <1>11, <1>15, <1>16

LEMMA AnsweredKeeps ==
    ASSUME DirectoryInv, NEW r \in Requests, CommitAccept(r) \/ CommitDecline(r)
    PROVE  DirectoryInv'
<1> USE DEF DirectoryInv
<1> DEFINE q == request[r]
<1>1. PICK status \in {"accepted", "declined"} :
          /\ Answered(r, status)
          /\ status = "accepted" => q.pc = "granted"
          /\ status = "declined" => q.pc = "declining"
          /\ q.pc \in {"granted", "declining"}
  BY DEF CommitAccept, CommitDecline
<1>2. /\ UNCHANGED <<user, language, org, member, project, access, orgAccess, meddled, gave, mixed, doubled>>
      /\ invite[q.invite] # NULL /\ End(r)
  BY <1>1 DEF Answered, people, organizations, projects
<1>3. q.invite \in Invites /\ invite[q.invite] \in InviteRows
  BY <1>1, <1>2 DEF RequestKnown, DirectoryTypeOK, AnswersOn
<1>4. PICK row \in InviteRows :
          /\ invite' = [invite EXCEPT ![q.invite] = row] /\ row.status = status
          /\ row.project = invite[q.invite].project /\ row.invited_by = invite[q.invite].invited_by
  <2>1. invite' = [invite EXCEPT ![q.invite] = [invite[q.invite] EXCEPT !.status = status]]
    BY <1>1 DEF Answered
  <2>2. [invite[q.invite] EXCEPT !.status = status] \in InviteRows
    BY <1>3 DEF InviteRows
  <2> QED BY <1>3, <2>1, <2>2 DEF InviteRows
<1>5. /\ request' \in [Requests -> RequestRows] /\ request'[r] = NoRequest
      /\ \A s \in Requests : s # r => request'[s] = request[s]
  BY <1>2, RequestEnds
<1>6. NoRequest.pc = "idle"
  BY DEF NoRequest, RequestOf
<1> DEFINE i == q.invite
<1>7. r \in Answering(i)
  BY <1>1 DEF Answering
<1>8. \A j \in Invites : \A s \in Answering(j) : s = r => j = i
  BY DEF Answering
<1>9. \A j \in Invites : \A s : s \in Answering(j)' <=> s \in Answering(j) /\ s # r
  BY <1>5, <1>6 DEF Answering
<1>10. i \in Invites /\ invite[i] # NULL /\ invite' = [invite EXCEPT ![i] = row]
       /\ row.project = invite[i].project /\ row.invited_by = invite[i].invited_by
  BY <1>2, <1>3, <1>4
<1>11. request[r].pc # "created"
  BY <1>1
<1>12. status = "declined" => request[r].pc # "granted"
  BY <1>1
<1>13. status = "accepted" => request[r].pc = "granted"
  BY <1>1
<1> HIDE DEF q, i
<1>14. /\ invite' \in [Invites -> InviteRows \cup {NULL}] /\ invite'[i] = row /\ row # NULL
       /\ \A j \in Invites : j # i => invite'[j] = invite[j]
  BY <1>10 DEF DirectoryTypeOK
<1>15. DirectoryTypeOK'
  <2>1. \A j \in Invites : invite'[j] # NULL => user[invite'[j].invited_by] # NULL
    BY <1>10, <1>14 DEF DirectoryTypeOK
  <2> QED BY <1>2, <1>5, <1>14, <2>1 DEF DirectoryTypeOK
<1>16. \A s \in Requests : RequestKnown(s)'
  BY <1>2, <1>5, EndedIsKnown, RequestsKnownStill
<1>17. InvitesAreReal'
  BY <1>2, <1>10, <1>14 DEF InvitesAreReal
<1>18. CreatorsAreAlone' /\ ProjectsHaveManagers'
  BY <1>2, <1>5, <1>6, <1>11, CreatorsSame
<1>19. AskersAreAlone'
  BY <1>2, <1>4, <1>5, <1>6, <1>14, AskersStand
<1>20. AnswersAreAlone'
  <2> SUFFICES ASSUME NEW j \in Invites
               PROVE  /\ j \notin mixed =>
                            /\ invite'[j] # NULL => \A s, t \in Answering(j)' : s = t
                            /\ invite'[j] # NULL /\ Answering(j)' # {} => invite'[j].status = "pending"
                            /\ j \in gave /\ (invite'[j] = NULL \/ invite'[j].status = "pending") =>
                                  \E s \in Answering(j)' : request'[s].pc = "granted"
                      /\ \A s \in Answering(j)' : request'[s].pc = "granted" /\ invite'[j] # NULL => j \in gave
    BY <1>2 DEF AnswersAreAlone
  <2>1. /\ j \notin mixed =>
              /\ invite[j] # NULL => \A s, t \in Answering(j) : s = t
              /\ invite[j] # NULL /\ Answering(j) # {} => invite[j].status = "pending"
              /\ j \in gave /\ (invite[j] = NULL \/ invite[j].status = "pending") =>
                    \E s \in Answering(j) : request[s].pc = "granted"
        /\ \A s \in Answering(j) : request[s].pc = "granted" /\ invite[j] # NULL => j \in gave
    BY DEF AnswersAreAlone
  <2>2. \A s \in Answering(j) : s \in Requests /\ (s # r => request'[s] = request[s])
    BY <1>5 DEF Answering
  <2>3. CASE j = i
    BY <1>4, <1>7, <1>9, <1>10, <1>14, <2>1, <2>2, <2>3
  <2>4. CASE j # i
    BY <1>8, <1>9, <1>14, <2>1, <2>2, <2>4
  <2> QED BY <2>3, <2>4
<1>21. AnswersAreTrue'
  <2> SUFFICES ASSUME NEW j \in Invites, invite'[j] # NULL
               PROVE  /\ invite'[j].status = "accepted" => j \in gave
                      /\ invite'[j].status = "declined" => j \notin gave \/ j \in mixed
    BY <1>2 DEF AnswersAreTrue
  <2>1. CASE j # i
    BY <1>14, <2>1 DEF AnswersAreTrue
  <2>2. CASE j = i
    <3>1. /\ i \notin mixed =>
                /\ \A s, t \in Answering(i) : s = t
                /\ invite[i].status = "pending"
                /\ i \in gave => \E s \in Answering(i) : request[s].pc = "granted"
          /\ \A s \in Answering(i) : request[s].pc = "granted" => i \in gave
      BY <1>7, <1>10 DEF AnswersAreAlone
    <3>2. invite'[i].status = status
      BY <1>4, <1>14
    <3> QED BY <1>7, <1>12, <1>13, <2>2, <3>1, <3>2
  <2> QED BY <2>1, <2>2
<1> QED BY <1>15, <1>16, <1>17, <1>18, <1>19, <1>20, <1>21

LEMMA StopKeeps ==
    ASSUME DirectoryInv, NEW r \in Requests, Stops(r)
    PROVE  DirectoryInv'
<1> USE DEF DirectoryInv
<1> DEFINE q == request[r]
<1>1. /\ UNCHANGED <<user, language, org, member, project, access, orgAccess, invite, gave, doubled>>
      /\ End(r)
      /\ meddled' = meddled \cup IF q.pc = "created" THEN {q.project} ELSE {}
      /\ mixed' = mixed \cup IF q.pc \in {"looked", "granted"} THEN {q.invite} ELSE {}
  BY DEF Stops, people, organizations, projects
<1>2. /\ request' \in [Requests -> RequestRows] /\ request'[r] = NoRequest
      /\ \A s \in Requests : s # r => request'[s] = request[s]
  BY <1>1, RequestEnds
<1>3. NoRequest.pc = "idle"
  BY DEF NoRequest, RequestOf
<1>4. /\ q.pc = "created" => q.project \in Projects
      /\ q.pc \in {"looked", "granted"} => q.invite \in Invites
  BY DEF RequestKnown, AnswersOn
<1>5. meddled' \subseteq Projects /\ mixed' \subseteq Invites /\ meddled \subseteq meddled' /\ mixed \subseteq mixed'
  BY <1>1, <1>4 DEF DirectoryTypeOK
<1>6. DirectoryTypeOK'
  BY <1>1, <1>2, <1>5 DEF DirectoryTypeOK
<1>7. \A s \in Requests : RequestKnown(s)'
  BY <1>1, <1>2, EndedIsKnown, RequestsKnownStill
<1>8. InvitesAreReal'
  BY <1>1 DEF InvitesAreReal
<1>9. CreatorsAreAlone' /\ ProjectsHaveManagers'
  BY <1>1, <1>2, <1>3, <1>5, CreatorsStand
<1>10. AskersAreAlone'
  BY <1>1, <1>2, <1>3, AskersStand
<1>11. \A j \in Invites : \A s : s \in Answering(j)' <=> s \in Answering(j) /\ s # r
  BY <1>2, <1>3 DEF Answering
<1>12. AnswersAreAlone'
  <2> SUFFICES ASSUME NEW j \in Invites
               PROVE  /\ j \notin mixed' =>
                            /\ invite[j] # NULL => \A s, t \in Answering(j)' : s = t
                            /\ invite[j] # NULL /\ Answering(j)' # {} => invite[j].status = "pending"
                            /\ j \in gave /\ (invite[j] = NULL \/ invite[j].status = "pending") =>
                                  \E s \in Answering(j)' : request'[s].pc = "granted"
                      /\ \A s \in Answering(j)' : request'[s].pc = "granted" /\ invite[j] # NULL => j \in gave
    BY <1>1 DEF AnswersAreAlone
  <2>1. /\ j \notin mixed =>
              /\ invite[j] # NULL => \A s, t \in Answering(j) : s = t
              /\ invite[j] # NULL /\ Answering(j) # {} => invite[j].status = "pending"
              /\ j \in gave /\ (invite[j] = NULL \/ invite[j].status = "pending") =>
                    \E s \in Answering(j) : request[s].pc = "granted"
        /\ \A s \in Answering(j) : request[s].pc = "granted" /\ invite[j] # NULL => j \in gave
    BY DEF AnswersAreAlone
  <2>2. \A s \in Answering(j) : s \in Requests /\ (s # r => request'[s] = request[s])
    BY <1>2 DEF Answering
  <2>3. r \in Answering(j) /\ request[r].pc = "granted" => j \in mixed'
    BY <1>1 DEF Answering
  <2>4. \A s \in Answering(j) : j \notin mixed' /\ request[s].pc = "granted" => s # r
    BY <2>3
  <2> HIDE DEF q
  <2> QED BY <1>5, <1>11, <2>1, <2>2, <2>4
<1>13. AnswersAreTrue'
  BY <1>1, <1>5 DEF AnswersAreTrue
<1> QED BY <1>6, <1>7, <1>8, <1>9, <1>10, <1>12, <1>13

\* The foreign keys clear what names the account.
LEMMA DeletionKeeps ==
    ASSUME DirectoryInv, DeleteUser
    PROVE  DirectoryInv'
<1> USE DEF DirectoryInv
<1>1. UNCHANGED <<language, project, orgAccess, request, doubled>>
  BY DEF DeleteUser
<1>2. PICK u \in Users :
          /\ user[u] # NULL /\ user' = [user EXCEPT ![u] = NULL]
          /\ org' = [o \in Orgs |-> IF org[o] = NULL \/ org[o].manager_id # u THEN org[o]
                                    ELSE [org[o] EXCEPT !.manager_id = NULL]]
          /\ member' = [x \in Orgs \X Users |-> IF x[2] = u THEN NULL ELSE member[x]]
          /\ access' = [x \in Projects \X Users |-> IF x[2] = u THEN NULL ELSE access[x]]
          /\ meddled' = meddled \cup {p \in Projects : access[<<p, u>>] # NULL}
          /\ invite' = [i \in Invites |-> IF invite[i] # NULL /\ invite[i].invited_by = u
                                          THEN NULL ELSE invite[i]]
          /\ gave' = gave \ {i \in Invites : invite[i] # NULL /\ invite[i].invited_by = u}
          /\ mixed' = mixed \ {i \in Invites : invite[i] # NULL /\ invite[i].invited_by = u}
  BY DEF DeleteUser
<1>3. /\ user' \in [Users -> {"active", "inactive", NULL}] /\ user'[u] = NULL
      /\ \A v \in Users : v # u => user'[v] = user[v]
  BY <1>2 DEF DirectoryTypeOK
<1>4. /\ org' \in [Orgs -> OrgRows \cup {NULL}]
      /\ \A o \in Orgs : /\ org'[o] = NULL <=> org[o] = NULL
                         /\ org[o] # NULL => /\ org'[o].slug = org[o].slug
                                             /\ org'[o].manager_id # u
                                             /\ org'[o].manager_id \in {org[o].manager_id, NULL}
  <2>1. ASSUME NEW o \in Orgs
        PROVE  /\ org'[o] \in OrgRows \cup {NULL} /\ (org'[o] = NULL <=> org[o] = NULL)
               /\ org[o] # NULL => /\ org'[o].slug = org[o].slug
                                   /\ org'[o].manager_id # u
                                   /\ org'[o].manager_id \in {org[o].manager_id, NULL}
    <3>1. CASE org[o] = NULL \/ org[o].manager_id # u
      BY <1>2, <3>1 DEF DirectoryTypeOK
    <3>2. CASE org[o] # NULL /\ org[o].manager_id = u
      <4>1. org[o] \in OrgRows
        BY <3>2 DEF DirectoryTypeOK
      <4>2. [org[o] EXCEPT !.manager_id = NULL] \in OrgRows
        BY <4>1 DEF OrgRows
      <4>3. org'[o] = [org[o] EXCEPT !.manager_id = NULL] /\ org'[o] # NULL
        BY <1>2, <3>2, <4>2
      <4>4. org'[o].slug = org[o].slug /\ org'[o].manager_id = NULL
        BY <4>1, <4>3 DEF OrgRows
      <4> QED BY <3>2, <4>2, <4>3, <4>4
    <3> QED BY <3>1, <3>2
  <2>2. org' \in [Orgs -> OrgRows \cup {NULL}]
    BY <1>2, <2>1
  <2> QED BY <2>1, <2>2
<1>5. /\ member' \in [Orgs \X Users -> Roles \cup {NULL}]
      /\ \A o \in Orgs, v \in Users : member'[<<o, v>>] # NULL => v # u /\ member[<<o, v>>] # NULL
  BY <1>2 DEF DirectoryTypeOK
<1>6. /\ access' \in [Projects \X Users -> Roles \cup {NULL}]
      /\ \A p \in Projects, v \in Users : access'[<<p, v>>] = IF v = u THEN NULL ELSE access[<<p, v>>]
  BY <1>2 DEF DirectoryTypeOK
<1>7. /\ invite' \in [Invites -> InviteRows \cup {NULL}]
      /\ \A i \in Invites :
            \/ /\ invite'[i] = invite[i] /\ (invite[i] # NULL => invite[i].invited_by # u)
               /\ i \in gave' <=> i \in gave
               /\ i \in mixed' <=> i \in mixed
            \/ invite'[i] = NULL /\ i \notin gave' /\ i \notin mixed'
  BY <1>2 DEF DirectoryTypeOK
<1>8. meddled \subseteq meddled' /\ \A p \in Projects : access[<<p, u>>] # NULL => p \in meddled'
  BY <1>2
<1>9. DirectoryTypeOK'
  <2>1. meddled' \subseteq Projects /\ gave' \subseteq Invites /\ mixed' \subseteq Invites
    BY <1>2 DEF DirectoryTypeOK
  <2>2. \A o \in Orgs : org'[o] # NULL /\ org'[o].manager_id # NULL => user'[org'[o].manager_id] # NULL
    <3>1. \A o \in Orgs : org[o] # NULL => org[o].manager_id \in Users \cup {NULL}
      BY DEF DirectoryTypeOK, OrgRows
    <3> QED BY <1>3, <1>4, <3>1 DEF DirectoryTypeOK
  <2>3. \A o \in Orgs, v \in Users : member'[<<o, v>>] # NULL => org'[o] # NULL /\ user'[v] # NULL
    BY <1>3, <1>4, <1>5 DEF DirectoryTypeOK
  <2>4. \A p \in Projects, v \in Users : access'[<<p, v>>] # NULL => project[p] # NULL /\ user'[v] # NULL
    BY <1>3, <1>6 DEF DirectoryTypeOK
  <2>5. \A x \in orgAccess : project[x[1]] # NULL /\ org'[x[2]] # NULL
    BY <1>4 DEF DirectoryTypeOK
  <2>6. \A i \in Invites : invite'[i] # NULL => user'[invite'[i].invited_by] # NULL
    <3>1. \A i \in Invites : invite[i] # NULL => invite[i].invited_by \in Users
      BY DEF DirectoryTypeOK, InviteRows
    <3> QED BY <1>3, <1>7, <3>1 DEF DirectoryTypeOK
  <2>7. \A o, q \in Orgs : org'[o] # NULL /\ org'[q] # NULL /\ org'[o].slug = org'[q].slug => o = q
    BY <1>4 DEF DirectoryTypeOK
  <2> QED BY <1>1, <1>3, <1>4, <1>5, <1>6, <1>7, <2>1, <2>2, <2>3, <2>4, <2>5, <2>6, <2>7 DEF DirectoryTypeOK
<1>10. \A s \in Requests : RequestKnown(s)'
  BY <1>1, RequestsKnownStill
<1>11. InvitesAreReal'
  BY <1>1, <1>7 DEF InvitesAreReal
<1>12. CreatorsAreAlone' /\ ProjectsHaveManagers'
  <2>1. \A p \in Projects : p \in meddled' \/ \A v \in Users : access'[<<p, v>>] = access[<<p, v>>]
    BY <1>6, <1>8
  <2> QED BY <1>1, <1>8, <2>1, CreatorsStand
<1>13. AskersAreAlone'
  BY <1>1, <1>7, AskersStand
<1>14. \A j \in Invites : Answering(j)' = Answering(j)
  BY <1>1 DEF Answering
<1>15. AnswersAreAlone'
  BY <1>1, <1>7, <1>14 DEF AnswersAreAlone
<1>16. AnswersAreTrue'
  BY <1>7 DEF AnswersAreTrue
<1> QED BY <1>9, <1>10, <1>11, <1>12, <1>13, <1>15, <1>16

\* What nobody asks for changes nothing.
LEMMA StutterKeeps ==
    ASSUME DirectoryInv, UNCHANGED directoryVars
    PROVE  DirectoryInv'
<1>1. DirectoryTypeOK' /\ IsFiniteSet(orgAccess')
  BY DEF DirectoryInv, DirectoryTypeOK, directoryVars, InvitesAreReal
<1> QED BY <1>1, InvStands DEF directoryVars

LEMMA DirectoryStarts == DirectoryInit => DirectoryInv
<1> SUFFICES ASSUME DirectoryInit
             PROVE  DirectoryInv
  OBVIOUS
<1> USE DEF DirectoryInit
<1>1. NoRequest \in RequestRows
  BY DEF NoRequest, RequestOf, RequestRows
<1>2. /\ request \in [Requests -> RequestRows]
      /\ \A r \in Requests : request[r] = NoRequest /\ request[r].pc = "idle"
  BY <1>1 DEF NoRequest, RequestOf
<1>3. DirectoryTypeOK
  BY <1>2 DEF DirectoryTypeOK
<1>4. \A r \in Requests : RequestKnown(r)
  BY <1>2 DEF RequestKnown, AnswersOn
<1>5. InvitesAreReal
  BY FS_EmptySet DEF InvitesAreReal
<1>6. CreatorsAreAlone /\ ProjectsHaveManagers
  BY <1>2 DEF CreatorsAreAlone, ProjectsHaveManagers
<1>7. AskersAreAlone
  BY <1>2 DEF AskersAreAlone, Asking, Pending
<1>8. AnswersAreAlone /\ AnswersAreTrue
  BY <1>2 DEF AnswersAreAlone, AnswersAreTrue, Answering
<1> QED BY <1>3, <1>4, <1>5, <1>6, <1>7, <1>8 DEF DirectoryInv

LEMMA DirectoryStep ==
    ASSUME DirectoryInv, [DirectoryNext]_directoryVars
    PROVE  DirectoryInv'
<1>1. CASE UNCHANGED directoryVars
  BY <1>1, StutterKeeps
<1>2. CASE OrganizationSteps
  BY <1>2, OrganizationsKeep
<1>3. CASE ProjectSteps
  <2>1. CASE CreateLanguage \/ UpdateProject
    BY <2>1, TablesKeep DEF Tables
  <2>2. ASSUME NEW r \in Requests, CreateProject(r) \/ MakeManager(r)
        PROVE  DirectoryInv'
    BY <2>2, CreationKeeps, ManagerIsMade
  <2> QED BY <1>3, <2>1, <2>2 DEF ProjectSteps
<1>4. CASE AccessSteps
  <2>1. CASE GrantOrganizationAccess \/ RevokeOrganizationAccess
    BY <2>1, TablesKeep DEF Tables
  <2>2. CASE GrantUserAccess \/ UpdateUserAccessRole \/ RevokeUserAccess
    BY <2>2, AccessesKeep
  <2> QED BY <1>4, <2>1, <2>2 DEF AccessSteps
<1>5. ASSUME NEW r \in Requests,
             \/ BeginInvite(r) \/ CommitInvite(r)
             \/ BeginAccept(r) \/ LookForAccess(r) \/ GrantInvited(r) \/ CommitAccept(r)
             \/ BeginDecline(r) \/ CommitDecline(r)
      PROVE  DirectoryInv'
  <2>1. CASE BeginInvite(r) \/ CommitInvite(r)
    BY <2>1, InvitingKeeps, InvitationKeeps
  <2>2. CASE BeginAccept(r) \/ BeginDecline(r)
    BY <2>2, AnsweringKeeps DEF BeginAccept, BeginDecline
  <2>3. CASE LookForAccess(r) \/ GrantInvited(r)
    BY <2>3, LookingKeeps, InvitedKeeps
  <2>4. CASE CommitAccept(r) \/ CommitDecline(r)
    BY <2>4, AnsweredKeeps
  <2> QED BY <1>5, <2>1, <2>2, <2>3, <2>4
<1>6. CASE Deactivate
  BY <1>6, TablesKeep DEF Tables
<1>7. CASE DeleteUser
  BY <1>7, DeletionKeeps
<1>8. ASSUME NEW r \in Requests, Stops(r)
      PROVE  DirectoryInv'
  BY <1>8, StopKeeps
<1> QED BY <1>1, <1>2, <1>3, <1>4, <1>5, <1>6, <1>7, <1>8 DEF DirectoryNext, InviteSteps

-----------------------------------------------------------------------------
(* The directory: the theorem.                                             *)

LEMMA OneOrNone ==
    ASSUME NEW S, \A i, j \in S : i = j
    PROVE  Cardinality(S) <= 1
<1>1. CASE S = {}
  BY <1>1, FS_EmptySet
<1>2. CASE S # {}
  <2>1. PICK i : S = {i}
    BY <1>2
  <2>2. Cardinality({i}) = 1
    BY FS_Singleton
  <2> QED BY <2>1, <2>2
<1> QED BY <1>1, <1>2

LEMMA OneIsPending ==
    ASSUME AskersAreAlone
    PROVE  OnePendingInvite
BY OneOrNone DEF AskersAreAlone, OnePendingInvite

\* Projects an organization may open are as many as its accesses, and have no more languages.
LEMMA StatsAreRight ==
    ASSUME DirectoryTypeOK, IsFiniteSet(orgAccess), NEW o \in Orgs
    PROVE  /\ Stats(o).project_count = Cardinality(OfOrganizations({o}))
           /\ Stats(o).language_count <= Stats(o).project_count
<1> DEFINE S == {x \in orgAccess : x[2] = o}
           T == OfOrganizations({o})
           L == {project[x[1]] : x \in S}
           f == [x \in S |-> x[1]]
           g == [x \in S |-> project[x[1]]]
<1>1. IsFiniteSet(S)
  <2>1. S \in SUBSET orgAccess
    OBVIOUS
  <2> QED BY <2>1, FS_Subset
<1>2. \A x \in S : x \in Projects \X Orgs /\ x = <<x[1], x[2]>> /\ x[2] = o
  BY DEF DirectoryTypeOK
<1>3. T = {x[1] : x \in S}
  BY DEF OfOrganizations
<1>4. f \in Surjection(S, T)
  <2>1. f \in [S -> T]
    BY <1>3
  <2>2. \A t \in T : \E x \in S : f[x] = t
    BY <1>3
  <2> QED BY <2>1, <2>2 DEF Surjection
<1>5. f \in Injection(S, T)
  <2>1. \A x, y \in S : f[x] = f[y] => x = y
    <3> SUFFICES ASSUME NEW x \in S, NEW y \in S, x[1] = y[1]
                 PROVE  x = y
      OBVIOUS
    <3>1. x = <<x[1], o>> /\ y = <<y[1], o>>
      BY <1>2
    <3> QED BY <3>1
  <2>2. f \in [S -> T]
    BY <1>3
  <2> QED BY <2>1, <2>2 DEF Injection, IsInjective
<1>6. Cardinality(T) = Cardinality(S)
  BY <1>1, <1>4, <1>5, FS_Surjection
<1>7. g \in Surjection(S, L)
  <2>1. g \in [S -> L]
    OBVIOUS
  <2>2. \A t \in L : \E x \in S : g[x] = t
    OBVIOUS
  <2> QED BY <2>1, <2>2 DEF Surjection
<1>8. Cardinality(L) <= Cardinality(S)
  BY <1>1, <1>7, FS_Surjection
<1>9. Stats(o).project_count = Cardinality(S) /\ Stats(o).language_count = Cardinality(L)
  BY DEF Stats
<1> QED BY <1>6, <1>8, <1>9

LEMMA ListsAreRight ==
    ASSUME DirectoryTypeOK, NEW u \in Users \ Admins
    PROVE  /\ CollectedBy(u) = {p \in Projects : MayCollect(u, p)}
           /\ CollectedBy(u) = {p \in Projects : MayOpen(u, p)}
           /\ ManagedOrgs(u) = {} => ListedFor(u) = CollectedBy(u)
<1>1. \A x \in orgAccess : x \in Projects \X Orgs /\ x = <<x[1], x[2]>>
  BY DEF DirectoryTypeOK
<1>2. ASSUME NEW p \in Projects
      PROVE  CanAccess(u, p) => project[p] # NULL
  <2>1. access[<<p, u>>] # NULL => project[p] # NULL
    BY DEF DirectoryTypeOK
  <2>2. \A o \in Orgs : <<p, o>> \in orgAccess => project[p] # NULL
    BY DEF DirectoryTypeOK
  <2> QED BY <2>1, <2>2 DEF CanAccess
<1>3. ASSUME NEW p \in Projects
      PROVE  MayCollect(u, p) <=> CanAccess(u, p)
  <2>1. (\E x \in orgAccess : x[1] = p /\ x[2] \in {o \in Orgs : member[<<o, u>>] # NULL})
           <=> \E o \in Orgs : <<p, o>> \in orgAccess /\ member[<<o, u>>] # NULL
    BY <1>1, ZenonT(60)
  <2> QED BY <2>1 DEF MayCollect, CanAccess
<1>4. ASSUME NEW p \in Projects
      PROVE  p \in CollectedBy(u) <=> CanAccess(u, p)
  BY <1>2 DEF CollectedBy, CanAccess
<1>5. CollectedBy(u) \subseteq Projects
  BY DEF CollectedBy
<1>6. ASSUME NEW p \in Projects
      PROVE  p \in AccessibleTo(u) <=> CanAccess(u, p)
  <2>1. p \in {x[1] : x \in {y \in orgAccess : y[2] \in {o \in Orgs : member[<<o, u>>] # NULL}}}
           <=> \E o \in Orgs : <<p, o>> \in orgAccess /\ member[<<o, u>>] # NULL
    <3>1. ASSUME NEW o \in Orgs, <<p, o>> \in orgAccess, member[<<o, u>>] # NULL
          PROVE  p \in {x[1] : x \in {y \in orgAccess : y[2] \in {z \in Orgs : member[<<z, u>>] # NULL}}}
      <4>1. <<p, o>> \in {y \in orgAccess : y[2] \in {z \in Orgs : member[<<z, u>>] # NULL}} /\ <<p, o>>[1] = p
        BY <3>1
      <4> QED BY <4>1
    <3>2. ASSUME NEW x \in orgAccess, x[1] = p, x[2] \in {o \in Orgs : member[<<o, u>>] # NULL}
          PROVE  \E o \in Orgs : <<p, o>> \in orgAccess /\ member[<<o, u>>] # NULL
      BY <1>1, <3>2
    <3> QED BY <3>1, <3>2
  <2> QED BY <1>2, <2>1 DEF AccessibleTo, CanAccess
<1>7. AccessibleTo(u) \subseteq Projects
  BY DEF AccessibleTo
<1>8. \A p \in Projects : MayOpen(u, p) <=> CanAccess(u, p)
  BY DEF MayOpen
<1>9. ManagedOrgs(u) = {} => ListedFor(u) = AccessibleTo(u)
  BY DEF ListedFor
<1>10. CollectedBy(u) = {p \in Projects : MayCollect(u, p)} /\ CollectedBy(u) = {p \in Projects : MayOpen(u, p)}
  BY <1>3, <1>4, <1>5, <1>8
<1>11. AccessibleTo(u) = CollectedBy(u)
  BY <1>4, <1>5, <1>6, <1>7
<1> QED BY <1>9, <1>10, <1>11

\* Of the steps that write an access only the one asked to changes a role there is.
LEMMA RolesChangeOnRequest ==
    ASSUME DirectoryInv, [DirectoryNext]_directoryVars, NEW p \in Projects, NEW u \in Users,
           access[<<p, u>>] # NULL, access'[<<p, u>>] # NULL, access'[<<p, u>>] # access[<<p, u>>]
    PROVE  UpdateUserAccessRole
<1>1. DirectoryTypeOK /\ \A r \in Requests : RequestKnown(r)
  BY DEF DirectoryInv
<1>2. access' # access
  OBVIOUS
<1>3. ASSUME NEW q \in Projects, NEW v \in Users, NEW role \in Roles, access' = Granted(q, v, role)
      PROVE  FALSE
  BY <1>1, <1>3, GrantedTyped, ZenonT(60)
<1>4. ~GrantUserAccess
  BY <1>3 DEF GrantUserAccess
<1>5. ASSUME NEW r \in Requests, MakeManager(r)
      PROVE  FALSE
  <2>1. request[r].user \in Users /\ request[r].project \in Projects
    BY <1>1, <1>5 DEF MakeManager, RequestKnown
  <2>2. access' = Granted(request[r].project, request[r].user, "manager") /\ "manager" \in Roles
    BY <1>5 DEF MakeManager, Roles
  <2> QED BY <1>3, <2>1, <2>2
<1>6. ~RevokeUserAccess
  <2> SUFFICES ASSUME RevokeUserAccess
               PROVE  FALSE
    OBVIOUS
  <2>1. PICK q \in Projects, v \in Users : access' = [access EXCEPT ![<<q, v>>] = NULL]
    BY DEF RevokeUserAccess
  <2> QED BY <1>1, <2>1 DEF DirectoryTypeOK
<1>7. ASSUME NEW r \in Requests, GrantInvited(r)
      PROVE  FALSE
  <2>1. /\ access[<<request[r].project, request[r].user>>] = NULL
        /\ access' = [access EXCEPT ![<<request[r].project, request[r].user>>] = request[r].role]
    BY <1>2, <1>7 DEF GrantInvited
  <2> QED BY <1>1, <2>1 DEF DirectoryTypeOK
<1>8. ~DeleteUser
  <2> SUFFICES ASSUME DeleteUser
               PROVE  FALSE
    OBVIOUS
  <2>1. PICK v \in Users : access' = [x \in Projects \X Users |-> IF x[2] = v THEN NULL ELSE access[x]]
    BY DEF DeleteUser
  <2> QED BY <1>1, <2>1 DEF DirectoryTypeOK
<1>9. ~OrganizationSteps
  BY <1>2 DEF OrganizationSteps, CreateOrganization, UpdateOrganization, AddMember, RemoveMember,
              UpdateMemberRole, projects
<1>10. ~Tables
  BY <1>1, <1>2, TablesTyped
<1>11. ASSUME NEW r \in Requests
       PROVE  ~CreateProject(r) /\ ~Stops(r)
  BY <1>2 DEF CreateProject, Stops, projects
<1>12. ASSUME NEW r \in Requests
       PROVE  ~BeginInvite(r) /\ ~CommitInvite(r) /\ ~BeginAccept(r) /\ ~LookForAccess(r) /\ ~BeginDecline(r)
  BY <1>2 DEF BeginInvite, CommitInvite, BeginAccept, BeginDecline, BeginAnswer, LookForAccess, projects
<1>13. ASSUME NEW r \in Requests
       PROVE  ~CommitAccept(r) /\ ~CommitDecline(r)
  BY <1>2 DEF CommitAccept, CommitDecline, Answered, projects
<1>14. DirectoryNext
  BY <1>2 DEF directoryVars
<1>15. ~InviteSteps
  BY <1>7, <1>12, <1>13 DEF InviteSteps
<1>16. ~ProjectSteps
  BY <1>5, <1>10, <1>11 DEF ProjectSteps, Tables
<1>17. AccessSteps
  BY <1>8, <1>9, <1>10, <1>11, <1>14, <1>15, <1>16 DEF DirectoryNext, Tables
<1> QED BY <1>4, <1>6, <1>10, <1>17 DEF AccessSteps, Tables

\* Who may do what is what was decided, for any accounts, organizations, projects and number of
\* requests: lists show what can be opened, a project keeps a manager unless somebody saw to it,
\* invitations tell what became of them, and only a request to change a role changes it
\* (can_access_project.py, create_project.py, invite_service.py).
THEOREM AccessStaysAsDecided == DirectorySpec => AccessIsAsDecided
<1>1. DirectoryInit => DirectoryInv
  BY DirectoryStarts
<1>2. DirectoryInv /\ [DirectoryNext]_directoryVars => DirectoryInv'
  BY DirectoryStep
<1>3. DirectoryInv => DirectoryTypeOK /\ ListedCanBeOpened /\ ProjectsHaveManagers /\ OnePendingInvite /\ AnswersAreTrue
  <2> SUFFICES ASSUME DirectoryInv
               PROVE  DirectoryTypeOK /\ ListedCanBeOpened /\ ProjectsHaveManagers /\ OnePendingInvite /\ AnswersAreTrue
    OBVIOUS
  <2>1. DirectoryTypeOK /\ IsFiniteSet(orgAccess) /\ ProjectsHaveManagers /\ AskersAreAlone /\ AnswersAreTrue
    BY DEF DirectoryInv, InvitesAreReal
  <2>2. ListedCanBeOpened
    BY <2>1, ListsAreRight, StatsAreRight DEF ListedCanBeOpened
  <2>3. OnePendingInvite
    BY <2>1, OneIsPending
  <2> QED BY <2>1, <2>2, <2>3
<1>4. DirectoryInv /\ [DirectoryNext]_directoryVars =>
        [\A p \in Projects, u \in Users :
            access[<<p, u>>] # NULL /\ access'[<<p, u>>] # NULL /\ access'[<<p, u>>] # access[<<p, u>>] =>
               UpdateUserAccessRole]_directoryVars
  BY RolesChangeOnRequest
<1> QED BY <1>1, <1>2, <1>3, <1>4, PTL DEF DirectorySpec, AccessIsAsDecided, InvitedKeepTheirRole

-----------------------------------------------------------------------------
(* Phases.                                                                 *)

\* What a list half read is going to say: of the phases it lists, those they depend on by now are
\* listed, too.
ListsAreClosed ==
    \A l \in PhaseLists : list[l].pc = "listed" /\ list[l].of = NULL /\ l \notin crossed =>
        \A d \in dependency : d[1] \in list[l].phases => d[2] \in list[l].phases

PhasesInv == PhasesTypeOK /\ ListsAreClosed /\ ListedWhole

LEMMA PhasesStart == PhasesInit => PhasesInv
<1> SUFFICES ASSUME PhasesInit
             PROVE  PhasesInv
  OBVIOUS
<1>1. NoList \in ListRows /\ NoList.pc = "idle"
  BY DEF NoList, ListRows
<1> QED BY <1>1 DEF PhasesInit, PhasesInv, PhasesTypeOK, ListsAreClosed, ListedWhole

\* The steps on rows leave the lists, and a dependency is added to none but those it crosses.
LEMMA RowsKeepLists ==
    ASSUME PhasesInv, PhasesTypeOK', list' = list, crossed \subseteq crossed',
           \/ dependency' \subseteq dependency
           \/ \A l \in PhaseLists : list[l].pc = "listed" => l \in crossed'
    PROVE  PhasesInv'
<1>1. ListsAreClosed'
  BY DEF PhasesInv, ListsAreClosed
<1>2. ListedWhole'
  BY DEF PhasesInv, ListedWhole
<1> QED BY <1>1, <1>2 DEF PhasesInv

LEMMA PhasesStep ==
    ASSUME PhasesInv, [PhaseSteps]_phaseVars
    PROVE  PhasesInv'
<1> USE PhasesAssumption
<1>1. PhasesTypeOK
  BY DEF PhasesInv
<1>2. CASE UNCHANGED phaseVars
  BY <1>1, <1>2, RowsKeepLists DEF phaseVars, PhasesTypeOK
<1>3. CASE CreatePhase
  BY <1>1, <1>3, RowsKeepLists DEF CreatePhase, PhasesTypeOK
<1>4. CASE DeletePhase
  <2>1. PICK h \in phase :
            /\ phase' = phase \ {h}
            /\ dependency' = {d \in dependency : h \notin {d[1], d[2]}}
            /\ attached' = [x \in PhaseProjects \X Phase |-> IF x[2] = h THEN NULL ELSE attached[x]]
    BY <1>4 DEF DeletePhase
  <2>2. list' = list /\ crossed' = crossed
    BY <1>4 DEF DeletePhase
  <2>3. dependency' \subseteq phase' \X phase'
    BY <1>1, <2>1 DEF PhasesTypeOK
  <2>4. /\ attached' \in [PhaseProjects \X Phase -> Statuses \cup {NULL}]
        /\ \A p \in PhaseProjects, g \in Phase : attached'[<<p, g>>] # NULL => g \in phase'
    BY <1>1, <2>1 DEF PhasesTypeOK
  <2>5. PhasesTypeOK'
    BY <1>1, <2>1, <2>2, <2>3, <2>4 DEF PhasesTypeOK
  <2> QED BY <2>1, <2>2, <2>5, RowsKeepLists
<1>5. CASE AddDependency
  <2>1. PICK h \in phase, g \in phase : dependency' = dependency \cup {<<h, g>>}
    BY <1>5 DEF AddDependency
  <2>2. /\ crossed' = crossed \cup {l \in PhaseLists : list[l].pc = "listed"}
        /\ UNCHANGED <<phase, attached, list>>
    BY <1>5 DEF AddDependency
  <2>3. PhasesTypeOK'
    BY <1>1, <2>1, <2>2 DEF PhasesTypeOK
  <2> QED BY <2>2, <2>3, RowsKeepLists
<1>6. CASE RemoveDependency
  BY <1>1, <1>6, RowsKeepLists DEF RemoveDependency, PhasesTypeOK
<1>7. CASE Attach \/ Detach \/ UpdateStatus
  <2>1. PICK p \in PhaseProjects, h \in Phase, status \in Statuses \cup {NULL} :
            attached' = [attached EXCEPT ![<<p, h>>] = status] /\ (status # NULL => h \in phase)
    <3>1. CASE Attach
      BY <1>1, <3>1 DEF Attach, PhasesTypeOK
    <3>2. CASE Detach
      BY <1>1, <3>2 DEF Detach, PhasesTypeOK
    <3>3. CASE UpdateStatus
      BY <1>1, <3>3 DEF UpdateStatus, PhasesTypeOK
    <3> QED BY <1>7, <3>1, <3>2, <3>3
  <2>2. UNCHANGED <<phase, dependency, list, crossed>>
    BY <1>7 DEF Attach, Detach, UpdateStatus
  <2>3. PhasesTypeOK'
    BY <1>1, <2>1, <2>2 DEF PhasesTypeOK
  <2> QED BY <2>2, <2>3, RowsKeepLists
<1>8. ASSUME NEW l \in PhaseLists, BeginList(l)
      PROVE  PhasesInv'
  <2>1. UNCHANGED <<phase, dependency, attached>> /\ crossed' = crossed \ {l}
    BY <1>8 DEF BeginList
  <2>2. PICK p \in PhaseProjects \cup {NULL} :
            list' = [list EXCEPT ![l] = [pc |-> "listed", of |-> p, deps |-> {},
                                         phases |-> IF p = NULL THEN phase ELSE PhasesOf(p)]]
    BY <1>8 DEF BeginList
  <2>3. PICK row \in ListRows :
            list' = [list EXCEPT ![l] = row] /\ row.pc = "listed" /\ (row.of = NULL => row.phases = phase)
    <3> DEFINE hs == IF p = NULL THEN phase ELSE PhasesOf(p)
    <3>1. hs \subseteq Phase /\ (p = NULL => hs = phase)
      BY <1>1 DEF PhasesOf, PhasesTypeOK
    <3>2. list' = [list EXCEPT ![l] = [pc |-> "listed", of |-> p, deps |-> {}, phases |-> hs]]
      BY <2>2
    <3> HIDE DEF hs
    <3> DEFINE row == [pc |-> "listed", of |-> p, deps |-> {}, phases |-> hs]
    <3>3. row \in ListRows /\ row.pc = "listed" /\ row.of = p /\ row.phases = hs
      BY <3>1 DEF ListRows
    <3>4. list' = [list EXCEPT ![l] = row]
      BY <3>2
    <3> HIDE DEF row
    <3> QED BY <3>1, <3>3, <3>4
  <2>4. /\ list' \in [PhaseLists -> ListRows] /\ list'[l] = row
        /\ \A m \in PhaseLists : m # l => list'[m] = list[m]
    BY <1>1, <2>3 DEF PhasesTypeOK
  <2>5. PhasesTypeOK'
    BY <1>1, <2>1, <2>4 DEF PhasesTypeOK
  <2>6. ListsAreClosed'
    <3>1. \A d \in dependency : d[2] \in phase
      BY <1>1 DEF PhasesTypeOK
    <3> QED BY <2>1, <2>3, <2>4, <3>1 DEF PhasesInv, ListsAreClosed
  <2>7. ListedWhole'
    BY <2>1, <2>3, <2>4 DEF PhasesInv, ListedWhole
  <2> QED BY <2>5, <2>6, <2>7 DEF PhasesInv
<1>9. ASSUME NEW l \in PhaseLists, FinishList(l)
      PROVE  PhasesInv'
  <2>1. UNCHANGED <<phase, dependency, attached, crossed>> /\ list[l].pc = "listed" /\ list[l] \in ListRows
    BY <1>1, <1>9 DEF FinishList, PhasesTypeOK
  <2>2. {d \in dependency : d[1] \in list[l].phases} \subseteq Phase \X Phase
    BY <1>1 DEF PhasesTypeOK
  <2>3. PICK row \in ListRows :
            /\ list' = [list EXCEPT ![l] = row] /\ row.pc = "read" /\ row.of = list[l].of
            /\ row.phases = list[l].phases /\ row.deps = {d \in dependency : d[1] \in list[l].phases}
    <3>1. list' = [list EXCEPT ![l] = [list[l] EXCEPT !.pc = "read",
                                                      !.deps = {d \in dependency : d[1] \in list[l].phases}]]
      BY <1>9 DEF FinishList
    <3> DEFINE row == [list[l] EXCEPT !.pc = "read", !.deps = {d \in dependency : d[1] \in list[l].phases}]
    <3>2. /\ row \in ListRows /\ row.pc = "read" /\ row.of = list[l].of
          /\ row.phases = list[l].phases /\ row.deps = {d \in dependency : d[1] \in list[l].phases}
      BY <2>1, <2>2 DEF ListRows
    <3> HIDE DEF row
    <3>3. list' = [list EXCEPT ![l] = row]
      BY <3>1 DEF row
    <3> QED BY <3>2, <3>3
  <2>4. /\ list' \in [PhaseLists -> ListRows] /\ list'[l] = row
        /\ \A m \in PhaseLists : m # l => list'[m] = list[m]
    BY <1>1, <2>3 DEF PhasesTypeOK
  <2>5. PhasesTypeOK'
    BY <1>1, <2>1, <2>4 DEF PhasesTypeOK
  <2>6. ListsAreClosed'
    BY <2>1, <2>3, <2>4 DEF PhasesInv, ListsAreClosed
  <2>7. ListedWhole'
    <3>1. row.of = NULL /\ l \notin crossed => \A d \in row.deps : {d[1], d[2]} \subseteq row.phases
      BY <2>1, <2>3 DEF PhasesInv, ListsAreClosed
    <3> QED BY <2>1, <2>4, <3>1 DEF PhasesInv, ListedWhole
  <2> QED BY <2>5, <2>6, <2>7 DEF PhasesInv
<1> QED BY <1>2, <1>3, <1>4, <1>5, <1>6, <1>7, <1>8, <1>9 DEF PhaseSteps

\* For any phases, projects and lists read at a time: what a list of all phases says a phase
\* depends on is in the list, unless a dependency was added between its two statements, and rows
\* point at rows (list_all_phases_with_deps.py).
THEOREM PhasesAreAlwaysWhole == PhasesSpec => []PhasesAreListedWhole
<1>1. PhasesInit => PhasesInv
  BY PhasesStart
<1>2. PhasesInv /\ [PhaseSteps]_phaseVars => PhasesInv'
  BY PhasesStep
<1>3. PhasesInv => PhasesAreListedWhole
  BY DEF PhasesInv, PhasesAreListedWhole
<1> QED BY <1>1, <1>2, <1>3, PTL DEF PhasesSpec

-----------------------------------------------------------------------------
(* The catalogue: the inductive invariant.                                 *)

\* Two rows that differ at most in how far the audio is.
Alike(row, base) ==
    /\ row.genre = base.genre /\ row.register = base.register
    /\ row.genre2 = base.genre2 /\ row.register2 = base.register2
    /\ row.enough = base.enough /\ row.teller = base.teller /\ row.title = base.title
    /\ row.segment = base.segment /\ row.flags = base.flags

\* A recording that a request loaded is what was loaded, or is gone, or somebody wrote it meanwhile.
HeldAs(r, base) == r \in raced \/ recording[r] = NULL \/ Alike(recording[r], base)

\* A storyteller who was found in the project once is in it for as long as there is one.
WasFound(t) == t # NULL => t \in born /\ (teller[t] # NULL => teller[t].here)

Creating(q) == q.want \in Given /\ ~secondary_equals_primary(q.want) /\ WasFound(q.want.teller)

Updating(q) ==
    /\ q.rec \in Recordings /\ q.rec \in born /\ q.base \in Rows /\ HeldAs(q.rec, q.base)
    /\ q.want \in Rows /\ q.want.segment = q.base.segment
    /\ q.want.flags = review_flags_for(q.want) /\ ~secondary_equals_primary(q.want)
    /\ WasFound(q.want.teller)

\* A removal knows of every recording of its storyteller, but of those written meanwhile.
Removing(q) ==
    /\ q.teller \in Tellers /\ q.held \subseteq Recordings /\ q.held \subseteq born
    /\ \A r \in q.held : q.base[r] \in Rows /\ HeldAs(r, q.base[r])
    /\ \A r \in Recordings : r \in q.held \/ r \in raced \/ recording[r] = NULL \/ recording[r].teller # q.teller

SplitOf(base, want) == SegmentOf(base, IF want = NULL THEN base.genre ELSE want)
Splitting(q) ==
    /\ q.rec \in Recordings /\ q.rec \in born /\ q.base \in Rows /\ HeldAs(q.rec, q.base)
    /\ q.want \in AllGenres \cup {NULL} /\ ~secondary_equals_primary(SplitOf(q.base, q.want))

Sent(q) ==
    /\ q.rec \in Recordings /\ q.want \in Rows /\ WasFound(q.want.teller)
    /\ q.held = {} => ~secondary_equals_primary(q.want)

UpdateKnown(u) ==
    LET q == update[u]
    IN  \/ q.pc = "idle"
        \/ q.pc = "creating" /\ Creating(q)
        \/ q.pc = "updating" /\ Updating(q)
        \/ q.pc = "removing" /\ Removing(q)
        \/ q.pc \in {"splitting", "committed"} /\ Splitting(q)
        \/ q.pc = "sent" /\ Sent(q)
        \/ q.pc \in {"segmented", "archived"} /\ q.rec \in Recordings
        \/ q.pc = "counting" /\ (q.held = {} => q.want = Cardinality(Listed))

RowsAreFew == IsFiniteSet({r \in Recordings : recording[r] # NULL})

\* What has been counted is never more of a part than of the whole.
CountsStand ==
    counted # NULL /\ ~counted.torn =>
        /\ counted.flagged <= counted.total
        /\ \A code \in ReviewFlags : counted.flags[code] <= counted.flagged

CatalogueInv ==
    /\ CatalogueTypeOK /\ update = [u \in Updates |-> update[u]]
    /\ \A u \in Updates : UpdateKnown(u)
    /\ RowsAreFew
    /\ FlagsAreOfTheFields /\ SecondaryDiffers /\ TellerIsOfTheProject /\ TitlesTellApart
    /\ CountsStand

-----------------------------------------------------------------------------
(* The catalogue: rows and requests.                                       *)

LEMMA UpdateOfIs ==
    ASSUME NEW pc, NEW rec, NEW base, NEW want, NEW t, NEW held
    PROVE  /\ UpdateOf(pc, rec, base, want, t, held).pc = pc /\ UpdateOf(pc, rec, base, want, t, held).rec = rec
           /\ UpdateOf(pc, rec, base, want, t, held).base = base /\ UpdateOf(pc, rec, base, want, t, held).want = want
           /\ UpdateOf(pc, rec, base, want, t, held).teller = t /\ UpdateOf(pc, rec, base, want, t, held).held = held
BY DEF UpdateOf

LEMMA FlagsTyped ==
    ASSUME NEW v
    PROVE  review_flags_for(v) \in SUBSET ReviewFlags
BY DEF review_flags_for

\* Flags depend on three fields.
LEMMA FlagsOf ==
    ASSUME NEW v, NEW w, v.genre = w.genre, v.register = w.register, v.enough = w.enough, v.teller = w.teller
    PROVE  review_flags_for(v) = review_flags_for(w)
BY DEF review_flags_for

LEMMA SecondaryOf ==
    ASSUME NEW v, NEW w, v.genre = w.genre, v.register = w.register, v.genre2 = w.genre2, v.register2 = w.register2
    PROVE  secondary_equals_primary(v) <=> secondary_equals_primary(w)
BY DEF secondary_equals_primary

LEMMA FlaggedTyped ==
    ASSUME NEW v \in Rows
    PROVE  /\ Flagged(v) \in Rows
           /\ Flagged(v).genre = v.genre /\ Flagged(v).register = v.register
           /\ Flagged(v).genre2 = v.genre2 /\ Flagged(v).register2 = v.register2
           /\ Flagged(v).enough = v.enough /\ Flagged(v).teller = v.teller /\ Flagged(v).title = v.title
           /\ Flagged(v).status = v.status /\ Flagged(v).segment = v.segment
           /\ Flagged(v).flags = review_flags_for(v)
BY FlagsTyped DEF Flagged, Rows

\* A new row is what was given and has its flags.
LEMMA NewRowTyped ==
    ASSUME NEW v, v.genre \in AllGenres, v.register \in Registers \cup {NULL},
           v.genre2 \in Genres \cup {NULL}, v.register2 \in Registers \cup {NULL}, v.enough \in BOOLEAN,
           v.teller \in Tellers \cup {NULL}, v.title \in Titles \cup {NULL},
           NEW status \in {"local", "active", "splitting", "archived"}, NEW segment \in BOOLEAN
    PROVE  /\ NewRow(v, status, segment) \in Rows
           /\ NewRow(v, status, segment).genre = v.genre /\ NewRow(v, status, segment).register = v.register
           /\ NewRow(v, status, segment).genre2 = v.genre2 /\ NewRow(v, status, segment).register2 = v.register2
           /\ NewRow(v, status, segment).enough = v.enough /\ NewRow(v, status, segment).teller = v.teller
           /\ NewRow(v, status, segment).title = v.title
           /\ NewRow(v, status, segment).status = status /\ NewRow(v, status, segment).segment = segment
           /\ NewRow(v, status, segment).flags = review_flags_for(NewRow(v, status, segment))
<1> DEFINE w == [genre |-> v.genre, register |-> v.register, genre2 |-> v.genre2, register2 |-> v.register2,
                 enough |-> v.enough, teller |-> v.teller, title |-> v.title,
                 status |-> status, segment |-> segment, flags |-> {}]
<1>1. w \in Rows
  BY DEF Rows
<1>2. /\ w.genre = v.genre /\ w.register = v.register /\ w.genre2 = v.genre2 /\ w.register2 = v.register2
      /\ w.enough = v.enough /\ w.teller = v.teller /\ w.title = v.title
      /\ w.status = status /\ w.segment = segment
  OBVIOUS
<1>3. NewRow(v, status, segment) = Flagged(w)
  BY DEF NewRow
<1> HIDE DEF w
<1>4. review_flags_for(Flagged(w)) = review_flags_for(w)
  BY <1>1, FlaggedTyped, FlagsOf
<1> QED BY <1>1, <1>2, <1>3, <1>4, FlaggedTyped

LEMMA RowFields ==
    ASSUME NEW row \in Rows
    PROVE  /\ row.genre \in AllGenres /\ row.register \in Registers \cup {NULL}
           /\ row.genre2 \in Genres \cup {NULL} /\ row.register2 \in Registers \cup {NULL}
           /\ row.enough \in BOOLEAN /\ row.teller \in Tellers \cup {NULL} /\ row.title \in Titles \cup {NULL}
           /\ row.status \in {"local", "active", "splitting", "archived"} /\ row.segment \in BOOLEAN
           /\ row.flags \in SUBSET ReviewFlags /\ row # NULL
BY CatalogueAssumption DEF Rows

LEMMA GivenFields ==
    ASSUME NEW v \in Given
    PROVE  /\ v.genre \in AllGenres /\ v.register \in Registers \cup {NULL}
           /\ v.genre2 \in Genres \cup {NULL} /\ v.register2 \in Registers \cup {NULL}
           /\ v.enough \in BOOLEAN /\ v.teller \in Tellers \cup {NULL} /\ v.title \in Titles \cup {NULL}
BY DEF Given

\* What a request that loaded a row as it is writes of it is what it wants.
LEMMA WrittenTyped ==
    ASSUME NEW row \in Rows, NEW base \in Rows, NEW want \in Rows
    PROVE  /\ Written(row, base, want) \in Rows
           /\ Written(row, base, want).genre \in {row.genre, want.genre}
           /\ Written(row, base, want).teller \in {row.teller, want.teller}
           /\ Written(row, base, want).teller # row.teller => want.teller # base.teller
           /\ Written(row, base, want).title \in {row.title, want.title}
           /\ Written(row, base, want).status = row.status /\ Written(row, base, want).segment = row.segment
BY DEF Written, Rows

LEMMA WrittenIsWanted ==
    ASSUME NEW row \in Rows, NEW base \in Rows, NEW want \in Rows, Alike(row, base)
    PROVE  /\ Written(row, base, want).genre = want.genre /\ Written(row, base, want).register = want.register
           /\ Written(row, base, want).genre2 = want.genre2 /\ Written(row, base, want).register2 = want.register2
           /\ Written(row, base, want).enough = want.enough /\ Written(row, base, want).teller = want.teller
           /\ Written(row, base, want).flags = want.flags
BY DEF Written, Alike

LEMMA ClearedTyped ==
    ASSUME NEW row \in Rows, NEW base \in Rows
    PROVE  /\ Cleared(row, base) \in Rows
           /\ Cleared(row, base).genre = row.genre /\ Cleared(row, base).register = row.register
           /\ Cleared(row, base).genre2 = row.genre2 /\ Cleared(row, base).register2 = row.register2
           /\ Cleared(row, base).enough = row.enough /\ Cleared(row, base).teller = NULL
           /\ Cleared(row, base).title = row.title /\ Cleared(row, base).status = row.status
           /\ Cleared(row, base).segment = row.segment
           /\ Alike(row, base) => Cleared(row, base).flags = review_flags_for(Cleared(row, base))
<1> DEFINE b == [base EXCEPT !.teller = NULL]
           v == Flagged(b)
           fs == IF v.flags # base.flags THEN v.flags ELSE row.flags
<1>1. /\ b \in Rows /\ b.genre = base.genre /\ b.register = base.register /\ b.enough = base.enough
      /\ b.teller = NULL
  BY DEF Rows
<1> HIDE DEF b
<1>2. v.flags = review_flags_for(b) /\ v.flags \in SUBSET ReviewFlags
  BY <1>1, FlaggedTyped, FlagsTyped
<1>3. Cleared(row, base) = [row EXCEPT !.teller = NULL, !.flags = fs]
  BY DEF Cleared, b
<1> HIDE DEF v
<1>4. fs \in SUBSET ReviewFlags
  BY <1>2, RowFields
<1>5. row.flags = base.flags => fs = review_flags_for(b)
  BY <1>2
<1> HIDE DEF fs
<1>6. /\ Cleared(row, base) \in Rows
      /\ Cleared(row, base).genre = row.genre /\ Cleared(row, base).register = row.register
      /\ Cleared(row, base).genre2 = row.genre2 /\ Cleared(row, base).register2 = row.register2
      /\ Cleared(row, base).enough = row.enough /\ Cleared(row, base).teller = NULL
      /\ Cleared(row, base).title = row.title /\ Cleared(row, base).status = row.status
      /\ Cleared(row, base).segment = row.segment /\ Cleared(row, base).flags = fs
  BY <1>3, <1>4 DEF Rows
<1>7. Alike(row, base) => review_flags_for(Cleared(row, base)) = review_flags_for(b)
  BY <1>1, <1>6, FlagsOf DEF Alike
<1> QED BY <1>5, <1>6, <1>7 DEF Alike

LEMMA TellerGoneTyped ==
    ASSUME NEW row \in Rows
    PROVE  /\ [row EXCEPT !.teller = NULL] \in Rows
           /\ [row EXCEPT !.teller = NULL].genre = row.genre /\ [row EXCEPT !.teller = NULL].register = row.register
           /\ [row EXCEPT !.teller = NULL].genre2 = row.genre2 /\ [row EXCEPT !.teller = NULL].register2 = row.register2
           /\ [row EXCEPT !.teller = NULL].teller = NULL /\ [row EXCEPT !.teller = NULL].title = row.title
           /\ [row EXCEPT !.teller = NULL].status = row.status /\ [row EXCEPT !.teller = NULL].segment = row.segment
BY DEF Rows

LEMMA StatusTyped ==
    ASSUME NEW row \in Rows, NEW status \in {"local", "active", "splitting", "archived"}
    PROVE  /\ [row EXCEPT !.status = status] \in Rows /\ [row EXCEPT !.status = status].status = status
           /\ Alike([row EXCEPT !.status = status], row)
BY DEF Rows, Alike

LEMMA SegmentTyped ==
    ASSUME NEW row \in Rows, NEW g \in AllGenres
    PROVE  /\ SegmentOf(row, g) \in Rows /\ SegmentOf(row, g).genre = g /\ SegmentOf(row, g).title = NULL
           /\ SegmentOf(row, g).register = row.register /\ SegmentOf(row, g).genre2 = row.genre2
           /\ SegmentOf(row, g).register2 = row.register2 /\ SegmentOf(row, g).teller = row.teller
BY DEF SegmentOf, Rows

-----------------------------------------------------------------------------
(* The catalogue: what a step leaves as it was.                            *)

\* What is so of one row.
RowFits(r) ==
    recording[r] # NULL =>
        /\ genre[recording[r].genre] # NULL
        /\ recording[r].genre2 # NULL => genre[recording[r].genre2] # NULL
        /\ recording[r].teller # NULL => teller[recording[r].teller] # NULL
        /\ OfTheProject(recording[r].teller)
        /\ r \in born
        /\ r \notin raced => /\ recording[r].flags = review_flags_for(recording[r])
                             /\ ~secondary_equals_primary(recording[r])

LEMMA RowsFit ==
    ASSUME CatalogueInv
    PROVE  /\ \A r \in Recordings : RowFits(r)
           /\ \A r \in Recordings : recording[r] # NULL => recording[r] \in Rows
BY DEF CatalogueInv, CatalogueTypeOK, FlagsAreOfTheFields, SecondaryDiffers, TellerIsOfTheProject, RowFits

LEMMA CatalogueFits ==
    ASSUME genre' \in [AllGenres -> {"active", "inactive", NULL}], teller' \in [Tellers -> TellerRows \cup {NULL}],
           recording' \in [Recordings -> Rows \cup {NULL}], raced' \subseteq Recordings,
           \A t \in Tellers : teller'[t] # NULL => t \in born',
           update' = [u \in Updates |-> update'[u]], \A u \in Updates : UpdateKnown(u)',
           \A r \in Recordings : RowFits(r)',
           RowsAreFew', TitlesTellApart', CountsStand'
    PROVE  CatalogueInv'
<1>1. \A u \in Updates : update'[u].pc \in {"idle", "creating", "updating", "removing", "splitting", "committed",
                                            "sent", "segmented", "archived", "counting"}
  BY DEF UpdateKnown
<1>2. CatalogueTypeOK'
  BY <1>1 DEF CatalogueTypeOK, RowFits
<1>3. FlagsAreOfTheFields' /\ SecondaryDiffers' /\ TellerIsOfTheProject'
  BY DEF FlagsAreOfTheFields, SecondaryDiffers, TellerIsOfTheProject, RowFits
<1> QED BY <1>2, <1>3 DEF CatalogueInv

LEMMA AlikeSelf ==
    ASSUME NEW row
    PROVE  Alike(row, row)
BY DEF Alike

LEMMA AlikeOnce ==
    ASSUME NEW a, NEW b, NEW c, Alike(a, b), Alike(b, c)
    PROVE  Alike(a, c)
BY DEF Alike

LEMMA RowFitsStill ==
    ASSUME NEW r \in Recordings, RowFits(r),
           \/ recording'[r] = NULL
           \/ recording[r] # NULL /\ Alike(recording'[r], recording[r]),
           recording[r] # NULL => recording[r] \in Rows,
           recording[r] # NULL /\ recording[r].teller # NULL =>
               teller'[recording[r].teller] = teller[recording[r].teller],
           \A g \in AllGenres : genre[g] # NULL => genre'[g] # NULL,
           born \subseteq born', raced \subseteq raced'
    PROVE  RowFits(r)'
<1> SUFFICES ASSUME recording'[r] # NULL
             PROVE  RowFits(r)'
  BY DEF RowFits
<1>1. recording[r] # NULL /\ Alike(recording'[r], recording[r]) /\ recording[r] \in Rows
  OBVIOUS
<1>2. recording[r].genre \in AllGenres /\ recording[r].genre2 \in AllGenres \cup {NULL}
  BY <1>1, RowFields DEF AllGenres
<1>3. /\ genre'[recording'[r].genre] # NULL
      /\ recording'[r].genre2 # NULL => genre'[recording'[r].genre2] # NULL
  BY <1>1, <1>2 DEF RowFits, Alike
<1>4. recording'[r].teller # NULL =>
          teller'[recording'[r].teller] # NULL /\ teller'[recording'[r].teller].here
  BY <1>1 DEF RowFits, Alike, OfTheProject
<1>5. /\ review_flags_for(recording'[r]) = review_flags_for(recording[r])
      /\ secondary_equals_primary(recording'[r]) <=> secondary_equals_primary(recording[r])
  BY <1>1, FlagsOf, SecondaryOf DEF Alike
<1>6. /\ r \in born'
      /\ r \notin raced' => /\ recording'[r].flags = review_flags_for(recording'[r])
                            /\ ~secondary_equals_primary(recording'[r])
  BY <1>1, <1>5 DEF RowFits, Alike
<1> QED BY <1>3, <1>4, <1>6 DEF RowFits, OfTheProject

\* Titles are told apart still when none is given anew and no recording begins to count.
LEMMA TitlesStill ==
    ASSUME TitlesTellApart,
           \A r \in Recordings : \/ recording'[r] = NULL
                                 \/ /\ recording[r] # NULL /\ recording'[r].title = recording[r].title
                                    /\ Exempt(recording[r]) => Exempt(recording'[r])
    PROVE  TitlesTellApart'
BY DEF TitlesTellApart

LEMMA TitlesStillWith ==
    ASSUME TitlesTellApart, NEW x \in Recordings, TitleIsFree(recording'[x].title, recording'[x], x),
           \A r \in Recordings : r # x => recording'[r] = recording[r]
    PROVE  TitlesTellApart'
BY DEF TitlesTellApart, TitleIsFree

LEMMA RowsAreFewStill ==
    ASSUME RowsAreFew, NEW x, \A r \in Recordings : r # x /\ recording'[r] # NULL => recording[r] # NULL
    PROVE  RowsAreFew'
<1> DEFINE S == {r \in Recordings : recording[r] # NULL} \cup {x}
<1>1. IsFiniteSet(S)
  BY FS_AddElement DEF RowsAreFew
<1>2. {r \in Recordings : recording'[r] # NULL} \in SUBSET S
  OBVIOUS
<1> QED BY <1>1, <1>2, FS_Subset DEF RowsAreFew

\* What a write of another leaves a request to rely on.
LEMMA HeldStill ==
    ASSUME NEW r \in Recordings, NEW base, HeldAs(r, base), raced \subseteq raced',
           \/ r \in raced' \/ recording'[r] = NULL
           \/ recording[r] # NULL /\ Alike(recording'[r], recording[r])
    PROVE  HeldAs(r, base)'
BY AlikeOnce DEF HeldAs

LEMMA FoundStill ==
    ASSUME NEW t \in Tellers \cup {NULL}, WasFound(t), born \subseteq born',
           \A k \in Tellers : k \in born => teller'[k] = NULL \/ teller'[k] = teller[k]
    PROVE  WasFound(t)'
BY DEF WasFound

LEMMA OthersKnown ==
    ASSUME NEW u, NEW v \in Updates, v # u, NEW ts, UpdateKnown(v),
           \/ update'[v] = update[v] /\ (update[v].pc = "counting" => recording' = recording)
           \/ update[v].pc = "counting" /\ update'[v].pc = "counting" /\ update'[v].held # {},
           raced \subseteq raced', born \subseteq born',
           \A k \in Tellers : k \in born => teller'[k] = NULL \/ teller'[k] = teller[k],
           \A r \in Recordings :
              \/ recording'[r] = NULL
              \/ recording[r] # NULL /\ Alike(recording'[r], recording[r])
              \/ /\ Crossed(u, r, ts) \subseteq raced'
                 /\ \/ recording'[r].teller \in ts \cup {NULL}
                    \/ recording[r] # NULL /\ recording'[r].teller = recording[r].teller
    PROVE  UpdateKnown(v)'
<1> USE CatalogueAssumption
<1> DEFINE q == update[v]
<1>1. CASE q.pc = "counting"
  <2>1. CASE update'[v] = update[v] /\ recording' = recording
    <3>1. Listed' = Listed
      BY <2>1 DEF Listed
    <3> QED BY <1>1, <2>1, <3>1 DEF UpdateKnown
  <2>2. CASE update'[v].pc = "counting" /\ update'[v].held # {}
    BY <2>2 DEF UpdateKnown
  <2> QED BY <1>1, <2>1, <2>2
<1>2. CASE q.pc = "idle" \/ q.pc \in {"segmented", "archived"}
  BY <1>2 DEF UpdateKnown
<1>3. CASE q.pc = "creating"
  <2>1. Creating(q) /\ update'[v] = q
    BY <1>3 DEF UpdateKnown
  <2>2. q.want.teller \in Tellers \cup {NULL}
    BY <2>1, GivenFields DEF Creating
  <2>3. Creating(q)'
    BY <2>1, <2>2, FoundStill DEF Creating
  <2> QED BY <1>3, <2>1, <2>3 DEF UpdateKnown
<1>4. ASSUME NEW r \in Recordings,
             \/ q.pc \in {"updating", "splitting", "committed"} /\ q.rec = r
             \/ q.pc = "removing" /\ r \in q.held
      PROVE  r \in raced' \/ recording'[r] = NULL \/ (recording[r] # NULL /\ Alike(recording'[r], recording[r]))
  <2>1. \A ks : Concerns(v, r, ks)
    BY <1>4 DEF Concerns
  <2>2. Crossed(u, r, ts) = {r}
    BY <2>1 DEF Crossed
  <2> QED BY <2>2
<1>5. CASE q.pc = "updating"
  <2>1. Updating(q) /\ update'[v] = q
    BY <1>5 DEF UpdateKnown
  <2>2. q.want.teller \in Tellers \cup {NULL}
    BY <2>1, RowFields DEF Updating
  <2>3. HeldAs(q.rec, q.base)'
    BY <1>4, <1>5, <2>1, HeldStill DEF Updating
  <2>4. WasFound(q.want.teller)'
    BY <2>1, <2>2, FoundStill DEF Updating
  <2>5. Updating(q)'
    BY <2>1, <2>3, <2>4 DEF Updating
  <2> QED BY <1>5, <2>1, <2>5 DEF UpdateKnown
<1>6. CASE q.pc = "removing"
  <2>1. Removing(q) /\ update'[v] = q
    BY <1>6 DEF UpdateKnown
  <2>2. ASSUME NEW r \in q.held
        PROVE  q.base[r] \in Rows /\ HeldAs(r, q.base[r])'
    <3>1. r \in Recordings /\ q.base[r] \in Rows /\ HeldAs(r, q.base[r])
      BY <2>1 DEF Removing
    <3> QED BY <1>4, <1>6, <3>1, HeldStill
  <2>3. ASSUME NEW r \in Recordings, r \notin q.held, r \notin raced', recording'[r] # NULL
        PROVE  recording'[r].teller # q.teller
    <3>1. r \notin raced /\ (recording[r] = NULL \/ recording[r].teller # q.teller)
      BY <2>1, <2>3 DEF Removing
    <3>2. q.teller \in Tellers /\ q.teller # NULL
      BY <2>1 DEF Removing
    <3>3. CASE recording[r] # NULL /\ Alike(recording'[r], recording[r])
      BY <3>1, <3>3 DEF Alike
    <3>4. CASE Crossed(u, r, ts) \subseteq raced' /\ recording'[r].teller \in ts
      <4>1. q.teller \in ts => Crossed(u, r, ts) = {r}
        BY <1>6 DEF Crossed, Concerns
      <4> QED BY <2>3, <3>4, <4>1
    <3>5. CASE recording'[r].teller = NULL
      BY <3>2, <3>5
    <3>6. CASE recording[r] # NULL /\ recording'[r].teller = recording[r].teller
      BY <3>1, <3>6
    <3> QED BY <2>3, <3>3, <3>4, <3>5, <3>6
  <2>4. Removing(q)'
    BY <2>1, <2>2, <2>3 DEF Removing
  <2> QED BY <1>6, <2>1, <2>4 DEF UpdateKnown
<1>7. CASE q.pc \in {"splitting", "committed"}
  <2>1. Splitting(q) /\ update'[v] = q
    BY <1>7 DEF UpdateKnown
  <2>2. HeldAs(q.rec, q.base)'
    BY <1>4, <1>7, <2>1, HeldStill DEF Splitting
  <2>3. Splitting(q)'
    BY <2>1, <2>2 DEF Splitting
  <2> QED BY <1>7, <2>1, <2>3 DEF UpdateKnown
<1>8. CASE q.pc = "sent"
  <2>1. Sent(q) /\ update'[v] = q
    BY <1>8 DEF UpdateKnown
  <2>2. q.want.teller \in Tellers \cup {NULL}
    BY <2>1, RowFields DEF Sent
  <2>3. Sent(q)'
    BY <2>1, <2>2, FoundStill DEF Sent
  <2> QED BY <1>8, <2>1, <2>3 DEF UpdateKnown
<1> QED BY <1>1, <1>2, <1>3, <1>5, <1>6, <1>7, <1>8 DEF UpdateKnown

\* A write tears the statistics being read, and leaves other requests.
LEMMA WriteTears ==
    ASSUME NEW u, NEW x, update' = [Torn(u) EXCEPT ![u] = x]
    PROVE  /\ update' = [v \in Updates |-> update'[v]]
           /\ u \in Updates => update'[u] = x
           /\ \A v \in Updates : v # u =>
                 \/ update'[v] = update[v] /\ update[v].pc # "counting"
                 \/ update[v].pc = "counting" /\ update'[v].pc = "counting" /\ update'[v].held # {}
<1>1. \A v \in Updates : v # u =>
          \/ update'[v] = update[v] /\ update[v].pc # "counting"
          \/ /\ update[v].pc = "counting"
             /\ update'[v] = UpdateOf("counting", NULL, NULL, update[v].want, NULL, {"torn"})
  BY DEF Torn
<1>2. update' = [v \in Updates |-> update'[v]] /\ (u \in Updates => update'[u] = x)
  BY DEF Torn
<1>3. \A want : /\ UpdateOf("counting", NULL, NULL, want, NULL, {"torn"}).pc = "counting"
                /\ UpdateOf("counting", NULL, NULL, want, NULL, {"torn"}).held # {}
  BY UpdateOfIs
<1> QED BY <1>1, <1>2, <1>3

LEMMA AllTorn ==
    ASSUME update' = Torn(NULL)
    PROVE  /\ update' = [v \in Updates |-> update'[v]]
           /\ \A v \in Updates :
                 \/ update'[v] = update[v] /\ update[v].pc # "counting"
                 \/ update[v].pc = "counting" /\ update'[v].pc = "counting" /\ update'[v].held # {}
<1>1. \A v \in Updates :
          \/ update'[v] = update[v] /\ update[v].pc # "counting"
          \/ /\ update[v].pc = "counting"
             /\ update'[v] = UpdateOf("counting", NULL, NULL, update[v].want, NULL, {"torn"})
  BY CatalogueAssumption DEF Torn
<1>2. update' = [v \in Updates |-> update'[v]]
  BY DEF Torn
<1> QED BY <1>1, <1>2, UpdateOfIs

\* What is asked of a step that writes recordings.
LEMMA WritesKeep ==
    ASSUME CatalogueInv, NEW u, NEW ts,
           update' = [v \in Updates |-> update'[v]],
           \A v \in Updates : v # u =>
              \/ update'[v] = update[v] /\ update[v].pc # "counting"
              \/ update[v].pc = "counting" /\ update'[v].pc = "counting" /\ update'[v].held # {},
           u \in Updates => UpdateKnown(u)',
           genre' = genre, counted' = counted,
           teller' \in [Tellers -> TellerRows \cup {NULL}], recording' \in [Recordings -> Rows \cup {NULL}],
           raced \subseteq raced', raced' \subseteq Recordings, born \subseteq born',
           \A k \in Tellers : teller'[k] = NULL \/ teller'[k] = teller[k],
           \A r \in Recordings :
              \/ recording'[r] = NULL
              \/ recording[r] # NULL /\ Alike(recording'[r], recording[r])
              \/ /\ Crossed(u, r, ts) \subseteq raced'
                 /\ \/ recording'[r].teller \in ts \cup {NULL}
                    \/ recording[r] # NULL /\ recording'[r].teller = recording[r].teller,
           \A r \in Recordings : RowFits(r)', RowsAreFew', TitlesTellApart'
    PROVE  CatalogueInv'
<1>1. \A v \in Updates : v # u => UpdateKnown(v)'
  <2> SUFFICES ASSUME NEW v \in Updates, v # u
               PROVE  UpdateKnown(v)'
    OBVIOUS
  <2>1. UpdateKnown(v)
    BY DEF CatalogueInv
  <2>2. \/ update'[v] = update[v] /\ (update[v].pc = "counting" => recording' = recording)
        \/ update[v].pc = "counting" /\ update'[v].pc = "counting" /\ update'[v].held # {}
    OBVIOUS
  <2> QED BY <2>1, <2>2, OthersKnown, ZenonT(60)
<1>2. \A v \in Updates : UpdateKnown(v)'
  BY <1>1
<1>3. \A k \in Tellers : teller'[k] # NULL => k \in born'
  BY DEF CatalogueInv, CatalogueTypeOK
<1>4. genre' \in [AllGenres -> {"active", "inactive", NULL}]
  BY DEF CatalogueInv, CatalogueTypeOK
<1>5. CountsStand'
  BY DEF CatalogueInv, CountsStand
<1> QED BY <1>2, <1>3, <1>4, <1>5, CatalogueFits

\* A new row in place of what there was, if anything.
LEMMA RowIsWritten ==
    ASSUME CatalogueInv, NEW r \in Recordings, NEW row \in Rows, recording' = [recording EXCEPT ![r] = row]
    PROVE  /\ recording' \in [Recordings -> Rows \cup {NULL}] /\ recording'[r] = row /\ RowsAreFew'
           /\ \A k \in Recordings : k # r => recording'[k] = recording[k]
<1>1. /\ recording' \in [Recordings -> Rows \cup {NULL}] /\ recording'[r] = row
      /\ \A k \in Recordings : k # r => recording'[k] = recording[k]
  BY DEF CatalogueInv, CatalogueTypeOK
<1>2. RowsAreFew'
  BY <1>1, RowsAreFewStill DEF CatalogueInv
<1> QED BY <1>1, <1>2

\* A commit of one row.
LEMMA RowWriteKeeps ==
    ASSUME CatalogueInv, NEW u \in Updates, NEW ts, NEW r \in Recordings, NEW row \in Rows,
           NEW x, update' = [Torn(u) EXCEPT ![u] = x], UpdateKnown(u)',
           recording' = [recording EXCEPT ![r] = row], Storable(row, r),
           genre' = genre, counted' = counted, teller' = teller,
           raced \cup Crossed(u, r, ts) \subseteq raced', raced' \subseteq Recordings,
           born' \in {born, born \cup {r}}, r \in born',
           row.teller \in ts \cup {NULL} \/ (recording[r] # NULL /\ row.teller = recording[r].teller),
           OfTheProject(row.teller),
           r \notin raced' => row.flags = review_flags_for(row) /\ ~secondary_equals_primary(row)
    PROVE  CatalogueInv'
<1>1. /\ recording' \in [Recordings -> Rows \cup {NULL}] /\ recording'[r] = row /\ RowsAreFew'
      /\ \A k \in Recordings : k # r => recording'[k] = recording[k]
  BY RowIsWritten
<1>2. /\ \A k \in Recordings : RowFits(k)
      /\ \A k \in Recordings : recording[k] # NULL => recording[k] \in Rows
  BY RowsFit
<1>3. RowFits(r)'
  BY <1>1 DEF RowFits, Storable, OfTheProject
<1>4. \A k \in Recordings : k # r => RowFits(k)'
  <2> SUFFICES ASSUME NEW k \in Recordings, k # r
               PROVE  RowFits(k)'
    OBVIOUS
  <2>1. recording'[k] = NULL \/ (recording[k] # NULL /\ Alike(recording'[k], recording[k]))
    BY <1>1, AlikeSelf
  <2> QED BY <1>2, <2>1, RowFitsStill
<1>5. \A k \in Recordings : RowFits(k)'
  BY <1>3, <1>4
<1>6. TitlesTellApart'
  <2>1. TitleIsFree(recording'[r].title, recording'[r], r)
    BY <1>1 DEF Storable
  <2> QED BY <1>1, <2>1, TitlesStillWith DEF CatalogueInv
<1>7. \A k \in Recordings :
          \/ recording'[k] = NULL
          \/ recording[k] # NULL /\ Alike(recording'[k], recording[k])
          \/ /\ Crossed(u, k, ts) \subseteq raced'
             /\ \/ recording'[k].teller \in ts \cup {NULL}
                \/ recording[k] # NULL /\ recording'[k].teller = recording[k].teller
  BY <1>1, AlikeSelf
<1>8. /\ teller' \in [Tellers -> TellerRows \cup {NULL}] /\ \A k \in Tellers : teller'[k] = NULL \/ teller'[k] = teller[k]
      /\ raced \subseteq raced' /\ born \subseteq born'
  BY DEF CatalogueInv, CatalogueTypeOK
<1>9. /\ update' = [v \in Updates |-> update'[v]]
      /\ \A v \in Updates : v # u =>
            \/ update'[v] = update[v] /\ update[v].pc # "counting"
            \/ update[v].pc = "counting" /\ update'[v].pc = "counting" /\ update'[v].held # {}
  BY WriteTears
<1> QED BY <1>1, <1>5, <1>6, <1>7, <1>8, <1>9, WritesKeep

LEMMA CrossedIs ==
    ASSUME NEW u, NEW r \in Recordings, NEW ts
    PROVE  Crossed(u, r, ts) \subseteq Recordings
BY DEF Crossed

-----------------------------------------------------------------------------
(* The catalogue: each write keeps the invariant.                          *)

LEMMA IdleKnown ==
    ASSUME NEW u, update'[u] = NoUpdate
    PROVE  UpdateKnown(u)'
BY UpdateOfIs DEF UpdateKnown, NoUpdate

LEMMA CommitCreateKeeps ==
    ASSUME CatalogueInv, NEW u \in Updates, CommitCreate(u)
    PROVE  CatalogueInv'
<1>1. update[u].pc = "creating" /\ Creating(update[u])
  BY DEF CommitCreate, CatalogueInv, UpdateKnown
<1> DEFINE v == update[u].want
           row == NewRow(v, "local", FALSE)
<1>2. PICK r \in Recordings \ born :
          /\ Storable(row, r) /\ recording' = [recording EXCEPT ![r] = row]
          /\ born' = born \cup {r} /\ raced' = raced \cup Crossed(u, r, {row.teller})
  BY DEF CommitCreate
<1>3. v \in Given /\ ~secondary_equals_primary(v) /\ WasFound(v.teller)
  BY <1>1 DEF Creating
<1>4. /\ row \in Rows /\ row.teller = v.teller /\ row.flags = review_flags_for(row)
      /\ row.genre = v.genre /\ row.register = v.register
      /\ row.genre2 = v.genre2 /\ row.register2 = v.register2
  BY <1>3, GivenFields, NewRowTyped
<1> HIDE DEF row
<1>5. ~secondary_equals_primary(row)
  BY <1>3, <1>4, SecondaryOf
<1>6. OfTheProject(row.teller)
  BY <1>2, <1>3, <1>4 DEF Storable, OfTheProject, WasFound
<1>7. /\ update' = [Torn(u) EXCEPT ![u] = NoUpdate]
      /\ genre' = genre /\ counted' = counted /\ teller' = teller
  BY DEF CommitCreate, EndWrite
<1>8. UpdateKnown(u)'
  BY <1>7, WriteTears, IdleKnown
<1>9. raced' \subseteq Recordings
  BY <1>2, CrossedIs DEF CatalogueInv, CatalogueTypeOK
<1>10. row.teller \in {row.teller} \cup {NULL} /\ raced \cup Crossed(u, r, {row.teller}) \subseteq raced'
  BY <1>2
<1>11. born' \in {born, born \cup {r}} /\ r \in born' /\ r \in Recordings
  BY <1>2
<1> QED BY <1>2, <1>4, <1>5, <1>6, <1>7, <1>8, <1>9, <1>10, <1>11, RowWriteKeeps

LEMMA CommitUpdateKeeps ==
    ASSUME CatalogueInv, NEW u \in Updates, CommitUpdate(u)
    PROVE  CatalogueInv'
<1> DEFINE q == update[u]
           r == q.rec
           row == Written(recording[r], q.base, q.want)
<1>1. q.pc = "updating" /\ Updating(q)
  BY DEF CommitUpdate, CatalogueInv, UpdateKnown
<1>2. /\ recording[r] # NULL /\ Storable(row, r) /\ recording' = [recording EXCEPT ![r] = row]
      /\ raced' = raced \cup Crossed(u, r, {q.base.teller, q.want.teller})
      /\ update' = [Torn(u) EXCEPT ![u] = NoUpdate]
      /\ genre' = genre /\ counted' = counted /\ teller' = teller /\ born' = born
  BY DEF CommitUpdate, EndWrite
<1>3. /\ r \in Recordings /\ r \in born /\ q.base \in Rows /\ HeldAs(r, q.base) /\ q.want \in Rows
      /\ q.want.flags = review_flags_for(q.want) /\ ~secondary_equals_primary(q.want)
      /\ WasFound(q.want.teller)
  BY <1>1 DEF Updating
<1>4. recording[r] \in Rows /\ RowFits(r)
  BY <1>2, <1>3, RowsFit
<1>5. /\ row \in Rows /\ row.teller \in {recording[r].teller, q.want.teller}
  BY <1>3, <1>4, WrittenTyped
<1>6. r \in raced \/ Alike(recording[r], q.base)
  BY <1>2, <1>3 DEF HeldAs
<1>7. r \notin raced =>
          /\ row.genre = q.want.genre /\ row.register = q.want.register
          /\ row.genre2 = q.want.genre2 /\ row.register2 = q.want.register2
          /\ row.enough = q.want.enough /\ row.teller = q.want.teller /\ row.flags = q.want.flags
  BY <1>3, <1>4, <1>6, WrittenIsWanted
<1> HIDE DEF row
<1>8. r \notin raced => row.flags = review_flags_for(row) /\ ~secondary_equals_primary(row)
  BY <1>3, <1>7, FlagsOf, SecondaryOf
<1>9. OfTheProject(row.teller)
  BY <1>2, <1>3, <1>4, <1>5 DEF RowFits, Storable, OfTheProject, WasFound
<1>10. UpdateKnown(u)'
  BY <1>2, WriteTears, IdleKnown
<1>11. raced' \subseteq Recordings
  BY <1>2, <1>3, CrossedIs DEF CatalogueInv, CatalogueTypeOK
<1>12. \/ row.teller \in {q.base.teller, q.want.teller} \cup {NULL}
       \/ recording[r] # NULL /\ row.teller = recording[r].teller
  BY <1>2, <1>5
<1>13. raced \cup Crossed(u, r, {q.base.teller, q.want.teller}) \subseteq raced' /\ born' \in {born, born \cup {r}} /\ r \in born'
  BY <1>2, <1>3
<1>14. r \notin raced' => row.flags = review_flags_for(row) /\ ~secondary_equals_primary(row)
  BY <1>2, <1>8
<1> HIDE DEF r, q
<1> QED BY <1>2, <1>3, <1>5, <1>9, <1>10, <1>11, <1>12, <1>13, <1>14, RowWriteKeeps

LEMMA CommitSegmentKeeps ==
    ASSUME CatalogueInv, NEW u \in Updates, CommitSegment(u)
    PROVE  CatalogueInv'
<1> DEFINE q == update[u]
           row == NewRow(q.want, "active", TRUE)
           x == UpdateOf("segmented", q.rec, NULL, NULL, NULL, {})
<1>1. q.pc = "sent" /\ Sent(q)
  BY DEF CommitSegment, CatalogueInv, UpdateKnown
<1>2. PICK r \in Recordings \ born :
          /\ Storable(row, r) /\ recording' = [recording EXCEPT ![r] = row]
          /\ born' = born \cup {r}
          /\ raced' = raced \cup Crossed(u, r, {row.teller}) \cup (IF q.held # {} THEN {r} ELSE {})
  BY DEF CommitSegment
<1>3. /\ q.rec \in Recordings /\ q.want \in Rows /\ WasFound(q.want.teller)
      /\ q.held = {} => ~secondary_equals_primary(q.want)
  BY <1>1 DEF Sent
<1>4. /\ row \in Rows /\ row.teller = q.want.teller /\ row.flags = review_flags_for(row)
      /\ row.genre = q.want.genre /\ row.register = q.want.register
      /\ row.genre2 = q.want.genre2 /\ row.register2 = q.want.register2
  BY <1>3, RowFields, NewRowTyped
<1> HIDE DEF row
<1>5. q.held = {} => ~secondary_equals_primary(row)
  BY <1>3, <1>4, SecondaryOf
<1>6. OfTheProject(row.teller)
  BY <1>2, <1>3, <1>4 DEF Storable, OfTheProject, WasFound
<1>7. /\ update' = [Torn(u) EXCEPT ![u] = x]
      /\ genre' = genre /\ counted' = counted /\ teller' = teller
  BY DEF CommitSegment
<1>8. update'[u] = x
  BY <1>7, WriteTears
<1>9. UpdateKnown(u)'
  BY <1>3, <1>8, UpdateOfIs DEF UpdateKnown
<1>10. raced' \subseteq Recordings
  BY <1>2, CrossedIs DEF CatalogueInv, CatalogueTypeOK
<1>11. /\ row.teller \in {row.teller} \cup {NULL} /\ raced \cup Crossed(u, r, {row.teller}) \subseteq raced'
       /\ r \notin raced' => q.held = {}
  BY <1>2
<1>12. born' \in {born, born \cup {r}} /\ r \in born' /\ r \in Recordings
  BY <1>2
<1> HIDE DEF x, q
<1> QED BY <1>2, <1>4, <1>5, <1>6, <1>7, <1>9, <1>10, <1>11, <1>12, RowWriteKeeps

LEMMA CommitRemoveKeeps ==
    ASSUME CatalogueInv, NEW u \in Updates, CommitRemove(u)
    PROVE  CatalogueInv'
<1> DEFINE q == update[u]
           t == q.teller
<1>1. q.pc = "removing" /\ Removing(q)
  BY DEF CommitRemove, CatalogueInv, UpdateKnown
<1>2. /\ teller' = [teller EXCEPT ![t] = NULL]
      /\ recording' = [r \in Recordings |->
            IF recording[r] = NULL THEN NULL
            ELSE IF r \in q.held THEN Cleared(recording[r], q.base[r])
            ELSE IF r \in Told(t) THEN [recording[r] EXCEPT !.teller = NULL]
            ELSE recording[r]]
      /\ raced' = raced \cup UNION {Crossed(u, r, {t}) : r \in q.held \cup Told(t)}
      /\ update' = [Torn(u) EXCEPT ![u] = NoUpdate]
      /\ genre' = genre /\ counted' = counted /\ born' = born
  BY DEF CommitRemove, EndWrite
<1>3. /\ t \in Tellers /\ q.held \subseteq Recordings
      /\ \A r \in q.held : q.base[r] \in Rows /\ HeldAs(r, q.base[r])
      /\ \A r \in Recordings : r \in q.held \/ r \in raced \/ recording[r] = NULL \/ recording[r].teller # t
  BY <1>1 DEF Removing
<1>4. /\ teller' \in [Tellers -> TellerRows \cup {NULL}]
      /\ \A k \in Tellers : teller'[k] = NULL \/ teller'[k] = teller[k]
      /\ \A k \in Tellers : k # t => teller'[k] = teller[k]
  BY <1>2, <1>3 DEF CatalogueInv, CatalogueTypeOK
<1>5. /\ raced \subseteq raced' /\ raced' \subseteq Recordings /\ born \subseteq born'
      /\ \A r \in q.held \cup Told(t) : Crossed(u, r, {t}) \subseteq raced'
  <2>1. \A r \in q.held \cup Told(t) : r \in Recordings
    BY <1>3 DEF Told
  <2>2. \A r \in q.held \cup Told(t) : Crossed(u, r, {t}) \subseteq Recordings
    BY <2>1, CrossedIs
  <2>3. raced \subseteq Recordings
    BY DEF CatalogueInv, CatalogueTypeOK
  <2> HIDE DEF t, q
  <2> QED BY <1>2, <2>2, <2>3
<1>6. /\ \A r \in Recordings : RowFits(r)
      /\ \A r \in Recordings : recording[r] # NULL => recording[r] \in Rows
  BY RowsFit
<1>7. ASSUME NEW r \in Recordings, recording[r] # NULL, r \in q.held
      PROVE  /\ recording'[r] \in Rows /\ recording'[r].teller = NULL
             /\ recording'[r].genre = recording[r].genre /\ recording'[r].register = recording[r].register
             /\ recording'[r].genre2 = recording[r].genre2 /\ recording'[r].register2 = recording[r].register2
             /\ recording'[r].title = recording[r].title /\ recording'[r].status = recording[r].status
             /\ recording'[r].segment = recording[r].segment
             /\ r \notin raced => recording'[r].flags = review_flags_for(recording'[r])
  <2>1. recording'[r] = Cleared(recording[r], q.base[r])
    BY <1>2, <1>7
  <2>2. recording[r] \in Rows /\ q.base[r] \in Rows /\ (r \notin raced => Alike(recording[r], q.base[r]))
    BY <1>3, <1>6, <1>7 DEF HeldAs
  <2> QED BY <2>1, <2>2, ClearedTyped
<1>8. ASSUME NEW r \in Recordings, recording[r] # NULL, r \notin q.held, r \in Told(t)
      PROVE  /\ recording'[r] \in Rows /\ recording'[r].teller = NULL /\ r \in raced
             /\ recording'[r].genre = recording[r].genre /\ recording'[r].register = recording[r].register
             /\ recording'[r].genre2 = recording[r].genre2 /\ recording'[r].register2 = recording[r].register2
             /\ recording'[r].title = recording[r].title /\ recording'[r].status = recording[r].status
             /\ recording'[r].segment = recording[r].segment
  <2>1. recording'[r] = [recording[r] EXCEPT !.teller = NULL]
    BY <1>2, <1>8
  <2>2. recording[r] \in Rows
    BY <1>6, <1>8
  <2>3. r \in raced
    BY <1>3, <1>8 DEF Told
  <2> QED BY <2>1, <2>2, <2>3, TellerGoneTyped
<1>9. ASSUME NEW r \in Recordings, recording[r] = NULL \/ (r \notin q.held /\ r \notin Told(t))
      PROVE  recording'[r] = recording[r] /\ (recording[r] # NULL => recording[r].teller # t)
  BY <1>2, <1>9 DEF Told
<1>10. recording' \in [Recordings -> Rows \cup {NULL}]
  <2>1. \A r \in Recordings : recording'[r] \in Rows \cup {NULL}
    BY <1>6, <1>7, <1>8, <1>9
  <2>2. recording' = [r \in Recordings |-> recording'[r]]
    BY <1>2
  <2> QED BY <2>1, <2>2
<1>11. ASSUME NEW r \in Recordings
       PROVE  \/ recording'[r] = NULL
              \/ recording[r] # NULL /\ Alike(recording'[r], recording[r])
              \/ Crossed(u, r, {t}) \subseteq raced' /\ recording'[r].teller = NULL
  BY <1>5, <1>7, <1>8, <1>9, AlikeSelf
<1>12. ASSUME NEW r \in Recordings
       PROVE  RowFits(r)'
  <2>1. CASE recording[r] = NULL \/ (r \notin q.held /\ r \notin Told(t))
    <3>1. recording'[r] = recording[r] /\ (recording[r] # NULL => recording[r].teller # t)
      BY <1>9, <2>1
    <3>2. recording[r] # NULL /\ recording[r].teller # NULL => teller'[recording[r].teller] = teller[recording[r].teller]
      BY <1>4, <1>6, <3>1, RowFields
    <3>3. recording'[r] = NULL \/ (recording[r] # NULL /\ Alike(recording'[r], recording[r]))
      BY <3>1, AlikeSelf
    <3>4. \A g \in AllGenres : genre[g] # NULL => genre'[g] # NULL
      BY <1>2
    <3> QED BY <1>5, <1>6, <3>2, <3>3, <3>4, RowFitsStill
  <2>2. CASE recording[r] # NULL /\ (r \in q.held \/ r \in Told(t))
    <3>1. /\ recording'[r] \in Rows /\ recording'[r].teller = NULL
          /\ recording'[r].genre = recording[r].genre /\ recording'[r].register = recording[r].register
          /\ recording'[r].genre2 = recording[r].genre2 /\ recording'[r].register2 = recording[r].register2
          /\ r \notin raced => recording'[r].flags = review_flags_for(recording'[r])
      BY <1>7, <1>8, <2>2
    <3>2. secondary_equals_primary(recording'[r]) <=> secondary_equals_primary(recording[r])
      BY <3>1, SecondaryOf
    <3>3. r \notin raced' => ~secondary_equals_primary(recording'[r])
      BY <1>5, <1>6, <2>2, <3>2 DEF RowFits
    <3>4. RowFits(r)
      BY <1>6
    <3> QED BY <1>2, <1>5, <2>2, <3>1, <3>3, <3>4 DEF RowFits, OfTheProject
  <2> QED BY <2>1, <2>2
<1>13. RowsAreFew'
  <2>1. \A r \in Recordings : recording'[r] # NULL => recording[r] # NULL
    BY <1>9
  <2> QED BY <2>1, RowsAreFewStill DEF CatalogueInv
<1>14. TitlesTellApart'
  <2>1. ASSUME NEW r \in Recordings
        PROVE  \/ recording'[r] = NULL
               \/ /\ recording[r] # NULL /\ recording'[r].title = recording[r].title
                  /\ Exempt(recording[r]) => Exempt(recording'[r])
    BY <1>7, <1>8, <1>9 DEF Exempt
  <2> QED BY <2>1, TitlesStill DEF CatalogueInv
<1>15. /\ update' = [v \in Updates |-> update'[v]]
       /\ \A v \in Updates : v # u =>
             \/ update'[v] = update[v] /\ update[v].pc # "counting"
             \/ update[v].pc = "counting" /\ update'[v].pc = "counting" /\ update'[v].held # {}
  BY <1>2, WriteTears
<1>16. UpdateKnown(u)'
  BY <1>2, WriteTears, IdleKnown
<1>17. \A r \in Recordings :
          \/ recording'[r] = NULL
          \/ recording[r] # NULL /\ Alike(recording'[r], recording[r])
          \/ /\ Crossed(u, r, {t}) \subseteq raced'
             /\ \/ recording'[r].teller \in {t} \cup {NULL}
                \/ recording[r] # NULL /\ recording'[r].teller = recording[r].teller
  BY <1>11
<1>18. \A r \in Recordings : RowFits(r)'
  BY <1>12
<1>19. genre' = genre /\ counted' = counted
  BY <1>2
<1> HIDE DEF t, q
<1> QED BY <1>4, <1>5, <1>10, <1>13, <1>14, <1>15, <1>16, <1>17, <1>18, <1>19, WritesKeep

LEMMA DeleteRecordingKeeps ==
    ASSUME CatalogueInv, DeleteRecording
    PROVE  CatalogueInv'
<1>1. PICK r \in Recordings : recording[r] # NULL /\ recording' = [recording EXCEPT ![r] = NULL]
  BY DEF DeleteRecording
<1>2. /\ recording' \in [Recordings -> Rows \cup {NULL}] /\ recording'[r] = NULL
      /\ \A k \in Recordings : k # r => recording'[k] = recording[k]
  BY <1>1 DEF CatalogueInv, CatalogueTypeOK
<1>3. /\ genre' = genre /\ teller' = teller /\ counted' = counted /\ born' = born /\ raced' = raced
      /\ update' = Torn(NULL)
  BY DEF DeleteRecording
<1>4. /\ \A k \in Recordings : RowFits(k)
      /\ \A k \in Recordings : recording[k] # NULL => recording[k] \in Rows
  BY RowsFit
<1>5. \A k \in Recordings : recording'[k] = NULL \/ (recording[k] # NULL /\ Alike(recording'[k], recording[k]))
  BY <1>2, AlikeSelf
<1>6. ASSUME NEW k \in Recordings
      PROVE  RowFits(k)'
  BY <1>3, <1>4, <1>5, RowFitsStill
<1>7. RowsAreFew'
  BY <1>2, RowsAreFewStill DEF CatalogueInv
<1>8. TitlesTellApart'
  BY <1>2, TitlesStill DEF CatalogueInv
<1>9. /\ update' = [v \in Updates |-> update'[v]]
      /\ \A v \in Updates : v # NULL =>
            \/ update'[v] = update[v] /\ update[v].pc # "counting"
            \/ update[v].pc = "counting" /\ update'[v].pc = "counting" /\ update'[v].held # {}
      /\ NULL \notin Updates
  BY <1>3, AllTorn, CatalogueAssumption
<1>10. /\ teller' \in [Tellers -> TellerRows \cup {NULL}] /\ raced' \subseteq Recordings
       /\ \A k \in Tellers : teller'[k] = NULL \/ teller'[k] = teller[k]
  BY <1>3 DEF CatalogueInv, CatalogueTypeOK
<1>11. \A k \in Recordings : RowFits(k)'
  BY <1>6
<1> QED BY <1>2, <1>3, <1>5, <1>7, <1>8, <1>9, <1>10, <1>11, WritesKeep

\* A step that moves at most how far one recording is, and takes it out of the archive only when
\* its title is free.
LEMMA StatusKeeps ==
    ASSUME CatalogueInv, NEW u, NEW r \in Recordings, NEW status \in {"active", "splitting", "archived"},
           recording[r] # NULL, recording' = [recording EXCEPT ![r].status = status],
           \/ status = "archived"
           \/ recording[r].status # "archived"
           \/ TitleIsFree(recording[r].title, [recording[r] EXCEPT !.status = status], r),
           update' = [v \in Updates |-> update'[v]],
           \A v \in Updates : v # u =>
              \/ update'[v] = update[v] /\ update[v].pc # "counting"
              \/ update[v].pc = "counting" /\ update'[v].pc = "counting" /\ update'[v].held # {},
           u \in Updates => UpdateKnown(u)',
           genre' = genre, teller' = teller, counted' = counted, born' = born, raced' = raced
    PROVE  CatalogueInv'
<1> DEFINE row == [recording[r] EXCEPT !.status = status]
<1>1. /\ \A k \in Recordings : RowFits(k)
      /\ \A k \in Recordings : recording[k] # NULL => recording[k] \in Rows
  BY RowsFit
<1>2. row \in Rows /\ row.status = status /\ Alike(row, recording[r])
  <2>1. recording[r] \in Rows /\ status \in {"local", "active", "splitting", "archived"}
    BY <1>1
  <2> QED BY <2>1 DEF Rows, Alike
<1>3. recording' = [recording EXCEPT ![r] = row]
  BY DEF CatalogueInv, CatalogueTypeOK
<1>4. \/ status = "archived"
      \/ recording[r].status # "archived"
      \/ TitleIsFree(recording[r].title, row, r)
  OBVIOUS
<1> HIDE DEF row
<1>5. /\ recording' \in [Recordings -> Rows \cup {NULL}] /\ recording'[r] = row /\ RowsAreFew'
      /\ \A k \in Recordings : k # r => recording'[k] = recording[k]
  BY <1>2, <1>3, RowIsWritten
<1>6. \A k \in Recordings : recording'[k] = NULL \/ (recording[k] # NULL /\ Alike(recording'[k], recording[k]))
  BY <1>2, <1>5, AlikeSelf
<1>7. ASSUME NEW k \in Recordings
      PROVE  RowFits(k)'
  BY <1>1, <1>6, RowFitsStill
<1>8. TitlesTellApart'
  <2>1. row.title = recording[r].title /\ row.segment = recording[r].segment
    BY <1>2 DEF Alike
  <2>2. CASE status = "archived" \/ recording[r].status # "archived"
    <3>1. \A k \in Recordings : \/ recording'[k] = NULL
                                \/ /\ recording[k] # NULL /\ recording'[k].title = recording[k].title
                                   /\ Exempt(recording[k]) => Exempt(recording'[k])
      BY <1>2, <1>5, <2>1, <2>2 DEF Exempt
    <3> QED BY <3>1, TitlesStill DEF CatalogueInv
  <2>3. CASE TitleIsFree(recording[r].title, row, r)
    <3>1. TitleIsFree(recording'[r].title, recording'[r], r)
      BY <1>5, <2>1, <2>3
    <3> QED BY <1>5, <3>1, TitlesStillWith DEF CatalogueInv
  <2> QED BY <1>4, <2>2, <2>3
<1>9. /\ teller' \in [Tellers -> TellerRows \cup {NULL}] /\ raced' \subseteq Recordings
      /\ \A k \in Tellers : teller'[k] = NULL \/ teller'[k] = teller[k]
  BY DEF CatalogueInv, CatalogueTypeOK
<1>10. \A k \in Recordings : RowFits(k)'
  BY <1>7
<1> QED BY <1>5, <1>6, <1>8, <1>9, <1>10, WritesKeep

\* A step that would have written a recording that is not there, or may not be written.
LEMMA NothingWrittenKeeps ==
    ASSUME CatalogueInv, NEW u, recording' = recording,
           update' = [v \in Updates |-> update'[v]],
           \A v \in Updates : v # u =>
              \/ update'[v] = update[v] /\ update[v].pc # "counting"
              \/ update[v].pc = "counting" /\ update'[v].pc = "counting" /\ update'[v].held # {},
           u \in Updates => UpdateKnown(u)',
           genre' = genre, teller' = teller, counted' = counted, born' = born, raced' = raced
    PROVE  CatalogueInv'
<1>1. /\ \A k \in Recordings : RowFits(k)
      /\ \A k \in Recordings : recording[k] # NULL => recording[k] \in Rows
  BY RowsFit
<1>2. \A k \in Recordings : recording'[k] = NULL \/ (recording[k] # NULL /\ Alike(recording'[k], recording[k]))
  BY AlikeSelf
<1>3. ASSUME NEW k \in Recordings
      PROVE  RowFits(k)'
  BY <1>1, <1>2, RowFitsStill
<1>4. RowsAreFew' /\ TitlesTellApart' /\ recording' \in [Recordings -> Rows \cup {NULL}]
  BY DEF CatalogueInv, RowsAreFew, TitlesTellApart, CatalogueTypeOK, Exempt
<1>5. /\ teller' \in [Tellers -> TellerRows \cup {NULL}] /\ raced' \subseteq Recordings
      /\ \A k \in Tellers : teller'[k] = NULL \/ teller'[k] = teller[k]
  BY DEF CatalogueInv, CatalogueTypeOK
<1>6. \A k \in Recordings : RowFits(k)'
  BY <1>3
<1> QED BY <1>2, <1>4, <1>5, <1>6, WritesKeep

LEMMA VerifiedKeeps ==
    ASSUME CatalogueInv, Verified
    PROVE  CatalogueInv'
<1>1. PICK r \in Recordings :
          recording[r] # NULL /\ recording[r].status = "local" /\ recording' = [recording EXCEPT ![r].status = "active"]
  BY DEF Verified
<1>2. /\ genre' = genre /\ teller' = teller /\ counted' = counted /\ born' = born /\ raced' = raced
      /\ update' = Torn(NULL)
  BY DEF Verified
<1>3. /\ update' = [v \in Updates |-> update'[v]]
      /\ \A v \in Updates : v # NULL =>
            \/ update'[v] = update[v] /\ update[v].pc # "counting"
            \/ update[v].pc = "counting" /\ update'[v].pc = "counting" /\ update'[v].held # {}
      /\ NULL \notin Updates
  BY <1>2, AllTorn, CatalogueAssumption
<1> QED BY <1>1, <1>2, <1>3, StatusKeeps

LEMMA ArchiveParentKeeps ==
    ASSUME CatalogueInv, NEW u \in Updates, ArchiveParent(u)
    PROVE  CatalogueInv'
<1> DEFINE r == update[u].rec
           x == UpdateOf("archived", r, NULL, NULL, NULL, {})
<1>1. update[u].pc = "segmented" /\ r \in Recordings
  BY DEF ArchiveParent, CatalogueInv, UpdateKnown
<1>2. /\ recording' = IF recording[r] = NULL THEN recording ELSE [recording EXCEPT ![r].status = "archived"]
      /\ update' = [Torn(u) EXCEPT ![u] = x]
      /\ genre' = genre /\ teller' = teller /\ counted' = counted /\ born' = born /\ raced' = raced
  BY DEF ArchiveParent
<1>3. x.pc = "archived" /\ x.rec = r
  BY UpdateOfIs
<1> HIDE DEF r, x
<1>4. /\ update' = [v \in Updates |-> update'[v]] /\ update'[u] = x
      /\ \A v \in Updates : v # u =>
            \/ update'[v] = update[v] /\ update[v].pc # "counting"
            \/ update[v].pc = "counting" /\ update'[v].pc = "counting" /\ update'[v].held # {}
  BY <1>2, WriteTears
<1>5. UpdateKnown(u)'
  BY <1>1, <1>3, <1>4 DEF UpdateKnown
<1>6. CASE recording[r] # NULL
  BY <1>1, <1>2, <1>4, <1>5, <1>6, StatusKeeps
<1>7. CASE recording[r] = NULL
  BY <1>2, <1>4, <1>5, <1>7, NothingWrittenKeeps
<1> QED BY <1>6, <1>7

LEMMA SplitFailsKeeps ==
    ASSUME CatalogueInv, NEW u \in Updates, SplitFails(u)
    PROVE  CatalogueInv'
<1> DEFINE r == update[u].rec
           new == [recording[r] EXCEPT !.status = "active"]
<1>1. r \in Recordings
  BY DEF SplitFails, CatalogueInv, UpdateKnown, Sent
<1>2. /\ \/ recording' = recording
         \/ recording[r] # NULL /\ Storable(new, r) /\ recording' = [recording EXCEPT ![r] = new]
      /\ update' = [Torn(u) EXCEPT ![u] = NoUpdate]
      /\ genre' = genre /\ teller' = teller /\ counted' = counted /\ born' = born /\ raced' = raced
  BY DEF SplitFails, EndWrite
<1>3. recording[r] # NULL => new.title = recording[r].title
  BY <1>1, RowsFit DEF Rows
<1>4. /\ update' = [v \in Updates |-> update'[v]]
      /\ \A v \in Updates : v # u =>
            \/ update'[v] = update[v] /\ update[v].pc # "counting"
            \/ update[v].pc = "counting" /\ update'[v].pc = "counting" /\ update'[v].held # {}
  BY <1>2, WriteTears
<1>5. UpdateKnown(u)'
  BY <1>2, WriteTears, IdleKnown
<1>6. CASE recording' = recording
  BY <1>2, <1>4, <1>5, <1>6, NothingWrittenKeeps
<1>7. CASE recording[r] # NULL /\ Storable(new, r) /\ recording' = [recording EXCEPT ![r] = new]
  <2>1. recording' = [recording EXCEPT ![r].status = "active"] /\ TitleIsFree(recording[r].title, new, r)
    BY <1>3, <1>7 DEF Storable
  <2> HIDE DEF r
  <2> QED BY <1>1, <1>2, <1>4, <1>5, <1>7, <2>1, StatusKeeps
<1> QED BY <1>2, <1>6, <1>7

\* The split's commit: nobody who holds the row relies on its status.
LEMMA CommitSplitKeeps ==
    ASSUME CatalogueInv, NEW u \in Updates, CommitSplit(u)
    PROVE  CatalogueInv'
<1> DEFINE q == update[u]
           r == q.rec
           new == [recording[r] EXCEPT !.status = "splitting"]
           x == UpdateOf("committed", r, q.base, q.want, NULL, {})
<1>1. q.pc = "splitting" /\ Splitting(q)
  BY DEF CommitSplit, CatalogueInv, UpdateKnown
<1>2. /\ recording[r] # NULL
      /\ \/ recording' = recording
         \/ Storable(new, r) /\ recording' = [recording EXCEPT ![r] = new]
      /\ update' = [Torn(u) EXCEPT ![u] = x]
      /\ genre' = genre /\ teller' = teller /\ counted' = counted /\ born' = born /\ raced' = raced
  <2>1. recording = [recording EXCEPT ![r] = recording[r]]
    BY <1>1 DEF CatalogueInv, CatalogueTypeOK, Splitting
  <2> QED BY <2>1 DEF CommitSplit
<1>3. /\ r \in Recordings /\ r \in born /\ q.base \in Rows /\ HeldAs(r, q.base)
      /\ q.want \in AllGenres \cup {NULL} /\ ~secondary_equals_primary(SplitOf(q.base, q.want))
  BY <1>1 DEF Splitting
<1>4. recording[r] \in Rows
  BY <1>2, <1>3, RowsFit
<1>5. new.title = recording[r].title /\ Alike(new, recording[r])
  BY <1>4 DEF Rows, Alike
<1>6. x.pc = "committed" /\ x.rec = r /\ x.base = q.base /\ x.want = q.want
  BY UpdateOfIs
<1>7. /\ update' = [v \in Updates |-> update'[v]] /\ update'[u] = x
      /\ \A v \in Updates : v # u =>
            \/ update'[v] = update[v] /\ update[v].pc # "counting"
            \/ update[v].pc = "counting" /\ update'[v].pc = "counting" /\ update'[v].held # {}
  BY <1>2, WriteTears
<1>8. recording'[r] = NULL \/ Alike(recording'[r], recording[r])
  BY <1>2, <1>3, <1>5, AlikeSelf DEF CatalogueInv, CatalogueTypeOK
<1>9. r \in raced' \/ recording'[r] = NULL \/ Alike(recording'[r], q.base)
  BY <1>2, <1>3, <1>8, AlikeOnce DEF HeldAs
<1> HIDE DEF x
<1>10. UpdateKnown(u)'
  <2>1. /\ x.rec \in Recordings /\ x.rec \in born' /\ x.base \in Rows
        /\ x.rec \in raced' \/ recording'[x.rec] = NULL \/ Alike(recording'[x.rec], x.base)
        /\ x.want \in AllGenres \cup {NULL} /\ ~secondary_equals_primary(SplitOf(x.base, x.want))
    BY <1>2, <1>3, <1>6, <1>9
  <2> QED BY <1>6, <1>7, <2>1 DEF UpdateKnown, Splitting, HeldAs
<1>11. CASE recording' = recording
  BY <1>2, <1>7, <1>10, <1>11, NothingWrittenKeeps
<1>12. CASE Storable(new, r) /\ recording' = [recording EXCEPT ![r] = new]
  <2>1. recording' = [recording EXCEPT ![r].status = "splitting"] /\ TitleIsFree(recording[r].title, new, r)
    BY <1>5, <1>12 DEF Storable
  <2> HIDE DEF q, r
  <2> QED BY <1>2, <1>3, <1>7, <1>10, <2>1, StatusKeeps
<1> QED BY <1>2, <1>11, <1>12

-----------------------------------------------------------------------------
(* The catalogue: steps that write no recording.                           *)

LEMMA QuietKeeps ==
    ASSUME CatalogueInv, NEW u,
           update' = [v \in Updates |-> update'[v]], \A v \in Updates : v # u => update'[v] = update[v],
           u \in Updates => UpdateKnown(u)',
           recording' = recording, raced' = raced, born \subseteq born',
           genre' \in [AllGenres -> {"active", "inactive", NULL}],
           \A g \in AllGenres : genre[g] # NULL => genre'[g] # NULL,
           teller' \in [Tellers -> TellerRows \cup {NULL}],
           \A t \in Tellers : teller'[t] # NULL => t \in born',
           \A t \in Tellers : t \in born => teller'[t] = teller[t],
           CountsStand'
    PROVE  CatalogueInv'
<1>1. /\ \A r \in Recordings : RowFits(r)
      /\ \A r \in Recordings : recording[r] # NULL => recording[r] \in Rows
      /\ \A t \in Tellers : teller[t] # NULL => t \in born
  BY RowsFit DEF CatalogueInv, CatalogueTypeOK
<1>2. \A r \in Recordings : recording'[r] = NULL \/ (recording[r] # NULL /\ Alike(recording'[r], recording[r]))
  BY AlikeSelf
<1>3. ASSUME NEW r \in Recordings
      PROVE  RowFits(r)'
  <2>1. recording[r] # NULL /\ recording[r].teller # NULL => teller'[recording[r].teller] = teller[recording[r].teller]
    <3> SUFFICES ASSUME recording[r] # NULL, recording[r].teller # NULL
                 PROVE  teller'[recording[r].teller] = teller[recording[r].teller]
      OBVIOUS
    <3>1. recording[r].teller \in Tellers /\ teller[recording[r].teller] # NULL
      BY <1>1, RowFields DEF RowFits
    <3> QED BY <1>1, <3>1
  <2> QED BY <1>1, <1>2, <2>1, RowFitsStill
<1>4. ASSUME NEW v \in Updates, v # u
      PROVE  UpdateKnown(v)'
  <2>1. UpdateKnown(v)
    BY DEF CatalogueInv
  <2>2. update'[v] = update[v]
    BY <1>4
  <2> QED BY <1>2, <1>4, <2>1, <2>2, OthersKnown
<1>5. RowsAreFew' /\ TitlesTellApart' /\ recording' \in [Recordings -> Rows \cup {NULL}] /\ raced' \subseteq Recordings
  BY DEF CatalogueInv, RowsAreFew, TitlesTellApart, CatalogueTypeOK, Exempt
<1>6. (\A v \in Updates : UpdateKnown(v)') /\ \A r \in Recordings : RowFits(r)'
  BY <1>3, <1>4
<1> QED BY <1>5, <1>6, CatalogueFits

\* A request goes from one state to another, and nothing else is touched.
LEMMA RequestKeeps ==
    ASSUME CatalogueInv, NEW u \in Updates, NEW x, update' = [update EXCEPT ![u] = x],
           update'[u] = x => UpdateKnown(u)',
           recording' = recording, raced' = raced, born' = born, genre' = genre, teller' = teller, CountsStand'
    PROVE  CatalogueInv'
<1>1. /\ update' = [v \in Updates |-> update'[v]] /\ update'[u] = x
      /\ \A v \in Updates : v # u => update'[v] = update[v]
  BY DEF CatalogueInv
<1>2. /\ genre' \in [AllGenres -> {"active", "inactive", NULL}] /\ teller' \in [Tellers -> TellerRows \cup {NULL}]
      /\ \A t \in Tellers : teller'[t] # NULL => t \in born'
  BY DEF CatalogueInv, CatalogueTypeOK
<1> QED BY <1>1, <1>2, QuietKeeps

LEMMA CountsUntouched ==
    ASSUME CatalogueInv, counted' = counted
    PROVE  CountsStand'
BY DEF CatalogueInv, CountsStand

LEMMA GenreKeeps ==
    ASSUME CatalogueInv, CreateGenre \/ UpdateGenre \/ DeleteGenre
    PROVE  CatalogueInv'
<1>1. /\ recording' = recording /\ raced' = raced /\ born' = born /\ teller' = teller
      /\ update' = update /\ counted' = counted
  BY DEF CreateGenre, UpdateGenre, DeleteGenre
<1>2. PICK g \in AllGenres, s \in {"active", "inactive"} : genre' = [genre EXCEPT ![g] = s]
  BY DEF CreateGenre, UpdateGenre, DeleteGenre
<1>3. /\ genre' \in [AllGenres -> {"active", "inactive", NULL}]
      /\ \A k \in AllGenres : genre[k] # NULL => genre'[k] # NULL
  BY <1>2, CatalogueAssumption DEF CatalogueInv, CatalogueTypeOK
<1>4. /\ teller' \in [Tellers -> TellerRows \cup {NULL}] /\ \A t \in Tellers : teller'[t] # NULL => t \in born'
      /\ update' = [v \in Updates |-> update'[v]]
  BY <1>1 DEF CatalogueInv, CatalogueTypeOK
<1>5. NULL \notin Updates
  BY CatalogueAssumption
<1> QED BY <1>1, <1>3, <1>4, <1>5, CountsUntouched, QuietKeeps

LEMMA CreateTellerKeeps ==
    ASSUME CatalogueInv, CreateTeller
    PROVE  CatalogueInv'
<1>1. PICK t \in Tellers \ born, by \in People, here \in BOOLEAN :
          teller' = [teller EXCEPT ![t] = [here |-> here, by |-> by]] /\ born' = born \cup {t}
  BY DEF CreateTeller
<1>2. recording' = recording /\ raced' = raced /\ genre' = genre /\ update' = update /\ counted' = counted
  BY DEF CreateTeller
<1>3. [here |-> here, by |-> by] \in TellerRows
  BY DEF TellerRows
<1>4. /\ teller' \in [Tellers -> TellerRows \cup {NULL}]
      /\ \A k \in Tellers : teller'[k] # NULL => k \in born'
      /\ \A k \in Tellers : k \in born => teller'[k] = teller[k]
  BY <1>1, <1>3 DEF CatalogueInv, CatalogueTypeOK
<1>5. /\ genre' \in [AllGenres -> {"active", "inactive", NULL}] /\ update' = [v \in Updates |-> update'[v]]
      /\ NULL \notin Updates
  BY <1>2, CatalogueAssumption DEF CatalogueInv, CatalogueTypeOK
<1> QED BY <1>1, <1>2, <1>4, <1>5, CountsUntouched, QuietKeeps

LEMMA FailsKeeps ==
    ASSUME CatalogueInv, NEW u \in Updates, Fails(u)
    PROVE  CatalogueInv'
<1>1. update' = [update EXCEPT ![u] = NoUpdate]
  BY DEF Fails, Done
<1>2. recording' = recording /\ raced' = raced /\ born' = born /\ genre' = genre /\ teller' = teller /\ counted' = counted
  BY DEF Fails
<1> QED BY <1>1, <1>2, IdleKnown, CountsUntouched, RequestKeeps

LEMMA EndSplitKeeps ==
    ASSUME CatalogueInv, NEW u \in Updates, EndSplit(u)
    PROVE  CatalogueInv'
<1>1. update' = [update EXCEPT ![u] = NoUpdate]
  BY DEF EndSplit, Done
<1>2. recording' = recording /\ raced' = raced /\ born' = born /\ genre' = genre /\ teller' = teller /\ counted' = counted
  BY DEF EndSplit
<1> QED BY <1>1, <1>2, IdleKnown, CountsUntouched, RequestKeeps

\* A storyteller who is in the project now has been found in it.
LEMMA FoundNow ==
    ASSUME CatalogueInv, NEW t \in Tellers \cup {NULL}, OfTheProject(t)
    PROVE  WasFound(t)
BY DEF CatalogueInv, CatalogueTypeOK, OfTheProject, WasFound

LEMMA BeginCreateKeeps ==
    ASSUME CatalogueInv, NEW u \in Updates, NEW v \in Given, BeginCreate(u, v)
    PROVE  CatalogueInv'
<1> DEFINE x == UpdateOf("creating", NULL, NULL, v, NULL, {})
<1>1. /\ update' = [update EXCEPT ![u] = x]
      /\ recording' = recording /\ raced' = raced /\ born' = born /\ genre' = genre /\ teller' = teller
      /\ counted' = counted
      /\ ~secondary_equals_primary(v) /\ OfTheProject(v.teller)
  BY DEF BeginCreate
<1>2. v.teller \in Tellers \cup {NULL}
  BY GivenFields
<1>3. WasFound(v.teller)'
  BY <1>1, <1>2, FoundNow DEF WasFound
<1>4. x.pc = "creating" /\ x.want = v
  BY UpdateOfIs
<1>5. update'[u] = x => UpdateKnown(u)'
  BY <1>1, <1>3, <1>4 DEF UpdateKnown, Creating
<1> HIDE DEF x
<1> QED BY <1>1, <1>5, CountsUntouched, RequestKeeps

LEMMA BeginUpdateKeeps ==
    ASSUME CatalogueInv, NEW u \in Updates, NEW v \in Given, NEW r \in Recordings, BeginUpdate(u, r, v)
    PROVE  CatalogueInv'
<1> DEFINE base == recording[r]
           want == NewRow(v, base.status, base.segment)
           x == UpdateOf("updating", r, base, want, NULL, {})
<1>1. /\ update' = [update EXCEPT ![u] = x]
      /\ recording' = recording /\ raced' = raced /\ born' = born /\ genre' = genre /\ teller' = teller
      /\ counted' = counted
      /\ base # NULL /\ ~secondary_equals_primary(v) /\ (v.teller # base.teller => OfTheProject(v.teller))
  BY DEF BeginUpdate
<1>2. base \in Rows /\ RowFits(r)
  BY <1>1, RowsFit
<1>3. /\ base.status \in {"local", "active", "splitting", "archived"} /\ base.segment \in BOOLEAN
      /\ v.teller \in Tellers \cup {NULL}
  BY <1>2, RowFields, GivenFields
<1>4. /\ want \in Rows /\ want.genre = v.genre /\ want.register = v.register
      /\ want.genre2 = v.genre2 /\ want.register2 = v.register2
      /\ want.teller = v.teller /\ want.segment = base.segment /\ want.flags = review_flags_for(want)
  BY <1>3, GivenFields, NewRowTyped
<1>5. WasFound(v.teller)
  BY <1>1, <1>2, <1>3, FoundNow DEF RowFits
<1>6. x.pc = "updating" /\ x.rec = r /\ x.base = base /\ x.want = want
  BY UpdateOfIs
<1> HIDE DEF want
<1>7. ~secondary_equals_primary(want)
  BY <1>1, <1>4, SecondaryOf
<1>8. HeldAs(r, base) /\ r \in born
  BY <1>1, <1>2, AlikeSelf DEF HeldAs, RowFits
<1>9. /\ r \in raced' \/ recording'[r] = NULL \/ Alike(recording'[r], base)
      /\ WasFound(v.teller)'
  BY <1>1, <1>5, <1>8 DEF HeldAs, WasFound
<1> HIDE DEF base, x
<1>10. update'[u] = x => UpdateKnown(u)'
  BY <1>1, <1>2, <1>4, <1>6, <1>7, <1>8, <1>9 DEF UpdateKnown, Updating, HeldAs
<1> QED BY <1>1, <1>10, CountsUntouched, RequestKeeps

LEMMA BeginRemoveKeeps ==
    ASSUME CatalogueInv, NEW u \in Updates, BeginRemove(u)
    PROVE  CatalogueInv'
<1>1. PICK t \in Tellers, who \in People :
          /\ teller[t] # NULL
          /\ update' = [update EXCEPT ![u] =
                UpdateOf("removing", NULL, [r \in Told(t) |-> recording[r]], NULL, t, Told(t))]
  BY DEF BeginRemove
<1> DEFINE base == [r \in Told(t) |-> recording[r]]
           x == UpdateOf("removing", NULL, base, NULL, t, Told(t))
<1>2. recording' = recording /\ raced' = raced /\ born' = born /\ genre' = genre /\ teller' = teller /\ counted' = counted
  BY DEF BeginRemove
<1>3. x.pc = "removing" /\ x.base = base /\ x.teller = t /\ x.held = Told(t)
  BY UpdateOfIs
<1>4. /\ \A r \in Recordings : RowFits(r)
      /\ \A r \in Recordings : recording[r] # NULL => recording[r] \in Rows
  BY RowsFit
<1>5. Told(t) \subseteq Recordings /\ Told(t) \subseteq born
  BY <1>4 DEF Told, RowFits
<1>6. \A r \in Told(t) : base[r] = recording[r] /\ base[r] \in Rows
  BY <1>4 DEF Told
<1> HIDE DEF base
<1>7. \A r \in Told(t) : Alike(recording'[r], base[r])
  BY <1>2, <1>6, AlikeSelf
<1>8. \A r \in Recordings : r \in Told(t) \/ recording'[r] = NULL \/ recording'[r].teller # t
  BY <1>2 DEF Told
<1>9. update'[u] = x => UpdateKnown(u)'
  <2> SUFFICES ASSUME update'[u] = x
               PROVE  Removing(update[u])'
    BY <1>3 DEF UpdateKnown
  <2> QED BY <1>2, <1>3, <1>5, <1>6, <1>7, <1>8 DEF Removing, HeldAs
<1> HIDE DEF x
<1>10. update' = [update EXCEPT ![u] = x]
  BY <1>1 DEF x, base
<1> QED BY <1>2, <1>9, <1>10, CountsUntouched, RequestKeeps

LEMMA BeginSplitKeeps ==
    ASSUME CatalogueInv, NEW u \in Updates, BeginSplit(u)
    PROVE  CatalogueInv'
<1>1. PICK r \in Recordings, g \in AllGenres :
          /\ recording[r] # NULL /\ ~secondary_equals_primary(SegmentOf(recording[r], g))
          /\ update' = [update EXCEPT ![u] =
                UpdateOf("splitting", r, recording[r], IF g = recording[r].genre THEN NULL ELSE g, NULL, {})]
  BY DEF BeginSplit
<1> DEFINE base == recording[r]
           want == IF g = base.genre THEN NULL ELSE g
           x == UpdateOf("splitting", r, base, want, NULL, {})
<1>2. recording' = recording /\ raced' = raced /\ born' = born /\ genre' = genre /\ teller' = teller /\ counted' = counted
  BY DEF BeginSplit
<1>3. x.pc = "splitting" /\ x.rec = r /\ x.base = base /\ x.want = want
  BY UpdateOfIs
<1>4. base \in Rows /\ r \in born
  BY <1>1, RowsFit DEF RowFits
<1>5. g # NULL
  BY CatalogueAssumption
<1>6. want \in AllGenres \cup {NULL} /\ (IF want = NULL THEN base.genre ELSE want) = g
  BY <1>5
<1>7. ~secondary_equals_primary(SplitOf(base, want))
  BY <1>1, <1>6 DEF SplitOf
<1>8. Alike(recording'[r], base)
  BY <1>2, AlikeSelf
<1>9. update' = [update EXCEPT ![u] = x]
  BY <1>1
<1> HIDE DEF want, base
<1>10. update'[u] = x => UpdateKnown(u)'
  BY <1>2, <1>3, <1>4, <1>6, <1>7, <1>8 DEF UpdateKnown, Splitting, HeldAs
<1> HIDE DEF x
<1> QED BY <1>2, <1>9, <1>10, CountsUntouched, RequestKeeps

LEMMA SendSplitKeeps ==
    ASSUME CatalogueInv, NEW u \in Updates, SendSplit(u)
    PROVE  CatalogueInv'
<1> DEFINE q == update[u]
           row == recording[q.rec]
           g == IF q.want = NULL THEN row.genre ELSE q.want
           want == SegmentOf(row, g)
           held == {r \in {q.rec} : r \in raced}
           x == UpdateOf("sent", q.rec, NULL, want, NULL, held)
<1>1. q.pc = "committed" /\ Splitting(q)
  BY DEF SendSplit, CatalogueInv, UpdateKnown
<1>2. /\ row # NULL /\ update' = [update EXCEPT ![u] = x]
      /\ recording' = recording /\ raced' = raced /\ born' = born /\ genre' = genre /\ teller' = teller
      /\ counted' = counted
  BY DEF SendSplit
<1>3. /\ q.rec \in Recordings /\ q.base \in Rows /\ HeldAs(q.rec, q.base) /\ q.want \in AllGenres \cup {NULL}
      /\ ~secondary_equals_primary(SplitOf(q.base, q.want))
  BY <1>1 DEF Splitting
<1>4. row \in Rows /\ RowFits(q.rec)
  BY <1>2, <1>3, RowsFit
<1>5. g \in AllGenres /\ row.teller \in Tellers \cup {NULL}
  BY <1>3, <1>4, RowFields
<1>6. want \in Rows /\ want.teller = row.teller
  BY <1>4, <1>5, SegmentTyped
<1>7. want.teller # NULL =>
          want.teller \in born' /\ (teller'[want.teller] # NULL => teller'[want.teller].here)
  <2>1. WasFound(row.teller)
    BY <1>2, <1>4, <1>5, FoundNow DEF RowFits
  <2> HIDE DEF row, want
  <2> QED BY <1>2, <1>6, <2>1 DEF WasFound
<1>8. held = {} => ~secondary_equals_primary(want)
  <2> SUFFICES ASSUME held = {}
               PROVE  ~secondary_equals_primary(want)
    OBVIOUS
  <2>1. Alike(row, q.base)
    BY <1>2, <1>3 DEF HeldAs
  <2>2. g = (IF q.want = NULL THEN q.base.genre ELSE q.want) /\ SplitOf(q.base, q.want) = SegmentOf(q.base, g)
    BY <2>1 DEF Alike, SplitOf
  <2>3. /\ want.genre = g /\ want.register = row.register /\ want.genre2 = row.genre2
        /\ want.register2 = row.register2
    BY <1>4, <1>5, SegmentTyped
  <2>4. /\ SplitOf(q.base, q.want).genre = g /\ SplitOf(q.base, q.want).register = q.base.register
        /\ SplitOf(q.base, q.want).genre2 = q.base.genre2 /\ SplitOf(q.base, q.want).register2 = q.base.register2
    BY <1>3, <1>5, <2>2, SegmentTyped
  <2> HIDE DEF want, g
  <2>5. secondary_equals_primary(want) <=> secondary_equals_primary(SplitOf(q.base, q.want))
    BY <2>1, <2>3, <2>4, SecondaryOf DEF Alike
  <2> QED BY <1>3, <2>5
<1>9. x.pc = "sent" /\ x.rec = q.rec /\ x.want = want /\ x.held = held
  BY UpdateOfIs
<1> HIDE DEF want, held
<1>10. update'[u] = x => UpdateKnown(u)'
  BY <1>2, <1>3, <1>6, <1>7, <1>8, <1>9 DEF UpdateKnown, Sent, WasFound
<1> HIDE DEF x
<1> QED BY <1>2, <1>10, CountsUntouched, RequestKeeps

LEMMA BeginCountKeeps ==
    ASSUME CatalogueInv, NEW u \in Updates, BeginCount(u)
    PROVE  CatalogueInv'
<1> DEFINE x == UpdateOf("counting", NULL, NULL, Cardinality(Listed), NULL, {})
<1>1. update' = [update EXCEPT ![u] = x]
  BY DEF BeginCount
<1>2. recording' = recording /\ raced' = raced /\ born' = born /\ genre' = genre /\ teller' = teller /\ counted' = counted
  BY DEF BeginCount
<1>3. x.pc = "counting" /\ x.want = Cardinality(Listed)
  BY UpdateOfIs
<1>4. Listed' = Listed
  BY <1>2 DEF Listed
<1>5. update'[u] = x => UpdateKnown(u)'
  BY <1>3, <1>4 DEF UpdateKnown
<1> HIDE DEF x
<1> QED BY <1>1, <1>2, <1>5, CountsUntouched, RequestKeeps

LEMMA FewerCounted ==
    ASSUME RowsAreFew, NEW S, NEW T, S \subseteq T, T \subseteq {r \in Recordings : recording[r] # NULL}
    PROVE  Cardinality(S) <= Cardinality(T)
<1>1. IsFiniteSet(T)
  BY FS_Subset DEF RowsAreFew
<1> QED BY <1>1, FS_Subset

LEMMA FinishCountKeeps ==
    ASSUME CatalogueInv, NEW u \in Updates, FinishCount(u)
    PROVE  CatalogueInv'
<1> DEFINE F == {r \in Listed : recording[r].flags # {}}
<1>1. /\ counted'.total = update[u].want
      /\ counted'.flags = [code \in ReviewFlags |-> Cardinality(WithFlag(code))]
      /\ counted'.flagged = Cardinality(F) /\ counted'.torn = (update[u].held # {})
  BY DEF FinishCount
<1>2. update[u].pc = "counting" /\ (update[u].held = {} => update[u].want = Cardinality(Listed))
  BY DEF FinishCount, CatalogueInv, UpdateKnown
<1>3. Listed \subseteq {r \in Recordings : recording[r] # NULL}
  BY DEF Listed
<1>4. F \subseteq Listed /\ \A code \in ReviewFlags : WithFlag(code) \subseteq F
  BY DEF WithFlag
<1>5. RowsAreFew
  BY DEF CatalogueInv
<1>6. Cardinality(F) <= Cardinality(Listed)
  BY <1>3, <1>4, <1>5, FewerCounted
<1>7. ASSUME NEW code \in ReviewFlags
      PROVE  Cardinality(WithFlag(code)) <= Cardinality(F)
  BY <1>3, <1>4, <1>5, FewerCounted
<1> HIDE DEF F
<1>8. CountsStand'
  BY <1>1, <1>2, <1>6, <1>7 DEF CountsStand
<1>9. /\ update' = [update EXCEPT ![u] = NoUpdate]
      /\ recording' = recording /\ raced' = raced /\ born' = born /\ genre' = genre /\ teller' = teller
  BY DEF FinishCount, Done
<1> QED BY <1>8, <1>9, IdleKnown, RequestKeeps

-----------------------------------------------------------------------------
(* The catalogue: the theorem.                                             *)

LEMMA CatalogueStarts == CatalogueInit => CatalogueInv
<1> SUFFICES ASSUME CatalogueInit
             PROVE  CatalogueInv
  OBVIOUS
<1>1. /\ \A r \in Recordings : recording[r] = NULL
      /\ \A t \in Tellers : teller[t] = NULL
      /\ \A u \in Updates : update[u] = NoUpdate
      /\ counted = NULL
  BY DEF CatalogueInit
<1>2. NoUpdate.pc = "idle"
  BY UpdateOfIs DEF NoUpdate
<1>3. RowsAreFew
  <2>1. {r \in Recordings : recording[r] # NULL} = {}
    BY <1>1
  <2> QED BY <2>1, FS_EmptySet DEF RowsAreFew
<1>4. CatalogueTypeOK
  BY <1>1, <1>2 DEF CatalogueTypeOK, CatalogueInit
<1>5. update = [u \in Updates |-> update[u]] /\ \A u \in Updates : UpdateKnown(u)
  BY <1>1, <1>2 DEF CatalogueInit, UpdateKnown
<1>6. FlagsAreOfTheFields /\ SecondaryDiffers /\ TellerIsOfTheProject /\ TitlesTellApart /\ CountsStand
  BY <1>1 DEF FlagsAreOfTheFields, SecondaryDiffers, TellerIsOfTheProject, TitlesTellApart, CountsStand
<1> QED BY <1>3, <1>4, <1>5, <1>6 DEF CatalogueInv

LEMMA CatalogueStep == CatalogueInv /\ [CatalogueNext]_catalogueVars => CatalogueInv'
<1> SUFFICES ASSUME CatalogueInv, [CatalogueNext]_catalogueVars
             PROVE  CatalogueInv'
  OBVIOUS
<1>1. CASE CreateGenre \/ UpdateGenre \/ DeleteGenre
  BY <1>1, GenreKeeps
<1>2. CASE CreateTeller
  BY <1>2, CreateTellerKeeps
<1>3. CASE DeleteRecording
  BY <1>3, DeleteRecordingKeeps
<1>4. CASE Verified
  BY <1>4, VerifiedKeeps
<1>5. ASSUME NEW u \in Updates,
             \/ \E v \in Given : BeginCreate(u, v) \/ \E r \in Recordings : BeginUpdate(u, r, v)
             \/ CommitCreate(u) \/ CommitUpdate(u) \/ Fails(u)
      PROVE  CatalogueInv'
  BY <1>5, BeginCreateKeeps, BeginUpdateKeeps, CommitCreateKeeps, CommitUpdateKeeps, FailsKeeps
<1>6. ASSUME NEW u \in Updates,
             \/ BeginRemove(u) \/ CommitRemove(u)
             \/ BeginSplit(u) \/ CommitSplit(u) \/ SendSplit(u)
             \/ CommitSegment(u) \/ ArchiveParent(u) \/ EndSplit(u) \/ SplitFails(u)
             \/ BeginCount(u) \/ FinishCount(u)
      PROVE  CatalogueInv'
  BY <1>6, BeginRemoveKeeps, CommitRemoveKeeps, BeginSplitKeeps, CommitSplitKeeps, SendSplitKeeps,
     CommitSegmentKeeps, ArchiveParentKeeps, EndSplitKeeps, SplitFailsKeeps, BeginCountKeeps, FinishCountKeeps
<1>7. CASE UNCHANGED catalogueVars
  <2>1. /\ genre' = genre /\ teller' = teller /\ recording' = recording /\ update' = update
        /\ counted' = counted /\ born' = born /\ raced' = raced
    BY <1>7 DEF catalogueVars
  <2>2. NULL \notin Updates
    BY CatalogueAssumption
  <2>3. /\ update' = [v \in Updates |-> update'[v]] /\ genre' \in [AllGenres -> {"active", "inactive", NULL}]
        /\ teller' \in [Tellers -> TellerRows \cup {NULL}] /\ \A t \in Tellers : teller'[t] # NULL => t \in born'
    BY <2>1 DEF CatalogueInv, CatalogueTypeOK
  <2> QED BY <2>1, <2>2, <2>3, CountsUntouched, QuietKeeps
<1> QED BY <1>1, <1>2, <1>3, <1>4, <1>5, <1>6, <1>7 DEF CatalogueNext

\* What is listed of a genre is counted for it.
LEMMA CountsAgree == CatalogueInv => CountsAreOfTheRows
<1> SUFFICES ASSUME CatalogueInv
             PROVE  CountsAreOfTheRows
  OBVIOUS
<1>1. ASSUME NEW g \in AllGenres
      PROVE  Cardinality({r \in Listed : recording[r].genre = g}) <= GenreCount(g)
  <2> DEFINE S == {r \in Listed : recording[r].genre = g}
             T == {r \in Recordings : recording[r] # NULL /\ recording[r].status # "local" /\ recording[r].genre = g}
  <2>1. S \subseteq T /\ T \subseteq {r \in Recordings : recording[r] # NULL} /\ RowsAreFew
    BY DEF Listed, CatalogueInv
  <2>2. GenreCount(g) = Cardinality(T)
    BY DEF GenreCount
  <2> HIDE DEF S, T
  <2>3. Cardinality(S) <= Cardinality(T)
    BY <2>1, FewerCounted
  <2> QED BY <2>2, <2>3 DEF S
<1> QED BY <1>1 DEF CatalogueInv, CountsStand, CountsAreOfTheRows

LEMMA RowsGoByDeletion ==
    ASSUME CatalogueInv, [CatalogueNext]_catalogueVars,
           NEW r \in Recordings, recording[r] # NULL, recording'[r] = NULL
    PROVE  DeleteRecording
<1> USE CatalogueAssumption
<1>1. /\ recording \in [Recordings -> Rows \cup {NULL}]
      /\ \A k \in Recordings : recording[k] # NULL => recording[k] \in Rows
  BY DEF CatalogueInv, CatalogueTypeOK
<1>2. CASE Verified
  <2>1. PICK k \in Recordings : recording[k] # NULL /\ recording' = [recording EXCEPT ![k].status = "active"]
    BY <1>2 DEF Verified
  <2>2. [recording[k] EXCEPT !.status = "active"] \in Rows
    BY <1>1, <2>1, StatusTyped
  <2>3. recording'[r] \in Rows
    BY <1>1, <2>1, <2>2
  <2> QED BY <2>3
<1>3. ASSUME NEW u \in Updates, CommitCreate(u) \/ CommitSegment(u)
      PROVE  FALSE
  <2>1. UpdateKnown(u)
    BY DEF CatalogueInv
  <2>2. PICK k \in Recordings \ born, row \in Rows : recording' = [recording EXCEPT ![k] = row]
    <3>1. CASE CommitCreate(u)
      <4>1. update[u].want \in Given
        BY <2>1, <3>1 DEF CommitCreate, UpdateKnown, Creating
      <4>2. NewRow(update[u].want, "local", FALSE) \in Rows
        BY <4>1, GivenFields, NewRowTyped
      <4> QED BY <3>1, <4>2 DEF CommitCreate
    <3>2. CASE CommitSegment(u)
      <4>1. update[u].want \in Rows
        BY <2>1, <3>2 DEF CommitSegment, UpdateKnown, Sent
      <4>2. NewRow(update[u].want, "active", TRUE) \in Rows
        BY <4>1, RowFields, NewRowTyped
      <4> QED BY <3>2, <4>2 DEF CommitSegment
    <3> QED BY <1>3, <3>1, <3>2
  <2>3. recording'[r] \in Rows
    BY <1>1, <2>2
  <2> QED BY <2>3
<1>4. ASSUME NEW u \in Updates, CommitUpdate(u)
      PROVE  FALSE
  <2>1. UpdateKnown(u) /\ update[u].pc = "updating"
    BY <1>4 DEF CatalogueInv, CommitUpdate
  <2>2. Updating(update[u])
    BY <2>1 DEF UpdateKnown
  <2> DEFINE k == update[u].rec
             row == Written(recording[k], update[u].base, update[u].want)
  <2>3. k \in Recordings /\ recording[k] # NULL /\ recording' = [recording EXCEPT ![k] = row]
    BY <1>4, <2>2 DEF CommitUpdate, Updating
  <2>4. row \in Rows
    BY <1>1, <2>2, <2>3, WrittenTyped DEF Updating
  <2> HIDE DEF row, k
  <2>5. recording'[r] \in Rows
    BY <1>1, <2>3, <2>4
  <2> QED BY <2>5
<1>5. ASSUME NEW u \in Updates, CommitRemove(u)
      PROVE  FALSE
  <2>1. UpdateKnown(u) /\ update[u].pc = "removing"
    BY <1>5 DEF CatalogueInv, CommitRemove
  <2>2. Removing(update[u])
    BY <2>1 DEF UpdateKnown
  <2> DEFINE q == update[u]
  <2>3. \/ r \in q.held /\ recording'[r] = Cleared(recording[r], q.base[r])
        \/ recording'[r] = [recording[r] EXCEPT !.teller = NULL]
        \/ recording'[r] = recording[r]
    BY <1>5 DEF CommitRemove
  <2>4. recording'[r] \in Rows
    BY <1>1, <2>2, <2>3, ClearedTyped, TellerGoneTyped DEF Removing
  <2> QED BY <2>4
<1>6. ASSUME NEW u \in Updates, ArchiveParent(u) \/ CommitSplit(u) \/ SplitFails(u)
      PROVE  FALSE
  <2> DEFINE k == update[u].rec
  <2>1. \/ recording'[r] = recording[r]
        \/ \E status \in {"active", "splitting", "archived"} :
              recording'[r] = [recording[r] EXCEPT !.status = status]
    <3>1. ASSUME NEW status \in {"active", "splitting", "archived"},
                 \/ recording' = [recording EXCEPT ![k].status = status]
                 \/ recording' = [recording EXCEPT ![k] = [recording[k] EXCEPT !.status = status]]
          PROVE  recording'[r] \in {recording[r], [recording[r] EXCEPT !.status = status]}
      BY <1>1, <3>1
    <3>2. CASE ArchiveParent(u)
      BY <3>1, <3>2 DEF ArchiveParent
    <3>3. CASE CommitSplit(u)
      <4>1. \/ recording' = [recording EXCEPT ![k] = recording[k]]
            \/ recording' = [recording EXCEPT ![k] = [recording[k] EXCEPT !.status = "splitting"]]
        BY <3>3 DEF CommitSplit
      <4>2. recording' = [recording EXCEPT ![k] = recording[k]] => recording'[r] = recording[r]
        BY <1>1
      <4> QED BY <3>1, <4>1, <4>2
    <3>4. CASE SplitFails(u)
      BY <3>1, <3>4 DEF SplitFails
    <3> QED BY <1>6, <3>2, <3>3, <3>4
  <2>2. \A status \in {"active", "splitting", "archived"} : [recording[r] EXCEPT !.status = status] \in Rows
    BY <1>1, StatusTyped
  <2>3. recording'[r] \in Rows
    BY <1>1, <2>1, <2>2
  <2> QED BY <2>3
<1>7. CASE recording' = recording
  BY <1>7
<1>8. CatalogueNext
  BY <1>7 DEF catalogueVars
<1>9. CASE \/ CreateGenre \/ UpdateGenre \/ DeleteGenre \/ CreateTeller
           \/ \E u \in Updates :
                 \/ \E v \in Given : BeginCreate(u, v) \/ \E k \in Recordings : BeginUpdate(u, k, v)
                 \/ Fails(u) \/ BeginRemove(u) \/ BeginSplit(u) \/ SendSplit(u) \/ EndSplit(u)
                 \/ BeginCount(u) \/ FinishCount(u)
  <2>1. recording' = recording
    BY <1>9 DEF CreateGenre, UpdateGenre, DeleteGenre, CreateTeller, BeginCreate, BeginUpdate, Fails,
       BeginRemove, BeginSplit, SendSplit, EndSplit, BeginCount, FinishCount
  <2> QED BY <1>7, <2>1
<1> QED BY <1>2, <1>3, <1>4, <1>5, <1>6, <1>8, <1>9 DEF CatalogueNext

\* What the catalogue says of a recording goes with its row, whatever requests overlap: flags and
\* classification where no write raced another, the storyteller, the title, the counts; and a row
\* goes only by its own deletion (recording_service.py, storyteller_service.py, stats_service.py).
THEOREM CatalogueStaysTrue == CatalogueSpec => CatalogueIsTrue
<1>1. CatalogueInit => CatalogueInv
  BY CatalogueStarts
<1>2. CatalogueInv /\ [CatalogueNext]_catalogueVars => CatalogueInv'
  BY CatalogueStep
<1>3. CatalogueInv => /\ CatalogueTypeOK /\ FlagsAreOfTheFields /\ SecondaryDiffers /\ TellerIsOfTheProject
                      /\ TitlesTellApart /\ CountsAreOfTheRows
  BY CountsAgree DEF CatalogueInv
<1>4. CatalogueInv /\ [CatalogueNext]_catalogueVars
         => [(\E r \in Recordings : recording[r] # NULL /\ recording'[r] = NULL) => DeleteRecording]_catalogueVars
  BY RowsGoByDeletion
<1> QED BY <1>1, <1>2, <1>3, <1>4, PTL DEF CatalogueSpec, CatalogueIsTrue, RecordingsStay

=============================================================================
