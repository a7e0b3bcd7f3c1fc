------------------------------ MODULE Directory ------------------------------
(***************************************************************************)
(* Organizations and their members, projects, who has access to them, and  *)
(* the invitations of the Oral Collector.                                  *)
(*                                                                         *)
(* A request is one step where only one of its statements writes and that  *)
(* one decides by itself, with the unique constraints, what becomes of it: *)
(* what was checked before it may be stale, but then the request fails.    *)
(* The requests of several commits, a project's creation and the answer to *)
(* an invitation, and those whose check nothing backs, are split.          *)
(*                                                                         *)
(* An account is named by its address.  Projects and organizations are     *)
(* never deleted.                                                          *)
(***************************************************************************)
EXTENDS Sql, Naturals, FiniteSets

CONSTANTS
    Users,
    Admins,       \* platform administrators
    Orgs,         \* ids of organizations rows
    Slugs,        \* slugs in lower case, the form in which they are looked up and stored
    Projects,     \* ids of projects rows
    Languages,    \* ids of languages rows, with their codes
    Invites,      \* ids of project_invites rows
    Requests      \* split requests in flight at a time

ASSUME DirectoryAssumption ==
    /\ Admins \subseteq Users
    /\ NULL \notin Users \cup Orgs \cup Projects \cup Languages \cup Invites

VARIABLES
    user,        \* users: "active" or "inactive"
    org,         \* organizations
    member,      \* the role in organization_members, per organization and user
    language,    \* languages
    project,     \* projects: the language
    access,      \* the role in project_user_access, per project and user
    orgAccess,   \* project_organization_access
    invite,      \* project_invites
    request,     \* split requests in flight
    meddled,     \* history: projects whose creation stopped, or whose managers somebody else changed
    gave,        \* history: invitations that gave their user an access, or found one given
    mixed,       \* history: invitations answered twice at a time or by a request that stopped
    doubled      \* history: projects and addresses that two requests invited at a time

directoryVars == <<user, org, member, language, project, access, orgAccess, invite, request,
                   meddled, gave, mixed, doubled>>
people == <<user, language>>
organizations == <<org, member>>
projects == <<project, access, orgAccess>>
invitations == <<invite, gave, mixed, doubled>>

Roles == {"member", "manager"}
OrgRows == [slug : Slugs, manager_id : Users \cup {NULL}]
InviteRows == [project : Projects, email : Users, invited_by : Users, role : Roles,
               status : {"pending", "accepted", "declined"}]
RequestRows == [pc : {"idle", "created", "inviting", "accepting", "looked", "granted", "declining"},
                user : Users \cup {NULL}, project : Projects \cup {NULL}, invite : Invites \cup {NULL},
                email : Users \cup {NULL}, role : Roles \cup {NULL}, saw : BOOLEAN]

\* SQL NULL is no row, no role and no state of an account.
ASSUME DirectoryRowAssumption == NULL \notin OrgRows \cup InviteRows \cup Roles \cup {"active", "inactive"}

RequestOf(pc, u, p, i, email, role) ==
    [pc |-> pc, user |-> u, project |-> p, invite |-> i, email |-> email, role |-> role, saw |-> FALSE]
NoRequest == RequestOf("idle", NULL, NULL, NULL, NULL, NULL)

DirectoryTypeOK ==
    /\ user \in [Users -> {"active", "inactive", NULL}]
    /\ org \in [Orgs -> OrgRows \cup {NULL}]
    /\ member \in [Orgs \X Users -> Roles \cup {NULL}]
    /\ language \subseteq Languages
    /\ project \in [Projects -> Languages \cup {NULL}]
    /\ access \in [Projects \X Users -> Roles \cup {NULL}]
    /\ orgAccess \subseteq Projects \X Orgs
    /\ invite \in [Invites -> InviteRows \cup {NULL}]
    /\ request \in [Requests -> RequestRows]
    /\ meddled \subseteq Projects
    /\ gave \cup mixed \subseteq Invites
    /\ doubled \subseteq Projects \X Users
    \* the foreign keys, and the unique constraint on slugs
    /\ \A o \in Orgs : org[o] # NULL /\ org[o].manager_id # NULL => user[org[o].manager_id] # NULL
    /\ \A o \in Orgs, u \in Users : member[<<o, u>>] # NULL => org[o] # NULL /\ user[u] # NULL
    /\ \A p \in Projects : project[p] # NULL => project[p] \in language
    /\ \A p \in Projects, u \in Users : access[<<p, u>>] # NULL => project[p] # NULL /\ user[u] # NULL
    /\ \A x \in orgAccess : project[x[1]] # NULL /\ org[x[2]] # NULL
    /\ \A i \in Invites : invite[i] # NULL => user[invite[i].invited_by] # NULL
    /\ \A o, q \in Orgs : org[o] # NULL /\ org[q] # NULL /\ org[o].slug = org[q].slug => o = q

\* Accounts are those there at first: one that is deleted does not come back, and whoever signs
\* up again has another.
DirectoryInit ==
    /\ user \in [Users -> {"active", "inactive", NULL}]
    /\ org = [o \in Orgs |-> NULL]
    /\ member = [x \in Orgs \X Users |-> NULL]
    /\ language \in SUBSET Languages
    /\ project = [p \in Projects |-> NULL]
    /\ access = [x \in Projects \X Users |-> NULL]
    /\ orgAccess = {}
    /\ invite = [i \in Invites |-> NULL]
    /\ request = [r \in Requests |-> NoRequest]
    /\ meddled = {} /\ gave = {} /\ mixed = {} /\ doubled = {}

Active(u) == user[u] = "active"
Idle(r) == request[r] = NoRequest
End(r) == request' = [request EXCEPT ![r] = NoRequest]

-----------------------------------------------------------------------------
(* What is read. *)

\* can_access_project: an access of one's own, or one of an organization one is a member of.
CanAccess(u, p) ==
    \/ access[<<p, u>>] # NULL
    \/ \E o \in Orgs : <<p, o>> \in orgAccess /\ member[<<o, u>>] # NULL

\* assert_project_access
MayOpen(u, p) == u \in Admins \/ CanAccess(u, p)

\* require_project_access, the rule of the Oral Collector
MayCollect(u, p) ==
    LET UserOrgs == {o \in Orgs : member[<<o, u>>] # NULL}
    IN  \/ u \in Admins
        \/ access[<<p, u>>] # NULL
        \/ \E x \in orgAccess : x[1] = p /\ x[2] \in UserOrgs

\* require_project_manager
Manages(u, p) == u \in Admins \/ access[<<p, u>>] = "manager"

\* Mutant: what comes with an organization is not listed.
AccessibleTo_Direct(u) == {p \in Projects : access[<<p, u>>] # NULL}

AccessibleTo(u) ==
    LET Direct == {p \in Projects : access[<<p, u>>] # NULL}
        UserOrgs == {o \in Orgs : member[<<o, u>>] # NULL}
    IN  {p \in Projects : project[p] # NULL} \cap
        (Direct \cup {x[1] : x \in {y \in orgAccess : y[2] \in UserOrgs}})

ManagedOrgs(u) ==
    {o \in Orgs : member[<<o, u>>] = "manager"} \cup {o \in Orgs : org[o] # NULL /\ org[o].manager_id = u}

OfOrganizations(os) == {x[1] : x \in {y \in orgAccess : y[2] \in os}}

\* list_projects_for_user without an organization asked for
ListedFor(u) ==
    IF u \in Admins THEN {p \in Projects : project[p] # NULL}
    ELSE IF ManagedOrgs(u) # {} THEN OfOrganizations(ManagedOrgs(u))
    ELSE AccessibleTo(u)

\* list_user_projects of the Oral Collector
CollectedBy(u) ==
    {p \in Projects :
        /\ project[p] # NULL
        /\ \/ p \in {q \in Projects : access[<<q, u>>] # NULL}
           \/ \E o \in {q \in Orgs : member[<<q, u>>] # NULL} : <<p, o>> \in orgAccess}

\* get_organization_stats
Stats(o) ==
    [project_count |-> Cardinality({x \in orgAccess : x[2] = o}),
     member_count |-> Cardinality({u \in Users : member[<<o, u>>] # NULL}),
     language_count |-> Cardinality({project[x[1]] : x \in {y \in orgAccess : y[2] = o}})]

-----------------------------------------------------------------------------
(* Organizations.  Everyone signed in may create them and add members. *)

SlugIsFree(slug, except) == \A o \in Orgs \ {except} : org[o] # NULL => org[o].slug # slug

CreateOrganization ==
    /\ \E o \in Orgs, slug \in Slugs, u \in Users \cup {NULL} :
          /\ org[o] = NULL
          /\ SlugIsFree(slug, o)
          /\ u # NULL => user[u] # NULL
          /\ org' = [org EXCEPT ![o] = [slug |-> slug, manager_id |-> u]]
    /\ UNCHANGED <<people, member, projects, request, meddled, invitations>>

\* A manager is replaced, never cleared.
UpdateOrganization ==
    /\ \E o \in {q \in Orgs : org[q] # NULL}, slug \in Slugs, u \in Users :
          /\ SlugIsFree(slug, o)
          /\ user[u] # NULL
          /\ org' \in {[org EXCEPT ![o].slug = slug], [org EXCEPT ![o].manager_id = u]}
    /\ UNCHANGED <<people, member, projects, request, meddled, invitations>>

AddMember ==
    /\ \E o \in Orgs, u \in Users, role \in Roles :
          /\ org[o] # NULL /\ user[u] # NULL
          /\ member[<<o, u>>] = NULL
          /\ member' = [member EXCEPT ![<<o, u>>] = role]
    /\ UNCHANGED <<people, org, projects, request, meddled, invitations>>

RemoveMember ==
    /\ \E o \in Orgs, u \in Users :
          /\ member[<<o, u>>] # NULL
          /\ member' = [member EXCEPT ![<<o, u>>] = NULL]
    /\ UNCHANGED <<people, org, projects, request, meddled, invitations>>

UpdateMemberRole ==
    /\ \E o \in Orgs, u \in Users, role \in Roles :
          /\ member[<<o, u>>] # NULL
          /\ member' = [member EXCEPT ![<<o, u>>] = role]
    /\ UNCHANGED <<people, org, projects, request, meddled, invitations>>

OrganizationSteps == CreateOrganization \/ UpdateOrganization \/ AddMember \/ RemoveMember \/ UpdateMemberRole

-----------------------------------------------------------------------------
(* Projects. *)

CreateLanguage ==
    /\ \E l \in Languages \ language : language' = language \cup {l}
    /\ UNCHANGED <<user, organizations, projects, request, meddled, invitations>>

\* create_project commits the project; its creator becomes its manager in a second commit.
CreateProject(r) ==
    /\ Idle(r)
    /\ \E p \in Projects, u \in Users, l \in language :
          /\ project[p] = NULL /\ Active(u)
          /\ project' = [project EXCEPT ![p] = l]
          /\ request' = [request EXCEPT ![r] = RequestOf("created", u, p, NULL, NULL, NULL)]
    /\ UNCHANGED <<people, organizations, access, orgAccess, meddled, invitations>>

\* grant_user_access keeps an access that is there, whatever its role.
Granted(p, u, role) == IF access[<<p, u>>] # NULL THEN access ELSE [access EXCEPT ![<<p, u>>] = role]

\* Mutant: the creator is given the role of the column's default.
MakeManager_Member(r) ==
    LET p == request[r].project
        u == request[r].user
    IN  /\ request[r].pc = "created"
        /\ user[u] # NULL
        /\ access' = Granted(p, u, "member")
        /\ End(r)
        /\ UNCHANGED <<people, organizations, project, orgAccess, meddled, invitations>>

MakeManager(r) ==
    LET p == request[r].project
        u == request[r].user
    IN  /\ request[r].pc = "created"
        /\ user[u] # NULL
        /\ access' = Granted(p, u, "manager")
        /\ End(r)
        /\ UNCHANGED <<people, organizations, project, orgAccess, meddled, invitations>>

UpdateProject ==
    /\ \E u \in Users, p \in Projects, l \in language :
          /\ Active(u) /\ project[p] # NULL /\ MayOpen(u, p)
          /\ project' = [project EXCEPT ![p] = l]
    /\ UNCHANGED <<people, organizations, access, orgAccess, request, meddled, invitations>>

BeingCreated(p) == \E r \in Requests : request[r].pc = "created" /\ request[r].project = p

GrantUserAccess ==
    /\ \E by, u \in Users, p \in Projects, role \in Roles :
          /\ Active(by) /\ project[p] # NULL /\ MayOpen(by, p)
          /\ user[u] # NULL
          /\ access' = Granted(p, u, role)
          /\ meddled' = meddled \cup {q \in {p} : BeingCreated(q)}
    /\ UNCHANGED <<people, organizations, project, orgAccess, request, invitations>>

GrantOrganizationAccess ==
    /\ \E by \in Users, p \in Projects, o \in Orgs :
          /\ Active(by) /\ project[p] # NULL /\ MayOpen(by, p)
          /\ org[o] # NULL
          /\ orgAccess' = orgAccess \cup {<<p, o>>}
    /\ UNCHANGED <<people, organizations, project, access, request, meddled, invitations>>

UpdateUserAccessRole ==
    /\ \E by, u \in Users, p \in Projects, role \in Roles :
          /\ Active(by) /\ MayOpen(by, p)
          /\ access[<<p, u>>] # NULL
          /\ access' = [access EXCEPT ![<<p, u>>] = role]
          /\ meddled' = meddled \cup {p}
    /\ UNCHANGED <<people, organizations, project, orgAccess, request, invitations>>

RevokeUserAccess ==
    /\ \E by, u \in Users, p \in Projects :
          /\ Active(by) /\ MayOpen(by, p)
          /\ access[<<p, u>>] # NULL
          /\ access' = [access EXCEPT ![<<p, u>>] = NULL]
          /\ meddled' = meddled \cup {p}
    /\ UNCHANGED <<people, organizations, project, orgAccess, request, invitations>>

RevokeOrganizationAccess ==
    /\ \E by \in Users, x \in orgAccess :
          /\ Active(by) /\ MayOpen(by, x[1])
          /\ orgAccess' = orgAccess \ {x}
    /\ UNCHANGED <<people, organizations, project, access, request, meddled, invitations>>

ProjectSteps == CreateLanguage \/ UpdateProject \/ \E r \in Requests : CreateProject(r) \/ MakeManager(r)

AccessSteps == \/ GrantUserAccess \/ GrantOrganizationAccess \/ UpdateUserAccessRole
               \/ RevokeUserAccess \/ RevokeOrganizationAccess

-----------------------------------------------------------------------------
(* Invitations to projects. *)

Pending(p, email) == {i \in Invites : /\ invite[i] # NULL /\ invite[i].status = "pending"
                                      /\ invite[i].project = p /\ invite[i].email = email}

Asking(p, email) == {r \in Requests : /\ request[r].pc = "inviting"
                                      /\ request[r].project = p /\ request[r].email = email}

\* The invitation pending is looked for; there is no constraint behind the look.
BeginInvite(r) ==
    /\ Idle(r)
    /\ \E by, email \in Users, p \in Projects, role \in Roles :
          /\ Active(by) /\ project[p] # NULL /\ Manages(by, p)
          /\ Active(email)
          /\ Cardinality(Pending(p, email)) < 2    \* else scalar_one_or_none raises
          /\ \E found \in IF Pending(p, email) = {} THEN {NULL} ELSE Pending(p, email) :
                request' = [request EXCEPT ![r] = RequestOf("inviting", by, p, found, email, role)]
          /\ doubled' = doubled \cup {x \in {<<p, email>>} : Asking(p, email) # {}}
    /\ UNCHANGED <<people, organizations, projects, meddled, invite, gave, mixed>>

NewInvite(q) == [project |-> q.project, email |-> q.email, invited_by |-> q.user, role |-> q.role,
                 status |-> "pending"]

Renewed(row, q) == [row EXCEPT !.role = q.role, !.invited_by = q.user]

FreshInvites == {i \in Invites : invite[i] = NULL /\ \A r \in Requests : request[r].invite # i}

\* Mutant: an invitation that was found is not renewed but followed by another.
CommitInvite_Another(r) ==
    LET q == request[r]
    IN  /\ q.pc = "inviting"
        /\ user[q.user] # NULL
        /\ \E i \in FreshInvites : invite' = [invite EXCEPT ![i] = NewInvite(q)]
        /\ End(r)
        /\ UNCHANGED <<people, organizations, projects, meddled, gave, mixed, doubled>>

\* The inviter's account may be gone, and with it the invitation found.
CommitInvite(r) ==
    LET q == request[r]
    IN  /\ q.pc = "inviting"
        /\ user[q.user] # NULL
        /\ IF q.invite = NULL
             THEN \E i \in FreshInvites : invite' = [invite EXCEPT ![i] = NewInvite(q)]
             ELSE /\ invite[q.invite] # NULL
                  /\ invite' = [invite EXCEPT ![q.invite] = Renewed(@, q)]
        /\ End(r)
        /\ UNCHANGED <<people, organizations, projects, meddled, gave, mixed, doubled>>

\* Mutant: an invitation that was answered may be answered again.
MayAnswer_Again(u, i) == invite[i] # NULL /\ invite[i].email = u

\* _get_invite_for_user
MayAnswer(u, i) == invite[i] # NULL /\ invite[i].email = u /\ invite[i].status = "pending"

Answering(i) == {r \in Requests : request[r].invite = i
                                  /\ request[r].pc \in {"accepting", "looked", "granted", "declining"}}

BeginAnswer(r, pc) ==
    /\ Idle(r)
    /\ \E u \in Users, i \in Invites :
          /\ Active(u) /\ MayAnswer(u, i)
          /\ request' = [request EXCEPT ![r] =
                            RequestOf(pc, u, invite[i].project, i, NULL, invite[i].role)]
          /\ mixed' = mixed \cup {j \in {i} : Answering(j) # {}}
    /\ UNCHANGED <<people, organizations, projects, meddled, invite, gave, doubled>>

BeginAccept(r) == BeginAnswer(r, "accepting")
BeginDecline(r) == BeginAnswer(r, "declining")

Looked(q, saw) == [q EXCEPT !.pc = "looked", !.saw = saw]

LookForAccess(r) ==
    /\ request[r].pc = "accepting"
    /\ request' = [request EXCEPT ![r] = Looked(@, access[<<request[r].project, request[r].user>>] # NULL)]
    /\ UNCHANGED <<people, organizations, projects, meddled, invitations>>

\* Mutant: an invitation to manage makes a manager of a member.
GrantInvited_Upgrades(r) ==
    LET q == request[r]
    IN  /\ q.pc = "looked"
        /\ \/ /\ q.saw
              /\ access' = IF q.role = "manager" /\ access[<<q.project, q.user>>] # NULL
                             THEN [access EXCEPT ![<<q.project, q.user>>] = q.role] ELSE access
           \/ /\ ~q.saw /\ access[<<q.project, q.user>>] = NULL /\ user[q.user] # NULL
              /\ access' = [access EXCEPT ![<<q.project, q.user>>] = q.role]
        /\ request' = [request EXCEPT ![r].pc = "granted"]
        /\ gave' = gave \cup {q.invite}
        /\ meddled' = meddled \cup {p \in {q.project} : BeingCreated(p)}
        /\ UNCHANGED <<people, organizations, project, orgAccess, invite, mixed, doubled>>

\* What grant_user_access commits; an access made since, or an account gone, fails the insert.
GrantInvited(r) ==
    LET q == request[r]
    IN  /\ q.pc = "looked"
        /\ \/ /\ q.saw
              /\ UNCHANGED access
           \/ /\ ~q.saw /\ access[<<q.project, q.user>>] = NULL /\ user[q.user] # NULL
              /\ access' = [access EXCEPT ![<<q.project, q.user>>] = q.role]
        /\ request' = [request EXCEPT ![r].pc = "granted"]
        /\ gave' = gave \cup {q.invite}
        /\ meddled' = meddled \cup {p \in {q.project} : BeingCreated(p)}
        /\ UNCHANGED <<people, organizations, project, orgAccess, invite, mixed, doubled>>

Answered(r, status) ==
    /\ invite[request[r].invite] # NULL
    /\ invite' = [invite EXCEPT ![request[r].invite].status = status]
    /\ End(r)
    /\ UNCHANGED <<people, organizations, projects, meddled, gave, mixed, doubled>>

CommitAccept(r) == request[r].pc = "granted" /\ Answered(r, "accepted")
CommitDecline(r) == request[r].pc = "declining" /\ Answered(r, "declined")

\* A statement fails, or the server goes down: what is committed stays.
Stops(r) ==
    LET q == request[r]
    IN  /\ ~Idle(r)
        /\ End(r)
        /\ meddled' = meddled \cup IF q.pc = "created" THEN {q.project} ELSE {}
        /\ mixed' = mixed \cup IF q.pc \in {"looked", "granted"} THEN {q.invite} ELSE {}
        /\ UNCHANGED <<people, organizations, projects, invite, gave, doubled>>

InviteSteps == \E r \in Requests :
    \/ BeginInvite(r) \/ CommitInvite(r)
    \/ BeginAccept(r) \/ LookForAccess(r) \/ GrantInvited(r) \/ CommitAccept(r)
    \/ BeginDecline(r) \/ CommitDecline(r)

-----------------------------------------------------------------------------
(* Accounts, as far as they matter here. *)

Deactivate ==
    /\ \E u \in Users : Active(u) /\ user' = [user EXCEPT ![u] = "inactive"]
    /\ UNCHANGED <<language, organizations, projects, request, meddled, invitations>>

\* Mutant: the manager of an organization is not cleared.
DeleteUser_ManagerStays ==
    /\ \E u \in Users :
          /\ user[u] # NULL
          /\ user' = [user EXCEPT ![u] = NULL]
          /\ member' = [x \in Orgs \X Users |-> IF x[2] = u THEN NULL ELSE member[x]]
          /\ access' = [x \in Projects \X Users |-> IF x[2] = u THEN NULL ELSE access[x]]
          /\ meddled' = meddled \cup {p \in Projects : access[<<p, u>>] # NULL}
          /\ invite' = [i \in Invites |-> IF invite[i] # NULL /\ invite[i].invited_by = u
                                          THEN NULL ELSE invite[i]]
          /\ LET gone == {i \in Invites : invite[i] # NULL /\ invite[i].invited_by = u}
             IN  gave' = gave \ gone /\ mixed' = mixed \ gone
    /\ UNCHANGED <<org, language, project, orgAccess, request, doubled>>

\* What the foreign keys do when an account is deleted.
DeleteUser ==
    /\ \E u \in Users :
          /\ user[u] # NULL
          /\ user' = [user EXCEPT ![u] = NULL]
          /\ org' = [o \in Orgs |-> IF org[o] = NULL \/ org[o].manager_id # u THEN org[o]
                                    ELSE [org[o] EXCEPT !.manager_id = NULL]]
          /\ member' = [x \in Orgs \X Users |-> IF x[2] = u THEN NULL ELSE member[x]]
          /\ access' = [x \in Projects \X Users |-> IF x[2] = u THEN NULL ELSE access[x]]
          /\ meddled' = meddled \cup {p \in Projects : access[<<p, u>>] # NULL}
          /\ invite' = [i \in Invites |-> IF invite[i] # NULL /\ invite[i].invited_by = u
                                          THEN NULL ELSE invite[i]]
          /\ LET gone == {i \in Invites : invite[i] # NULL /\ invite[i].invited_by = u}
             IN  gave' = gave \ gone /\ mixed' = mixed \ gone
    /\ UNCHANGED <<language, project, orgAccess, request, doubled>>

DirectoryNext ==
    \/ OrganizationSteps \/ ProjectSteps \/ AccessSteps \/ InviteSteps
    \/ Deactivate \/ DeleteUser \/ \E r \in Requests : Stops(r)

DirectorySpec == DirectoryInit /\ [][DirectoryNext]_directoryVars

-----------------------------------------------------------------------------
(* Properties. *)

\* Who manages no organization is listed exactly the projects they can open, in either of the two
\* lists and by either of the two rules; an organization's statistics count the projects listed
\* for it (project/list_projects_for_user.py, project/can_access_project.py, require_access.py).
ListedCanBeOpened ==
    /\ \A u \in Users \ Admins :
          /\ CollectedBy(u) = {p \in Projects : MayCollect(u, p)}
          /\ CollectedBy(u) = {p \in Projects : MayOpen(u, p)}
          /\ ManagedOrgs(u) = {} => ListedFor(u) = CollectedBy(u)
    /\ \A o \in Orgs : /\ Stats(o).project_count = Cardinality(OfOrganizations({o}))
                       /\ Stats(o).language_count <= Stats(o).project_count

\* A project has a manager, unless its creation stopped between its two commits, or somebody
\* changed who its managers are (project/create_project.py:26).
ProjectsHaveManagers ==
    \A p \in Projects : project[p] # NULL /\ p \notin meddled /\ ~BeingCreated(p) =>
        \E u \in Users : access[<<p, u>>] = "manager"

\* An access changes its role only at the request to change it: neither an invitation nor a
\* second grant makes of a manager a member (project/grant_user_access.py, invite_service.py:74).
InvitedKeepTheirRole ==
    [][\A p \in Projects, u \in Users :
          access[<<p, u>>] # NULL /\ access'[<<p, u>>] # NULL /\ access'[<<p, u>>] # access[<<p, u>>] =>
             UpdateUserAccessRole]_directoryVars

\* At most one invitation of an address to a project is pending, unless two were sent at a time
\* (invite_service.py:31).
OnePendingInvite ==
    \A p \in Projects, u \in Users :
        <<p, u>> \in doubled \/ Cardinality(Pending(p, u)) <= 1

\* An invitation that says it was accepted gave its user an access, or found one there, in
\* whatever role, wherever the request that accepted it stopped; one that says it was declined
\* gave none, unless another answer to it was under way or stopped half way
\* (invite_service.py:74).
AnswersAreTrue ==
    \A i \in Invites : invite[i] # NULL =>
        /\ invite[i].status = "accepted" => i \in gave
        /\ invite[i].status = "declined" => i \notin gave \/ i \in mixed

\* Who may do what is what was decided: lists show what can be opened, projects are managed,
\* invitations tell what became of them, and nobody's role changes by an invitation
\* (can_access_project.py, create_project.py:26, invite_service.py:74).
AccessIsAsDecided ==
    /\ [](DirectoryTypeOK /\ ListedCanBeOpened /\ ProjectsHaveManagers
          /\ OnePendingInvite /\ AnswersAreTrue)
    /\ InvitedKeepTheirRole

=============================================================================
