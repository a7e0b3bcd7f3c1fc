----------------------------- MODULE MCDirectory -----------------------------
(***************************************************************************)
(* Directory, Phases and Catalogue in parts that have one state to say it  *)
(* in: organizations, projects and invitations of the directory, phases,   *)
(* and the classes, genres, storytellers, titles and counts of the         *)
(* catalogue.  A behaviour is of one part, picked at the start.            *)
(***************************************************************************)
EXTENDS Directory, Phases, Catalogue, TLC

CONSTANTS ana, ben, root, o1, p1, p2, x, y, k1, i1, r1, r2, t1, t2, g1, g2, a1, title

VARIABLES part, begun

vars == <<directoryVars, phaseVars, catalogueVars, part, begun>>

OfDirectory == {"organizations", "projects", "invitations"}
OfCatalogue == {"classes", "genres", "tellers", "titles", "counts"}

\* Who acts in a part, and the projects that are there at first, with ana for a manager.
MCPeople == CASE part = "organizations" -> {ana, ben} [] part = "projects" -> {ana, root}
              [] part = "invitations" -> {ana, ben} [] OTHER -> {}
MCProjects == CASE part = "organizations" -> {p1, p2} [] part = "invitations" -> {p1} [] OTHER -> {}

MCInvite == [project |-> p1, email |-> ben, invited_by |-> ana, role |-> "member", status |-> "pending"]

InitDirectory ==
    /\ user = [u \in Users |-> IF u \in MCPeople THEN "active" ELSE NULL]
    /\ org = [o \in Orgs |-> IF o = o1 /\ part # "invitations" THEN [slug |-> x, manager_id |-> NULL] ELSE NULL]
    /\ member = [z \in Orgs \X Users |-> IF z = <<o1, ana>> /\ part = "projects" THEN "member" ELSE NULL]
    /\ language = {k1}
    /\ project = [p \in Projects |-> IF p \in MCProjects THEN k1 ELSE NULL]
    /\ access = [z \in Projects \X Users |-> IF z = <<p1, ana>> /\ p1 \in MCProjects THEN "manager" ELSE NULL]
    /\ orgAccess = {}
    /\ invite \in IF part # "invitations" THEN {[i \in Invites |-> NULL]}
                  ELSE {[i \in Invites |-> NULL], [i \in Invites |-> IF i = i1 THEN MCInvite ELSE NULL]}
    /\ request = [r \in Requests |-> NoRequest]
    /\ meddled = {p2} \cap MCProjects
    /\ gave = {} /\ mixed = {} /\ doubled = {}

MCRow(r) ==
    CASE part = "classes" -> [genre |-> g1, register |-> NULL, genre2 |-> NULL, register2 |-> NULL,
                              enough |-> TRUE, teller |-> NULL, title |-> NULL]
      [] part = "tellers" -> [genre |-> g1, register |-> a1, genre2 |-> NULL, register2 |-> NULL,
                              enough |-> FALSE, teller |-> NULL, title |-> NULL]
      [] OTHER -> [genre |-> g1, register |-> a1, genre2 |-> NULL, register2 |-> NULL,
                   enough |-> FALSE, teller |-> NULL, title |-> title]

\* A recording, which may be what is left of a split whose segments were deleted.
InitCatalogue ==
    /\ genre = [g \in AllGenres |-> IF g = g2 THEN NULL ELSE "active"]
    /\ teller = [t \in Tellers |-> IF part = "tellers" /\ t = t1 THEN [here |-> TRUE, by |-> ana] ELSE NULL]
    /\ \E status \in IF part \in {"titles", "counts"} THEN {"active", "archived"} ELSE {"active"} :
          recording = [r \in Recordings |-> IF r = r1 /\ part \in OfCatalogue
                                            THEN NewRow(MCRow(r), status, FALSE) ELSE NULL]
    /\ update = [u \in Updates |-> NoUpdate]
    /\ counted = NULL
    /\ born = IF part \in OfCatalogue THEN {r1} \cup IF part = "tellers" THEN {t1} ELSE {} ELSE {}
    /\ raced = {}

Init ==
    /\ part \in OfDirectory \cup {"phases"} \cup OfCatalogue
    /\ InitDirectory /\ PhasesInit /\ InitCatalogue
    /\ begun = 0

\* What a part's requests give of a recording, one field at a time.
MCFields == CASE part = "classes" -> {"genre", "register", "genre2", "register2"}
              [] part = "genres" -> {"genre"}
              [] part = "tellers" -> {"enough", "teller"} [] part = "titles" -> {"title"}
              [] OTHER -> {"enough", "register"}
MCValues == [genre |-> {g1, Unclassified}, register |-> Registers \cup {NULL}, genre2 |-> {g1, NULL},
             register2 |-> Registers \cup {NULL}, enough |-> {TRUE}, teller |-> Tellers \cup {NULL},
             title |-> Titles \cup {NULL}]

DirectorySteps ==
    \/ part = "organizations" /\ (OrganizationSteps \/ GrantOrganizationAccess \/ RevokeOrganizationAccess)
    \/ part = "projects" /\ (ProjectSteps \/ AccessSteps)
    \/ part = "invitations" /\ (InviteSteps \/ UpdateUserAccessRole \/ RevokeUserAccess \/ Deactivate)
    \/ part \in OfDirectory /\ (DeleteUser \/ \E r \in Requests : Stops(r))

CatalogueSteps ==
    \/ \E u \in Updates :
          \/ \E f \in MCFields, r \in Recordings : \E z \in MCValues[f] :
                recording[r] # NULL /\ BeginUpdate(u, r, [recording[r] EXCEPT ![f] = z])
          \/ CommitUpdate(u) \/ Fails(u)
          \/ \E f \in MCFields : \E z \in MCValues[f] : BeginCreate(u, [MCRow(r1) EXCEPT !.enough = TRUE, ![f] = z])
          \/ CommitCreate(u)
          \/ BeginSplit(u) \/ CommitSplit(u) \/ SendSplit(u) \/ CommitSegment(u) \/ ArchiveParent(u)
          \/ EndSplit(u) \/ SplitFails(u)
          \/ part = "tellers" /\ (BeginRemove(u) \/ CommitRemove(u))
          \/ part = "counts" /\ (BeginCount(u) \/ FinishCount(u))
    \/ part \in {"titles", "counts"} /\ (DeleteRecording \/ Verified)
    \/ part = "tellers" /\ CreateTeller
    \/ part = "genres" /\ (CreateGenre \/ UpdateGenre \/ DeleteGenre)

\* Bound: the requests of several steps that a behaviour begins.
MaxBegun == [organizations |-> 0, projects |-> 2, invitations |-> 3, phases |-> 0,
             classes |-> 3, genres |-> 2, tellers |-> 3, titles |-> 4, counts |-> 3]
\* Bound: the dependencies there are at a time.
MaxDependencies == 2

Begun == Cardinality({r \in Requests : request[r] = NoRequest /\ request'[r] # NoRequest})
         + Cardinality({u \in Updates : update[u] = NoUpdate /\ update'[u] # NoUpdate})

Next ==
    /\ UNCHANGED part
    /\ \/ DirectorySteps /\ UNCHANGED <<phaseVars, catalogueVars>>
       \/ part = "phases" /\ PhaseSteps /\ UNCHANGED <<directoryVars, catalogueVars>>
       \/ part \in OfCatalogue /\ CatalogueSteps /\ UNCHANGED <<directoryVars, phaseVars>>
    /\ begun' = begun + Begun
    /\ begun' <= MaxBegun[part]
    /\ Cardinality(dependency') <= MaxDependencies

Spec == Init /\ [][Next]_vars

\* Nothing tells two requests apart: no constant names one, and no property is about one.
Symmetry == Permutations(Requests) \cup Permutations(Updates)

=============================================================================
