----------------------------- MODULE MeaningMap -----------------------------
(***************************************************************************)
(* The meaning maps of a book's pericopes: generation, editing under a     *)
(* lock, cross-check by a second reader, approval, feedback, the cache of  *)
(* translations, and the notifications the analyst and the readers get.    *)
(*                                                                         *)
(* Every handler loads the row, decides on what it loaded, and flushes at  *)
(* its commit the columns whose value differs from the loaded one.  A      *)
(* generation, a translation and the back-translation of an edit wait for  *)
(* a language model in between; the others wait for the database only.     *)
(* A notification is filed in a commit of its own after the change it is   *)
(* about.                                                                  *)
(*                                                                         *)
(* A text is the number of the write that made it, and a translation is    *)
(* the text it was made from.                                              *)
(***************************************************************************)
EXTENDS Naturals, FiniteSets

CONSTANTS
    Maps,            \* ids of meaning maps
    Pericopes,       \* the pericopes of one enabled book
    Chapters,        \* the chapters each pericope spans
    Users,           \* accounts with access to the application
    Analysts,        \* those with the analyst role
    PlatformAdmins,  \* those who are platform administrators
    Languages,       \* languages a map is translated to
    FeedbackIds,     \* ids of feedback rows
    Requests,        \* requests in flight at a time
    NULL,            \* SQL NULL, no row
    MaxRequests      \* bound on the requests begun

ASSUME MeaningMapAssumption ==
    /\ Chapters \in [Pericopes -> SUBSET Nat]
    /\ Analysts \subseteq Users
    /\ PlatformAdmins \subseteq Users
    /\ NULL \notin Users \cup Maps \cup Pericopes \cup FeedbackIds
    /\ MaxRequests \in Nat
    /\ IsFiniteSet(Pericopes) /\ IsFiniteSet(Maps)

VARIABLES
    map,         \* meaning_maps
    drawn,       \* the ids ever given to a map, which are not drawn again
    feedback,    \* meaning_map_feedback
    notices,     \* notifications
    req,         \* the requests in flight
    begun,       \* history: requests begun, the number of the last one
    verdicts,    \* history: the approvals and returns committed
    crossed,     \* history: maps with an edit and a translation that overlapped
    died         \* history: a process stopped owing a notification

vars == <<map, drawn, feedback, notices, req, begun, verdicts, crossed, died>>

MeaningMapStatus == {"draft", "cross_check", "approved"}

\* None, or for each language the text its cached translation was made from.
Translations == {NULL} \cup [Languages -> Nat \cup {NULL}]

Rows == [pericope : Pericopes, analyst : Users, status : MeaningMapStatus,
         locked_by : Users \cup {NULL}, approved_by : Users \cup {NULL},
         data : Nat, translations : Translations]

FeedbackRows == [meaning_map : Maps, author : Users, resolved : BOOLEAN]

\* SQL NULL is no row.
ASSUME RowAssumption == NULL \notin Rows \cup FeedbackRows

Verdict == {"approve", "return"}
Ops == Verdict \cup {"submit", "lock", "unlock", "edit", "delete", "translate",
                     "feedback", "resolve", "generate"}

Notices == [n : Nat, user : Users, event : Verdict \cup {"feedback", "resolve"},
            actor : Users, related_map : Maps \cup {NULL}, is_read : BOOLEAN]

IdleRequest == [pc |-> "idle", op |-> "none", user |-> NULL, map |-> NULL, n |-> 0,
                loaded |-> NULL, arg |-> NULL]

MapTypeOK ==
    /\ map \in [Maps -> Rows \cup {NULL}]
    /\ drawn \subseteq Maps
    /\ feedback \in [FeedbackIds -> FeedbackRows \cup {NULL}]
    /\ notices \subseteq Notices
    /\ req \in [Requests -> [pc : {"idle", "loaded", "owes"}, op : Ops \cup {"none"},
                             user : Users \cup {NULL}, map : Maps \cup {NULL}, n : Nat,
                             loaded : Rows \cup {NULL},
                             arg : Languages \cup FeedbackIds \cup Pericopes \cup {NULL}]]
    /\ begun \in Nat
    /\ verdicts \subseteq [n : Nat, event : Verdict, map : Maps]
    /\ crossed \subseteq Maps
    /\ died \in BOOLEAN
    \* the foreign keys of meaning_map_feedback and notification_meaning_map_details
    /\ \A f \in FeedbackIds : feedback[f] # NULL => map[feedback[f].meaning_map] # NULL
    /\ \A x \in notices : x.related_map # NULL => map[x.related_map] # NULL

NewMap(p, u, text) ==
    [pericope |-> p, analyst |-> u, status |-> "draft", locked_by |-> NULL,
     approved_by |-> NULL, data |-> text, translations |-> NULL]

Init ==
    /\ map = [m \in Maps |-> NULL]
    /\ drawn = {}
    /\ feedback = [f \in FeedbackIds |-> NULL]
    /\ notices = {}
    /\ req = [r \in Requests |-> IdleRequest]
    /\ begun = 0
    /\ verdicts = {}
    /\ crossed = {}
    /\ died = FALSE

-----------------------------------------------------------------------------
(* Decisions on the loaded row.                                            *)

Free(row, u) == row.locked_by \in {NULL, u}

\* VALID_TRANSITIONS: the status each transition starts from and leads to.
From(op) == IF op = "submit" THEN "draft" ELSE "cross_check"
To(op) == CASE op = "submit" -> "cross_check" [] op = "approve" -> "approved" [] op = "return" -> "draft"

MayTransition_OwnMap(op, u, row) == row.status = From(op) /\ Free(row, u)

MayTransition(op, u, row) ==
    /\ row.status = From(op)
    /\ Free(row, u)
    /\ op \in Verdict => row.analyst # u

MayEdit_Approved(u, row) == Free(row, u)

MayEdit(u, row) == Free(row, u) /\ row.status # "approved"

MayLock(u, row) == Free(row, u) /\ row.status # "approved"

MayUnlock(u, row) == row.locked_by # NULL /\ (row.locked_by = u \/ u \in PlatformAdmins)

\* A lock held by somebody else does not stand in the way.
MayDelete(u, row) == row.status = "draft" /\ row.analyst = u

MayGiveFeedback(u, row) == row.status = "cross_check" /\ Free(row, u)

\* The translation asked for is not in the cache.
Cached(row) == IF row.translations = NULL THEN [l \in Languages |-> NULL] ELSE row.translations
Untranslated(row, l) == Cached(row)[l] = NULL

Allowed(op, u, row) ==
    CASE op \in Verdict \cup {"submit"} -> MayTransition(op, u, row)
      [] op = "edit" -> MayEdit(u, row)
      [] op = "lock" -> MayLock(u, row)
      [] op = "unlock" -> MayUnlock(u, row)
      [] op = "delete" -> MayDelete(u, row)
      [] op = "feedback" -> MayGiveFeedback(u, row)

-----------------------------------------------------------------------------
(* A request begins: the row is loaded and decided upon.                   *)

Start(r, op, u, m, loaded, arg) ==
    /\ req[r] = IdleRequest
    /\ begun < MaxRequests
    /\ begun' = begun + 1
    /\ req' = [req EXCEPT ![r] = [pc |-> "loaded", op |-> op, user |-> u, map |-> m,
                                 n |-> begun + 1, loaded |-> loaded, arg |-> arg]]

\* The routes that ask for the analyst role; a refusal changes nothing.
Begin(r) ==
    /\ \E op \in {"submit", "approve", "return", "edit", "lock", "unlock", "delete", "feedback"},
           u \in Analysts, m \in Maps :
          /\ map[m] # NULL
          /\ Allowed(op, u, map[m])
          /\ Start(r, op, u, m, map[m], NULL)
          /\ crossed' = crossed \cup
                {k \in {m} : op = "edit" /\ \E q \in Requests : req[q].map = m /\ req[q].op = "translate"}
    /\ UNCHANGED <<map, drawn, feedback, notices, verdicts, died>>

\* translate_meaning_map, when the cache holds no translation.
BeginTranslate(r) ==
    /\ \E u \in Users, m \in Maps, l \in Languages :
          /\ map[m] # NULL
          /\ Untranslated(map[m], l)
          /\ Start(r, "translate", u, m, map[m], l)
          /\ crossed' = crossed \cup
                {k \in {m} : \E q \in Requests : req[q].map = m /\ req[q].op = "edit"}
    /\ UNCHANGED <<map, drawn, feedback, notices, verdicts, died>>

BeginResolve(r) ==
    /\ \E u \in Users, f \in FeedbackIds :
          /\ feedback[f] # NULL
          /\ Start(r, "resolve", u, feedback[f].meaning_map, NULL, f)
    /\ UNCHANGED <<map, drawn, feedback, notices, verdicts, crossed, died>>

BeginGenerate(r) ==
    /\ \E u \in Analysts, p \in Pericopes : Start(r, "generate", u, NULL, NULL, p)
    /\ UNCHANGED <<map, drawn, feedback, notices, verdicts, crossed, died>>

-----------------------------------------------------------------------------
(* A request commits.                                                      *)

Me(r) == req[r].map
User(r) == req[r].user
Loaded(r) == req[r].loaded
Is(r, op, pc) == req[r].op = op /\ req[r].pc = pc
End(r) == req' = [req EXCEPT ![r] = IdleRequest]
Owe(r) == req' = [req EXCEPT ![r].pc = "owes"]

\* What a flush makes of a row: the columns whose new value is not the loaded one.
Flush(cur, loaded, new) ==
    [f \in DOMAIN cur |-> IF new[f] = loaded[f] THEN cur[f] ELSE new[f]]

\* An UPDATE of a row that is gone matches nothing, and the request fails.
Write(r, new) ==
    map' = [map EXCEPT ![Me(r)] = IF @ = NULL THEN NULL ELSE Flush(@, Loaded(r), new)]

Transitioned(r, row) ==
    [row EXCEPT !.status = To(req[r].op), !.locked_by = NULL,
                !.approved_by = IF req[r].op = "approve" THEN User(r) ELSE @]

CommitSubmit(r) ==
    /\ Is(r, "submit", "loaded")
    /\ Write(r, Transitioned(r, Loaded(r)))
    /\ End(r)
    /\ UNCHANGED <<drawn, feedback, notices, begun, verdicts, crossed, died>>

CommitVerdict_NoNotice(r) ==
    /\ req[r].op \in Verdict
    /\ req[r].pc = "loaded"
    /\ Write(r, Transitioned(r, Loaded(r)))
    /\ verdicts' = IF map[Me(r)] = NULL THEN verdicts
                   ELSE verdicts \cup {[n |-> req[r].n, event |-> req[r].op, map |-> Me(r)]}
    /\ End(r)
    /\ UNCHANGED <<drawn, feedback, notices, begun, crossed, died>>

\* An approval or a return: the status first, then the notification is owed.
CommitVerdict(r) ==
    /\ req[r].op \in Verdict
    /\ req[r].pc = "loaded"
    /\ Write(r, Transitioned(r, Loaded(r)))
    /\ IF map[Me(r)] = NULL
       THEN End(r) /\ UNCHANGED verdicts
       ELSE /\ Owe(r)
            /\ verdicts' = verdicts \cup {[n |-> req[r].n, event |-> req[r].op, map |-> Me(r)]}
    /\ UNCHANGED <<drawn, feedback, notices, begun, crossed, died>>

CommitLock(r) ==
    /\ Is(r, "lock", "loaded")
    /\ Write(r, [Loaded(r) EXCEPT !.locked_by = User(r)])
    /\ End(r)
    /\ UNCHANGED <<drawn, feedback, notices, begun, verdicts, crossed, died>>

CommitUnlock(r) ==
    /\ Is(r, "unlock", "loaded")
    /\ Write(r, [Loaded(r) EXCEPT !.locked_by = NULL])
    /\ End(r)
    /\ UNCHANGED <<drawn, feedback, notices, begun, verdicts, crossed, died>>

CommitEdit_KeepTranslations(r) ==
    /\ Is(r, "edit", "loaded")
    /\ Write(r, [Loaded(r) EXCEPT !.data = req[r].n])
    /\ End(r)
    /\ UNCHANGED <<drawn, feedback, notices, begun, verdicts, crossed, died>>

\* The back-translation has come; a translation model that fails ends the request.
CommitEdit(r) ==
    /\ Is(r, "edit", "loaded")
    /\ Write(r, [Loaded(r) EXCEPT !.data = req[r].n, !.translations = NULL])
    /\ End(r)
    /\ UNCHANGED <<drawn, feedback, notices, begun, verdicts, crossed, died>>

\* The whole column is written back: what was cached at the load, and the new one.
CommitTranslate(r) ==
    /\ Is(r, "translate", "loaded")
    /\ Write(r, [Loaded(r) EXCEPT !.translations =
                  [Cached(Loaded(r)) EXCEPT ![req[r].arg] = Loaded(r).data]])
    /\ End(r)
    /\ UNCHANGED <<drawn, feedback, notices, begun, verdicts, crossed, died>>

CommitDelete_NoCascade(r) ==
    /\ Is(r, "delete", "loaded")
    /\ map' = [map EXCEPT ![Me(r)] = NULL]
    /\ notices' = {IF x.related_map = Me(r) THEN [x EXCEPT !.related_map = NULL] ELSE x : x \in notices}
    /\ End(r)
    /\ UNCHANGED <<drawn, feedback, begun, verdicts, crossed, died>>

\* The row goes, its feedback with it, and the notifications about it stay.
CommitDelete(r) ==
    /\ Is(r, "delete", "loaded")
    /\ map' = [map EXCEPT ![Me(r)] = NULL]
    /\ feedback' = [f \in FeedbackIds |->
          IF feedback[f] # NULL /\ feedback[f].meaning_map = Me(r) THEN NULL ELSE feedback[f]]
    /\ notices' = {IF x.related_map = Me(r) THEN [x EXCEPT !.related_map = NULL] ELSE x : x \in notices}
    /\ End(r)
    /\ UNCHANGED <<drawn, begun, verdicts, crossed, died>>

\* add_feedback: the foreign key refuses the row of a map that is gone.
CommitFeedback(r) ==
    /\ Is(r, "feedback", "loaded")
    /\ IF map[Me(r)] = NULL
       THEN End(r) /\ UNCHANGED feedback
       ELSE /\ \E f \in FeedbackIds :
                  /\ feedback[f] = NULL
                  /\ feedback' = [feedback EXCEPT ![f] =
                        [meaning_map |-> Me(r), author |-> User(r), resolved |-> FALSE]]
            /\ Owe(r)
    /\ UNCHANGED <<map, drawn, notices, begun, verdicts, crossed, died>>

\* resolve_feedback, by anyone with access: the author is told when it is another.
CommitResolve(r) ==
    /\ Is(r, "resolve", "loaded")
    /\ LET f == req[r].arg
       IN  IF feedback[f] = NULL
           THEN End(r) /\ UNCHANGED feedback
           ELSE /\ feedback' = [feedback EXCEPT ![f].resolved = TRUE]
                /\ IF feedback[f].author = User(r) THEN End(r) ELSE Owe(r)
    /\ UNCHANGED <<map, drawn, notices, begun, verdicts, crossed, died>>

\* create_meaning_map: nothing asks whether the pericope has a map already.
CommitGenerate(r) ==
    /\ Is(r, "generate", "loaded")
    /\ \E m \in Maps \ drawn :
          /\ map' = [map EXCEPT ![m] = NewMap(req[r].arg, User(r), req[r].n)]
          /\ drawn' = drawn \cup {m}
    /\ End(r)
    /\ UNCHANGED <<feedback, notices, begun, verdicts, crossed, died>>

\* A language model, or what it is asked about, fails: nothing has been written.
ModelFails(r) ==
    /\ req[r].pc = "loaded"
    /\ req[r].op \in {"generate", "edit", "translate"}
    /\ End(r)
    /\ UNCHANGED <<map, drawn, feedback, notices, begun, verdicts, crossed, died>>

-----------------------------------------------------------------------------
(* Notifications.                                                          *)

\* Who is told: the analyst of the map as it is now, or the author of the feedback.
Told(r) ==
    IF req[r].op = "resolve"
    THEN {feedback[f].author : f \in {g \in {req[r].arg} : feedback[g] # NULL}}
    ELSE {map[Me(r)].analyst} \ (IF req[r].op = "feedback" THEN {User(r)} ELSE {})

\* create_notification; the foreign key refuses one about a map that is gone.
FileNotice(r) ==
    /\ req[r].pc = "owes"
    /\ notices' = IF map[Me(r)] = NULL THEN notices
                  ELSE notices \cup {[n |-> req[r].n, user |-> u, event |-> req[r].op, actor |-> User(r),
                                      related_map |-> Me(r), is_read |-> FALSE] : u \in Told(r)}
    /\ End(r)
    /\ UNCHANGED <<map, drawn, feedback, begun, verdicts, crossed, died>>

MarkAsRead(u) ==
    /\ \E x \in notices :
          /\ x.user = u /\ ~x.is_read
          /\ notices' = (notices \ {x}) \cup {[x EXCEPT !.is_read = TRUE]}
    /\ UNCHANGED <<map, drawn, feedback, req, begun, verdicts, crossed, died>>

\* One UPDATE over the unread ones.
MarkAllAsRead(u) ==
    /\ \E x \in notices : x.user = u /\ ~x.is_read
    /\ notices' = {IF x.user = u THEN [x EXCEPT !.is_read = TRUE] ELSE x : x \in notices}
    /\ UNCHANGED <<map, drawn, feedback, req, begun, verdicts, crossed, died>>

\* The process stops: what has not been committed is lost.
Die(r) ==
    /\ req[r].pc = "owes"
    /\ End(r)
    /\ died' = TRUE
    /\ UNCHANGED <<map, drawn, feedback, notices, begun, verdicts, crossed>>

Begins(r) == Begin(r) \/ BeginTranslate(r) \/ BeginResolve(r) \/ BeginGenerate(r)

Commits(r) ==
    \/ CommitSubmit(r) \/ CommitVerdict(r) \/ CommitLock(r) \/ CommitUnlock(r)
    \/ CommitEdit(r) \/ CommitTranslate(r) \/ CommitDelete(r) \/ CommitFeedback(r)
    \/ CommitResolve(r) \/ CommitGenerate(r) \/ FileNotice(r)

Next ==
    \/ \E r \in Requests : Begins(r) \/ Commits(r) \/ ModelFails(r) \/ Die(r)
    \/ \E u \in Users : MarkAsRead(u) \/ MarkAllAsRead(u)

\* The event loop runs a handler that can run to its end.
Spec == Init /\ [][Next]_vars /\ \A r \in Requests : WF_vars(FileNotice(r))

-----------------------------------------------------------------------------
(* The views.                                                              *)

Of(p) == {m \in Maps : map[m] # NULL /\ map[m].pericope = p}
With(p, s) == {m \in Of(p) : map[m].status = s}

\* get_dashboard_summary: pericopes, each counted once under every status it has a map in.
Dashboard(s) == {p \in Pericopes : With(p, s) # {}}
Unstarted == {p \in Pericopes : Of(p) = {}}

Joined_Inner == {x \in Pericopes \X Maps : x[2] \in Of(x[1])}

\* The rows of pericopes outer-joined with their maps; NULL stands for no map.
Joined == {x \in Pericopes \X Maps : x[2] \in Of(x[1])}
            \cup (Unstarted \X {NULL})

\* list_books: a pericope counts as often as it has maps.
ListedPericopes == Cardinality(Joined)
ListedApproved == Cardinality({x \in Joined : x[2] # NULL /\ map[x[2]].status = "approved"})

\* get_chapter_summaries: the tallies of one chapter.
InChapter(c) == {x \in Joined : c \in Chapters[x[1]]}
Tally(c, s) == Cardinality({x \in InChapter(c) : x[2] # NULL /\ map[x[2]].status = s})

-----------------------------------------------------------------------------
(* Properties.                                                             *)

\* Four eyes: an approved map was approved, and by another than its analyst,
\* whatever transitions raced (transition_status.py:33).
FourEyes ==
    \A m \in Maps : map[m] # NULL /\ map[m].status = "approved" =>
        map[m].approved_by \notin {NULL, map[m].analyst}

\* Once a map is approved, its status, its text and its being there change only
\* through requests that had loaded it before the approval: no lock, status or
\* edit that begins later gets through (update_meaning_map_data.py:19).
ApprovedIsFinal ==
    [][\A m \in Maps :
         /\ map[m] # NULL /\ map[m].status = "approved"
         /\ map'[m] = NULL \/ map'[m].status # "approved" \/ map'[m].data # map[m].data
         => \E r \in Requests : /\ req[r].pc = "loaded" /\ req'[r] # req[r]
                                /\ Me(r) = m /\ Loaded(r).status # "approved"]_vars

\* A cached translation is one of the text the map holds, unless an edit and a
\* translation of the map overlapped: every edit empties the cache (translate.py:30).
TranslationsAreOfTheText ==
    \A m \in Maps : map[m] # NULL /\ m \notin crossed /\ map[m].translations # NULL =>
        \A l \in Languages : map[m].translations[l] \in {NULL, map[m].data}

\* The analyst hears of every approval and return, unless the process stops between
\* the two commits or the map is deleted first (transition_status.py:58).
Heard(v) == \/ \E x \in notices : x.n = v.n /\ x.event = v.event
            \/ map[v.map] = NULL
            \/ died
AnalystIsTold ==
    \A n \in 1..MaxRequests, e \in Verdict, m \in Maps :
        LET v == [n |-> n, event |-> e, map |-> m] IN (v \in verdicts) ~> Heard(v)

\* The views count the same rows: what the dashboard calls unstarted and started adds
\* up, and as long as no pericope has two maps the list of books and the chapters
\* agree with it (list_books.py:16, get_chapter_summaries.py:12).
ViewsAgree ==
    /\ Cardinality(Unstarted) + Cardinality(UNION {Dashboard(s) : s \in MeaningMapStatus})
          = Cardinality(Pericopes)
    /\ (\A p \in Pericopes : Cardinality(Of(p)) <= 1) =>
          /\ ListedPericopes = Cardinality(Pericopes)
          /\ ListedApproved = Cardinality(Dashboard("approved"))
          /\ \A c \in UNION {Chapters[p] : p \in Pericopes} :
                Tally(c, "draft") + Tally(c, "cross_check") + Tally(c, "approved")
                  + Cardinality({p \in Unstarted : c \in Chapters[p]})
                = Cardinality(InChapter(c))

\* Maps, feedback and notifications point at rows there are, the views count the same maps, and
\* what is shown in a language is a translation of the text (list_books.py:16, translate.py:30).
MapsAreConsistent == MapTypeOK /\ ViewsAgree /\ TranslationsAreOfTheText

\* An approval is another's than the analyst's and stands against every request that begins after
\* it (transition_status.py:33, update_meaning_map_data.py:19).
ApprovalStands == []FourEyes /\ ApprovedIsFinal

=============================================================================
