------------------------------ MODULE Catalogue ------------------------------
(***************************************************************************)
(* What the Oral Collector says of a recording: its classification, title, *)
(* description and storyteller, the review flags these imply, and the      *)
(* counts made of them; with the genres and the storytellers themselves.   *)
(* The audio is OcRecording's.                                             *)
(*                                                                         *)
(* A request that writes a recording loads it first and writes the columns *)
(* that differ from what it loaded, whatever they hold by then; it is      *)
(* split at the load.  So are the removal of a storyteller, and the        *)
(* reading of counts in several statements.  The split of a recording is   *)
(* split at the load, at its commit and where its job is sent; the job     *)
(* works from what it was sent, and a queue retries it until it is done or *)
(* its failure handler has run.                                            *)
(*                                                                         *)
(* A genre stands for itself and its subcategory, which are given and      *)
(* compared together.  Of a description only whether it is sufficient is   *)
(* kept.                                                                   *)
(***************************************************************************)
EXTENDS Sql, Naturals, FiniteSets

CONSTANTS
    Recordings,    \* ids of oc_recordings rows, never given twice
    Tellers,       \* ids of oc_storytellers rows, never given twice
    Genres,        \* ids of oc_genres rows
    Registers, Titles,
    People,        \* accounts
    Managers,      \* those who manage the project, or the platform
    Updates        \* requests in flight at a time

VARIABLES
    genre,         \* oc_genres: active or not
    teller,        \* oc_storytellers
    recording,     \* oc_recordings, of one project
    update,        \* requests in flight
    counted,       \* the statistics last read
    born,          \* rows that were ever there
    raced          \* history: recordings written while another request held them

catalogueVars == <<genre, teller, recording, update, counted, born, raced>>

Unclassified == "unclassified"
AllGenres == Genres \cup {Unclassified}

\* The fields of a recording a request may give, and their values.
Given == [genre : AllGenres, register : Registers \cup {NULL},
          genre2 : Genres \cup {NULL}, register2 : Registers \cup {NULL},
          enough : BOOLEAN, teller : Tellers \cup {NULL}, title : Titles \cup {NULL}]

ReviewFlags == {"missing_classification", "insufficient_description", "missing_storyteller"}

\* oc_recordings
Rows == [genre : AllGenres, register : Registers \cup {NULL},
         genre2 : Genres \cup {NULL}, register2 : Registers \cup {NULL},
         enough : BOOLEAN, teller : Tellers \cup {NULL}, title : Titles \cup {NULL},
         status : {"local", "active", "splitting", "archived"}, segment : BOOLEAN,
         flags : SUBSET ReviewFlags]
TellerRows == [here : BOOLEAN, by : People]

\* SQL NULL is no row, no id and no value.
ASSUME CatalogueAssumption ==
    NULL \notin Rows \cup TellerRows \cup AllGenres \cup Registers \cup Tellers \cup Titles
                \cup Recordings \cup Updates \cup {"active", "inactive"}

review_flags_for(v) ==
    {code \in ReviewFlags :
        \/ code = "missing_classification" /\ (v.genre = Unclassified \/ v.register = NULL)
        \/ code = "insufficient_description" /\ ~v.enough
        \/ code = "missing_storyteller" /\ v.teller = NULL}

\* recompute_review_flags
Flagged(v) == [v EXCEPT !.flags = review_flags_for(v)]

\* A row: what is given, the flags, how far it is, and whether it is a segment of another.
NewRow(v, status, segment) ==
    Flagged([genre |-> v.genre, register |-> v.register, genre2 |-> v.genre2, register2 |-> v.register2,
             enough |-> v.enough, teller |-> v.teller, title |-> v.title,
             status |-> status, segment |-> segment, flags |-> {}])

secondary_equals_primary(v) ==
    /\ v.genre2 # NULL \/ v.register2 # NULL
    /\ v.register = v.register2
    /\ v.genre = v.genre2

UpdateOf(pc, rec, base, want, t, held) ==
    [pc |-> pc, rec |-> rec, base |-> base, want |-> want, teller |-> t, held |-> held]
NoUpdate == UpdateOf("idle", NULL, NULL, NULL, NULL, {})

CatalogueTypeOK ==
    /\ genre \in [AllGenres -> {"active", "inactive", NULL}]
    /\ teller \in [Tellers -> TellerRows \cup {NULL}]
    /\ recording \in [Recordings -> Rows \cup {NULL}]
    /\ \A u \in Updates : update[u].pc \in {"idle", "creating", "updating", "removing", "splitting", "committed",
                                            "sent", "segmented", "archived", "counting"}
    /\ raced \subseteq Recordings
    \* the foreign keys
    /\ \A r \in Recordings : recording[r] # NULL =>
          /\ genre[recording[r].genre] # NULL
          /\ recording[r].genre2 # NULL => genre[recording[r].genre2] # NULL
          /\ recording[r].teller # NULL => teller[recording[r].teller] # NULL
    /\ \A r \in Recordings : recording[r] # NULL => r \in born
    /\ \A t \in Tellers : teller[t] # NULL => t \in born

CatalogueInit ==
    /\ genre \in [AllGenres -> {"active", "inactive", NULL}]
    /\ teller = [t \in Tellers |-> NULL]
    /\ recording = [r \in Recordings |-> NULL]
    /\ update = [u \in Updates |-> NoUpdate]
    /\ counted = NULL
    /\ born = {} /\ raced = {}

Free(u) == update[u] = NoUpdate
Done(u) == update' = [update EXCEPT ![u] = NoUpdate]

\* Whom a request that is under way will write: the recording, or those of a storyteller.
Concerns(u, r, ts) ==
    \/ update[u].pc \in {"updating", "splitting", "committed"} /\ update[u].rec = r
    \/ update[u].pc = "removing" /\ (update[u].teller \in ts \/ r \in update[u].held)

Crossed(u, r, ts) == {q \in {r} : \E v \in Updates \ {u} : Concerns(v, r, ts)}

\* Statistics being read are torn by a write.
Torn(u) == [v \in Updates |-> IF v # u /\ update[v].pc = "counting"
                              THEN UpdateOf("counting", NULL, NULL, update[v].want, NULL, {"torn"})
                              ELSE update[v]]
EndWrite(u) == update' = [Torn(u) EXCEPT ![u] = NoUpdate]

-----------------------------------------------------------------------------
(* Genres.  Deleting one makes it inactive; its recordings keep it. *)

CreateGenre ==
    /\ \E g \in AllGenres : genre[g] = NULL /\ genre' = [genre EXCEPT ![g] = "active"]
    /\ UNCHANGED <<teller, recording, update, counted, born, raced>>

UpdateGenre ==
    /\ \E g \in AllGenres, s \in {"active", "inactive"} :
          genre[g] # NULL /\ genre' = [genre EXCEPT ![g] = s]
    /\ UNCHANGED <<teller, recording, update, counted, born, raced>>

\* Mutant: a genre is deleted, and its recordings with it.
DeleteGenre_Cascade ==
    /\ \E g \in AllGenres :
          /\ genre[g] # NULL
          /\ genre' = [genre EXCEPT ![g] = NULL]
          /\ recording' = [r \in Recordings |-> IF recording[r] = NULL \/ recording[r].genre = g
                                                THEN NULL ELSE recording[r]]
    /\ UNCHANGED <<teller, update, counted, born, raced>>

DeleteGenre ==
    /\ \E g \in AllGenres : genre[g] # NULL /\ genre' = [genre EXCEPT ![g] = "inactive"]
    /\ UNCHANGED <<teller, recording, update, counted, born, raced>>

-----------------------------------------------------------------------------
(* Storytellers. *)

\* Of the project, or of another one.
CreateTeller ==
    /\ \E t \in Tellers \ born, by \in People, here \in BOOLEAN :
          /\ teller' = [teller EXCEPT ![t] = [here |-> here, by |-> by]]
          /\ born' = born \cup {t}
    /\ UNCHANGED <<genre, recording, update, counted, raced>>

\* check_storyteller_access
MayModify(who, t) == teller[t].by = who \/ who \in Managers

Told(t) == {r \in Recordings : recording[r] # NULL /\ recording[r].teller = t}

\* delete_storyteller loads the recordings it will clear.
BeginRemove(u) ==
    /\ Free(u)
    /\ \E t \in Tellers, who \in People :
          /\ teller[t] # NULL
          /\ MayModify(who, t)
          /\ update' = [update EXCEPT ![u] =
                UpdateOf("removing", NULL, [r \in Told(t) |-> recording[r]], NULL, t, Told(t))]
    /\ UNCHANGED <<genre, teller, recording, counted, born, raced>>

\* Mutant: the flags are left to say what they said.
Cleared_FlagsStay(row, base) == [row EXCEPT !.teller = NULL]

\* A loaded recording as the removal leaves it.
Cleared(row, base) ==
    LET v == Flagged([base EXCEPT !.teller = NULL])
    IN  [row EXCEPT !.teller = NULL, !.flags = IF v.flags # base.flags THEN v.flags ELSE row.flags]

\* Mutant: there is no foreign key to clear those given the storyteller since.
CommitRemove_LoadedOnly(u) ==
    LET q == update[u]
    IN  /\ q.pc = "removing"
        /\ teller' = [teller EXCEPT ![q.teller] = NULL]
        /\ recording' = [r \in Recordings |->
              IF recording[r] = NULL THEN NULL
              ELSE IF r \in q.held THEN Cleared(recording[r], q.base[r])
              ELSE recording[r]]
        /\ raced' = raced \cup UNION {Crossed(u, r, {q.teller}) : r \in q.held \cup Told(q.teller)}
        /\ EndWrite(u)
        /\ UNCHANGED <<genre, counted, born>>

\* The foreign key clears those that were given the storyteller since and leaves their flags.
CommitRemove(u) ==
    LET q == update[u]
    IN  /\ q.pc = "removing"
        /\ teller' = [teller EXCEPT ![q.teller] = NULL]
        /\ recording' = [r \in Recordings |->
              IF recording[r] = NULL THEN NULL
              ELSE IF r \in q.held THEN Cleared(recording[r], q.base[r])
              ELSE IF r \in Told(q.teller) THEN [recording[r] EXCEPT !.teller = NULL]
              ELSE recording[r]]
        /\ raced' = raced \cup UNION {Crossed(u, r, {q.teller}) : r \in q.held \cup Told(q.teller)}
        /\ EndWrite(u)
        /\ UNCHANGED <<genre, counted, born>>

-----------------------------------------------------------------------------
(* Recordings. *)

\* _validate_storyteller_in_project
OfTheProject(t) == t # NULL => teller[t] # NULL /\ teller[t].here

\* The partial unique index on titles: segments and archived recordings are outside it.
Exempt(row) == row.segment \/ row.status = "archived"
TitleIsFree(title, row, r) ==
    title = NULL \/ Exempt(row) \/
    \A q \in Recordings \ {r} : recording[q] # NULL /\ ~Exempt(recording[q]) => recording[q].title # title

\* Mutant: titles are only looked for, no index backs the look.
Storable_NoIndex(row, r) ==
    /\ genre[row.genre] # NULL
    /\ row.genre2 # NULL => genre[row.genre2] # NULL
    /\ row.teller # NULL => teller[row.teller] # NULL

\* What a commit of a row asks of the database.
Storable(row, r) ==
    /\ genre[row.genre] # NULL
    /\ row.genre2 # NULL => genre[row.genre2] # NULL
    /\ row.teller # NULL => teller[row.teller] # NULL
    /\ TitleIsFree(row.title, row, r)

\* Mutant: the storyteller is not asked for its project.
BeginCreate_AnyTeller(u, v) ==
    /\ Free(u)
    /\ v.enough                              \* a validator of RecordingCreate
    /\ ~secondary_equals_primary(v)
    /\ TitleIsFree(v.title, NewRow(v, "local", FALSE), NULL)
    /\ v.teller # NULL => teller[v.teller] # NULL
    /\ update' = [update EXCEPT ![u] = UpdateOf("creating", NULL, NULL, v, NULL, {})]
    /\ UNCHANGED <<genre, teller, recording, counted, born, raced>>

BeginCreate(u, v) ==
    /\ Free(u)
    /\ v.enough                              \* a validator of RecordingCreate
    /\ ~secondary_equals_primary(v)
    /\ TitleIsFree(v.title, NewRow(v, "local", FALSE), NULL)
    /\ OfTheProject(v.teller)
    /\ update' = [update EXCEPT ![u] = UpdateOf("creating", NULL, NULL, v, NULL, {})]
    /\ UNCHANGED <<genre, teller, recording, counted, born, raced>>

CommitCreate(u) ==
    /\ update[u].pc = "creating"
    /\ \E r \in Recordings \ born :
          LET row == NewRow(update[u].want, "local", FALSE)
          IN  /\ Storable(row, r)
              /\ recording' = [recording EXCEPT ![r] = row]
              /\ born' = born \cup {r}
              /\ raced' = raced \cup Crossed(u, r, {row.teller})
    /\ EndWrite(u)
    /\ UNCHANGED <<genre, teller, counted>>

\* Mutant: the classification is checked without the change.
BeginUpdate_OldClass(u, r, v) ==
    LET base == recording[r]
    IN  /\ Free(u)
        /\ base # NULL
        /\ base.enough => v.enough           \* a validator of RecordingUpdate
        /\ v.teller # base.teller => OfTheProject(v.teller)
        /\ ~secondary_equals_primary(base)
        /\ v.title # base.title => TitleIsFree(v.title, base, r)
        /\ update' = [update EXCEPT ![u] =
              UpdateOf("updating", r, base, NewRow(v, base.status, base.segment), NULL, {})]
        /\ UNCHANGED <<genre, teller, recording, counted, born, raced>>

\* update_recording: the checks are of the row as loaded, with the changes, which make it v.
BeginUpdate(u, r, v) ==
    LET base == recording[r]
    IN  /\ Free(u)
        /\ base # NULL
        /\ base.enough => v.enough           \* a validator of RecordingUpdate
        /\ v.teller # base.teller => OfTheProject(v.teller)
        /\ ~secondary_equals_primary(v)
        /\ v.title # base.title => TitleIsFree(v.title, base, r)
        /\ update' = [update EXCEPT ![u] =
              UpdateOf("updating", r, base, NewRow(v, base.status, base.segment), NULL, {})]
        /\ UNCHANGED <<genre, teller, recording, counted, born, raced>>

\* The row with the columns written in which the two differ.
Written(row, base, want) ==
    LET Column(was, new, now) == IF new # was THEN new ELSE now
    IN  [genre |-> Column(base.genre, want.genre, row.genre),
         register |-> Column(base.register, want.register, row.register),
         genre2 |-> Column(base.genre2, want.genre2, row.genre2),
         register2 |-> Column(base.register2, want.register2, row.register2),
         enough |-> Column(base.enough, want.enough, row.enough),
         teller |-> Column(base.teller, want.teller, row.teller),
         title |-> Column(base.title, want.title, row.title),
         status |-> row.status, segment |-> row.segment,
         flags |-> Column(base.flags, want.flags, row.flags)]

CommitUpdate(u) ==
    LET q == update[u]
        row == Written(recording[q.rec], q.base, q.want)
    IN  /\ q.pc = "updating"
        /\ recording[q.rec] # NULL
        /\ Storable(row, q.rec)
        /\ recording' = [recording EXCEPT ![q.rec] = row]
        /\ raced' = raced \cup Crossed(u, q.rec, {q.base.teller, q.want.teller})
        /\ EndWrite(u)
        /\ UNCHANGED <<genre, teller, counted, born>>

DeleteRecording ==
    /\ \E r \in Recordings : recording[r] # NULL /\ recording' = [recording EXCEPT ![r] = NULL]
    /\ update' = Torn(NULL)
    /\ UNCHANGED <<genre, teller, counted, born, raced>>

\* The upload of a recording is verified.
Verified ==
    /\ \E r \in Recordings :
          /\ recording[r] # NULL /\ recording[r].status = "local"
          /\ recording' = [recording EXCEPT ![r].status = "active"]
    /\ update' = Torn(NULL)
    /\ UNCHANGED <<genre, teller, counted, born, raced>>

\* request_split: one segment, of the recording's genre or of another; a genre that is not there
\* would fail the job.  A recording that was split can be split again.
SegmentOf(row, g) == [row EXCEPT !.genre = g, !.title = NULL]

BeginSplit(u) ==
    /\ Free(u)
    /\ \E r \in Recordings, g \in AllGenres :
          /\ recording[r] # NULL /\ recording[r].status # "local"
          /\ genre[g] # NULL
          /\ ~secondary_equals_primary(SegmentOf(recording[r], g))
          /\ update' = [update EXCEPT ![u] =
                UpdateOf("splitting", r, recording[r], IF g = recording[r].genre THEN NULL ELSE g, NULL, {})]
    /\ UNCHANGED <<genre, teller, recording, counted, born, raced>>

\* Mutant: the title index is not asked of a recording that comes out of the archive.
CommitSplit_NoIndex(u) ==
    LET q == update[u]
        row == recording[q.rec]
        new == IF q.base.status = "splitting" THEN row ELSE [row EXCEPT !.status = "splitting"]
    IN  /\ q.pc = "splitting"
        /\ row # NULL
        /\ recording' = [recording EXCEPT ![q.rec] = new]
        /\ update' = [Torn(u) EXCEPT ![u] = UpdateOf("committed", q.rec, q.base, q.want, NULL, {})]
        /\ UNCHANGED <<genre, teller, counted, born, raced>>

\* The status is committed first; of one that was archived the title counts again.  Nothing is
\* written when the status was the same as loaded.
CommitSplit(u) ==
    LET q == update[u]
        row == recording[q.rec]
        new == IF q.base.status = "splitting" THEN row ELSE [row EXCEPT !.status = "splitting"]
    IN  /\ q.pc = "splitting"
        /\ row # NULL
        /\ Storable(new, q.rec)
        /\ recording' = [recording EXCEPT ![q.rec] = new]
        /\ update' = [Torn(u) EXCEPT ![u] = UpdateOf("committed", q.rec, q.base, q.want, NULL, {})]
        /\ UNCHANGED <<genre, teller, counted, born, raced>>

\* The job is sent what the recording is after the commit, not what was checked.
SendSplit(u) ==
    LET q == update[u]
        row == recording[q.rec]
    IN  /\ q.pc = "committed"
        /\ row # NULL
        /\ update' = [update EXCEPT ![u] =
              UpdateOf("sent", q.rec, NULL, SegmentOf(row, IF q.want = NULL THEN row.genre ELSE q.want),
                       NULL, {r \in {q.rec} : r \in raced})]
        /\ UNCHANGED <<genre, teller, recording, counted, born, raced>>

CommitSegment(u) ==
    /\ update[u].pc = "sent"
    /\ \E r \in Recordings \ born :
          LET row == NewRow(update[u].want, "active", TRUE)
          IN  /\ Storable(row, r)
              /\ recording' = [recording EXCEPT ![r] = row]
              /\ born' = born \cup {r}
              /\ raced' = raced \cup Crossed(u, r, {row.teller})
                                \cup (IF update[u].held # {} THEN {r} ELSE {})
    /\ update' = [Torn(u) EXCEPT ![u] = UpdateOf("segmented", update[u].rec, NULL, NULL, NULL, {})]
    /\ UNCHANGED <<genre, teller, counted>>

ArchiveParent(u) ==
    LET r == update[u].rec
    IN  /\ update[u].pc = "segmented"
        /\ recording' = IF recording[r] = NULL THEN recording
                        ELSE [recording EXCEPT ![r].status = "archived"]
        /\ update' = [Torn(u) EXCEPT ![u] = UpdateOf("archived", r, NULL, NULL, NULL, {})]
        /\ UNCHANGED <<genre, teller, counted, born, raced>>

EndSplit(u) ==
    /\ update[u].pc = "archived"
    /\ Done(u)
    /\ UNCHANGED <<genre, teller, recording, counted, born, raced>>

\* _on_split_failure: a job that is out of attempts, in its notification too, marks the recording
\* failed, also one that is archived; the handler fails itself where the title index is violated.
SplitFails(u) ==
    LET r == update[u].rec
        new == [recording[r] EXCEPT !.status = "active"]
    IN  /\ update[u].pc \in {"sent", "segmented", "archived"}
        /\ recording' = IF recording[r] # NULL /\ Storable(new, r)
                        THEN [recording EXCEPT ![r] = new] ELSE recording
        /\ EndWrite(u)
        /\ UNCHANGED <<genre, teller, counted, born, raced>>

\* A request is refused, fails or is cut short; what it had not committed is not.
Fails(u) ==
    /\ ~Free(u) /\ update[u].pc \notin {"sent", "segmented", "archived"}
    /\ Done(u)
    /\ UNCHANGED <<genre, teller, recording, counted, born, raced>>

-----------------------------------------------------------------------------
(* Lists and counts. *)

\* _listing_conditions, with nothing asked for
Listed == {r \in Recordings : recording[r] # NULL /\ recording[r].status \in {"active", "splitting"}}
WithFlag(code) == {r \in Listed : code \in recording[r].flags}

\* get_project_stats: the rows are counted, then the flags of what is there by then.
BeginCount(u) ==
    /\ Free(u)
    /\ update' = [update EXCEPT ![u] =
                    UpdateOf("counting", NULL, NULL, Cardinality(Listed), NULL, {})]
    /\ UNCHANGED <<genre, teller, recording, counted, born, raced>>

\* Mutant: flags are counted of recordings that are not listed, too.
FinishCount_All(u) ==
    /\ update[u].pc = "counting"
    /\ counted' = [total |-> update[u].want,
                   flags |-> [code \in ReviewFlags |-> Cardinality(WithFlag(code))],
                   flagged |-> Cardinality({r \in Recordings : recording[r] # NULL /\ recording[r].flags # {}}),
                   torn |-> update[u].held # {}]
    /\ Done(u)
    /\ UNCHANGED <<genre, teller, recording, born, raced>>

FinishCount(u) ==
    /\ update[u].pc = "counting"
    /\ counted' = [total |-> update[u].want,
                   flags |-> [code \in ReviewFlags |-> Cardinality(WithFlag(code))],
                   flagged |-> Cardinality({r \in Listed : recording[r].flags # {}}),
                   torn |-> update[u].held # {}]
    /\ Done(u)
    /\ UNCHANGED <<genre, teller, recording, born, raced>>

\* get_genre_stats: archived recordings are counted with their segments.
GenreCount(g) ==
    Cardinality({r \in Recordings : recording[r] # NULL /\ recording[r].status # "local"
                                    /\ recording[r].genre = g})

CatalogueNext ==
    \/ CreateGenre \/ UpdateGenre \/ DeleteGenre \/ CreateTeller \/ DeleteRecording \/ Verified
    \/ \E u \in Updates :
          \/ \E v \in Given : BeginCreate(u, v) \/ \E r \in Recordings : BeginUpdate(u, r, v)
          \/ CommitCreate(u) \/ CommitUpdate(u) \/ Fails(u)
          \/ BeginRemove(u) \/ CommitRemove(u)
          \/ BeginSplit(u) \/ CommitSplit(u) \/ SendSplit(u)
          \/ CommitSegment(u) \/ ArchiveParent(u) \/ EndSplit(u) \/ SplitFails(u)
          \/ BeginCount(u) \/ FinishCount(u)

CatalogueSpec == CatalogueInit /\ [][CatalogueNext]_catalogueVars

-----------------------------------------------------------------------------
(* Properties. *)

\* The review flags of a recording are those its fields imply, unless requests that wrote it or
\* its storyteller overlapped (review_flags.py, storyteller_service.py:116).
FlagsAreOfTheFields ==
    \A r \in Recordings \ raced :
        recording[r] # NULL => recording[r].flags = review_flags_for(recording[r])

\* No recording is classified twice the same, unless requests that wrote it overlapped
\* (recording_service.py:426).
SecondaryDiffers ==
    \A r \in Recordings \ raced : recording[r] # NULL => ~secondary_equals_primary(recording[r])

\* The storyteller of a recording is of its project (recording_service.py:403).
TellerIsOfTheProject ==
    \A r \in Recordings : recording[r] # NULL => OfTheProject(recording[r].teller)

\* Two recordings that are not archived and are no segments have not the same title, however the
\* requests that titled them, and the splits that took one out of the archive again, were
\* interleaved (recording_service.py:253, split_service.py:100).
TitlesTellApart ==
    LET Titled == {r \in Recordings : /\ recording[r] # NULL /\ ~Exempt(recording[r])
                                      /\ recording[r].title # NULL}
    IN  \A r, q \in Titled : recording[r].title = recording[q].title => r = q

\* A recording goes only when it is deleted itself, never with its genre or storyteller (genre_service.py).
RecordingsStay ==
    [][(\E r \in Recordings : recording[r] # NULL /\ recording'[r] = NULL) => DeleteRecording]_catalogueVars

\* A project's statistics never tell of more recordings with flags than of recordings, or of more
\* with one flag than with any, unless something was written between the two counts; what is
\* listed of a genre is counted for it (project_service.py:117, stats_service.py).
CountsAreOfTheRows ==
    /\ counted # NULL /\ ~counted.torn =>
          /\ counted.flagged <= counted.total
          /\ \A code \in ReviewFlags : counted.flags[code] <= counted.flagged
    /\ \A g \in AllGenres : Cardinality({r \in Listed : recording[r].genre = g}) <= GenreCount(g)

\* What the catalogue says of a recording goes with its row: flags, classification, storyteller,
\* title and counts, and the row goes only by its own deletion
\* (recording_service.py:426, storyteller_service.py:116, stats_service.py).
CatalogueIsTrue ==
    /\ [](CatalogueTypeOK /\ FlagsAreOfTheFields /\ SecondaryDiffers /\ TellerIsOfTheProject
          /\ TitlesTellApart /\ CountsAreOfTheRows)
    /\ RecordingsStay

=============================================================================
