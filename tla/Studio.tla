------------------------------- MODULE Studio -------------------------------
(***************************************************************************)
(* The annotation studio: words, speakers, pairs and clips of a language,  *)
(* the takes of them whose audio a browser puts in the bucket itself, and  *)
(* the export that is put together of the stored ones.                     *)
(*                                                                         *)
(* A take is a row of one of three tables: a recording of a word by a      *)
(* speaker (tier a), of a side of a pair (b), or a clip (c).  The bucket   *)
(* is no part of a transaction: what a request does to it comes before or  *)
(* after its commit, and another request, or the end of the process, in    *)
(* between.  A select and the commit that follows it with no call to the   *)
(* bucket between are one step.  Labels and numbers are naturals; texts,   *)
(* emblems and durations are left out.                                     *)
(***************************************************************************)
EXTENDS Sql, Sorting, StudioPlan

CONSTANTS
    Languages, Words, Speakers, Pairs, Takes, Exports, Results, Users, \* ids of rows
    Admins,   \* users who are platform or studio admins
    Glosses,  \* glosses a word may be given
    Groups,   \* group labels of clips; "" is one of them
    Formats,  \* AsAudioFormat
    Reps,     \* rep_index, pair_number and clip_number
    Plots,    \* names of plots
    MaxSorts, \* bound on the assignments of clips there are
    Attempts, \* labels tried for a new row; 50 in the code
    Callers   \* requests in flight at a time

ASSUME StudioAssumption ==
    /\ Attempts \in Nat /\ MaxSorts \in Nat /\ Reps \subseteq Nat /\ Admins \subseteq Users
    /\ NULL \notin Groups /\ NULL \notin Glosses /\ NULL \notin Formats
    /\ Takes \cap (Words \X Formats) = {}

VARIABLES
    word, speaker, pair, take, export, result, \* tables, by id
    sorts,    \* as_tier_c_sort_assignments
    member,   \* as_language_members
    audio,    \* what of a take or a reference is in the bucket
    bundle,   \* the bundle of an export in the bucket: the takes in it
    ticket,   \* keys for which there is a signed PUT URL
    call,     \* requests in flight
    born      \* ids that rows have had

tables == <<word, speaker, pair, take, sorts>>
bucket == <<audio, ticket>>
exports == <<export, bundle>>
studioVars == <<tables, bucket, exports, result, member, call, born, pairs>>

Tiers == {"a", "b", "c"}
Sides == {"a", "b"}
Dimensions == {"onset", "coda"}
Rounds == {"normal", "reliability"}
UploadStatuses == {"pending", "stored"}
AudioKeys == Takes \cup (Words \X Formats)

Rows(table) == {i \in DOMAIN table : table[i] # NULL}
NullOr(S) == S \cup {NULL}
Idle == [pc |-> "idle", of |-> NULL, seen |-> NULL]

\* The language of a take, by way of its word or its pair.
LanguageOf(t) ==
    CASE take[t].tier = "a" -> word[take[t].of].lang
      [] take[t].tier = "b" -> pair[take[t].of].lang
      [] take[t].tier = "c" -> take[t].of

WordRows ==
    [lang : Languages, label : Nat, gloss : NullOr(Glosses),
     reference : NullOr(Formats), status : NullOr(UploadStatuses)]
SpeakerRows == [lang : Languages, label : Nat]
PairRows == [lang : Languages, number : Reps, speaker : NullOr(Speakers)]
TakeRows(tier) ==
    CASE tier = "a" -> [tier : {"a"}, of : Words, by : Speakers, n : Reps,
                        name : Nat \X Nat \X Reps, status : UploadStatuses]
      [] tier = "b" -> [tier : {"b"}, of : Pairs, by : Sides, n : Reps,
                        name : Reps \X Sides \X Reps, status : UploadStatuses]
      [] tier = "c" -> [tier : {"c"}, of : Languages, by : {NULL}, n : Reps,
                        name : {<<n>> : n \in Reps}, status : UploadStatuses]
ExportRows ==
    [lang : Languages, status : {"building", "ready", "failed"}, files : SUBSET Takes, bundle : BOOLEAN]
ResultRows == [lang : Languages, plots : SUBSET Plots]
SortRows == [clip : Takes, dimension : Dimensions, round : Rounds, group : NullOr(Groups)]

ASSUME RowsAreNotNull ==
    /\ NULL \notin WordRows /\ NULL \notin SpeakerRows /\ NULL \notin PairRows
    /\ \A tier \in Tiers : NULL \notin TakeRows(tier)
    /\ NULL \notin ExportRows /\ NULL \notin ResultRows

\* The rows that a row refers to are there.
RowsPointAtRows ==
    /\ \A p \in Rows(pair) : pair[p].speaker \in NullOr(Rows(speaker))
    /\ \A t \in Rows(take) : /\ take[t].tier = "a" => take[t].of \in Rows(word) /\ take[t].by \in Rows(speaker)
                             /\ take[t].tier = "b" => take[t].of \in Rows(pair)
    /\ \A r \in sorts : r.clip \in Rows(take) /\ take[r.clip].tier = "c"

\* Every row has its columns and the rows it refers to, and every request is at a step of its own.
StudioTypeOK ==
    /\ word \in [Words -> NullOr(WordRows)] /\ speaker \in [Speakers -> NullOr(SpeakerRows)]
    /\ pair \in [Pairs -> NullOr(PairRows)] /\ export \in [Exports -> NullOr(ExportRows)]
    /\ result \in [Results -> NullOr(ResultRows)] /\ sorts \subseteq SortRows
    /\ DOMAIN take = Takes /\ \A t \in Rows(take) : take[t].tier \in Tiers /\ take[t] \in TakeRows(take[t].tier)
    /\ RowsPointAtRows
    /\ member \subseteq Languages \X Users
    /\ audio \in [AudioKeys -> {"none", "good", "big"}]
    /\ bundle \in [Exports -> NullOr(SUBSET Takes)]
    /\ ticket \subseteq AudioKeys
    /\ DOMAIN call = Callers
    /\ \A c \in Callers : call[c].pc \in {"idle", "counted", "sized", "erasing", "fetching", "put", "unbundling", "plotting"}
    /\ UNION {Rows(word), Rows(speaker), Rows(pair), Rows(take), Rows(export), Rows(result)} \subseteq born

StudioInit ==
    /\ word = [i \in Words |-> NULL] /\ speaker = [i \in Speakers |-> NULL]
    /\ pair = [i \in Pairs |-> NULL] /\ take = [i \in Takes |-> NULL]
    /\ export = [i \in Exports |-> NULL] /\ result = [i \in Results |-> NULL]
    /\ sorts = {} /\ member = {} /\ ticket = {} /\ born = {}
    /\ audio = [k \in AudioKeys |-> "none"] /\ bundle = [x \in Exports |-> NULL]
    /\ call = [c \in Callers |-> Idle]

-----------------------------------------------------------------------------
(* Rows and requests.                                                      *)

\* An id no row has had.
Fresh(ids) == CHOOSE i \in ids \ born : TRUE
CanInsert(ids) == ids \ born # {}
Insert(table, row) == LET i == Fresh(DOMAIN table) IN [table EXCEPT ![i] = row]
Bear(ids) == born' = born \cup {Fresh(ids)}

Goes(c, pc, of, seen) == call' = [call EXCEPT ![c] = [pc |-> pc, of |-> of, seen |-> seen]]
Ends(c) == call' = [call EXCEPT ![c] = Idle]

\* A key is deleted after the commit, by the request that committed.
ThenErases(c, key) == IF key = NULL THEN UNCHANGED call ELSE call[c] = Idle /\ Goes(c, "erasing", key, NULL)

\* storage.delete, of which no error is heard
Erase(c) ==
    /\ call[c].pc = "erasing"
    /\ audio' = [audio EXCEPT ![call[c].of] = "none"]
    /\ Ends(c)
    /\ UNCHANGED <<tables, ticket, exports, result, member, born, pairs>>

\* The process of a request comes to an end, or its transaction is rolled back.
Breaks(c) ==
    /\ call[c] # Idle
    /\ Ends(c)
    /\ UNCHANGED <<tables, bucket, exports, result, member, born, pairs>>

-----------------------------------------------------------------------------
(* Labels of words and speakers.                                           *)

InLanguage(table, l) == {i \in Rows(table) : table[i].lang = l}
Taken(table, l) == {table[i].label : i \in InLanguage(table, l)}
FreeLabels(table, l, n) == ((n + 1) .. (n + Attempts)) \ Taken(table, l)

NewWord(l, label, gloss) ==
    [lang |-> l, label |-> label, gloss |-> gloss, reference |-> NULL, status |-> NULL]

\* create_word and create_speaker up to the first insert: the rows of the language are counted.
CountRows(c) ==
    /\ call[c] = Idle
    /\ \E l \in Languages :
          \/ CanInsert(Words) /\ Goes(c, "counted", <<"word", l>>, Cardinality(InLanguage(word, l)))
          \/ CanInsert(Speakers) /\ Goes(c, "counted", <<"speaker", l>>, Cardinality(InLanguage(speaker, l)))
    /\ UNCHANGED <<tables, bucket, exports, result, member, born, pairs>>

\* The labels from the count on are tried until one is free; when none is, nothing is created.
CreateWord(c) ==
    /\ call[c].pc = "counted" /\ call[c].of[1] = "word" /\ CanInsert(Words)
    /\ LET l == call[c].of[2]  free == FreeLabels(word, l, call[c].seen)
       IN  IF free = {} THEN UNCHANGED <<word, born>>
           ELSE \E g \in NullOr(Glosses) : word' = Insert(word, NewWord(l, Min(free), g)) /\ Bear(Words)
    /\ Ends(c)
    /\ UNCHANGED <<speaker, pair, take, sorts, bucket, exports, result, member, pairs>>

CreateSpeaker(c) ==
    /\ call[c].pc = "counted" /\ call[c].of[1] = "speaker" /\ CanInsert(Speakers)
    /\ LET l == call[c].of[2]  free == FreeLabels(speaker, l, call[c].seen)
       IN  IF free = {} THEN UNCHANGED <<speaker, born>>
           ELSE speaker' = Insert(speaker, [lang |-> l, label |-> Min(free)]) /\ Bear(Speakers)
    /\ Ends(c)
    /\ UNCHANGED <<word, pair, take, sorts, bucket, exports, result, member, pairs>>

\* create_speaker with a label: one that is taken is refused, by the check or by the constraint.
CreateSpeakerNamed ==
    /\ CanInsert(Speakers)
    /\ \E l \in Languages, n \in Reps :
          /\ n \notin Taken(speaker, l)
          /\ speaker' = Insert(speaker, [lang |-> l, label |-> n])
    /\ Bear(Speakers)
    /\ UNCHANGED <<word, pair, take, sorts, bucket, exports, result, member, call, pairs>>

UpdateWord ==
    /\ \E w \in Rows(word), g \in NullOr(Glosses) : word' = [word EXCEPT ![w].gloss = g]
    /\ UNCHANGED <<speaker, pair, take, sorts, bucket, exports, result, member, call, born, pairs>>

CreatePair ==
    /\ CanInsert(Pairs)
    /\ \E l \in Languages, n \in Reps, s \in NullOr(Rows(speaker)) :
          /\ \A p \in InLanguage(pair, l) : pair[p].number # n
          /\ pair' = Insert(pair, [lang |-> l, number |-> n, speaker |-> s])
    /\ Bear(Pairs)
    /\ UNCHANGED <<word, speaker, take, sorts, bucket, exports, result, member, call, pairs>>

-----------------------------------------------------------------------------
(* Takes.                                                                  *)

\* export_filename, of the labels as they are when the take is created
TierAName(w, s, rep) == <<word[w].label, speaker[s].label, rep>>
TierBName(p, side, rep) == <<pair[p].number, side, rep>>
TierCName(n) == <<n>>

NewTake(tier, of, by, n, name) ==
    [tier |-> tier, of |-> of, by |-> by, n |-> n, name |-> name, status |-> "pending"]

\* The row is committed unless there is one for it, and a URL is signed for its key.
OpenTake(row) ==
    /\ CanInsert(Takes)
    /\ \A t \in Rows(take) : take[t].tier = row.tier => <<take[t].of, take[t].by, take[t].n>> # <<row.of, row.by, row.n>>
    /\ take' = Insert(take, row)
    /\ ticket' = ticket \cup {Fresh(Takes)}
    /\ Bear(Takes)
    /\ UNCHANGED <<word, speaker, pair, sorts, audio, exports, result, member, call, pairs>>

CreateRecordingA_AnyLanguage ==
    \E w \in Rows(word), s \in Rows(speaker), n \in Reps : OpenTake(NewTake("a", w, s, n, TierAName(w, s, n)))

CreateRecordingA ==
    \E w \in Rows(word), s \in Rows(speaker), n \in Reps :
        /\ speaker[s].lang = word[w].lang
        /\ OpenTake(NewTake("a", w, s, n, TierAName(w, s, n)))

CreateRecordingB ==
    \E p \in Rows(pair), side \in Sides, n \in Reps : OpenTake(NewTake("b", p, side, n, TierBName(p, side, n)))

CreateClip == \E l \in Languages, n \in Reps : OpenTake(NewTake("c", l, NULL, n, TierCName(n)))

\* The browser puts its audio under a signed URL, as long as that is good and as often as it likes.
Upload ==
    /\ \E k \in ticket, size \in {"good", "big"} : audio' = [audio EXCEPT ![k] = size]
    /\ UNCHANGED <<tables, ticket, exports, result, member, call, born, pairs>>

ExpireTicket ==
    /\ \E k \in ticket : ticket' = ticket \ {k}
    /\ UNCHANGED <<tables, audio, exports, result, member, call, born, pairs>>

\* object_size says nothing of an object that is not there, and may say nothing of one that is.
Sizes(key) == {audio[key], "none"}

\* complete_recording and complete_clip up to the size
BeginComplete(c) ==
    /\ call[c] = Idle
    /\ \E t \in Rows(take) : \E size \in Sizes(t) : Goes(c, "sized", <<"take", t>>, [key |-> t, size |-> size])
    /\ UNCHANGED <<tables, bucket, exports, result, member, born, pairs>>

\* enforce_audio_size: an object that is too big is deleted, and the request fails.
Reject(c) ==
    /\ call[c].pc = "sized" /\ call[c].seen.size = "big"
    /\ audio' = [audio EXCEPT ![call[c].seen.key] = "none"]
    /\ Ends(c)
    /\ UNCHANGED <<tables, ticket, exports, result, member, born, pairs>>

\* The row may be gone by now; then the update finds none and the request fails.
Complete(c) ==
    /\ call[c].pc = "sized" /\ call[c].of[1] = "take" /\ call[c].seen.size # "big"
    /\ LET t == call[c].of[2]
       IN  take' = IF t \in Rows(take) THEN [take EXCEPT ![t].status = "stored"] ELSE take
    /\ Ends(c)
    /\ UNCHANGED <<word, speaker, pair, sorts, bucket, exports, result, member, born, pairs>>

\* Rows are deleted with what refers to them; the audio of takes that go with them stays.
DropTakes(gone) ==
    /\ take' = [t \in Takes |-> IF t \in gone THEN NULL ELSE take[t]]
    /\ sorts' = {r \in sorts : r.clip \notin gone}

DeleteTake_AudioFirst(c) ==
    /\ call[c] = Idle
    /\ \E t \in Rows(take) : audio' = [audio EXCEPT ![t] = "none"]
    /\ UNCHANGED <<tables, ticket, exports, result, member, call, born, pairs>>

\* delete_recording of either tier and delete_clip
DeleteTake(c) ==
    /\ call[c] = Idle
    /\ \E t \in Rows(take) : DropTakes({t}) /\ ThenErases(c, t)
    /\ UNCHANGED <<word, speaker, pair, bucket, exports, result, member, born, pairs>>

\* upsert_sort; of two that insert at a time one fails
UpsertSort ==
    /\ \E t \in Rows(take), d \in Dimensions, r \in Rounds, g \in NullOr(Groups) :
          /\ take[t].tier = "c"
          /\ sorts' = {x \in sorts : <<x.clip, x.dimension, x.round>> # <<t, d, r>>}
                      \cup {[clip |-> t, dimension |-> d, round |-> r, group |-> g]}
          /\ Cardinality(sorts') <= MaxSorts
    /\ UNCHANGED <<word, speaker, pair, take, bucket, exports, result, member, call, born, pairs>>

-----------------------------------------------------------------------------
(* What takes are of.                                                      *)

DeleteWord_KeepsTakes(c) ==
    /\ \E w \in Rows(word) :
          /\ word' = [word EXCEPT ![w] = NULL]
          /\ ThenErases(c, IF word[w].reference = NULL THEN NULL ELSE <<w, word[w].reference>>)
    /\ UNCHANGED <<speaker, pair, take, sorts, bucket, exports, result, member, born, pairs>>

DeleteWord(c) ==
    /\ \E w \in Rows(word) :
          /\ word' = [word EXCEPT ![w] = NULL]
          /\ DropTakes({t \in Rows(take) : take[t].tier = "a" /\ take[t].of = w})
          /\ ThenErases(c, IF word[w].reference = NULL THEN NULL ELSE <<w, word[w].reference>>)
    /\ UNCHANGED <<speaker, pair, bucket, exports, result, member, born, pairs>>

DeleteSpeaker ==
    /\ \E s \in Rows(speaker) :
          /\ speaker' = [speaker EXCEPT ![s] = NULL]
          /\ DropTakes({t \in Rows(take) : take[t].tier = "a" /\ take[t].by = s})
          /\ pair' = [p \in Pairs |-> IF p \in Rows(pair) /\ pair[p].speaker = s
                                      THEN [pair[p] EXCEPT !.speaker = NULL] ELSE pair[p]]
    /\ UNCHANGED <<word, bucket, exports, result, member, call, born, pairs>>

DeletePair ==
    /\ \E p \in Rows(pair) :
          /\ pair' = [pair EXCEPT ![p] = NULL]
          /\ DropTakes({t \in Rows(take) : take[t].tier = "b" /\ take[t].of = p})
    /\ UNCHANGED <<word, speaker, bucket, exports, result, member, call, born, pairs>>

\* set_reference: the key is made of the word and the format, so it may be the one it has.
SetReference(c) ==
    /\ \E w \in Rows(word), fmt \in Formats :
          LET old == word[w].reference
          IN  /\ word' = [word EXCEPT ![w].reference = fmt, ![w].status = "pending"]
              /\ ticket' = ticket \cup {<<w, fmt>>}
              /\ ThenErases(c, IF old \in {NULL, fmt} THEN NULL ELSE <<w, old>>)
    /\ UNCHANGED <<speaker, pair, take, sorts, audio, exports, result, member, born, pairs>>

\* complete_reference up to the size, of which there is none to ask without a key
BeginCompleteReference(c) ==
    /\ call[c] = Idle
    /\ \E w \in Rows(word) :
          LET key == <<w, word[w].reference>>
          IN  \E size \in IF word[w].reference = NULL THEN {"none"} ELSE Sizes(key) :
                  Goes(c, "sized", <<"reference", w>>, [key |-> key, size |-> size, status |-> word[w].status])
    /\ UNCHANGED <<tables, bucket, exports, result, member, born, pairs>>

\* Only a status that is not what was read is written.
CompleteReference(c) ==
    /\ call[c].pc = "sized" /\ call[c].of[1] = "reference" /\ call[c].seen.size # "big"
    /\ LET w == call[c].of[2]
       IN  word' = IF w \in Rows(word) /\ call[c].seen.status # "stored"
                   THEN [word EXCEPT ![w].status = "stored"] ELSE word
    /\ Ends(c)
    /\ UNCHANGED <<speaker, pair, take, sorts, bucket, exports, result, member, born, pairs>>

ClearReference(c) ==
    /\ \E w \in Rows(word) :
          /\ word' = [word EXCEPT ![w].reference = NULL, ![w].status = NULL]
          /\ ThenErases(c, IF word[w].reference = NULL THEN NULL ELSE <<w, word[w].reference>>)
    /\ UNCHANGED <<speaker, pair, take, sorts, bucket, exports, result, member, born, pairs>>

-----------------------------------------------------------------------------
(* Exports.                                                                *)

Stored(tier, l) == {t \in Rows(take) : take[t].tier = tier /\ take[t].status = "stored" /\ LanguageOf(t) = l}

\* What stands for a word in an export: its gloss when it has one, and any text may be one.
WordLabel(w) == IF word[w].gloss = NULL THEN word[w].label ELSE word[w].gloss

\* _gather
TierA(l) == {[file |-> t, label |-> WordLabel(take[t].of)] : t \in Stored("a", l)}
SideFiles(p, side) ==
    LET said == {t \in Stored("b", pair[p].lang) : take[t].of = p /\ take[t].by = side}
    IN  SortedBy(said, [t \in said |-> take[t].n])
TierB(l) ==
    LET stored == {take[t].of : t \in Stored("b", l)}
        heard == SortedBy(stored, [p \in stored |-> pair[p].number])
    IN  [i \in DOMAIN heard |-> [a |-> SideFiles(heard[i], "a"), b |-> SideFiles(heard[i], "b")]]
TierC(l) == {r \in sorts : r.clip \in Stored("c", l) /\ r.group # NULL}

\* The files that build_export_plan includes.
Planned(l) ==
    {r.file : r \in PlanTierA(TierA(l))} \cup FilesOfPlan(PlanTierB(TierB(l)))
    \cup {r.clip : r \in {s \in TierC(l) : s.round = "normal"}}

\* build_export up to the first file of the bundle
BeginExport(c) ==
    /\ call[c] = Idle /\ CanInsert(Exports)
    /\ \E l \in Languages :
          LET files == Planned(l)
          IN  /\ export' = Insert(export, [lang |-> l, status |-> "building", files |-> files, bundle |-> FALSE])
              /\ Goes(c, "fetching", Fresh(Exports), [left |-> files, files |-> files])
    /\ Bear(Exports)
    /\ UNCHANGED <<tables, bucket, bundle, result, member, pairs>>

\* _assemble_zip: one file after another
Fetch(c) ==
    /\ call[c].pc = "fetching"
    /\ \E t \in call[c].seen.left :
          /\ audio[t] # "none"
          /\ Goes(c, "fetching", call[c].of, [call[c].seen EXCEPT !.left = @ \ {t}])
    /\ UNCHANGED <<tables, bucket, exports, result, member, born, pairs>>

PutBundle_Unfinished(c) ==
    /\ call[c].pc = "fetching"
    /\ bundle' = [bundle EXCEPT ![call[c].of] = call[c].seen.files \ call[c].seen.left]
    /\ Goes(c, "put", call[c].of, call[c].seen)
    /\ UNCHANGED <<tables, bucket, export, result, member, born, pairs>>

PutBundle(c) ==
    /\ call[c].pc = "fetching" /\ call[c].seen.left = {}
    /\ bundle' = [bundle EXCEPT ![call[c].of] = call[c].seen.files]
    /\ Goes(c, "put", call[c].of, call[c].seen)
    /\ UNCHANGED <<tables, bucket, export, result, member, born, pairs>>

\* The export may have been deleted by now; then the update finds no row and the bundle stays.
Settle(x, status, has) ==
    export' = IF x \in Rows(export) THEN [export EXCEPT ![x].status = status, ![x].bundle = has] ELSE export

FinishExport(c) ==
    /\ call[c].pc = "put"
    /\ Settle(call[c].of, "ready", TRUE)
    /\ Ends(c)
    /\ UNCHANGED <<tables, bucket, bundle, result, member, born, pairs>>

\* A file that is not in the bucket, or a bucket that does not answer.
FailExport_Silent(c) ==
    /\ call[c].pc = "fetching" /\ call[c].seen.left # {}
    /\ \A t \in call[c].seen.left : audio[t] # "none"
    /\ Settle(call[c].of, "failed", FALSE)
    /\ Ends(c)
    /\ UNCHANGED <<tables, bucket, bundle, result, member, born, pairs>>

FailExport(c) ==
    /\ call[c].pc = "fetching"
    /\ Settle(call[c].of, "failed", FALSE)
    /\ Ends(c)
    /\ UNCHANGED <<tables, bucket, bundle, result, member, born, pairs>>

\* delete_export up to the commit; the bundle of the row that was read goes after it.
DeleteExport(c) ==
    /\ \E x \in Rows(export) :
          /\ export' = [export EXCEPT ![x] = NULL]
          /\ IF export[x].bundle THEN call[c] = Idle /\ Goes(c, "unbundling", x, NULL) ELSE UNCHANGED call
    /\ UNCHANGED <<tables, bucket, bundle, result, member, born, pairs>>

EraseBundle(c) ==
    /\ call[c].pc = "unbundling"
    /\ bundle' = [bundle EXCEPT ![call[c].of] = NULL]
    /\ Ends(c)
    /\ UNCHANGED <<tables, bucket, export, result, member, born, pairs>>

Building(c) == FinishExport(c) \/ Fetch(c) \/ PutBundle(c) \/ FailExport(c)

-----------------------------------------------------------------------------
(* Results of an analysis, and the members of a language.                  *)

CreateResult ==
    /\ CanInsert(Results)
    /\ \E l \in Languages : result' = Insert(result, [lang |-> l, plots |-> {}])
    /\ Bear(Results)
    /\ UNCHANGED <<tables, bucket, exports, member, call, pairs>>

\* presign_plot: the keys are read, and written back with one more.
BeginPlot(c) ==
    /\ call[c] = Idle
    /\ \E r \in Rows(result), p \in Plots : Goes(c, "plotting", <<r, p>>, result[r].plots)
    /\ UNCHANGED <<tables, bucket, exports, result, member, born, pairs>>

CommitPlot(c) ==
    /\ call[c].pc = "plotting"
    /\ LET r == call[c].of[1]  p == call[c].of[2]
       IN  result' = [result EXCEPT ![r].plots = call[c].seen \cup {p}]
    /\ Ends(c)
    /\ UNCHANGED <<tables, bucket, exports, member, born, pairs>>

AddMember ==
    /\ \E l \in Languages, u \in Users : member' = member \cup {<<l, u>>}
    /\ UNCHANGED <<tables, bucket, exports, result, call, born, pairs>>

RemoveMember ==
    /\ \E l \in Languages, u \in Users : member' = member \ {<<l, u>>}
    /\ UNCHANGED <<tables, bucket, exports, result, call, born, pairs>>

\* assert_language_access, for one language, and accessible_language_ids, for all
CanAct(u, l) == u \in Admins \/ <<l, u>> \in member
Accessible(u) == IF u \in Admins THEN Languages ELSE {l \in Languages : <<l, u>> \in member}

ActiveLanguages_NoClips ==
    {r.lang : r \in {speaker[i] : i \in Rows(speaker)} \cup {word[i] : i \in Rows(word)}
                    \cup {pair[i] : i \in Rows(pair)} \cup {export[i] : i \in Rows(export)}}

\* list_active_languages: those with a row of the five tables
ActiveLanguages ==
    {r.lang : r \in {speaker[i] : i \in Rows(speaker)} \cup {word[i] : i \in Rows(word)}
                    \cup {pair[i] : i \in Rows(pair)} \cup {export[i] : i \in Rows(export)}}
    \cup {take[t].of : t \in {i \in Rows(take) : take[i].tier = "c"}}

\* language_id_for_storage_key: the language of the row a key is in, or none
LanguageOfKey(key) ==
    {word[w].lang : w \in {i \in Rows(word) : word[i].reference # NULL /\ key = <<i, word[i].reference>>}}
    \cup {LanguageOf(t) : t \in {i \in Rows(take) : i = key}}

\* audio_url gives out an URL
Plays(u, key) == \E l \in LanguageOfKey(key) : CanAct(u, l)

-----------------------------------------------------------------------------
ObjectSteps(c) == Reject(c) \/ Erase(c) \/ Breaks(c)
TakeSteps(c) == BeginComplete(c) \/ Complete(c) \/ DeleteTake(c) \/ ObjectSteps(c)
WordSteps(c) == CountRows(c) \/ CreateWord(c) \/ CreateSpeaker(c) \/ DeleteWord(c)
ReferenceSteps(c) == SetReference(c) \/ BeginCompleteReference(c) \/ CompleteReference(c) \/ ClearReference(c) \/ DeleteWord(c)
ExportSteps(c) == BeginExport(c) \/ Building(c) \/ DeleteExport(c) \/ EraseBundle(c)
PlotSteps(c) == BeginPlot(c) \/ CommitPlot(c)

\* One way of collecting: words said by speakers, sides of pairs, clips that are sorted.
Collect(tier) ==
    \/ tier = "a" /\ (CreateSpeakerNamed \/ UpdateWord \/ CreateRecordingA \/ DeleteSpeaker)
    \/ tier = "b" /\ (CreateSpeakerNamed \/ CreatePair \/ CreateRecordingB \/ DeletePair \/ DeleteSpeaker)
    \/ tier = "c" /\ (CreateClip \/ UpsertSort)

StudioNext ==
    \/ \E tier \in Tiers : Collect(tier)
    \/ Upload \/ ExpireTicket \/ CreateResult \/ AddMember \/ RemoveMember
    \/ \E c \in Callers : TakeSteps(c) \/ WordSteps(c) \/ ReferenceSteps(c) \/ ExportSteps(c) \/ PlotSteps(c)

StudioSpec == StudioInit /\ pairs \in PairLists /\ [][StudioNext]_studioVars

-----------------------------------------------------------------------------
(* Properties.                                                             *)

\* The name of a file in an export tells whose take it is: no two takes of a tier and a
\* language have one name, though labels are given again after a word or a speaker is deleted
\* (app/services/annotation_studio/naming.py:3, tier_a_service.py:65).
NamesTellTakesApart ==
    \A t, u \in Rows(take) :
        t # u /\ take[t].tier = take[u].tier /\ LanguageOf(t) = LanguageOf(u) => take[t].name # take[u].name

\* The object of a take that has a row is deleted only by a completion that found it too big
\* (tier_a_service.py:104, tier_b_service.py:148: "Delete storage after the commit").
HeardTakesStay ==
    [][\A t \in Takes : audio[t] # "none" /\ audio'[t] = "none" =>
          t \notin Rows(take) \/ \E c \in Callers : call[c].pc = "sized" /\ call[c].seen.size = "big"]_studioVars

WordReady(w) == Cardinality({t \in Stored("a", word[w].lang) : take[t].of = w}) >= MinInstances

\* A word that the collectors are shown as ready is in the export with every take of it, though
\* readiness counts by word and the export by gloss (readiness_service.py:45, export_plan.py:83).
ReadyWordsAreExported ==
    \A w \in Rows(word) : WordReady(w) =>
        {t \in Rows(take) : take[t].tier = "a" /\ take[t].of = w /\ take[t].status = "stored"}
        \subseteq Planned(word[w].lang)

\* An export that can be downloaded has its bundle, with every file its tables name in it,
\* whatever was deleted while it was built (export_service.py:232).
ReadyBundleIsWhole ==
    \A x \in Rows(export) : export[x].status = "ready" => export[x].bundle /\ bundle[x] = export[x].files

\* Who can play a take or a reference sees its language on the dashboard: the routes find the
\* language by the row, the dashboard by a list of tables (access.py:127, dashboard_service.py:24).
PlayableIsListed ==
    \A u \in Users, key \in AudioKeys :
        Plays(u, key) => LanguageOfKey(key) \subseteq ActiveLanguages \cap Accessible(u)

\* An export that is being built is in the end ready or failed or deleted, unless the process
\* that builds it ends (export_service.py:224).
EveryExportEnds ==
    \A x \in Exports :
        x \in Rows(export) /\ export[x].status = "building" ~>
            \/ x \notin Rows(export) \/ export[x].status # "building"
            \/ ~ \E c \in Callers : call[c].pc \in {"fetching", "put"} /\ call[c].of = x

\* Rows point at rows, no two takes of a tier and a language have one name, and who can play a take
\* sees its language (naming.py:3, access.py:127).
TakesAreToldApart == StudioTypeOK /\ NamesTellTakesApart /\ PlayableIsListed

\* An export that can be downloaded is what was promised: every file its tables name is in it,
\* and with it what was shown as ready, in as many same as different rows
\* (export_service.py:232, export_plan.py:73, readiness_service.py:45).
ExportsAreWhole ==
    /\ ReadyBundleIsWhole /\ ReadyWordsAreExported /\ ReadyPairsAreExported /\ RowsAreBalanced

=============================================================================
