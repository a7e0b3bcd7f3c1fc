---------------------------- MODULE OcRecording ----------------------------
(***************************************************************************)
(* One Oral Collector recording, from the device that made it through      *)
(* upload, verification, cleaning and splitting: its oc_recordings row,    *)
(* its objects in the bucket, the requests of its owner and of a project   *)
(* manager, and the queue's functions process-upload, clean-recording and  *)
(* split-recording.                                                        *)
(*                                                                         *)
(* A function is a sequence of steps.  A step that fails or whose worker   *)
(* stops is run again from its beginning, up to Attempts times, also when  *)
(* all its work was done and only its result was not recorded; a recorded  *)
(* step is never run again.  When a step is out of attempts the function's *)
(* failure handler runs.  Steps of different functions interleave, and     *)
(* within a step each transaction and each call to the bucket is one       *)
(* action.                                                                 *)
(*                                                                         *)
(* An object's content is reduced to which recording of the audio it is;   *)
(* its path is reduced to the genre in it, the part that can change.       *)
(***************************************************************************)
EXTENDS Naturals, FiniteSets

CONSTANTS
    Genres,       \* the genres the recording can be filed under
    FirstGenre,   \* the one it is created with
    Slots,        \* bound: functions queued or running at once
    NULL,         \* SQL NULL, no object, no row
    Attempts,     \* how often a step is tried
    Budgets       \* bound: each says how many of each request a behaviour may have

Requests == {"url", "put", "confirm", "move", "clean", "split"}

ASSUME RecordingAssumption ==
    /\ FirstGenre \in Genres
    /\ NULL \notin Genres \cup {"raw", "cut_short", "cleaned"}
    /\ Attempts \in Nat \ {0}
    /\ Budgets \subseteq [Requests -> Nat]

VARIABLES
    row,        \* the oc_recordings row
    blob,       \* the object at each path
    original,   \* the _original copy beside it
    segments,   \* the complete segment sets persisted, by the id they were cut under
    run,        \* the queue's functions
    urls,       \* the paths of the signed upload URLs the device holds
    stale,      \* a clear-stale in progress: the gcs_url it loaded, if it listed the row
    promise,    \* history: the owner was told that device storage is safe to free,
                \* or has deleted the recording
    lost,       \* history: a request died between its commit and its event
    late,       \* history: the device put audio beside other audio, or under a cleaning
    halfway,    \* history: the functions that failed in or after a step that had written
    used        \* history: how many of each bounded request were made

vars == <<row, blob, original, segments, run, urls, stale, promise,
          lost, late, halfway, used>>

\* What an action on the row or a function alone leaves as it is.
still == <<blob, original, segments, urls, stale, promise, late>>

UploadStatus == {"local", "uploading", "uploaded", "verified", "upload_failed"}
CleaningStatus == {"none", "needs_cleaning", "cleaning", "cleaned", "failed"}
SplittingStatus == {"none", "splitting", "failed", "archived_after_split"}
Content == {"raw", "cut_short", "cleaned", NULL}

Idle == [fn |-> "none", pc |-> "idle", path |-> NULL, data |-> NULL, attempt |-> 1, id |-> 0]

TypeOK ==
    /\ row \in [upload : UploadStatus, gcs_url : Genres \cup {NULL}, genre : Genres,
                cleaning : CleaningStatus, splitting : SplittingStatus] \cup {NULL}
    /\ blob \in [Genres -> Content] /\ original \in [Genres -> Content]
    /\ segments \subseteq Nat
    /\ run \in [Slots -> [fn : {"none", "upload", "clean", "split"},
                          pc : {"idle", "set", "verify", "finalize", "check", "call",
                                "backup", "overwrite", "mark", "cut", "save", "archive",
                                "tell", "told", "failing"},
                          path : Genres \cup {NULL}, data : Content,
                          attempt : 1..Attempts, id : Nat]]
    /\ urls \subseteq Genres
    /\ stale \in Genres \cup {"none", "no_url"}
    /\ promise \in {"nothing", "safe", "deleted"}
    /\ {lost, late} \subseteq BOOLEAN
    /\ halfway \subseteq {"upload", "clean", "split"}
    /\ used \in [Requests -> Nat]

\* create_recording
Init ==
    /\ row = [upload |-> "local", gcs_url |-> NULL, genre |-> FirstGenre,
              cleaning |-> "none", splitting |-> "none"]
    /\ blob = [g \in Genres |-> NULL]
    /\ original = [g \in Genres |-> NULL]
    /\ segments = {}
    /\ run = [r \in Slots |-> Idle]
    /\ urls = {}
    /\ stale = "none"
    /\ promise = "nothing" /\ lost = FALSE /\ late = FALSE
    /\ halfway = {}
    /\ used = [k \in Requests |-> 0]

-----------------------------------------------------------------------------
Counted(k) ==
    /\ used' = [used EXCEPT ![k] = @ + 1]
    /\ \E b \in Budgets : \A j \in Requests : used'[j] <= b[j]

Free == {r \in Slots : run[r] = Idle}

\* inngest_client.send: any free slot will do, since nothing tells two apart.
Enqueue(job) == Free # {} /\ run' = [run EXCEPT ![CHOOSE r \in Free : TRUE] = job]

Without(g) == IF g \in Genres THEN [blob EXCEPT ![g] = NULL] ELSE blob

(* The owner's device.                                                     *)

\* generate_upload_url and generate_resumable_upload_url, whatever the status.
RequestUrl ==
    /\ row # NULL
    /\ Counted("url")
    /\ row' = [row EXCEPT !.upload = "uploading"]
    /\ urls' = urls \cup {row.genre}
    /\ UNCHANGED <<blob, original, segments, run, stale, promise, lost, late,
                   halfway>>

\* A cleaning function that has the cleaned audio.
Cleans(r) == run[r].fn = "clean" /\ run[r].pc \in {"backup", "overwrite", "mark", "tell"}

\* A PUT to a signed URL, which may be cut short.  Nothing but its expiry ends a URL:
\* until the device stops using it, it can put audio there whatever has become of the
\* recording.
PutAudio ==
    /\ Counted("put")
    /\ \E g \in urls :
          /\ \E c \in {"raw", "cut_short"} : blob' = [blob EXCEPT ![g] = c]
          /\ late' = (\/ late
                      \/ row # NULL /\ row.cleaning = "cleaned"
                      \/ \E r \in Slots : Cleans(r)
                      \/ \E h \in Genres \ {g} : blob[h] # NULL)
    /\ UNCHANGED <<row, original, segments, run, urls, stale, promise, lost, halfway>>

\* The expected path is built from the row as it is now; no status is checked.
confirm_upload ==
    /\ row # NULL /\ used["put"] > 0
    /\ Counted("confirm")
    /\ Enqueue([Idle EXCEPT !.fn = "upload", !.pc = "set", !.path = row.genre])
    /\ UNCHANGED <<row, still, lost, halfway>>

\* update_recording: the genre, and the cleaning marks a user may set.
MoveGenre ==
    /\ row # NULL
    /\ Counted("move")
    /\ \E g \in Genres \ {row.genre} : row' = [row EXCEPT !.genre = g]
    /\ UNCHANGED <<still, run, lost, halfway>>

MarkCleaning ==
    /\ row # NULL
    /\ \E c \in {"none", "needs_cleaning"} : row' = [row EXCEPT !.cleaning = c]
    /\ UNCHANGED <<still, run, lost, halfway, used>>

\* The object goes first, and a failure to delete it is only logged; the
\* request may die before the row's commit.
delete_recording ==
    /\ row # NULL
    /\ blob' \in {blob, Without(IF row.upload \in {"uploaded", "verified"}
                                THEN row.gcs_url ELSE NULL)}
    /\ row' \in {row, NULL}
    /\ promise' = "deleted"
    /\ UNCHANGED <<original, segments, run, urls, stale, lost, late, halfway, used>>

(* A project manager.                                                      *)

\* clear_stale_recordings lists the stale rows ...
ListStale ==
    /\ row # NULL /\ stale = "none"
    /\ row.upload \in {"uploading", "upload_failed"}
    /\ stale' = IF row.gcs_url = NULL THEN "no_url" ELSE row.gcs_url
    /\ UNCHANGED <<row, blob, original, segments, run, urls, promise,
                   lost, late, halfway, used>>

\* ... and deletes them as it listed them, objects first.
ClearStale ==
    /\ stale # "none"
    /\ blob' \in {blob, Without(stale)}
    /\ row' \in {row, NULL}
    /\ stale' = "none"
    /\ UNCHANGED <<original, segments, run, urls, promise, lost, late, halfway, used>>

\* The status is committed, then the event is sent; a request that dies in
\* between leaves the status alone.
Request(fn, new) ==
    /\ row # NULL
    /\ row.gcs_url # NULL /\ row.upload = "verified"
    /\ Counted(fn)
    /\ row' = new
    /\ \/ /\ Enqueue([Idle EXCEPT !.fn = fn, !.pc = "check", !.id = used[fn] + 1])
          /\ lost' = lost
       \/ /\ lost' = TRUE
          /\ run' = run
    /\ UNCHANGED <<still, halfway>>

trigger_cleaning == Request("clean", [row EXCEPT !.cleaning = "cleaning"])

request_split == Request("split", [row EXCEPT !.splitting = "splitting"])

-----------------------------------------------------------------------------
(* The queue's functions.                                                  *)

At(r, fn, pc) == run[r].fn = fn /\ run[r].pc = pc

\* A step is done: the function goes on to its next one.
Goto(r, pc) == run' = [run EXCEPT ![r].pc = pc, ![r].attempt = 1]

\* Within a step, between two of its effects.
Within(r, pc) == run' = [run EXCEPT ![r].pc = pc]

\* Where the step an activity belongs to begins.
StepStart(r) ==
    CASE run[r].pc = "overwrite" -> "backup"
      [] run[r].pc = "archive" -> "save"
      [] run[r].pc = "told" -> "tell"
      [] run[r].fn = "clean" /\ run[r].pc = "tell" -> "mark"
      [] OTHER -> run[r].pc

\* A step is tried again from its beginning, or is out of attempts.
Again(r) ==
    IF run[r].attempt < Attempts
    THEN run' = [run EXCEPT ![r].pc = StepStart(r), ![r].attempt = @ + 1]
    ELSE Goto(r, "failing")

\* With its last write a step is done: its result is recorded and the function goes on,
\* or the worker stops before that, and the step is one that failed.
Recorded(r, pc) ==
    \/ Goto(r, pc) /\ UNCHANGED halfway
    \/ Again(r) /\ halfway' = halfway \cup {run[r].fn}

Finish(r) == run' = [run EXCEPT ![r] = Idle]

\* update_recording_fields: nothing when the row is gone.
Update(field, value) ==
    row' = IF row = NULL THEN NULL ELSE [row EXCEPT ![field] = value]

(* process-upload *)

SetUploadMetadata(r) ==
    /\ At(r, "upload", "set")
    /\ IF row = NULL
       THEN row' = row /\ Goto(r, "failing") /\ UNCHANGED halfway
       ELSE /\ row' = [row EXCEPT !.gcs_url = run[r].path, !.upload = "uploaded"]
            /\ Recorded(r, "verify")
    /\ UNCHANGED <<still, lost, used>>

\* verify_gcs_blob: existence, size and checksums.  A mismatch is not retried.
VerifyBlob(r) ==
    /\ At(r, "upload", "verify")
    /\ Goto(r, IF blob[run[r].path] = "raw" THEN "finalize" ELSE "failing")
    /\ UNCHANGED <<row, still, lost, halfway, used>>

FinalizeVerified(r) ==
    /\ At(r, "upload", "finalize")
    /\ Update("upload", "verified")
    /\ Recorded(r, "tell")
    /\ UNCHANGED <<still, lost, used>>

NotifyUploadComplete(r) ==
    /\ At(r, "upload", "tell")
    /\ promise' = IF promise = "nothing" THEN "safe" ELSE promise
    /\ Within(r, "told")
    /\ UNCHANGED <<row, blob, original, segments, urls, stale, lost, late,
                   halfway, used>>

(* clean-recording *)

\* check_recording_verified, the first step of cleaning and of splitting.
CheckVerified(r) ==
    /\ run[r].pc = "check"
    /\ IF row # NULL /\ row.upload = "verified" /\ row.gcs_url # NULL
       THEN run' = [run EXCEPT ![r].pc = IF run[r].fn = "clean" THEN "call" ELSE "cut",
                               ![r].path = row.gcs_url, ![r].attempt = 1]
       ELSE Goto(r, "failing")
    /\ UNCHANGED <<row, still, lost, halfway, used>>

\* The cleaning service fetches the object by its URL, and the result is downloaded.
CallCleaningApi(r) ==
    /\ At(r, "clean", "call")
    /\ blob[run[r].path] # NULL
    /\ run' = [run EXCEPT ![r].pc = "backup", ![r].data = "cleaned", ![r].attempt = 1]
    /\ UNCHANGED <<row, still, lost, halfway, used>>

Backup_Skipped(r) ==
    /\ At(r, "clean", "backup")
    /\ Within(r, "overwrite")
    /\ UNCHANGED <<row, still, lost, halfway, used>>

\* backup-and-upload, one step: the copy ...
Backup(r) ==
    /\ At(r, "clean", "backup")
    /\ blob[run[r].path] # NULL
    /\ original' = [original EXCEPT ![run[r].path] = blob[run[r].path]]
    /\ Within(r, "overwrite")
    /\ UNCHANGED <<row, blob, segments, urls, stale, promise, lost, late, halfway,
                   used>>

Overwrite_Raw(r) ==
    /\ At(r, "clean", "overwrite")
    /\ blob' = [blob EXCEPT ![run[r].path] = original[run[r].path]]
    /\ Recorded(r, "mark")
    /\ UNCHANGED <<row, original, segments, urls, stale, promise, lost, late, used>>

\* ... and the upload over the object.
Overwrite(r) ==
    /\ At(r, "clean", "overwrite")
    /\ blob' = [blob EXCEPT ![run[r].path] = run[r].data]
    /\ Recorded(r, "mark")
    /\ UNCHANGED <<row, original, segments, urls, stale, promise, lost, late, used>>

\* With the splitting status for "done".
MarkCleaned_Completed(r) ==
    /\ At(r, "clean", "mark")
    /\ Update("cleaning", "completed")
    /\ Within(r, "tell")
    /\ UNCHANGED <<still, lost, halfway, used>>

\* update-status, one step with its notification.
MarkCleaned(r) ==
    /\ At(r, "clean", "mark")
    /\ Update("cleaning", "cleaned")
    /\ Within(r, "tell")
    /\ UNCHANGED <<still, lost, halfway, used>>

(* split-recording *)

\* The object is cut and the parts uploaded under ids drawn here.
SplitAndUpload(r) ==
    /\ At(r, "split", "cut")
    /\ blob[run[r].path] # NULL
    /\ Goto(r, "save")
    /\ UNCHANGED <<row, still, lost, halfway, used>>

SaveSegments_AfterArchive(r) ==
    /\ At(r, "split", "save")
    /\ run[r].id \notin segments
    /\ Update("splitting", "archived_after_split")
    /\ Within(r, "archive")
    /\ UNCHANGED <<still, lost, halfway, used>>

\* persist_split_segments: one commit for the segments, whose ids are not
\* drawn again when the step is ...
SaveSegments(r) ==
    /\ At(r, "split", "save")
    /\ run[r].id \notin segments
    /\ segments' = segments \cup {run[r].id}
    /\ Within(r, "archive")
    /\ UNCHANGED <<row, blob, original, urls, stale, promise, lost, late, halfway,
                   used>>

\* ... and one for the parent.
ArchiveParent(r) ==
    /\ At(r, "split", "archive")
    /\ Update("splitting", "archived_after_split")
    /\ Recorded(r, "tell")
    /\ UNCHANGED <<still, lost, used>>

Return(r) ==
    /\ IF run[r].fn = "upload" THEN run[r].pc = "told" ELSE run[r].pc = "tell"
    /\ Finish(r)
    /\ UNCHANGED <<row, still, lost, halfway, used>>

(* Any of them *)

\* A step fails or its worker stops, before or between its effects.
StepFails(r) ==
    /\ run[r].pc \notin {"idle", "failing"}
    /\ Again(r)
    /\ halfway' = IF run[r].fn = "split" /\ run[r].pc \in {"archive", "tell"}
                  THEN halfway \cup {"split"} ELSE halfway
    /\ UNCHANGED <<row, still, lost, used>>

\* With no handler registered for splitting.
OnFailure_NotForSplit(r) ==
    /\ run[r].pc = "failing"
    /\ CASE run[r].fn = "upload" -> Update("upload", "upload_failed")
         [] run[r].fn = "clean" -> Update("cleaning", "failed")
         [] run[r].fn = "split" -> row' = row
    /\ Finish(r)
    /\ UNCHANGED <<still, lost, halfway, used>>

\* _on_upload_failure, _on_clean_failure, _on_split_failure
OnFailure(r) ==
    /\ run[r].pc = "failing"
    /\ CASE run[r].fn = "upload" -> Update("upload", "upload_failed")
         [] run[r].fn = "clean" -> Update("cleaning", "failed")
         [] run[r].fn = "split" -> Update("splitting", "failed")
    /\ Finish(r)
    /\ UNCHANGED <<still, lost, halfway, used>>

-----------------------------------------------------------------------------
Function(r) ==
    \/ SetUploadMetadata(r) \/ VerifyBlob(r) \/ FinalizeVerified(r) \/ NotifyUploadComplete(r)
    \/ CheckVerified(r) \/ CallCleaningApi(r) \/ Backup(r) \/ Overwrite(r) \/ MarkCleaned(r)
    \/ SplitAndUpload(r) \/ SaveSegments(r) \/ ArchiveParent(r) \/ Return(r)
    \/ StepFails(r) \/ OnFailure(r)

Users ==
    \/ RequestUrl \/ PutAudio \/ confirm_upload
    \/ MoveGenre \/ MarkCleaning \/ delete_recording
    \/ ListStale \/ ClearStale \/ trigger_cleaning \/ request_split

Next == Users \/ \E r \in Slots : Function(r)

\* The queue never abandons a function: it takes each step or counts it failed.
Spec == Init /\ [][Next]_vars /\ \A r \in Slots : WF_vars(Function(r))

-----------------------------------------------------------------------------
(* Properties.                                                             *)

Uncleaned == {"raw", "cut_short"}

\* However cleaning functions overlap, stop and are tried again: a function that is about
\* to overwrite uncleaned audio has an uncleaned copy of it beside it, unless the device
\* put that audio meanwhile; the object is never the cleaned audio without a copy; and the
\* copy is itself replaced by cleaned audio only when a second cleaning was asked for, or
\* the one function's backup-and-upload failed after its upload and was run again.
OriginalIsKept ==
    /\ \A r \in Slots :
          At(r, "clean", "overwrite") /\ blob[run[r].path] \in Uncleaned /\ ~late
              => original[run[r].path] \in Uncleaned
    /\ \A g \in Genres : blob[g] = "cleaned" => original[g] # NULL
    /\ \A g \in Genres :
          original[g] = "cleaned" => used["clean"] >= 2 \/ "clean" \in halfway

\* A recording marked cleaned is not served uncleaned: the mark comes after the
\* overwrite, whatever other function or retry runs between the two -- unless the
\* device put audio on a second path, or with a URL it still had when the cleaning
\* service had answered, which leaves the mark alone.
CleanedIsCleaned ==
    row # NULL /\ row.cleaning = "cleaned" /\ ~late
        => blob[row.gcs_url] \in {"cleaned", NULL}

\* A recording is archived only when its segments are durably there.
ArchivedMeansSplit ==
    row # NULL /\ row.splitting = "archived_after_split" => segments # {}

\* A split that is said to have failed has left no segments, unless it was asked for twice,
\* or failed after their commit: run again, save-segments conflicts with its own ids, and
\* a notification out of attempts fails a split that is done.
FailedMeansUnsplit ==
    row # NULL /\ row.splitting = "failed" /\ segments # {}
        => used["split"] >= 2 \/ "split" \in halfway

\* No recording stays in a status that says a function is working on it, unless
\* a request died between setting it and sending its event.
InProgress ==
    /\ row # NULL
    /\ row.upload = "uploaded" \/ row.cleaning = "cleaning" \/ row.splitting = "splitting"

Settles == InProgress ~> (lost \/ ~InProgress)

\* "safe to free device storage": from then on the recording is kept until its
\* owner deletes it.
SafeMeansKept ==
    promise = "safe" => row # NULL /\ blob[row.gcs_url] # NULL

\* What a recording's statuses say is so: the original is kept before it is overwritten, what
\* is marked cleaned holds cleaned audio, a parent that is archived was split, and one whose
\* split failed was not (audio_cleaning.py:92, audio_splitting.py:82).
StatusesAreTrue ==
    TypeOK /\ OriginalIsKept /\ CleanedIsCleaned /\ ArchivedMeansSplit /\ FailedMeansUnsplit

=============================================================================
