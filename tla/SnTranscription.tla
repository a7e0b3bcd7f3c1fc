-------------------------- MODULE SnTranscription --------------------------
(***************************************************************************)
(* The transcription drafts of one Sound Necklace session's voice answers. *)
(*                                                                         *)
(* Three parties share the answers, their objects in the bucket and the    *)
(* draft rows: a recorder that stores and deletes takes, requests that     *)
(* queue drafts (start_transcription, then an event), and the queue's run  *)
(* that fills the pending ones in (run_pending).  The drafts ARE the job's *)
(* state; there is no other.                                               *)
(*                                                                         *)
(* Audio is the number of its take, a transcript the number of the take it *)
(* was made from.  A request's ORM objects remember what it loaded, and a  *)
(* flush sends the columns whose value differs from that.                  *)
(***************************************************************************)
EXTENDS Sql, Naturals, FiniteSets

CONSTANTS
    Answers,     \* resource paths of the session
    Clients,     \* clients of POST .../transcriptions
    Attempts,    \* how often the queue runs one event: 1 + retries
    MaxTakes,    \* bound on recordings
    MaxStarts    \* bound on triggers

ASSUME TranscriptionAssumption ==
    /\ NULL \notin Nat
    /\ Attempts \in Nat \ {0}
    /\ MaxTakes \in Nat
    /\ MaxStarts \in Nat

VARIABLES
    object,    \* the bucket: the take an answer's object holds
    answer,    \* the answers that have a row in sn_voice_answers
    draft,     \* sn_answer_transcripts
    rec,       \* the recorder's request in flight
    trigger,   \* the trigger each client has in flight
    events,    \* sn.transcription.requested events not yet picked up
    run,       \* the session's run (the queue allows one at a time)
    takes,     \* history: recordings so far
    starts,    \* history: triggers so far
    rows,      \* history: draft rows inserted so far
    floor,     \* history: the oldest take an answer's draft may be of
    lost,      \* history: some request or run died owing work
    aliased,   \* history: a pass wrote to a row it had not read
    overlapped \* history: a reset was computed from a draft that had been reset since

transcriptionVars == <<object, answer, draft, rec, trigger, events, run, takes, starts, rows, floor, lost, aliased,
                       overlapped>>
marks == <<lost, aliased, overlapped>>

Takes == 1..MaxTakes
Status == {"pending", "ready", "failed"}

Drafts == [status : Status, generation : Nat, text : Takes \cup {NULL}, row : Nat]

\* What a run remembers of a draft it has to fill.
Tickets == [generation : Nat, row : Nat]

\* SQL NULL is no row.
ASSUME RowAssumption == NULL \notin Drafts \cup Tickets

IdleTrigger ==
    [pc |-> "idle", force |-> FALSE, scope |-> {}, listed |-> {},
     loaded |-> [a \in Answers |-> NULL], base |-> [a \in Answers |-> 0]]

IdleRun == [pc |-> "idle", attempt |-> 0, todo |-> [a \in Answers |-> NULL],
            cur |-> NULL, heard |-> NULL]

IdleRec == [pc |-> "idle", answer |-> NULL]

TranscriptionTypeOK ==
    /\ object \in [Answers -> Takes \cup {NULL}]
    /\ answer \subseteq Answers
    /\ draft \in [Answers -> Drafts \cup {NULL}]
    /\ rec \in [pc : {"idle", "uploaded", "erased"}, answer : Answers \cup {NULL}]
    /\ trigger \in [Clients -> [pc : {"idle", "listed", "loaded", "committed"},
                           force : BOOLEAN, scope : SUBSET Answers,
                           listed : SUBSET Answers,
                           loaded : [Answers -> Drafts \cup {NULL}],
                           base : [Answers -> 0..MaxTakes]]]
    /\ events \in Nat
    /\ run \in [pc : {"idle", "working", "heard", "crashed"}, attempt : 0..Attempts,
               todo : [Answers -> Tickets \cup {NULL}],
               cur : Answers \cup {NULL}, heard : Takes \cup {NULL}]
    /\ takes \in 0..MaxTakes
    /\ starts \in 0..MaxStarts
    /\ rows \in Nat
    /\ floor \in [Answers -> 0..MaxTakes]
    /\ {lost, aliased, overlapped} \subseteq BOOLEAN
    \* the composite foreign key
    /\ \A a \in Answers : draft[a] # NULL => a \in answer

TranscriptionInit ==
    /\ object = [a \in Answers |-> NULL]
    /\ answer = {}
    /\ draft = [a \in Answers |-> NULL]
    /\ rec = IdleRec
    /\ trigger = [c \in Clients |-> IdleTrigger]
    /\ events = 0
    /\ run = IdleRun
    /\ takes = 0
    /\ starts = 0
    /\ rows = 0
    /\ floor = [a \in Answers |-> 0]
    /\ lost = FALSE
    /\ aliased = FALSE
    /\ overlapped = FALSE

-----------------------------------------------------------------------------
(* The recorder.                                                           *)

\* PUT .../resources/{path}: the object is overwritten before the row.
UploadTake(a) ==
    /\ rec.pc = "idle"
    /\ takes < MaxTakes
    /\ takes' = takes + 1
    /\ object' = [object EXCEPT ![a] = takes + 1]
    /\ rec' = [pc |-> "uploaded", answer |-> a]
    /\ UNCHANGED <<answer, draft, trigger, events, run, starts, rows, floor, marks>>

\* ... then the row is inserted or updated in place.
StoreRow ==
    /\ rec.pc = "uploaded"
    /\ answer' = answer \cup {rec.answer}
    /\ rec' = IdleRec
    /\ UNCHANGED <<object, draft, trigger, events, run, takes, starts, rows, floor, marks>>

\* DELETE .../resources/{path}: the object goes before the row.
EraseObject(a) ==
    /\ rec.pc = "idle"
    /\ a \in answer
    /\ object' = [object EXCEPT ![a] = NULL]
    /\ rec' = [pc |-> "erased", answer |-> a]
    /\ UNCHANGED <<answer, draft, trigger, events, run, takes, starts, rows, floor, marks>>

DeleteRow_NoCascade ==
    /\ rec.pc = "erased"
    /\ answer' = answer \ {rec.answer}
    /\ rec' = IdleRec
    /\ UNCHANGED <<object, draft, trigger, events, run, takes, starts, rows, floor, marks>>

\* ... then the row, whose draft the foreign key cascades to.
DeleteRow ==
    /\ rec.pc = "erased"
    /\ answer' = answer \ {rec.answer}
    /\ draft' = [draft EXCEPT ![rec.answer] = NULL]
    /\ floor' = [floor EXCEPT ![rec.answer] = 0]
    /\ rec' = IdleRec
    /\ UNCHANGED <<object, trigger, events, run, takes, starts, rows, marks>>

RecorderDies ==
    /\ rec.pc # "idle"
    /\ rec' = IdleRec
    /\ UNCHANGED <<object, answer, draft, trigger, events, run, takes, starts, rows, floor, marks>>

-----------------------------------------------------------------------------
(* A trigger.                                                              *)

\* POST .../transcriptions: the answers are read, then the drafts.
ListAnswers(c) ==
    /\ trigger[c].pc = "idle"
    /\ starts < MaxStarts
    /\ starts' = starts + 1
    /\ \E f \in BOOLEAN, s \in SUBSET Answers :
          /\ ~f => s = {}
          /\ trigger' = [trigger EXCEPT ![c] =
                        [IdleTrigger EXCEPT !.pc = "listed", !.force = f, !.scope = s,
                                         !.listed = answer]]
    /\ UNCHANGED <<object, answer, draft, rec, events, run, takes, rows, floor, marks>>

_existing_drafts(c) ==
    /\ trigger[c].pc = "listed"
    /\ trigger' = [trigger EXCEPT
                  ![c].pc = "loaded",
                  ![c].loaded = draft,
                  ![c].base = [a \in Answers |-> IF object[a] = NULL THEN 0 ELSE object[a]]]
    /\ UNCHANGED <<object, answer, draft, rec, events, run, takes, starts, rows, floor, marks>>

Seeds(c) == {a \in trigger[c].listed : trigger[c].loaded[a] = NULL}

Forced(c) == IF trigger[c].force
             THEN {a \in trigger[c].listed \cap trigger[c].scope : trigger[c].loaded[a] # NULL}
             ELSE {}

Failed(c) == {a \in trigger[c].listed :
                 trigger[c].loaded[a] # NULL /\ trigger[c].loaded[a].status = "failed"}

Resets(c) == Forced(c) \cup Failed(c)

\* What the flush makes of a reset draft: only columns that differ from the
\* loaded ones are sent, the generation as a value computed from the loaded one.
FlushReset(old, cur) ==
    [cur EXCEPT
       !.generation = old.generation + 1,
       !.status = IF old.status = "pending" THEN cur.status ELSE "pending",
       !.text = IF old.text = NULL THEN cur.text ELSE NULL]

NewDraft == [status |-> "pending", generation |-> 0, text |-> NULL, row |-> rows + 1]

\* An insert meets a row that is already there, or an answer that is gone; an
\* update meets a row that is gone.
Collides(c) == \E a \in Seeds(c) : draft[a] # NULL \/ a \notin answer
Stale(c) == \E a \in Resets(c) : draft[a] = NULL

\* A draft this trigger resets has been reset, or filed anew, since the trigger loaded it.
Overlaps(c) == \E a \in Resets(c) : \/ draft[a].generation # trigger[c].loaded[a].generation
                                    \/ draft[a].row # trigger[c].loaded[a].row

\* Every insert and every reset in one commit.
CommitStart(c) ==
    /\ trigger[c].pc = "loaded"
    /\ ~Collides(c) /\ ~Stale(c)
    /\ draft' = [a \in Answers |->
                   IF a \in Seeds(c) THEN NewDraft
                   ELSE IF a \in Resets(c) THEN FlushReset(trigger[c].loaded[a], draft[a])
                   ELSE draft[a]]
    /\ rows' = IF Seeds(c) = {} THEN rows ELSE rows + 1
    /\ floor' = [a \in Answers |->
                   IF /\ a \in Forced(c) /\ draft'[a].status = "pending"
                      /\ trigger[c].base[a] > floor[a]
                   THEN trigger[c].base[a] ELSE floor[a]]
    /\ trigger' = [trigger EXCEPT ![c].pc = "committed",
                            ![c].loaded = [a \in Answers |->
                                IF a \in Seeds(c) \cup Resets(c) THEN draft'[a]
                                ELSE trigger[c].loaded[a]]]
    /\ overlapped' = (overlapped \/ Overlaps(c))
    /\ UNCHANGED <<object, answer, rec, events, run, takes, starts, lost, aliased>>

\* The integrity error rolls the whole trigger back and is answered with the
\* drafts as they are then.
CollideStart(c) ==
    /\ trigger[c].pc = "loaded"
    /\ Collides(c)
    /\ trigger' = [trigger EXCEPT ![c].pc = "committed",
                            ![c].loaded = [a \in Answers |-> NULL]]
    /\ UNCHANGED <<object, answer, draft, rec, events, run, takes, starts, rows, floor, marks>>

\* The ORM misses an updated row: the trigger fails, nothing is stored.
StaleStart(c) ==
    /\ trigger[c].pc = "loaded"
    /\ Stale(c)
    /\ trigger' = [trigger EXCEPT ![c] = IdleTrigger]
    /\ UNCHANGED <<object, answer, draft, rec, events, run, takes, starts, rows, floor, marks>>

\* transcription_progress: the rows this trigger already holds as it holds them
\* (reset or seeded ones are pending), the others as they are.
SeesPending(c) ==
    \/ Resets(c) # {}
    \/ \E a \in Answers :
          LET d == IF trigger[c].loaded[a] # NULL THEN trigger[c].loaded[a] ELSE draft[a]
          IN d # NULL /\ d.status = "pending"

request_transcription_Never(c) ==
    /\ trigger[c].pc = "committed"
    /\ trigger' = [trigger EXCEPT ![c] = IdleTrigger]
    /\ UNCHANGED <<object, answer, draft, rec, events, run, takes, starts, rows, floor, marks>>

\* The event goes out only after the commit, and only for pending drafts.
request_transcription(c) ==
    /\ trigger[c].pc = "committed"
    /\ events' = IF SeesPending(c) THEN events + 1 ELSE events
    /\ trigger' = [trigger EXCEPT ![c] = IdleTrigger]
    /\ UNCHANGED <<object, answer, draft, rec, run, takes, starts, rows, floor, marks>>

TriggerDies(c) ==
    /\ trigger[c].pc # "idle"
    /\ trigger' = [trigger EXCEPT ![c] = IdleTrigger]
    /\ lost' = (lost \/ trigger[c].pc = "committed")
    /\ UNCHANGED <<object, answer, draft, rec, events, run, takes, starts, rows, floor, aliased, overlapped>>

-----------------------------------------------------------------------------
(* The run.                                                                *)

\* run_pending's one read: the pending drafts that have an answer.
Todo == [a \in Answers |->
           IF draft[a] # NULL /\ draft[a].status = "pending"
           THEN [generation |-> draft[a].generation, row |-> draft[a].row] ELSE NULL]

RunBegins ==
    /\ run.pc = "idle"
    /\ events > 0
    /\ events' = events - 1
    /\ run' = [IdleRun EXCEPT !.pc = "working", !.attempt = 1, !.todo = Todo]
    /\ UNCHANGED <<object, answer, draft, rec, trigger, takes, starts, rows, floor, marks>>

\* Download, transcribe, translate: any of the three may fail.
Transcribe(a) ==
    /\ run.pc = "working"
    /\ run.todo[a] # NULL
    /\ \E got \in {object[a], NULL} :
          run' = [run EXCEPT !.pc = "heard", !.cur = a, !.heard = got]
    /\ UNCHANGED <<object, answer, draft, rec, trigger, events, takes, starts, rows, floor, marks>>

StillTheRow_Unchecked(a) == draft[a] # NULL

StillTheRow(a) == draft[a] # NULL /\ draft[a].generation = run.todo[a].generation

\* Compare-and-swap on the generation, committed row by row.
_write_draft ==
    /\ run.pc = "heard"
    /\ LET a == run.cur IN
          /\ draft' = IF ~StillTheRow(a) THEN draft
                      ELSE IF run.heard = NULL
                      THEN [draft EXCEPT ![a].status = "failed"]
                      ELSE [draft EXCEPT ![a].status = "ready", ![a].text = run.heard]
          /\ aliased' = (aliased \/ (StillTheRow(a) /\ draft[a].row # run.todo[a].row))
          /\ run' = [run EXCEPT !.pc = "working", !.cur = NULL, !.heard = NULL,
                                !.todo[a] = NULL]
    /\ UNCHANGED <<object, answer, rec, trigger, events, takes, starts, rows, floor, lost, overlapped>>

RunEnds ==
    /\ run.pc = "working"
    /\ \A a \in Answers : run.todo[a] = NULL
    /\ run' = IdleRun
    /\ UNCHANGED <<object, answer, draft, rec, trigger, events, takes, starts, rows, floor, marks>>

\* The worker stops mid-pass: the queue runs the step again, up to Attempts.
RunCrashes ==
    /\ run.pc \in {"working", "heard"}
    /\ run' = IF run.attempt < Attempts
              THEN [IdleRun EXCEPT !.pc = "crashed", !.attempt = run.attempt] ELSE IdleRun
    /\ lost' = (lost \/ run.attempt = Attempts)
    /\ UNCHANGED <<object, answer, draft, rec, trigger, events, takes, starts, rows, floor, aliased, overlapped>>

RunRetries ==
    /\ run.pc = "crashed"
    /\ run' = [run EXCEPT !.pc = "working", !.attempt = run.attempt + 1, !.todo = Todo]
    /\ UNCHANGED <<object, answer, draft, rec, trigger, events, takes, starts, rows, floor, marks>>

-----------------------------------------------------------------------------
Recorder ==
    \/ \E a \in Answers : UploadTake(a) \/ EraseObject(a)
    \/ StoreRow \/ DeleteRow \/ RecorderDies

Trigger(c) ==
    \/ ListAnswers(c) \/ _existing_drafts(c)
    \/ CommitStart(c) \/ CollideStart(c) \/ StaleStart(c)
    \/ request_transcription(c) \/ TriggerDies(c)

RunProgress == RunBegins \/ (\E a \in Answers : Transcribe(a)) \/ _write_draft \/ RunEnds
               \/ RunRetries

TranscriptionNext == Recorder \/ (\E c \in Clients : Trigger(c)) \/ RunProgress \/ RunCrashes

\* The queue delivers what was sent and retries what failed; a request that has
\* committed goes on to send its event unless its process dies.
Fairness ==
    /\ WF_transcriptionVars(RunProgress)
    /\ \A c \in Clients : WF_transcriptionVars(request_transcription(c))

TranscriptionSpec == TranscriptionInit /\ [][TranscriptionNext]_transcriptionVars /\ Fairness

-----------------------------------------------------------------------------
(* Properties.                                                             *)

OfTheNewTake(a) ==
    draft[a] # NULL /\ draft[a].status = "ready" => draft[a].text \in floor[a]..takes

\* "A force that lands while the pass is running": writing the pass's result over the
\* draft it reset "would leave ready holding a draft of a take that no longer exists"
\* (transcribe_answers.py:228).  As far as the pass wrote to the row it read, see
\* WritesOnlyTheRowItRead.
ForcedDraftIsNotOverwritten == aliased \/ \A a \in Answers : OfTheNewTake(a)

\* As long as no reset was computed from a draft that had been reset since: a force
\* that leaves the draft pending discards what came before for good.  No draft of a
\* take older than the one in the bucket when the force read the drafts is ever ready
\* again, whatever pass, deletion, re-recording and trigger interleave
\* (transcribe_answers.py:240).
ForcedDraftIsOfTheNewTake == aliased \/ overlapped \/ \A a \in Answers : OfTheNewTake(a)

\* A pending draft does not stay pending, unless some process died owing work:
\* whatever triggers, re-records, deletions and retries interleave, an event
\* that will find it is sent or a run that read it is on.
QueuedWorkFinishes ==
    \A a \in Answers :
        (draft[a] # NULL /\ draft[a].status = "pending")
            ~> (lost \/ draft[a] = NULL \/ draft[a].status # "pending")

\* "delete or re-record an answer and its draft goes with it": between requests
\* a ready draft is of the take in the bucket.
DraftIsOfTheAnswer ==
    \A a \in Answers :
        rec.pc = "idle" /\ draft[a] # NULL /\ draft[a].status = "ready"
            => object[a] \in {NULL, draft[a].text}

\* "Write a result only if the row is still the one the pass read."
WritesOnlyTheRowItRead ==
    [][run.pc = "heard" /\ run'.pc = "working" /\ draft' # draft
          => draft[run.cur].row = run.todo[run.cur].row]_transcriptionVars

\* Force "throws the existing drafts away".
ForceDiscards ==
    [][\A c \in Clients :
          trigger[c].pc = "loaded" /\ trigger'[c].pc = "committed"
          => \A a \in Forced(c) : draft'[a] # NULL => draft'[a].status # "ready"]_transcriptionVars

\* "A ready draft is left alone" by a trigger without force.
ReadyIsLeftAlone ==
    [][\A c \in Clients, a \in Answers :
          /\ trigger[c].pc = "loaded" /\ ~trigger[c].force
          /\ draft[a] # NULL /\ draft[a].status = "ready"
          /\ trigger'[c].pc = "committed"
          => draft'[a] = draft[a]]_transcriptionVars

\* Rows point at rows, and a draft that was forced is of the take it was forced for
\* (transcribe_answers.py:61).
DraftsAreOfTheirTakes == TranscriptionTypeOK /\ ForcedDraftIsOfTheNewTake

=============================================================================
