# A verification of the Tripod API

Tripod is one FastAPI process (gunicorn with one worker, up to 80 requests at
a time on its event loop, `Dockerfile`, `.github/workflows/deploy.yml`) over
PostgreSQL, a Google Cloud Storage bucket and a queue (Inngest) that calls it
back. Several instances may run. What makes it hard is not computation: it is
that every handler reads rows, awaits something — a row lock, an upload, a
language model that takes seconds — and writes afterwards, while other handlers
and queued steps do the same to the same rows, and while any of them may stop
between two of its effects.

This directory holds TLA+ models of the parts where that matters, the TLC
configurations that check them, and TLAPS proofs about some of them.
`PROJECT.json` is its index: components, runs, mutants, the source lines of each
definition, hazards, theorems.

    tlc -config SnEditing.cfg MCSnEditing     # a run: see the table of runs
    tlapm SnProofs.tla                        # its proofs

## 1. The system

### 1.1 Components, and what is modelled

| component | state | modelled |
|---|---|---|
| Sound Necklace: editor lease | `sn_sessions.locked_by, lock_expires_at` | `AdvisoryLease`, `SnLease` |
| Sound Necklace: editing | `sn_sessions`, `sn_session_state`, `sn_audit_events` | `SnEditing` |
| Sound Necklace: transcription | `sn_voice_answers`, their objects, `sn_answer_transcripts` | `SnTranscription` |
| Sound Necklace: project grid | `sn_project_settings`, the sessions' grids | `GridFreeze`, `SnGrid` |
| Sound Necklace: artifacts, consents, listings | `sn_artifacts`, objects, `sn_consents` | no |
| Oral Collector: recordings | `oc_recordings`, objects, upload, clean and split functions | `OcRecording`; what is said of a recording, `Catalogue` |
| Oral Collector: genres, storytellers, review flags, statistics | `oc_genres`, `oc_storytellers`, `oc_recordings.review_flags` | `Catalogue` |
| Oral Collector: projects and invitations | `project_invites`, `project_user_access` | `Directory` |
| Oral Collector: acoustemes | `oc_acousteme_artifacts`, objects | no |
| Book Context Documents: workflow | `book_context_documents`, `bcd_approvals` | `BcdWorkflow` (without feedback, stored translations) |
| Book Context Documents: pipeline, brief | none of its own | as the outcome of a run |
| Access to applications | `access_requests`, `user_app_roles`, `apps.auto_approve`, `_roles_cache` | `AppAccess` |
| Applications and roles CRUD | `apps`, `roles` | no |
| Authentication, users | `users`, `refresh_tokens`, `password_reset_tokens`, `_user_cache` | `Accounts`, deletion also in `SnLease` and `Directory` |
| Meaning maps, notifications | `meaning_maps`, `meaning_map_feedback`, `notifications` | `MeaningMap` |
| Project health interviews | `ph_interviews`, `ph_reports`, `ph_agent_prompts`, the voice's cache | `Interviews`, `AgentPrompts`, `Speech` |
| Translation Helper | `th_chats`, `th_chat_messages`, `th_agent_prompts`, the speech cache | `Chats`, `AgentPrompts`, `Speech` |
| Annotation Studio | twelve `as_*` tables, their objects, export bundles | `Studio`, `StudioPlan` |
| Organizations, projects, languages | `organizations`, members, `projects`, the two access tables, `languages` | `Directory` |
| Phases | `phases`, `phase_dependencies`, `project_phases` | `Phases` |
| Schema | the chain of 57 Alembic revisions | `Migrations` |
| RAG, BHSA, platform services, i18n | external services, a read-only corpus | no |
| Database sessions, queue glue | — | the transaction discipline and the queue's retries are part of every module |

`PROJECT.json` gives the sources of each and the reason where it is left out.

### 1.2 What the parts do, and what would make them wrong

**Editor lease.** One row's two columns. `acquire_lock` takes and renews in one
guarded `UPDATE`; `release_lock` frees; time lapses a lease; deleting the
holder's account empties `locked_by` but not the expiry. The handlers read the
clock before the statement, which may then wait for the row. Right means: never
stolen, i.e. no live holder is followed by another without having been free.

**Editing.** Autosave (with or without `If-Match`), load, complete, reopen.
Tabs belong to users; a tab may sleep through a takeover. Right means: a stale
tab does not overwrite the new holder, a conditional save never overwrites what
its tab was not shown, the dashboard's station follows the stored document,
nobody completes under another's lease, the audit trail agrees with the status.

**Transcription.** Answers are recorded, recorded again, deleted; a trigger
files a draft for each, then sends an event; the queue runs one pass per session
that fills in pending drafts, committing one by one, each write a
compare-and-swap on `generation`. Right means: work queued is finished, and a
forced draft is not refilled from the take it discarded.

**Project grid.** An administrator confirms a granularity level; a creation of a
session stamps the bead its audio resolves to, or is held to the one stamped.
Both take the project's row `FOR UPDATE` first. Right means: the sessions of a
project share one grid, level and bead are written once, every answer stays true
and every request gets one.

**Recordings.** The device asks for a signed URL, puts the audio, confirms;
`process-upload` verifies and tells the owner the device's copy may go; a
manager has it cleaned (object copied aside and overwritten) or split (segments
cut, filed, the parent archived); the owner may delete it or edit its genre,
which is part of the object's path; a manager clears the stale ones. Right
means: the original is copied aside before it is overwritten, statuses mean what
they say, nothing is "in progress" for ever, and the audio whose owner may forget
it is kept. How far each of these is true is in sections 3 and 6.

**Book Context Documents.** Lock, edit in one's language (awaiting a
back-translation), approve until a quorum of specialties or an administrator,
ask for revision, make active, make a new version, generate in the background,
cancel. No statement repeats the decision its handler made on the row it
loaded. Right means: an approved document was approved, and is not edited; one
active version; no generation that never ends.

**Access.** A request, its review, the sweep that approves all pending requests
when an application's auto-approval is switched on, grants, revocations, and a
cache of roles in every process that only the process of the change empties.
Right means: approved means granted, a grant is filed once, the cache lies for a
bounded time only.

**Accounts.** Sign-up, login, refresh and logout, a link by mail that resets a
password, what administrators and owners change, and a cache that admits
requests for up to five minutes. Passwords are hashed and mails sent between the
reads and the writes. Right means: a reset ends the old sessions, a link works
once and is known when it is mailed, and who is deactivated is let in no more in
the end.

**Meaning maps.** A map of a pericope is generated or made by hand, edited under
a lock, submitted, approved or returned by another analyst, commented on and
translated into a cache. Right means: approval is another's and stands, the
analyst is told, and the translation is of the text.

**Conversations.** Health interviews post turns under a row lock and are
completed without one; the Translation Helper's chats read their history, commit
the question, stream, and commit the answer; both have prompts that every
replica seeds and administrators edit, and a cache of speech. Right means: one
report of all that was answered, answers given in context, prompts that render,
replicas that come up together.

**Annotation Studio.** Words, pairs and clips are recorded by browsers that put
the audio themselves; exports are assembled of what is stored. Right means: no
take that has its row loses its audio (of the references of words see section 6),
no two takes share a name, an export is whole, and what was called ready is in it.

**Directory, phases, catalogue.** Organizations, projects, who has access,
invitations, phases and their dependencies, and what is said of recordings —
classification, title, storyteller, review flags, counts. Right means: lists,
flags and counts agree with the rows, and an accepted invitation with an access
that is there.

**Migrations.** The schema goes up by releases and down by one, while the
application writes. Right means: every revision fits the ones around it and
nothing is lost on the way up.

How they interact: handlers and queue functions share only rows and objects.
An event goes one way, after the commit it announces; a queue function calls
back into the same tables. Accounts are the one thing every part refers to
(deleting one runs `ON DELETE` actions in all of them). The hazards, each at its
line with the property that covers it, are in `PROJECT.json`.

## 2. How the models are made

*Granularity.* A request is the sequence of statements its handler sends. An
action is one statement, or a statement with the commit that follows it with
nothing awaited between that another party could see. What a transaction has
written appears at its commit.

*What a flush sends.* SQLAlchemy sends the columns whose new value differs from
the loaded one. Where two handlers race this matters, so the requests remember
what they loaded (`loaded_step`, `base`, `seen` rows) and the commits write the
difference only: it is how the station of a session is left behind its document
and how a force is lost (section 6).

*READ COMMITTED.* An `UPDATE` waits for the row and re-evaluates its `WHERE` on
the row it gets, but subqueries stay with the statement's snapshot: hence
`SnEditing`'s autosave judges the lease at its fence and the version at its
commit, while `complete_session`, whose guard is on the target row, is a single
action. A check that a unique constraint backs is a step with its write: if it
is stale, the request fails and changes nothing (`Directory`, `Phases`).

*The bucket* is in no transaction: what a request does to an object is a step
before or after its commit (`SnTranscription`, `OcRecording`, `Studio`).

*Clocks.* A handler's `datetime.now` is any instant of the last `Lag` ticks.
`AppAccess` has no clock: it counts ages that saturate at `TTL + MaxDelay`, so
its time is unbounded.

*Crashes.* Every module has an action by which a request, a run or a process
stops between two of its effects (`Die`, `CallDies`, `TriggerDies`, `RunCrashes`, `StepFails`,
`RunDies`, `RequestStops`, `Stops`, `Breaks`, `Fails`, `HangsUp`).

*Data.* A document is what `step_for` looks at; audio is the number of its take;
a transcript is the number of the take it was made from; the content of a
Book Context Document or of a map is the number of the write that made it, and a
translation is the text it was made from; an object's path is the genre in it; a
prompt's template is the placeholders it uses; a revision is what its statements
need, add and drop.

*History variables* say what a property is about or which window the code leaves
open: `held_since`, `floor`, `promise`, `granted`, `given`, `since` record the past;
`lost`, `died` say a process stopped owing work; `halfway` that a step failed when
it had written; `late` that the device put audio beside other audio or under a
cleaning; `raced`, `overlapped` that two
handlers which decide on the same read overlapped; `aliased` that a pass wrote to
a row it had not read (in `SnTranscription`, `overlapped` says that a trigger reset
a draft which had been reset since the trigger loaded it). A property guarded by one of the latter says exactly
when the guarantee holds; the window itself is a hazard or a finding.

### 2.1 Modules

| module | models |
|---|---|
| `AdvisoryLease` | the abstract lease: a holder, `Take` from nobody, `Free` |
| `SnLease` | the two columns, `AcquireLock`, `ReleaseLock`, `DeleteUser`, `Tick`, and the predicates of the fenced writes (`LockedByOther`, `RowOpenTo`, `MayAcquire`); `LeaseRefinement` maps `holder` to what `get_lock_status` reports |
| `SnEditing` | extends `SnLease`: tabs with one request in flight. `BeginAutosave` loads, `FenceAutosave` starts the guarded `UPDATE`, `CommitAutosave` or `MissAutosave` ends it, `DiagnoseAutosave` is `raise_if_locked_by_other` and `_current_version`; `BeginLifecycle`, `NoopLifecycle`, `ApplyLifecycle`, `RefuseLifecycle`, `DiagnoseLifecycle` are complete and reopen; `GetState` is the load |
| `GridFreeze` | the abstract settings of a project: a level and a bead, each written once |
| `SnGrid` | `BeginConfirm`; `BeginCreate`, `FlushSession`; then for both `TakeRow`, `ReadSettings` and `Refuse`, `Confirm` or `CommitSession`. The locks on the project's row (`ForUpdate`, `KeyShare`) follow from how far a request has got; `FailVictim` is PostgreSQL's deadlock detector. `Close` is `math.isclose` as any reflexive relation. `Freeze` maps the row to `GridFreeze` |
| `SnTranscription` | recorder (`UploadTake`, `StoreRow`, `EraseObject`, `DeleteRow`), triggers (`ListAnswers`, `_existing_drafts`, `CommitStart`, `CollideStart`, `StaleStart`, `request_transcription`), the queue's run (`RunBegins`, `Transcribe`, `_write_draft`, `RunEnds`, `RunCrashes`, `RunRetries`) |
| `OcRecording` | requests (`RequestUrl`, `PutAudio`, `confirm_upload`, `MoveGenre`, `ListStale`/`ClearStale`, `delete_recording`, `MarkCleaning`/`trigger_cleaning`, `request_split`) and the steps of the three functions, each with `StepFails` and the `OnFailure` handlers. A step is run again from its beginning also when all its writes were made and only its result was not recorded (`Recorded`); an upload URL serves any number of PUTs |
| `BcdWorkflow` | nine handlers as `Begin` and their commits, with the reads that matter between (`ReadApprovals`, `LookForActive`, `EraseApprovals`, `Deactivate`), the generation runs, the lapse of the lock |
| `AppAccess` | granting handlers as `Begin…`, `ReadGrants`, `CommitGrant` or `KeepGrant`, `Invalidate`; `BeginRevoke`, `CommitRevoke`; checks as `CheckHit` or `ListRoles`, `FillCache`; `Evict`, `Tick` |
| `Sql` | `NULL`, which the modules that a run composes share |
| `Sorting` | `SortedBy`: what `sorted` and `ORDER BY` give of things whose keys differ |
| `Accounts` | `BeginSignup`/`CommitSignup`; `BeginLogin`, `IssueTokens`; `RefreshAccessToken`, `Logout`; `BeginForgot`, `StampLinks`, `SendMail`, `CommitForgot`; `BeginPasswordReset`, `RevokeAll`, `CommitPasswordReset`; `Miss`, `Fill`, `Lapses` of the cache and who is `Admitted` by it; `AdminUpdates`, `UpdateMe`, `RemoveAccount`; `RequestStops` |
| `MeaningMap` | handlers as `Begin` and their commits (`CommitEdit`, `CommitVerdict`, …), with the model between where one is awaited (`ModelFails`); the notification as a commit of its own (`FileNotice`); the views of `list_books`, `list_pericopes`, `get_dashboard_summary` and `get_chapter_summaries` as operators compared with one another |
| `Interviews` | `BeginPost` (takes the row lock), `CommitPost`; `BeginComplete`, `CommitComplete` and the unique report; `DeleteInterview`; the gates of `interview_rules.py` as `CanComplete`, `Orchestrated` |
| `Chats` | `BeginSend`/`CommitSend`; `BeginStream`, `CommitQuestion`, `CommitAnswer`, `HangsUp`; `UpdateChat`, `DeleteChat`. Time is the number of transactions begun, since `created_at` is the start of one |
| `AgentPrompts` | a replica's start (`Boot`, `SeedAgents`, `ReadHealth`, `SeedHealth`, `Stops`); `BeginUpdate`/`CommitUpdate`, `BeginReset`/`CommitReset`; each default template as the placeholders it uses |
| `Speech` | the cache as a sequence in order of use; marks of sentences as positions in a line |
| `Studio` | rows of takes whose audio is put (`Upload`), completed (`BeginComplete`, `Complete`, `Reject`) and deleted (`DeleteTake`, `Erase`) apart; labels counted and inserted (`CountRows`, `CreateWord`, `CreateSpeaker`); references; exports (`BeginExport`, `Fetch`, `PutBundle`, `FinishExport`, `FailExport`, `DeleteExport`); plots, members |
| `StudioPlan` | `export_plan.py` and `readiness_service.py` as operators: `PlanTierA`, the sampling by stride, what is ready |
| `Directory` | one-statement requests whole; `CreateProject`, `MakeManager`; `BeginInvite`, `CommitInvite`; `BeginAccept`, `LookForAccess`, `GrantInvited`, `CommitAccept`; `BeginDecline`, `CommitDecline`; `Stops` |
| `Phases` | phases, dependencies, attachments; `BeginList`, `FinishList` |
| `Catalogue` | `BeginUpdate`/`CommitUpdate`, `BeginCreate`/`CommitCreate`, split (`BeginSplit`, `CommitSplit`, which puts an archived parent back into the listing and under the title index, `SendSplit`, `CommitSegment`, `ArchiveParent`, `EndSplit`, `SplitFails`), `BeginRemove`/`CommitRemove` of a storyteller, `BeginCount`/`FinishCount`, genres |
| `Migrations` | each revision as two lists of statements; `run` walks them in a transaction while `Write` adds rows |
| `MC…` | instances. Where a module has parts that share no state (`MCConversations`, `MCStudio`, `MCDirectory`), or a module is checked on two instances of different shape (`MCSnTranscription`), a behaviour is of one part, picked at the start: the roles of the users, the documents, symmetry |
| `…Proofs` | theorems about the module in the name; `SnProofs` about `SnLease`, `SnEditing`, `SnGrid` and `SnTranscription`, `ConversationProofs` about `Accounts`, `Interviews`, `Chats` and `AgentPrompts`, `DirectoryProofs` about `Directory`, `Phases` and `Catalogue`, `SequenceProofs` about `Studio`, `StudioPlan`, `Speech` and `Migrations` |

Definitions named `X_Something` beside a definition `X` are mutants: what a
plausible bug would make of it. `PROJECT.json` pairs each with the property that
notices it.

## 3. The runs

A run's properties are named for what they promise; most are conjunctions of the
named properties above them in the module, each with its own comment, so that a
module's type invariant and lesser facts are checked with the ones that matter.

| run | question | bounds |
|---|---|---|
| `SnEditing` | do the fences of autosave, complete and reopen hold against lapse, takeover and account deletion, and is the lease never stolen? | 2 tabs of 2 accounts, 2 documents of different stations, TTL 2, lag 1, clock to 2, requests begun while fewer than three saves and lifecycle events are stored |
| `SnGrid` | do sessions share one grid, is it written once, do answers stand, is every request answered? | 3 requests, 2 levels, 3 beads of which 2 are close |
| `SnTranscription` | is queued work finished, and a forced draft of the new take? | 2 answers and a client, or 1 answer and 2 clients of whom one may have had it transcribed before; 2 triggers, 2 takes, 2 attempts |
| `OcRecording` | do the statuses mean what they say, is the original copied before it is overwritten, does everything settle? | 2 genres, 2 functions at a time, 2 attempts; one upload URL and confirmation, and two cleanings, or two splits, or one of each, or one cleaning beside a second PUT or a genre edit |
| `OcRecordingKept` | is audio kept once the owner was told the device may forget it: violated | one genre, no cleaning or splitting |
| `BcdWorkflow` | are approvals earned, does the approved text stand, is one version active, does generation end? | 2 documents, an administrator, an exegete and a scholar of all three specialties, 2 requests and 2 runs at a time, 4 requests |
| `AppAccess` | approved means granted, one grant, how stale is the cache? | 2 requests' and 2 grants' rows, 2 processes, 2 handlers at a time, TTL 2, delay 1, unbounded time |
| `MeaningMap` | is approval another's and does it stand, are maps, views and translations consistent, is the analyst told? | 2 maps, 2 pericopes of which one spans two chapters, 2 analysts of whom one is an administrator, one language, 2 requests at a time, 4 requests |
| `Conversations` | do resets, interviews, chats, prompts and speech keep what they promise, do replicas come up, does a deactivation take hold? | accounts: 2 addresses, 1 session's row, 2 links, 3 requests; interviews: 1 with 2 domains, 5 posts and completions; chats: 1, 4 messages and titles; prompts: 2 edited, 2 replicas, 2 edits, 1 stop; speech: 3 texts, 2 entries, lines of up to 6 characters |
| `Studio` | are takes told apart, their audio kept, exports whole and ended? | 2 words, speakers, pairs, 3 takes, 1 export, 2 requests at a time, 2 labels tried (50 in the code), 1 sort; Tier B lists of three pairs with up to 5 takes a side |
| `Directory` | do access, invitations, phases and the catalogue say what was decided? | 2 projects, organizations, invitations and recordings, 3 people, 3 phases with 2 dependencies, 2 requests at a time, 2 to 4 in a behaviour by part (3 of classifications); splits in every part of the catalogue, of an archived recording in those of titles and of counts |
| `Migrations` | do revisions fit, and is nothing lost going up? | the whole chain of 57, releases of one revision and two of many (at the 22nd and the last), 2 rows written in a behaviour |

*Why the bounds are enough to be interesting.* Every hazard of section 1 is a
race of two parties, so two tabs, handlers, runs or functions are needed and
their number is two. In `SnEditing` a TTL of 2 under a clock of 2 lets a lease be
taken, still be live a tick later when a stale request of another tab reaches
its fence (with a TTL of 1 it never is), lapse, and be taken by the other; lag 1
lets the clock reading be older than the takeover; with three saves and
events two completions and reopenings race after a save, or saves at two versions
after a completion. In
`OcRecording` two cleanings (or one, with a retry) are what can copy cleaned audio
over the original, two PUTs what can put raw audio over cleaned, two splits or a
retry what can leave segments beside a parent that failed. A second URL, or a
second cleaning beside a genre edit, is left to the theorem, which bounds
nothing. In
`SnTranscription` two takes are what tells an old transcript from a new one, and
two triggers a force after a first pass, by the same client or by another whose
trigger overlaps it; two attempts are one retry. In
`BcdWorkflow` and `MeaningMap` four requests suffice for lock, edit, approve and
a fourth that interferes; the scholar can complete a quorum only with another. In
`AppAccess` a TTL of 2 with a delay of 1 lets a fill come back after the
invalidation and still lapse. In `SnGrid` three requests are a confirmation
beside two creations, of which one may be deadlock's victim, and a retry is
another request; the third bead is what two audios disagree on, the close pair
what rounding does. In `Conversations` three requests on accounts are two that
race and one before or after them; five calls of an interview reach the hard
limit of three turns, a completion and one that races it; three texts overflow a
cache of two. In `Studio` two takes of one word and one below the threshold make
readiness change sides; up to five takes of a side reach `REPS_PER_SIDE` and go
past what is sampled. In `Directory` an update needs another to race it and a
third to follow, each giving one field (any number in the module); a dependency
on a dependency is the second. In `Migrations` two
rows are what a revision that compares rows needs. The bounded counters
(`MaxClock`, `MaxStored`, `MaxTakes`, `MaxStarts`, `Budgets`,
`MaxRequests`, `MaxCalls`,
`MaxTalk`, `MaxEdits`, `MaxStops`, `MaxEntries`, `MaxSpoken`, `MaxSorts`,
`MaxRows`, `MaxBegun`, `MaxDependencies`, `MaxWrites`) only stop a request from
beginning (`MaxEntries` is the code's own bound); what has begun always runs to
its end. Where they stop everything the run turns deadlock checking off: those
systems wait for a next request. `Directory` uses the symmetry of requests: none
is named, and its properties are about states and steps only.

*What is guarded by what.* `StepFollowsState` holds with `Unconditional = FALSE`;
without it TLC finds it violated (section 6). `CleanedIsCleaned` holds unless the device put
audio beside other audio or under a cleaning (`late`): a signed URL can be used until it
expires, and nothing takes the mark off. That a copy is uncleaned (`OriginalIsKept`) and
that a split said to have failed left no segments (`FailedMeansUnsplit`) hold unless the
request was made twice or a step failed when it had written (`halfway`); these windows
are hazards, in section 6. `OneActive`, `OneGrantEach`, `OneLinkAtATime`,
`LinkWorksOnce`, `OnePendingInvite`, `VersionNamesATemplate`, `ViewsAgree`,
`FlagsAreOfTheFields`, `SecondaryDiffers`, `CountsAreOfTheRows` and
`AnsweredInContext` hold unless two deciding handlers overlapped, and the overlap
is a hazard, since nothing in the schema prevents it; the history variable that
records it (`overlapped`, `shared`, `doubled`, `raced`, `crossed`) says how wide
the window is. `ForcedDraftIsOfTheNewTake` holds unless the pass wrote to a row it
had not read (`aliased`) or a reset was computed from a draft that had been reset
since (`overlapped`), both in section 6. `ApprovedTextStands` and `ApprovalStands` except requests that had
loaded the row before its approval: they do write it (section 6). `Settles`, `QueuedWorkFinishes` and `GenerationSettles` hold
unless a process stopped between a commit and the event or run that follows it,
and so do `AnalystIsTold`, `ProjectsHaveManagers`, `AnswersAreTrue` and
`EveryExportEnds` between two commits of one request.

### 3.1 Fairness

*The queue* (`SnTranscription`, `OcRecording`): weak fairness of a run's own
progress. Inngest delivers an accepted event at least once and takes a step again
until it succeeds or is out of attempts (`retries=` in `app/inngest/*.py`), then
calls the failure handler: it never abandons a function. A step may still fail
each time it is tried; fairness is on the disjunction that includes failing.

*A request after its commit* (`request_transcription` of `SnTranscription`): the
next statement of the handler is the send. It goes on to it unless its process
dies, which is an action of its own and sets `lost`.

*The background run* of a generation (`BcdWorkflow`): a task of the event loop;
it goes on until it ends unless the process stops (`RunDies`, `died`).

*A request for a row* (`SnGrid`): weak fairness of each request once it has
begun — a lock that stays free is granted and the handler goes on — and of the
deadlock detector, which PostgreSQL runs on every wait longer than
`deadlock_timeout`. The requests are finitely many, so no stream of newcomers
keeps a waiter from its lock; with an endless stream of creations one could, since
sharers come past whoever waits for `FOR UPDATE`, and nothing is claimed of it.

*A notification after its commit* (`MeaningMap`): as a request after its commit,
above; a stop in between is an action.

*The start of a replica* (`Conversations`): the platform starts a replica again
that went down and the start goes on; stops are bounded. *The cache of accounts*:
every entry reaches its age, since the clock goes on, and a request that has read
an account goes on to fill the cache.

*The building of an export* (`Studio`): the request goes on, to success or
failure, unless its process ends (`Breaks`).

`SnEditing`, `SnLease`, `AppAccess`, `Directory` and `Migrations` state safety only
and assume no fairness.

## 4. What is proved

The theorems hold for every number of users, tabs, rows, processes and handlers,
every TTL, lag and bound, under the named assumptions of the modules, which TLC
evaluates in the runs. They are of four kinds. NULL is none of the things it
stands in for: identifiers, and rows (`RowAssumption` of `BcdWorkflow`, `MeaningMap`
and `SnTranscription`, `AccountRowAssumption`, `InterviewRowAssumption`,
`ChatRowAssumption`, `PromptRowAssumption`, `DirectoryRowAssumption`,
`PhasesAssumption`, `CatalogueAssumption`, `RowsAreNotNull` of `Studio`), contents of
an object in `RecordingAssumption`. Lengths and bounds are natural numbers; a lease and a
cache entry live at least a tick. Maps and pericopes are finitely many
(`MeaningMapAssumption`: counts of them are compared). A plan keeps at least one
same and one different row, and a pair needs two takes of a side to be ready, as
the constants of `export_plan.py` and `readiness_service.py` do; a list a plan is
computed of names a file once (`StudioPlanAssumption`), which is proved of every
list the rows give (`EveryListIsPlanned`). Some accounts are
administrators or analysts.

**`SnProofs`**, of the lease: `LeaseTypeCorrect`; and
`LeaseImplementsAdvisoryLease`: `LeaseSpec => LeaseRefinement`. Types are invariant
enough: a step either leaves the mapped holder, frees it, or is an `AcquireLock`
whose guard, with a reading not later than the clock (`ReadingsAreOld`), shows that
nobody else was live. The same facts carry the refinement to `SnEditing`, each of
whose steps is a step of the lease or leaves it alone (`StepIsLeaseStep`).

Of editing: type correctness, `AuditTellsStatus`, `LifecycleIsFenced`,
`StaleTabIsFenced`, `NeverClobbersUnseenWork`, `StepFollowsState` (when
`Unconditional = FALSE`) and the refinement, from one inductive invariant
`EditingInv`. It is needed because a property of a commit speaks of what the tab
saw earlier: the invariant keeps, for each tab, that a version it was shown is at
most the stored one and, when equal, was shown with the stored document; that a
request between its fence and its commit had no other live holder at its fence
or the holder since came later; and that a row loaded with the expected version
carries the station of that document.

Of the grid: `GridTypeCorrect`, `SessionsShareOneGrid`, `AnswersAreForEver`
and `GridImplementsFreeze`, for any number of requests and any tolerance. The
inductive invariant `GridInv` says that who holds the row `FOR UPDATE` holds it
alone (`Exclusive`) and that what it read of the settings is still there
(`SeenIsCurrent`). From it every step *extends* the row — leaves it, inserts it
or fills in its bead (`SettingsExtend`) — and the three results are consequences
of that: what agreed or disagreed with a row does so with what extends it.

Of transcription: `ForcedDraftsAreOfTheirTakes`:
`TranscriptionSpec => []DraftsAreOfTheirTakes`. `DraftsInv` counts rows and takes (a row filed
anew has a number of its own; a bucket's audio is not older than what a trigger
saw there) and says what makes the compare-and-swap sound (`GenerationsGrow`): a
pass finds the row it read still pending or with a later generation, a trigger
finds it as loaded, filled in since, or with a later generation, so what a pass
has heard is no older than the floor of any row it may still write
(`HeardIsNew`). This holds only while no reset was computed from a draft reset
since it was loaded: the attempt to prove it without `overlapped` is how the
counterexample of section 6 (`ForcedDraftIsNotOverwritten`) was found.

**`OcRecordingProofs`.** `RecordingsSayWhatIsSo`: `Spec => []StatusesAreTrue`. A
function past its check has a path (`RunsAreReal`); one that is about to overwrite
uncleaned audio has an uncleaned copy beside it, unless the device put that audio in
between (`CopiesAreMade`); cleaning starts from a recording that has an object
(`CleanedHasUrl`). As long as one cleaning was asked for, one function cleans, and as
long as none of its steps failed when it had written, nothing is cleaned before it
overwrites (`OneCleaning`): so no copy is of cleaned audio. `OneSplit` is the same of
splitting: while segments are there and nothing failed after their commit, no function
has yet to save them, and none is left that could say "failed". Unless the device put
audio late there is audio on one path only, and it is cleaned from the overwrite on
(`OneAudio`), which is what makes `CleanedIsCleaned` true.

**`BcdWorkflowProofs`.** `ApprovalIsEarned` and `BookHasOneActive`, from `WorkflowInv`,
and the action property `ApprovedTextIsKept`. What a request read of the approvals
had been given (`ApprovalsAreGranted`), so what it decided then is earned by what
was given and its own (`DecisionsAreEarned`, with `EarnedGrows`: quorum and
specialties do not go away with more approvals); and while no two requests that
decide on `is_active` overlap, the one that does knows every active version
(`ActiveIsKnown`).

**`MeaningMapProofs`.** `MapsStayConsistent`, and the action property
`ApprovalOfMapsStands`. `MapsInv` says that the analyst of a map is the one any
request has loaded (`ColumnsStand`), so that an approver is another
(`ApproversAreOthers`), and that, while no edit and translation of a map overlap,
a translation has loaded the text there is (`WaitsAreApart`). That the three
views agree is a lemma about the operators, for any finite maps and pericopes.

**`AppAccessProofs`.** `AccessTypeCorrect`; `ApprovedMeansGranted`;
`CacheIsBounded`: `Spec => []CacheIsRecent`; and `RolesAreGrantedOnce`. The inductive
invariant `AccessInv` adds to the types that handlers in flight are ones the
routes can begin (`CallsAreReal`), that the granting handlers that approve grant
the default role (`GrantsTheDefault`), that a role present in `grant` was given
(`GrantedIsGiven`), and that an answer in the cache or on its way to it was true
no longer ago than its age plus the delay of its read (`AnswersWereRight`). The
last is why the bound is `TTL + MaxDelay` and not `TTL`: the fill may come after
the invalidation. For one grant each, `GrantsAreSingle`: while no two reads that
found none have overlapped, who has found none is alone with that.

**`ConversationProofs`.** Each of four components under its own specification
(`AccountsSpec`, `InterviewsSpec`, `ChatsSpec`, `AgentPromptsSpec`: its `Init`, its
`Next`, no fairness), which is what the run composes.
`ResetsStaySound`: `[]ResetsAreSound`. Per request, what it knows of its account
and has of the links (`RequestsAreKnown`): one that makes a link makes it alone
and has seen the unused ones; one that sets a password has a link that was
mailed to its account and has revoked what was live.
`InterviewsKeepWhatWasSaid`: `[]InterviewsAreReported`, from `InterviewsInv`: a post
works alone on the interview as it is (`HeldFor`), a completion on it as it was,
with what was posted since marked (`ReadFor`).
`ChatsStayInOrder`: `[]ChatsAreInOrder`, from `ChatsInv`: a request alone on its chat
has heard all that was said before it (`SenderKnown`), and what is written next is
later than the questions there are (`MessagesAreInOrder`).
`PromptsStayWhole`: `[]PromptsAreWhole`, from `PromptsInv`: the row of an interview's
prompt uses exactly its placeholders (which, by cases over the release's
templates, is what the agents fill in: `ReleaseRendersWhole`), and its version is the
last published, so an editor alone on a prompt publishes a later one or leaves
the template.

**`DirectoryProofs`**, each component under its own specification.
`AccessStaysAsDecided`: `DirectorySpec => AccessIsAsDecided`, five invariants and an
action property. That lists show what can be opened and statistics count it are
lemmas about the operators, for any state of the types. The rest is from
`DirectoryInv`: whose project is between the two commits of its creation is its
only creator, and nobody has an access to it unless that is marked
(`CreatorsAreAlone`), so the second commit makes a manager; a request that found
no invitation pending is alone with the address unless two asked at a time
(`AskersAreAlone`); an answer is given by one request, while the invitation is
pending, unless two answered at a time (`AnswersAreAlone`). Only a request to
change a role writes an access that is there (`RolesChangeOnRequest`). The proof
found an exception the run's bounds had hidden, now marked in `GrantInvited`:
an administrator invites the creator of a project before the project's second
commit, the creator accepts as a member, and that commit leaves them one, since a
grant returns the access there is.
`PhasesAreAlwaysWhole`: `[]PhasesAreListedWhole`. A list that has read its phases has
all that they depend on by now (`ListsAreClosed`): a phase is deleted with its
dependencies, and a dependency added in between is marked.
`CatalogueStaysTrue`: `CatalogueSpec => CatalogueIsTrue`. `CatalogueInv` says what a
request in flight may rely on: the recording it loaded is as loaded but for its
status, or gone, or marked as written by another (`HeldAs`); a storyteller found in
the project is in it for as long as there is one (`WasFound`); a removal holds every
recording of its storyteller but the marked ones (`Removing`); and a count begun
is of the rows there are unless it was torn. So what a commit writes of a row
that nobody else wrote is the row the request checked (`WrittenIsWanted`), whatever
number of fields it gave. Nobody relies on a status, which a split writes at its
request, at its end and at its failure; of these, what takes a recording out of the
archive is a commit under the title index, so its title is free then
(`StatusKeeps`, `CommitSplitKeeps`). Finitely many recordings exist at a time
(`RowsAreFew`, invariant), which is what lets counts be compared.

**`SequenceProofs`**, of the studio under `StudioSpec`, from one inductive invariant
`StudioInv`. `TakesAreAlwaysToldApart`: a take's name is made of labels, and labels
are given again when a word or a speaker is deleted, so the names of two takes
differ only because a take goes with its word and its speaker (`NamesAreKept`: what
a name says of a row still there is what the row says; `LabelsDiffer`;
`OneTakePerPlace`). `ExportsAreAlwaysWhole`: a request that builds an export has the
files it was planned of, those still to fetch among them, and once they are put
the object holds them (`CallFits`), two requests never work on one export, and a
row deleted is not made again. The first form of this was not inductive: who
deletes an export erases its object after the commit, and may do so after the
builder put it; what the builder knows of the object holds only as long as the
row is there, and without the row the builder's last commit finds nothing to mark
ready. `HeardTakesAlwaysStay`: an erasure comes after the row is gone
(`CallFits`), so of a take that has its row only a completion erases.

The other half of `ExportsAreAlwaysWhole` is about what the plan computes, for lists
of any length and any values of its limits. `PlanTierBIsOf`: the files of a side
make same rows and those of two sides different rows, each once, and the plan keeps
as many of one kind as of the other; `StrideGoesUp`: the sampling takes no row
twice. It may lose every row of one kind that a pair has, but the shorter list is
kept whole, and a pair that is ready has rows in both (`ReadyPairIsPlanned`). `EveryListIsPlanned` says that what the
rows of a language give is such a list in every state. In `PlanTierA` the readiness
by word and the export by gloss meet in `ReadyWordsArePlanned`.

Of the cache of speech, under `SpeechSpec`: `SpeechIsAlwaysServed`. `SpeechInv` says
that the entries are in order of use (`Rising`) and that what is out was used
before what is in; the least of an ordered sequence is its head, which is what an
overflow drops. Its other half is that the marks of a line spoken as written are in
order and never after their sentence: `AnchorsAreMarked`, by induction over the
sentences, the first characters being in order (`SentencesAreInOrder`).

Of the migrations, under `Spec` of `Migrations` and for any deployed releases and
any number of writes: `NothingIsEverLostGoingUp` and `NothingEverHangsInTheAir`, from
`MigrationsInv`. `EveryRevision` reads the 57 revisions: each but 20260312_0001 goes
up by one block whose statements drop no table and take no rows but the memberships
nobody granted (`Sparing`), and each statement adds only what points to things it
needs or adds, or drops one thing (`Solid`). 20260312_0001 copies members and
invitations in one block and drops their tables in the next, so "every owed row is
there, or where it moved to" is not inductive: before the drop, an owed row that is
still in its old table would do. `KeptSoFar` adds that after the copy the owed rows have
moved, which a write in between cannot undo because what it writes is not owed. The
rest is of the library's folds: a block run by `FoldLeft` is its statements run in
turn (`BlocksRun`), and of the blocks of an upgrade, however many revisions it takes,
the one that drops comes right after the one that copies (`UpBlocksInOrder`).

The library's induction theorems take an operator, which the provers cannot
instantiate. What is computed by recursion (joining lists, anchoring marks, running a block) is
proved by a least counterexample instead: each set of naturals has a least one
(`LeastOf`, from the well-founded order of the finite sets), so a set that holds 0
and is closed under successor holds all (`InductiveSet`), and a function by
recursion is shown to exist the same way (`JoinedExists`, `AnchoredExists`,
`FoldExists`).

Each of these theorems includes the type invariant of its module.

**Model-checked only.** Liveness under fairness (`QueuedWorkFinishes`, `Settles`,
`EveryCallAnswered`, `GenerationSettles`, `AnalystIsTold`, `ReplicasComeUp`,
`DeactivationTakesHold`, `EveryExportEnds`) and statements about `ENABLED`: beyond the
prover. Of `RevisionsFit` all but its first part (`MigTypeOK`): that the schema is the
one its revision promises, that runs get through and that the models find their columns
is a matter of evaluating 57 schemas, each from the one before, which is what TLC
does; no constant of the module changes any of them. `SafeMeansKept`, which is false.

## 5. Not modelled, and why

*Everywhere:* formatting, signed URLs, pagination, i18n of messages, logging, and
lists that only read. Model calls are a delay and a success or failure.

*Components:* the artifacts of Sound Necklace and the acoustemes (an object, then
a row that points at it: the shape of voice answers in `SnTranscription`, without
their transcripts); consents (appended); the generation pipeline and the entry
brief (a chain of model calls whose outcome is a run's, and pure functions of
texts); CRUD of applications (single writes by administrators; the one with
consequences, auto-approval, is in `AppAccess`); RAG, BHSA and the platform
services (external, or read-only, with no state the API relies on but the
bucket, which is modelled).

*In `OcRecording`* the backfill of split indices. *In `BcdWorkflow`* feedback and
the cached translations of sections, which race as those of a map do. *In
`AppAccess`* other applications (roles of different applications never meet in a
statement). *In `Accounts`* the lifetimes of tokens: an expired one takes no
further part. *In `MeaningMap`* pericopes and books are there from the start. *In
`Interviews`* the dashboards, interview tokens and `invite_admin`, which is
`AppAccess`'s grant. *In `Chats`* transcription and language detection. *In
`Studio`* texts of speakers and pairs, agreement figures, emblems and the layout
of the zip. *In `Directory`* locations, and the service functions for members that
no route calls. *In `Catalogue`* a subcategory goes with its genre, a description
is enough or not, and the administrator's statistics. *In `Migrations`* columns and
indexes made with their table and never touched again, and rows no revision reads,
writes or chokes on; two runs at a time (one of them fails at the version's row).

## 6. Disagreements between the code and what it says

With a run: `OcRecordingKept` — clear-stale deletes a recording that was verified
after it was listed, and whose owner was told the device may forget it
(`recording_service.py:502`).

With a property in the module that no run lists; adding it to the run's cfg shows
the counterexample:

* `ConflictsAreAnswered` (`SnGrid`, an invariant): two creations of one project
  hold the share of its row that their foreign keys took and both ask for `FOR
  UPDATE`; PostgreSQL fails one (`create_session.py:49`,
  `project_settings.py:124`), though `project_settings.py:77` has every writer
  queue so that none gets "a 500 instead of the answer its conflict was owed".
* `WritesOnlyTheRowItRead` (`SnTranscription`, an action property): the
  compare-and-swap does not tell a draft filed again after its answer was deleted
  from the one the pass read (`transcribe_answers.py:240`, against `:226`).
* `ForcedDraftIsNotOverwritten` (`SnTranscription`, an invariant): a reset stores
  the generation it loaded plus one, as a value, so a trigger that loaded the draft
  before two others' forces takes the generation back to the one a pass in flight
  has read, and the pass's text of the old take passes the compare-and-swap
  (`transcribe_answers.py:111`, against `:228`). It takes three triggers:
  `MaxStarts = 3`.
* `ForceDiscards` (`SnTranscription`, an action property): a force that loaded a
  draft as pending does not discard the text the pass stores before the force
  commits (`transcribe_answers.py:110`, against `:61`).
* `ApprovedIsNotEdited` was the first form of `ApprovedTextStands` without its
  exception: an edit that awaited its translation writes an approved document
  (`update_section.py:69`, against `:52`). The same holds of a map
  (`update_meaning_map_data.py:24`, the exception of `ApprovedIsFinal`).
* `ApprovalIsKept` (`AppAccess`): approving a request of an account that already
  holds the role is answered and not stored (`review_access_request.py:42`).

`StepFollowsState` of `SnEditing` is false when tabs save without `If-Match`
(`Unconditional <- TRUE`): two such autosaves that overlap leave the dashboard's
station at the first document while the second is stored (`autosave_state.py:98`).

Seen while modelling, where a comment or a name promises more than the code does:

* The exceptions of the properties are windows the code leaves open: a login under
  way keeps its session through a reset; two resets share a link; two invitations
  of an address make the next one raise (`invite_service.py:31`); an acceptance
  beside a decline grants access under a declined invitation; a storyteller
  assigned while it is deleted leaves flags that claim it
  (`storyteller_service.py:116` says the recompute prevents that); totals and
  flags can disagree for a moment (`project_service.py:117` says they never can).
* `complete_interview` reads `interview.id` after a rollback, so the loser of two
  completions gets an error although its docstring says it is idempotent; the test
  of it is skipped. Turns posted while a report is written are not in it.
* `project_health`'s seeds do not catch the unique violation that the Translation
  Helper's do: a replica that loses the race fails and starts again (`ReplicasComeUp`
  says that this ends).
* Downgrading `e8d6b0446bcf` leaves two enum types behind, on which the next
  upgrade fails (`Forgotten`), against `migrations.yml`: "a downgrade that leaves
  the schema dirty fails the next upgrade". `20260609_0001` takes members whose
  grantor's account was deleted for seeded ones. `20260312_0001` loses what is
  written between its copy and its drop.
* A cleaning backs up what is in place. A second one, or a retry of
  `backup-and-upload` after its upload (`audio_cleaning.py:92`), copies the cleaned
  audio over `_original`, and the raw recording is gone. A PUT with a URL that is
  still valid replaces cleaned audio by raw and leaves the mark `cleaned`
  (`recording_service.py:541`).
* `save-segments` run again after its first commit conflicts with its own ids
  (`audio_splitting.py:82`), so the split ends as failed beside the segments it
  made; when its notification runs out of attempts, a split that is done is failed,
  too. A second split of an archived parent lists it again beside its segments
  (`split_service.py:100`); where its title was taken meanwhile, the request fails.
* `set_reference` with another format and back (`tier_a_service.py:127`) puts the row
  on a key that the first request may yet delete: the deletion is after the commit,
  so a reference can lose its audio.
* `create_word` and `create_speaker` refuse for ever once fifty labels after the
  count are taken; a completion marks a take stored without looking whether the
  object is there; a process that ends while it builds an export leaves it
  building; deleting a row leaves the objects of its takes in the bucket.
* An invitation to manage leaves a member a member (`grant_user_access` returns the
  access there is); a manager of organizations is listed only their projects and
  not those they may open besides; the last manager of a project can be revoked;
  two phases may depend on each other.
* Two requests may lock one map; deleting a map ignores its lock; marking all
  notifications as read ignores the application that the count is of.

Stated in the modules and false, without a run because no document promises them:
`ConflictMeansNewerVersion`, `LifecycleRecordedOnce` and `RefusedOnlyForAHolder`
(`SnEditing`), `DraftIsOfTheAnswer` and `ReadyIsLeftAlone` (`SnTranscription`).

## 7. Plan

Modelled, in order of importance: the lease and editing, the project grid,
transcription, recordings, Book Context Documents, access; then accounts, meaning
maps, conversations, the studio, directory, phases and catalogue, migrations.
Next:

1. Proofs: the rest of `RevisionsFit`, with the schema of a version written out.
2. Abstract specifications: the compare-and-swap register behind `SnEditing`'s
   state, the quorum behind `BcdWorkflow`, "a take and its draft" behind
   `SnTranscription`.
3. Artifacts with the lease (extending `SnLease` as `SnEditing` does); the brief of
   a document as operators.
