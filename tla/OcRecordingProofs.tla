------------------------- MODULE OcRecordingProofs -------------------------
(***************************************************************************)
(* Proofs about a recording's statuses, for any genres, any slots of the   *)
(* queue and any number of requests.                                       *)
(***************************************************************************)
EXTENDS OcRecording, TLAPS

USE RecordingAssumption

\* What a function has worked out by the step it is at.
RunsAreReal ==
    \A r \in Slots :
        /\ run[r].pc # "idle" => run[r].fn # "none"
        /\ run[r].pc \notin {"idle", "check", "failing"} => run[r].path \in Genres
        /\ run[r].pc = "told" => run[r].fn = "upload"
        /\ run[r].pc = "archive" => segments # {}

CopiesAreMade ==
    /\ \A r \in Slots :
          At(r, "clean", "overwrite") =>
              /\ original[run[r].path] # NULL
              /\ blob[run[r].path] \in Uncleaned /\ ~late => original[run[r].path] \in Uncleaned
    /\ \A g \in Genres : blob[g] = "cleaned" => original[g] # NULL
    /\ \A r \in Slots : Cleans(r) => run[r].data = "cleaned"

\* A cleaning function that has not overwritten the object, and a splitting function that
\* has not saved the segments.
Early(r) == run[r].fn = "clean" /\ run[r].pc \in {"check", "call", "backup", "overwrite"}
Unsaved(r) == run[r].fn = "split" /\ run[r].pc \notin {"archive", "tell"}

\* As long as one cleaning was asked for, one function cleans; and as long as its steps do
\* not fail once they have written, what it copies has not been overwritten.
OneCleaning ==
    /\ used["clean"] = 0 =>
          /\ \A r \in Slots : run[r].fn # "clean"
          /\ \A g \in Genres : blob[g] # "cleaned"
    /\ used["clean"] <= 1 =>
          \A r, s \in Slots : run[r].fn = "clean" /\ run[s].fn = "clean" => r = s
    /\ used["clean"] <= 1 /\ "clean" \notin halfway =>
          /\ \A g \in Genres : original[g] # "cleaned"
          /\ \A g \in Genres : blob[g] = "cleaned" => \A r \in Slots : ~Early(r)

\* The same of splitting, whose failure handler ends its function.
OneSplit ==
    /\ used["split"] = 0 => segments = {} /\ \A r \in Slots : run[r].fn # "split"
    /\ used["split"] <= 1 =>
          /\ \A r, s \in Slots : run[r].fn = "split" /\ run[s].fn = "split" => r = s
          /\ row # NULL /\ row.splitting = "failed" => \A r \in Slots : run[r].fn # "split"
    /\ used["split"] <= 1 /\ "split" \notin halfway /\ segments # {} =>
          /\ \A r \in Slots : ~Unsaved(r)
          /\ row # NULL => row.splitting # "failed"

\* Cleaning starts from a recording that has an object.
CleanedHasUrl ==
    row # NULL =>
        /\ row.cleaning = "cleaned" => row.gcs_url # NULL
        /\ \A r \in Slots : Cleans(r) \/ At(r, "clean", "call") => row.gcs_url # NULL

Touched(g) == blob[g] # NULL \/ \E r \in Slots : Cleans(r) /\ run[r].path = g

\* Unless the device put audio beside other audio or under a cleaning, there is audio on one
\* path only, and it is cleaned from the overwrite on.
OneAudio ==
    ~late =>
        /\ \A g, h \in Genres : Touched(g) /\ Touched(h) => g = h
        /\ \A r \in Slots :
              At(r, "clean", "mark") \/ At(r, "clean", "tell")
                  => blob[run[r].path] \in {"cleaned", NULL}
        /\ row # NULL /\ row.cleaning = "cleaned" =>
              \A g \in Genres : blob[g] \in {"cleaned", NULL}

RecordingInv ==
    /\ TypeOK
    /\ RunsAreReal
    /\ CopiesAreMade
    /\ ArchivedMeansSplit
    /\ CleanedHasUrl
    /\ OneCleaning
    /\ OneSplit
    /\ OneAudio

-----------------------------------------------------------------------------
(* What a step does to the functions of the queue.                         *)

Rows == [upload : UploadStatus, gcs_url : Genres \cup {NULL}, genre : Genres,
         cleaning : CleaningStatus, splitting : SplittingStatus]

Steps == {"idle", "set", "verify", "finalize", "check", "call", "backup", "overwrite", "mark",
          "cut", "save", "archive", "tell", "told", "failing"}

Runs == [fn : {"none", "upload", "clean", "split"}, pc : Steps, path : Genres \cup {NULL},
         data : Content, attempt : 1..Attempts, id : Nat]

LEMMA UpdateIsTyped ==
    ASSUME TypeOK, NEW c \in CleaningStatus, Update("cleaning", c)
    PROVE  /\ row' \in Rows \cup {NULL}
           /\ row = NULL => row' = NULL
           /\ row # NULL => /\ row'.cleaning = c /\ row'.gcs_url = row.gcs_url
                            /\ row'.splitting = row.splitting /\ row'.upload = row.upload
<1>1. CASE row # NULL
  <2>1. row \in Rows /\ row' = [row EXCEPT !.cleaning = c]
    BY <1>1 DEF Update, TypeOK, Rows
  <2> QED
    BY <1>1, <2>1 DEF Rows
<1> QED
  BY <1>1 DEF Update

\* Slot r goes on to pc with what it has worked out; the others stay as they are.
Moves(r, pc) ==
    /\ \A s \in Slots \ {r} : run'[s] = run[s]
    /\ run'[r].pc = pc /\ run'[r].fn = run[r].fn /\ run'[r].path = run[r].path
    /\ run'[r].data = run[r].data /\ run'[r].id = run[r].id

LEMMA WithinMoves ==
    ASSUME TypeOK, NEW r \in Slots, NEW pc \in Steps, Within(r, pc)
    PROVE  run' \in [Slots -> Runs] /\ Moves(r, pc)
<1> DEFINE new == [run[r] EXCEPT !.pc = pc]
<1>1. run \in [Slots -> Runs]
  BY DEF TypeOK, Runs, Steps
<1>2. run' = [run EXCEPT ![r] = new]
  BY <1>1 DEF Within
<1>3. /\ new \in Runs /\ new.pc = pc /\ new.fn = run[r].fn /\ new.path = run[r].path
      /\ new.data = run[r].data /\ new.id = run[r].id
  BY <1>1 DEF Runs
<1> HIDE DEF new
<1> QED
  BY <1>1, <1>2, <1>3 DEF Moves

LEMMA StepMoves ==
    ASSUME TypeOK, NEW r \in Slots, NEW pc \in Steps, NEW n \in 1..Attempts,
           run' = [run EXCEPT ![r].pc = pc, ![r].attempt = n]
    PROVE  run' \in [Slots -> Runs] /\ Moves(r, pc)
<1> DEFINE one == [run[r] EXCEPT !.pc = pc]
           new == [one EXCEPT !.attempt = n]
<1>1. run \in [Slots -> Runs]
  BY DEF TypeOK, Runs, Steps
<1>2. run' = [run EXCEPT ![r] = new]
  BY <1>1
<1>3. /\ one \in Runs /\ one.pc = pc /\ one.fn = run[r].fn /\ one.path = run[r].path
      /\ one.data = run[r].data /\ one.id = run[r].id
  BY <1>1 DEF Runs
<1> HIDE DEF one
<1>4. /\ new \in Runs /\ new.pc = pc /\ new.fn = run[r].fn /\ new.path = run[r].path
      /\ new.data = run[r].data /\ new.id = run[r].id
  BY <1>3 DEF Runs
<1> HIDE DEF new
<1> QED
  BY <1>1, <1>2, <1>4 DEF Moves

LEMMA GotoMoves ==
    ASSUME TypeOK, NEW r \in Slots, NEW pc \in Steps, Goto(r, pc)
    PROVE  run' \in [Slots -> Runs] /\ Moves(r, pc)
<1>1. 1 \in 1..Attempts
  OBVIOUS
<1> QED
  BY <1>1, StepMoves DEF Goto

LEMMA IdleIsTyped == Idle \in Runs /\ Idle.pc = "idle" /\ Idle.fn = "none"
BY DEF Idle, Runs, Steps, Content

\* Where a step begins that failed within: at its start, or at the failure handler.
LEMMA AgainMoves ==
    ASSUME TypeOK, RunsAreReal, NEW r \in Slots, run[r].pc \notin {"idle", "failing"}, Again(r)
    PROVE  /\ run' \in [Slots -> Runs]
           /\ \E pc \in Steps \ {"idle", "overwrite", "archive", "told"} :
                 /\ Moves(r, pc)
                 /\ run[r].pc \notin {"idle", "failing"}
                 /\ pc = "failing" \/ (pc = "check" <=> run[r].pc = "check")
                 /\ pc = "call" => run[r].pc = "call"
                 /\ run[r].fn = "clean" /\ pc \in {"mark", "tell"} => run[r].pc \in {"mark", "tell"}
                 /\ run[r].fn = "clean" /\ pc = "backup" => run[r].pc \in {"backup", "overwrite"}
<1>1. run[r] \in Runs /\ run[r].pc \notin {"idle", "failing"}
  BY DEF TypeOK, Runs, Steps
<1>2. /\ StepStart(r) \in Steps \ {"idle", "overwrite", "archive", "told"}
      /\ StepStart(r) = "check" <=> run[r].pc = "check"
      /\ StepStart(r) = "call" => run[r].pc = "call"
      /\ run[r].fn = "clean" /\ StepStart(r) \in {"mark", "tell"} => run[r].pc \in {"mark", "tell"}
      /\ run[r].fn = "clean" /\ StepStart(r) = "backup" => run[r].pc \in {"backup", "overwrite"}
  <2>1. CASE run[r].pc \in {"overwrite", "archive"}
    BY <2>1 DEF StepStart, Steps
  <2>2. CASE run[r].pc = "told"
    BY <2>2 DEF StepStart, Steps, RunsAreReal
  <2>3. CASE run[r].pc = "tell" /\ run[r].fn = "clean"
    BY <2>3 DEF StepStart, Steps
  <2>4. CASE /\ run[r].pc \notin {"overwrite", "archive", "told"}
             /\ ~(run[r].pc = "tell" /\ run[r].fn = "clean")
    <3>1. StepStart(r) = run[r].pc
      BY <2>4, Zenon DEF StepStart
    <3> QED
      BY <1>1, <2>4, <3>1 DEF Runs
  <2> QED
    BY <2>1, <2>2, <2>3, <2>4
<1>3. CASE run[r].attempt < Attempts
  <2>1. run' = [run EXCEPT ![r].pc = StepStart(r), ![r].attempt = run[r].attempt + 1]
    BY <1>1, <1>3 DEF Again, TypeOK
  <2>2. run[r].attempt + 1 \in 1..Attempts
    BY <1>1, <1>3 DEF Runs
  <2>3. run' \in [Slots -> Runs] /\ Moves(r, StepStart(r))
    BY <1>2, <2>1, <2>2, StepMoves
  <2> QED
    BY <1>1, <1>2, <2>3
<1>4. CASE ~(run[r].attempt < Attempts)
  <2>1. Goto(r, "failing")
    BY <1>4 DEF Again
  <2>2. run' \in [Slots -> Runs] /\ Moves(r, "failing")
    BY <2>1, GotoMoves DEF Steps
  <2> QED
    BY <1>1, <2>2 DEF Steps
<1> QED
  BY <1>3, <1>4

\* Queued by a confirmation or by a manager's request.
Starts(s) ==
    /\ run'[s].fn # "none" /\ UNCHANGED <<blob, original, segments>>
    /\ \A t \in Slots \ {s} : run'[t] = run[t]
    /\ \/ run'[s].fn = "upload" /\ run'[s].pc = "set" /\ run'[s].path \in Genres
       \/ /\ run'[s].fn = "clean" /\ run'[s].pc = "check"
          /\ used'["clean"] = used["clean"] + 1
       \/ /\ run'[s].fn = "split" /\ run'[s].pc = "check"
          /\ used'["split"] = used["split"] + 1 /\ row'.splitting = "splitting"

\* The first step of cleaning and of splitting has found the recording verified.
Checked(s) ==
    /\ run[s].pc = "check" /\ run'[s].fn = run[s].fn /\ run'[s].id = run[s].id
    /\ run'[s].pc = IF run[s].fn = "clean" THEN "call" ELSE "cut"
    /\ row # NULL /\ row.gcs_url # NULL /\ run'[s].path = row.gcs_url /\ UNCHANGED row

\* The cleaning service has answered.
Called(s) ==
    /\ At(s, "clean", "call") /\ run'[s].pc = "backup"
    /\ blob[run[s].path] # NULL /\ run'[s].path = run[s].path
    /\ run'[s].data = "cleaned" /\ run'[s].fn = "clean" /\ run'[s].id = run[s].id

Restarts(s, pc) ==
    /\ pc \in Steps \ {"idle", "overwrite", "archive", "told"}
    /\ run[s].pc \notin {"idle", "failing"}
    /\ pc = "failing" \/ (pc = "check" <=> run[s].pc = "check")
    /\ pc = "call" => run[s].pc = "call"
    /\ run[s].fn = "clean" /\ pc \in {"mark", "tell"} => run[s].pc \in {"mark", "tell"}
    /\ run[s].fn = "clean" /\ pc = "backup" => run[s].pc \in {"backup", "overwrite"}
    /\ run[s].fn = "split" /\ run[s].pc \in {"archive", "tell"} => "split" \in halfway'

\* A function goes on with what it has worked out.
GoesOn(s, pc) ==
    \/ Restarts(s, pc)
    \/ run[s].fn = "upload" /\ run[s].pc \in {"set", "verify", "finalize", "tell"}
       /\ pc \in {"verify", "finalize", "tell", "told"}
    \/ At(s, "clean", "backup") /\ pc = "overwrite" /\ blob[run[s].path] # NULL
       /\ original'[run[s].path] = blob[run[s].path] /\ UNCHANGED blob
    \/ At(s, "clean", "overwrite") /\ pc = "mark" /\ blob'[run[s].path] = run[s].data
    \/ At(s, "clean", "mark") /\ pc = "tell"
    \/ At(s, "split", "cut") /\ pc = "save"
    \/ At(s, "split", "save") /\ pc = "archive" /\ segments' # {}
    \/ At(s, "split", "archive") /\ pc = "tell"

SlotStep(s) ==
    \/ run'[s] = run[s]
    \/ run'[s] = Idle
    \/ Starts(s) \/ Checked(s) \/ Called(s)
    \/ \E pc \in Steps : Moves(s, pc) /\ GoesOn(s, pc)

LEMMA OnlyThisMoves ==
    ASSUME NEW r \in Slots, NEW pc, Moves(r, pc), NEW s \in Slots, s # r
    PROVE  run'[s] = run[s]
BY DEF Moves

LEMMA StartsStep ==
    ASSUME TypeOK, NEW job \in Runs, Enqueue(job)
    PROVE  /\ run' \in [Slots -> Runs]
           /\ \E r \in Slots : run'[r] = job /\ \A s \in Slots \ {r} : run'[s] = run[s]
<1>1. run \in [Slots -> Runs]
  BY DEF TypeOK, Runs, Steps
<1>2. (CHOOSE r \in Free : TRUE) \in Free
  BY DEF Enqueue
<1>3. PICK r \in Slots : run' = [run EXCEPT ![r] = job]
  BY <1>2 DEF Enqueue, Free
<1> QED
  BY <1>1, <1>3

LEMMA UploadJob ==
    ASSUME NEW g \in Genres
    PROVE  LET job == [Idle EXCEPT !.fn = "upload", !.pc = "set", !.path = g]
           IN  job \in Runs /\ job.fn = "upload" /\ job.pc = "set" /\ job.path = g
<1> DEFINE one == [Idle EXCEPT !.fn = "upload"]
           two == [one EXCEPT !.pc = "set"]
           job == [two EXCEPT !.path = g]
<1>1. one \in Runs /\ one.fn = "upload"
  BY IdleIsTyped DEF Runs
<1> HIDE DEF one
<1>2. two \in Runs /\ two.fn = "upload" /\ two.pc = "set"
  BY <1>1 DEF Runs, Steps
<1> HIDE DEF two
<1>3. job \in Runs /\ job.fn = "upload" /\ job.pc = "set" /\ job.path = g
  BY <1>2 DEF Runs
<1>4. job = [Idle EXCEPT !.fn = "upload", !.pc = "set", !.path = g]
  BY DEF job, two, one
<1> QED
  BY <1>3, <1>4

Job(fn, n) == [Idle EXCEPT !.fn = fn, !.pc = "check", !.id = n]

LEMMA RequestJob ==
    ASSUME NEW fn \in {"clean", "split"}, NEW n \in Nat
    PROVE  /\ Job(fn, n) \in Runs /\ Job(fn, n).fn = fn /\ Job(fn, n).pc = "check"
           /\ Job(fn, n).id = n
<1> DEFINE one == [Idle EXCEPT !.fn = fn]
           two == [one EXCEPT !.pc = "check"]
           job == [two EXCEPT !.id = n]
<1>1. one \in Runs /\ one.fn = fn
  BY IdleIsTyped DEF Runs
<1> HIDE DEF one
<1>2. two \in Runs /\ two.fn = fn /\ two.pc = "check"
  BY <1>1 DEF Runs, Steps
<1> HIDE DEF two
<1>3. job \in Runs /\ job.fn = fn /\ job.pc = "check" /\ job.id = n
  BY <1>2 DEF Runs
<1>4. job = Job(fn, n)
  BY DEF job, two, one, Job
<1> QED
  BY <1>3, <1>4

LEMMA RequestStep ==
    ASSUME TypeOK, NEW fn \in {"clean", "split"}, NEW new, Request(fn, new),
           fn = "split" => new.splitting = "splitting"
    PROVE  run' \in [Slots -> Runs] /\ \A s \in Slots : SlotStep(s)
<1>1. CASE run' = run
  BY <1>1 DEF TypeOK, Runs, Steps, SlotStep
<1>2. CASE Enqueue([Idle EXCEPT !.fn = fn, !.pc = "check", !.id = used[fn] + 1])
  <2> DEFINE job == Job(fn, used[fn] + 1)
  <2>1. used[fn] \in Nat /\ used'[fn] = used[fn] + 1
    BY DEF Request, Counted, TypeOK, Requests
  <2>2. /\ job \in Runs /\ job.fn = fn /\ job.pc = "check" /\ job.id = used[fn] + 1
        /\ Enqueue(job)
    <3>1. used[fn] + 1 \in Nat
      BY <2>1
    <3>2. job \in Runs /\ job.fn = fn /\ job.pc = "check" /\ job.id = used[fn] + 1
      BY <3>1, RequestJob
    <3>3. Enqueue(job)
      BY <1>2 DEF Job
    <3> QED
      BY <3>2, <3>3
  <2> HIDE DEF job
  <2>3. PICK r \in Slots : run'[r] = job /\ \A s \in Slots \ {r} : run'[s] = run[s]
    BY <2>2, StartsStep
  <2>4. UNCHANGED <<blob, original, segments>>
    BY DEF Request, still
  <2>5. fn = "split" => row'.splitting = "splitting"
    BY DEF Request
  <2>6. Starts(r)
    BY <2>1, <2>2, <2>3, <2>4, <2>5 DEF Starts
  <2> QED
    BY <2>2, <2>3, <2>6, StartsStep DEF SlotStep
<1> QED
  BY <1>1, <1>2 DEF Request

LEMMA ConfirmStep ==
    ASSUME TypeOK, confirm_upload
    PROVE  run' \in [Slots -> Runs] /\ \A s \in Slots : SlotStep(s)
<1> DEFINE job == [Idle EXCEPT !.fn = "upload", !.pc = "set", !.path = row.genre]
<1>1. row.genre \in Genres
  BY DEF confirm_upload, TypeOK
<1>2. /\ job \in Runs /\ job.fn = "upload" /\ job.pc = "set" /\ job.path \in Genres
      /\ Enqueue(job)
  BY <1>1, UploadJob DEF confirm_upload
<1> HIDE DEF job
<1>3. PICK r \in Slots : run'[r] = job /\ \A s \in Slots \ {r} : run'[s] = run[s]
  BY <1>2, StartsStep
<1>4. UNCHANGED <<blob, original, segments>>
  BY DEF confirm_upload, still
<1>5. Starts(r)
  BY <1>2, <1>3, <1>4 DEF Starts
<1> QED
  BY <1>2, <1>3, <1>5, StartsStep DEF SlotStep

LEMMA AgainStep ==
    ASSUME TypeOK, RunsAreReal, NEW r \in Slots, run[r].pc \notin {"idle", "failing"}, Again(r),
           run[r].fn = "split" /\ run[r].pc \in {"archive", "tell"} => "split" \in halfway'
    PROVE  run' \in [Slots -> Runs] /\ \A s \in Slots : SlotStep(s)
<1>1. run' \in [Slots -> Runs]
  BY AgainMoves
<1>2. PICK pc \in Steps : Moves(r, pc) /\ Restarts(r, pc)
  BY AgainMoves DEF Restarts
<1> QED
  BY <1>1, <1>2, OnlyThisMoves DEF SlotStep, GoesOn

\* The functions' own steps.
LEMMA FunctionStep ==
    ASSUME TypeOK, RunsAreReal, NEW r \in Slots, Function(r)
    PROVE  run' \in [Slots -> Runs] /\ \A s \in Slots : SlotStep(s)
<1>0. run \in [Slots -> Runs]
  BY DEF TypeOK, Runs, Steps
<1>1. ASSUME NEW pc \in Steps, Within(r, pc) \/ Goto(r, pc), GoesOn(r, pc)
      PROVE  run' \in [Slots -> Runs] /\ \A s \in Slots : SlotStep(s)
  <2>1. run' \in [Slots -> Runs] /\ Moves(r, pc)
    BY <1>1, WithinMoves, GotoMoves
  <2> QED
    BY <1>1, <2>1, OnlyThisMoves DEF SlotStep
<1>2. \A pc \in {"set", "verify", "finalize", "tell", "told", "failing", "call", "cut", "backup",
                 "overwrite", "mark", "save", "archive"} : pc \in Steps
  BY DEF Steps
<1>3. ASSUME run[r].pc \notin {"idle", "failing", "archive", "tell"}
      PROVE  GoesOn(r, "failing")
  BY <1>2, <1>3 DEF GoesOn, Restarts
<1>18. ASSUME NEW pc \in Steps, Recorded(r, pc), GoesOn(r, pc), run[r].pc \notin {"idle", "failing"}
       PROVE  run' \in [Slots -> Runs] /\ \A s \in Slots : SlotStep(s)
  <2>1. CASE Goto(r, pc)
    BY <1>1, <1>18, <2>1
  <2>2. CASE Again(r) /\ halfway' = halfway \cup {run[r].fn}
    BY <1>18, <2>2, AgainStep
  <2> QED
    BY <1>18, <2>1, <2>2 DEF Recorded
<1>4. CASE SetUploadMetadata(r)
  <2>1. run[r].pc = "set" /\ GoesOn(r, "verify")
    BY <1>4 DEF SetUploadMetadata, At, GoesOn
  <2> QED
    BY <1>1, <1>2, <1>3, <1>4, <1>18, <2>1 DEF SetUploadMetadata
<1>5. CASE VerifyBlob(r)
  <2>1. run[r].pc = "verify" /\ GoesOn(r, "finalize")
    BY <1>5 DEF VerifyBlob, At, GoesOn
  <2> QED
    BY <1>1, <1>2, <1>3, <1>5, <2>1 DEF VerifyBlob
<1>6. CASE FinalizeVerified(r)
  <2>1. GoesOn(r, "tell") /\ Recorded(r, "tell") /\ run[r].pc = "finalize"
    BY <1>6 DEF FinalizeVerified, At, GoesOn
  <2> QED
    BY <1>2, <1>18, <2>1
<1>7. CASE NotifyUploadComplete(r)
  <2>1. GoesOn(r, "told") /\ Within(r, "told")
    BY <1>7 DEF NotifyUploadComplete, At, GoesOn
  <2> QED
    BY <1>1, <1>2, <2>1
<1>8. CASE CheckVerified(r)
  <2>1. CASE row # NULL /\ row.upload = "verified" /\ row.gcs_url # NULL
    <3> DEFINE pc == IF run[r].fn = "clean" THEN "call" ELSE "cut"
               one == [run[r] EXCEPT !.pc = pc]
               two == [one EXCEPT !.path = row.gcs_url]
               new == [two EXCEPT !.attempt = 1]
    <3>1. row.gcs_url \in Genres /\ pc \in Steps
      BY <1>2, <2>1 DEF TypeOK
    <3>2. run' = [run EXCEPT ![r] = new]
      BY <1>0, <1>8, <2>1 DEF CheckVerified
    <3> HIDE DEF pc
    <3>3. one \in Runs /\ one.pc = pc /\ one.fn = run[r].fn /\ one.id = run[r].id
      BY <1>0, <3>1 DEF Runs
    <3> HIDE DEF one
    <3>4. /\ two \in Runs /\ two.pc = pc /\ two.fn = run[r].fn /\ two.id = run[r].id
          /\ two.path = row.gcs_url
      BY <3>1, <3>3 DEF Runs
    <3> HIDE DEF two
    <3>5. /\ new \in Runs /\ new.pc = pc /\ new.fn = run[r].fn /\ new.id = run[r].id
          /\ new.path = row.gcs_url
      BY <3>4 DEF Runs
    <3> HIDE DEF new
    <3>6. Checked(r)
      BY <1>0, <1>8, <2>1, <3>2, <3>5 DEF Checked, CheckVerified, pc
    <3> QED
      BY <1>0, <3>2, <3>5, <3>6 DEF SlotStep
  <2>2. CASE ~(row # NULL /\ row.upload = "verified" /\ row.gcs_url # NULL)
    <3>1. Goto(r, "failing") /\ run[r].pc = "check"
      BY <1>8, <2>2 DEF CheckVerified
    <3> QED
      BY <1>1, <1>2, <1>3, <3>1
  <2> QED
    BY <2>1, <2>2
<1>9. CASE CallCleaningApi(r)
  <2> DEFINE one == [run[r] EXCEPT !.pc = "backup"]
             two == [one EXCEPT !.data = "cleaned"]
             new == [two EXCEPT !.attempt = 1]
  <2>1. run' = [run EXCEPT ![r] = new]
    BY <1>0, <1>9 DEF CallCleaningApi
  <2>2. /\ one \in Runs /\ one.pc = "backup" /\ one.fn = run[r].fn /\ one.id = run[r].id
        /\ one.path = run[r].path
    BY <1>0 DEF Runs, Steps
  <2> HIDE DEF one
  <2>3. /\ two \in Runs /\ two.pc = "backup" /\ two.fn = run[r].fn /\ two.id = run[r].id
        /\ two.path = run[r].path /\ two.data = "cleaned"
    BY <2>2 DEF Runs, Content
  <2> HIDE DEF two
  <2>4. /\ new \in Runs /\ new.pc = "backup" /\ new.fn = run[r].fn /\ new.id = run[r].id
        /\ new.path = run[r].path /\ new.data = "cleaned"
    BY <2>3 DEF Runs
  <2> HIDE DEF new
  <2>5. Called(r)
    BY <1>0, <1>9, <2>1, <2>4 DEF Called, CallCleaningApi, At
  <2> QED
    BY <1>0, <2>1, <2>4, <2>5 DEF SlotStep
<1>10. CASE Backup(r)
  <2>1. /\ GoesOn(r, "overwrite") /\ Within(r, "overwrite")
    <3>1. run[r].path \in Genres
      BY <1>10 DEF Backup, At, RunsAreReal
    <3>2. /\ blob[run[r].path] # NULL /\ UNCHANGED blob
          /\ original'[run[r].path] = blob[run[r].path]
      BY <1>10, <3>1 DEF Backup, TypeOK
    <3> QED
      BY <1>10, <3>2 DEF Backup, GoesOn
  <2> QED
    BY <1>1, <1>2, <2>1
<1>11. CASE Overwrite(r)
  <2>1. GoesOn(r, "mark") /\ Recorded(r, "mark") /\ run[r].pc = "overwrite"
    <3>1. run[r].path \in Genres
      BY <1>11 DEF Overwrite, At, RunsAreReal
    <3> QED
      BY <1>11, <3>1 DEF Overwrite, At, GoesOn, TypeOK
  <2> QED
    BY <1>2, <1>18, <2>1
<1>12. CASE MarkCleaned(r)
  <2>1. GoesOn(r, "tell") /\ Within(r, "tell")
    BY <1>12 DEF MarkCleaned, GoesOn
  <2> QED
    BY <1>1, <1>2, <2>1
<1>13. CASE SplitAndUpload(r)
  <2>1. GoesOn(r, "save") /\ Goto(r, "save")
    BY <1>13 DEF SplitAndUpload, GoesOn
  <2> QED
    BY <1>1, <1>2, <2>1
<1>14. CASE SaveSegments(r)
  <2>1. GoesOn(r, "archive") /\ Within(r, "archive")
    BY <1>14 DEF SaveSegments, GoesOn
  <2> QED
    BY <1>1, <1>2, <2>1
<1>15. CASE ArchiveParent(r)
  <2>1. GoesOn(r, "tell") /\ Recorded(r, "tell") /\ run[r].pc = "archive"
    BY <1>15 DEF ArchiveParent, At, GoesOn
  <2> QED
    BY <1>2, <1>18, <2>1
<1>16. CASE Return(r) \/ OnFailure(r)
  <2>1. run' = [run EXCEPT ![r] = Idle]
    BY <1>16 DEF Return, OnFailure, Finish
  <2> QED
    BY <1>0, <2>1, IdleIsTyped DEF SlotStep
<1>17. CASE StepFails(r)
  <2>1. /\ Again(r) /\ run[r].pc \notin {"idle", "failing"}
        /\ run[r].fn = "split" /\ run[r].pc \in {"archive", "tell"} => "split" \in halfway'
    BY <1>17 DEF StepFails
  <2> QED
    BY <2>1, AgainStep
<1> QED
  BY <1>4, <1>5, <1>6, <1>7, <1>8, <1>9, <1>10, <1>11, <1>12, <1>13, <1>14, <1>15, <1>16, <1>17
     DEF Function

LEMMA SlotsStep ==
    ASSUME TypeOK, RunsAreReal, [Next]_vars
    PROVE  run' \in [Slots -> Runs] /\ \A s \in Slots : SlotStep(s)
<1>1. CASE UNCHANGED run
  BY <1>1 DEF TypeOK, Runs, Steps, SlotStep
<1>2. CASE trigger_cleaning
  BY <1>2, RequestStep DEF trigger_cleaning
<1>3. CASE request_split
  <2> DEFINE new == [row EXCEPT !.splitting = "splitting"]
  <2>1. Request("split", new) /\ row # NULL
    BY <1>3 DEF request_split, Request
  <2>2. new.splitting = "splitting"
    BY <2>1 DEF TypeOK
  <2> HIDE DEF new
  <2> QED
    BY <2>1, <2>2, RequestStep
<1> QED
  BY <1>1, <1>2, <1>3, ConfirmStep, FunctionStep DEF Next, Users, RequestUrl, PutAudio,
     MoveGenre, MarkCleaning, delete_recording, ListStale, ClearStale, vars

-----------------------------------------------------------------------------
(* What a step does to the row, to the objects and to the segments.        *)

RowStep ==
    /\ row' \in Rows \cup {NULL}
    /\ row' # NULL =>
          /\ row # NULL
          /\ row.gcs_url # NULL => row'.gcs_url # NULL
          /\ row'.cleaning = "cleaned" =>
                \/ row.cleaning = "cleaned"
                \/ (\E r \in Slots : At(r, "clean", "mark")) /\ UNCHANGED blob
          /\ row'.splitting = "archived_after_split" =>
                \/ row.splitting = "archived_after_split"
                \/ \E r \in Slots : At(r, "split", "archive")
          /\ row'.splitting = "failed" =>
                \/ row.splitting = "failed"
                \/ \E r \in Slots : At(r, "split", "failing") /\ run'[r] = Idle

LEMMA RowsStep ==
    ASSUME TypeOK, RunsAreReal, [Next]_vars
    PROVE  RowStep
<1>0. row \in Rows \cup {NULL}
  BY DEF TypeOK, Rows
<1>1. CASE row' \in {row, NULL}
  BY <1>0, <1>1 DEF RowStep
<1>2. CASE RequestUrl
  <2>1. row # NULL /\ row' = [row EXCEPT !.upload = "uploading"]
    BY <1>2 DEF RequestUrl
  <2> QED
    BY <1>0, <2>1 DEF RowStep, Rows, UploadStatus
<1>3. CASE MoveGenre
  <2>1. PICK g \in Genres : row # NULL /\ row' = [row EXCEPT !.genre = g]
    BY <1>3 DEF MoveGenre
  <2> QED
    BY <1>0, <2>1 DEF RowStep, Rows
<1>4. CASE MarkCleaning
  <2>1. PICK c \in {"none", "needs_cleaning"} : row # NULL /\ row' = [row EXCEPT !.cleaning = c]
    BY <1>4 DEF MarkCleaning
  <2> QED
    BY <1>0, <2>1 DEF RowStep, Rows, CleaningStatus
<1>5. CASE trigger_cleaning
  <2>1. row # NULL /\ row' = [row EXCEPT !.cleaning = "cleaning"]
    BY <1>5 DEF trigger_cleaning, Request
  <2> QED
    BY <1>0, <2>1 DEF RowStep, Rows, CleaningStatus
<1>6. CASE request_split
  <2>1. row # NULL /\ row' = [row EXCEPT !.splitting = "splitting"]
    BY <1>6 DEF request_split, Request
  <2> QED
    BY <1>0, <2>1 DEF RowStep, Rows, SplittingStatus
<1>7. ASSUME NEW r \in Slots, SetUploadMetadata(r)
      PROVE  RowStep
  <2>1. CASE row # NULL
    <3> DEFINE one == [row EXCEPT !.gcs_url = run[r].path]
               new == [one EXCEPT !.upload = "uploaded"]
    <3>1. run[r].path \in Genres
      BY <1>7 DEF SetUploadMetadata, At, RunsAreReal
    <3>2. row' = new
      BY <1>7, <2>1 DEF SetUploadMetadata
    <3>3. /\ one \in Rows /\ one.gcs_url \in Genres /\ one.cleaning = row.cleaning
          /\ one.splitting = row.splitting
      BY <1>0, <2>1, <3>1 DEF Rows
    <3> HIDE DEF one
    <3>4. /\ new \in Rows /\ new.gcs_url \in Genres /\ new.cleaning = row.cleaning
          /\ new.splitting = row.splitting
      BY <3>3 DEF Rows, UploadStatus
    <3> HIDE DEF new
    <3> QED
      BY <2>1, <3>2, <3>4 DEF RowStep
  <2> QED
    BY <1>1, <1>7, <2>1 DEF SetUploadMetadata
<1>8. ASSUME NEW s \in {"verified", "upload_failed"}, Update("upload", s)
      PROVE  RowStep
  <2>1. CASE row # NULL
    <3>1. row' = [row EXCEPT !.upload = s]
      BY <1>8, <2>1 DEF Update
    <3> QED
      BY <1>0, <2>1, <3>1 DEF RowStep, Rows, UploadStatus
  <2> QED
    BY <1>1, <1>8, <2>1 DEF Update
<1>9. ASSUME NEW c \in {"cleaned", "failed"}, Update("cleaning", c),
             c = "cleaned" => UNCHANGED blob /\ \E r \in Slots : At(r, "clean", "mark")
      PROVE  RowStep
  <2>1. CASE row # NULL
    <3>1. row' = [row EXCEPT !.cleaning = c]
      BY <1>9, <2>1 DEF Update
    <3> QED
      BY <1>0, <1>9, <2>1, <3>1 DEF RowStep, Rows, CleaningStatus
  <2> QED
    BY <1>1, <1>9, <2>1 DEF Update
<1>10. ASSUME NEW s \in {"archived_after_split", "failed"}, Update("splitting", s),
              s = "archived_after_split" => \E r \in Slots : At(r, "split", "archive"),
              s = "failed" => \E r \in Slots : At(r, "split", "failing") /\ run'[r] = Idle
       PROVE  RowStep
  <2>1. CASE row # NULL
    <3>1. row' = [row EXCEPT !.splitting = s]
      BY <1>10, <2>1 DEF Update
    <3> QED
      BY <1>0, <1>10, <2>1, <3>1 DEF RowStep, Rows, SplittingStatus
  <2> QED
    BY <1>1, <1>10, <2>1 DEF Update
<1>11. ASSUME NEW r \in Slots, OnFailure(r)
       PROVE  RowStep
  <2>1. run[r].fn \in {"upload", "clean", "split"}
    BY <1>11 DEF OnFailure, RunsAreReal, TypeOK
  <2>2. \/ Update("upload", "upload_failed") \/ Update("cleaning", "failed")
        \/ Update("splitting", "failed") /\ At(r, "split", "failing")
    BY <1>11, <2>1 DEF OnFailure, At
  <2>3. run'[r] = Idle
    BY <1>11 DEF OnFailure, Finish, TypeOK
  <2> QED
    BY <1>8, <1>9, <1>10, <2>2, <2>3
<1>12. ASSUME NEW r \in Slots, MarkCleaned(r)
       PROVE  RowStep
  BY <1>9, <1>12 DEF MarkCleaned, still
<1>13. ASSUME NEW r \in Slots, ArchiveParent(r)
       PROVE  RowStep
  BY <1>10, <1>13 DEF ArchiveParent
<1>14. ASSUME NEW r \in Slots, FinalizeVerified(r)
       PROVE  RowStep
  BY <1>8, <1>14 DEF FinalizeVerified
<1>15. ASSUME NEW r \in Slots, Function(r)
       PROVE  RowStep
  BY <1>1, <1>7, <1>11, <1>12, <1>13, <1>14, <1>15 DEF Function, VerifyBlob,
     NotifyUploadComplete, CheckVerified, CallCleaningApi, Backup, Overwrite, SplitAndUpload,
     SaveSegments, Return, StepFails
<1> QED
  BY <1>1, <1>2, <1>3, <1>4, <1>5, <1>6, <1>15 DEF Next, Users, PutAudio, confirm_upload,
     delete_recording, ListStale, ClearStale, vars

\* Audio goes, is put by the device, or is what cleaning made of it.
BlobStep(g) ==
    \/ blob'[g] \in {blob[g], NULL}
    \/ PutAudio /\ blob'[g] # "cleaned"
    \/ \E r \in Slots :
          /\ At(r, "clean", "overwrite") /\ run[r].path = g /\ blob'[g] = run[r].data
          /\ run'[r].pc = "mark" \/ "clean" \in halfway'

LEMMA BlobsStep ==
    ASSUME TypeOK, RunsAreReal, [Next]_vars
    PROVE  blob' \in [Genres -> Content] /\ \A g \in Genres : BlobStep(g)
<1>1. CASE UNCHANGED blob
  BY <1>1 DEF BlobStep, TypeOK
<1>2. ASSUME NEW h, blob' \in {blob, Without(h)}
      PROVE  blob' \in [Genres -> Content] /\ \A g \in Genres : BlobStep(g)
  <2>1. CASE h \in Genres /\ blob' = [blob EXCEPT ![h] = NULL]
    BY <2>1 DEF BlobStep, TypeOK, Content
  <2> QED
    BY <1>1, <1>2, <2>1 DEF Without
<1>3. CASE PutAudio
  <2>1. PICK h \in Genres, c \in {"raw", "cut_short"} : blob' = [blob EXCEPT ![h] = c]
    BY <1>3 DEF PutAudio, TypeOK
  <2>2. c \in Content
    BY DEF Content
  <2>3. ASSUME NEW g \in Genres
        PROVE  BlobStep(g)
    <3>1. CASE g = h
      <4>1. blob'[g] = c
        BY <2>1, <2>2, <3>1 DEF TypeOK
      <4> QED
        BY <1>3, <3>1, <4>1 DEF BlobStep
    <3>2. CASE g # h
      BY <2>1, <3>2 DEF BlobStep, TypeOK
    <3> QED
      BY <3>1, <3>2
  <2> QED
    BY <2>1, <2>2, <2>3 DEF TypeOK
<1>4. ASSUME NEW r \in Slots, Overwrite(r)
      PROVE  blob' \in [Genres -> Content] /\ \A g \in Genres : BlobStep(g)
  <2>1. run[r].path \in Genres /\ run[r].data \in Content /\ At(r, "clean", "overwrite")
    BY <1>4 DEF Overwrite, At, RunsAreReal, TypeOK
  <2>2. blob' = [blob EXCEPT ![run[r].path] = run[r].data]
    BY <1>4 DEF Overwrite
  <2>3. run'[r].pc = "mark" \/ "clean" \in halfway'
    <3>1. CASE Goto(r, "mark")
      BY <3>1, GotoMoves DEF Moves, Steps
    <3> QED
      BY <1>4, <3>1 DEF Overwrite, Recorded, At
  <2>4. blob' \in [Genres -> Content]
    BY <2>1, <2>2 DEF TypeOK
  <2>5. ASSUME NEW g \in Genres
        PROVE  BlobStep(g)
    <3>1. CASE g = run[r].path
      <4>1. blob'[g] = run[r].data
        BY <2>1, <2>2, <3>1 DEF TypeOK
      <4> QED
        BY <2>1, <2>3, <3>1, <4>1 DEF BlobStep
    <3>2. CASE g # run[r].path
      <4>1. blob'[g] = blob[g]
        BY <2>1, <2>2, <3>2 DEF TypeOK
      <4> QED
        BY <4>1 DEF BlobStep
    <3> QED
      BY <3>1, <3>2
  <2> QED
    BY <2>4, <2>5
<1>5. ASSUME NEW r \in Slots, Function(r), ~Overwrite(r)
      PROVE  UNCHANGED blob
  BY <1>5 DEF Function, SetUploadMetadata, VerifyBlob, FinalizeVerified, NotifyUploadComplete,
     CheckVerified, CallCleaningApi, Backup, MarkCleaned, SplitAndUpload, SaveSegments,
     ArchiveParent, Return, StepFails, OnFailure, still
<1>6. CASE Users
  BY <1>1, <1>2, <1>3, <1>6 DEF Users, RequestUrl, confirm_upload, MoveGenre, MarkCleaning,
     delete_recording, ListStale, ClearStale, trigger_cleaning, request_split, Request, still
<1> QED
  BY <1>1, <1>4, <1>5, <1>6 DEF Next, vars

\* A copy stays, or is made anew of the object.
CopyStep(g) ==
    \/ original'[g] = original[g]
    \/ /\ original'[g] = blob[g] /\ blob[g] # NULL /\ UNCHANGED blob
       /\ \E r \in Slots : At(r, "clean", "backup") /\ run[r].path = g

\* Copies and segments stay.
LEMMA CopiesStep ==
    ASSUME TypeOK, RunsAreReal, [Next]_vars
    PROVE  /\ original' \in [Genres -> Content]
           /\ \A g \in Genres : CopyStep(g)
           /\ segments' \subseteq Nat
           /\ \/ UNCHANGED segments
              \/ /\ segments' # {} /\ UNCHANGED row
                 /\ \E r \in Slots : At(r, "split", "save") /\ run'[r].pc = "archive"
           /\ segments # {} => segments' # {}
<1>1. ASSUME NEW r \in Slots, Backup(r)
      PROVE  original' \in [Genres -> Content] /\ \A g \in Genres : CopyStep(g)
  <2>1. /\ run[r].path \in Genres /\ blob[run[r].path] \in Content \ {NULL}
        /\ At(r, "clean", "backup") /\ UNCHANGED blob
    BY <1>1 DEF Backup, At, RunsAreReal, TypeOK
  <2>2. original' = [original EXCEPT ![run[r].path] = blob[run[r].path]]
    BY <1>1 DEF Backup
  <2>3. original' \in [Genres -> Content]
    BY <2>1, <2>2 DEF TypeOK
  <2>4. ASSUME NEW g \in Genres
        PROVE  CopyStep(g)
    <3>1. CASE g = run[r].path
      <4>1. original'[g] = blob[g]
        BY <2>1, <2>2, <3>1 DEF TypeOK
      <4> QED
        BY <2>1, <3>1, <4>1 DEF CopyStep
    <3>2. CASE g # run[r].path
      <4>1. original'[g] = original[g]
        BY <2>1, <2>2, <3>2 DEF TypeOK
      <4> QED
        BY <4>1 DEF CopyStep
    <3> QED
      BY <3>1, <3>2
  <2> QED
    BY <2>3, <2>4
<1>2. ASSUME NEW r \in Slots, SaveSegments(r)
      PROVE  /\ segments' \subseteq Nat /\ segments' # {} /\ UNCHANGED row
             /\ At(r, "split", "save") /\ run'[r].pc = "archive"
  <2>1. run[r].id \in Nat
    BY DEF TypeOK
  <2>2. run'[r].pc = "archive"
    BY <1>2, WithinMoves DEF SaveSegments, Moves, Steps
  <2> QED
    BY <1>2, <2>1, <2>2 DEF SaveSegments, TypeOK
<1>3. \/ UNCHANGED original
      \/ \E r \in Slots : Backup(r)
  BY DEF Next, Users, Function, SetUploadMetadata, VerifyBlob, FinalizeVerified,
     NotifyUploadComplete, CheckVerified, CallCleaningApi, Overwrite, MarkCleaned,
     SplitAndUpload, SaveSegments, ArchiveParent, Return, StepFails, OnFailure, RequestUrl,
     PutAudio, confirm_upload, MoveGenre, MarkCleaning, delete_recording, ListStale,
     ClearStale, trigger_cleaning, request_split, Request, still, vars
<1>4. \/ UNCHANGED segments
      \/ \E r \in Slots : SaveSegments(r)
  BY DEF Next, Users, Function, SetUploadMetadata, VerifyBlob, FinalizeVerified,
     NotifyUploadComplete, CheckVerified, CallCleaningApi, Backup, Overwrite, MarkCleaned,
     SplitAndUpload, ArchiveParent, Return, StepFails, OnFailure, RequestUrl,
     PutAudio, confirm_upload, MoveGenre, MarkCleaning, delete_recording, ListStale,
     ClearStale, trigger_cleaning, request_split, Request, still, vars
<1>5. original' \in [Genres -> Content] /\ \A g \in Genres : CopyStep(g)
  <2>1. CASE UNCHANGED original
    BY <2>1 DEF TypeOK, CopyStep
  <2> QED
    BY <1>1, <1>3, <2>1
<1>6. CASE UNCHANGED segments
  BY <1>5, <1>6 DEF TypeOK
<1>7. CASE \E r \in Slots : SaveSegments(r)
  BY <1>2, <1>5, <1>7
<1> QED
  BY <1>4, <1>6, <1>7

\* Requests are counted, and what is late or halfway stays so.
LEMMA CountsStep ==
    ASSUME TypeOK, RunsAreReal, [Next]_vars
    PROVE  /\ used' \in [Requests -> Nat]
           /\ \A k \in Requests : used[k] <= used'[k]
           /\ halfway' \subseteq {"upload", "clean", "split"} /\ halfway \subseteq halfway'
           /\ late' \in BOOLEAN
           /\ ~late' => ~late
<1>1. ASSUME NEW k \in Requests, Counted(k)
      PROVE  used' \in [Requests -> Nat] /\ \A j \in Requests : used[j] <= used'[j]
  BY <1>1 DEF Counted, TypeOK
<1>2. ASSUME UNCHANGED used
      PROVE  used' \in [Requests -> Nat] /\ \A j \in Requests : used[j] <= used'[j]
  BY <1>2 DEF TypeOK
<1>3. used' \in [Requests -> Nat] /\ \A j \in Requests : used[j] <= used'[j]
  <2>1. \/ UNCHANGED used
        \/ \E k \in {"url", "put", "confirm", "move", "clean", "split"} : Counted(k)
    BY DEF Next, Users, Function, SetUploadMetadata, VerifyBlob, FinalizeVerified,
       NotifyUploadComplete, CheckVerified, CallCleaningApi, Backup, Overwrite, MarkCleaned,
       SplitAndUpload, SaveSegments, ArchiveParent, Return, StepFails, OnFailure, RequestUrl,
       PutAudio, confirm_upload, MoveGenre, MarkCleaning, delete_recording, ListStale,
       ClearStale, trigger_cleaning, request_split, Request, vars
  <2> QED
    BY <1>1, <1>2, <2>1 DEF Requests
<1>4. \/ UNCHANGED late
      \/ PutAudio
  BY DEF Next, Users, Function, SetUploadMetadata, VerifyBlob, FinalizeVerified,
     NotifyUploadComplete, CheckVerified, CallCleaningApi, Backup, Overwrite, MarkCleaned,
     SplitAndUpload, SaveSegments, ArchiveParent, Return, StepFails, OnFailure, RequestUrl,
     confirm_upload, MoveGenre, MarkCleaning, delete_recording, ListStale, ClearStale,
     trigger_cleaning, request_split, Request, still, vars
<1>5. late' \in BOOLEAN /\ (~late' => ~late)
  <2>1. ASSUME PutAudio
        PROVE  late' \in BOOLEAN /\ (~late' => ~late)
    <3>1. PICK g \in urls :
             late' = (\/ late
                      \/ row # NULL /\ row.cleaning = "cleaned"
                      \/ \E r \in Slots : Cleans(r)
                      \/ \E h \in Genres \ {g} : blob[h] # NULL)
      BY <2>1, Zenon DEF PutAudio
    <3> QED
      BY <3>1, Zenon
  <2>2. late \in BOOLEAN
    BY DEF TypeOK
  <2> QED
    BY <1>4, <2>1, <2>2
<1>6. halfway' \subseteq {"upload", "clean", "split"} /\ halfway \subseteq halfway'
  <2>1. ASSUME NEW r \in Slots, NEW pc, Recorded(r, pc), run[r].pc # "idle"
        PROVE  halfway' \subseteq {"upload", "clean", "split"} /\ halfway \subseteq halfway'
    <3>1. run[r].fn \in {"upload", "clean", "split"}
      BY <2>1 DEF RunsAreReal, TypeOK
    <3> QED
      BY <2>1, <3>1 DEF Recorded, TypeOK
  <2>2. ASSUME NEW r \in Slots, StepFails(r)
        PROVE  halfway' \subseteq {"upload", "clean", "split"} /\ halfway \subseteq halfway'
    BY <2>2 DEF StepFails, TypeOK
  <2>3. \/ UNCHANGED halfway
        \/ \E r \in Slots : StepFails(r)
        \/ \E r \in Slots, pc \in {"verify", "tell", "mark"} :
              Recorded(r, pc) /\ run[r].pc # "idle"
    BY DEF Next, Users, Function, SetUploadMetadata, VerifyBlob, FinalizeVerified,
       NotifyUploadComplete, CheckVerified, CallCleaningApi, Backup, Overwrite, MarkCleaned,
       SplitAndUpload, SaveSegments, ArchiveParent, Return, OnFailure, RequestUrl, PutAudio,
       confirm_upload, MoveGenre, MarkCleaning, delete_recording, ListStale, ClearStale,
       trigger_cleaning, request_split, Request, At, vars
  <2> QED
    BY <2>1, <2>2, <2>3 DEF TypeOK
<1> QED
  BY <1>3, <1>5, <1>6

LEMMA TypeStep ==
    ASSUME TypeOK, RunsAreReal, [Next]_vars
    PROVE  TypeOK'
<1>1. stale' \in Genres \cup {"none", "no_url"}
  <2>1. CASE ListStale
    BY <2>1 DEF ListStale, TypeOK
  <2> QED
    BY <2>1 DEF TypeOK, Next, Users, Function, SetUploadMetadata, VerifyBlob, FinalizeVerified,
       NotifyUploadComplete, CheckVerified, CallCleaningApi, Backup, Overwrite, MarkCleaned,
       SplitAndUpload, SaveSegments, ArchiveParent, Return, StepFails, OnFailure, RequestUrl,
       PutAudio, confirm_upload, MoveGenre, MarkCleaning, delete_recording, ClearStale,
       trigger_cleaning, request_split, Request, still, vars
<1>2. promise' \in {"nothing", "safe", "deleted"} /\ lost' \in {lost, TRUE}
  BY DEF TypeOK, Next, Users, Function, SetUploadMetadata, VerifyBlob, FinalizeVerified,
     NotifyUploadComplete, CheckVerified, CallCleaningApi, Backup, Overwrite, MarkCleaned,
     SplitAndUpload, SaveSegments, ArchiveParent, Return, StepFails, OnFailure, RequestUrl,
     PutAudio, confirm_upload, MoveGenre, MarkCleaning, delete_recording, ListStale, ClearStale,
     trigger_cleaning, request_split, Request, still, vars
<1>3. {lost, late}' \subseteq BOOLEAN
  BY <1>2, CountsStep DEF TypeOK
<1>4. urls' \subseteq Genres
  <2>1. CASE RequestUrl
    BY <2>1 DEF RequestUrl, TypeOK
  <2> QED
    BY <2>1 DEF TypeOK, Next, Users, Function, SetUploadMetadata, VerifyBlob, FinalizeVerified,
       NotifyUploadComplete, CheckVerified, CallCleaningApi, Backup, Overwrite, MarkCleaned,
       SplitAndUpload, SaveSegments, ArchiveParent, Return, StepFails, OnFailure, PutAudio,
       confirm_upload, MoveGenre, MarkCleaning, delete_recording, ListStale, ClearStale,
       trigger_cleaning, request_split, Request, still, vars
<1> QED
  BY <1>1, <1>2, <1>3, <1>4, SlotsStep, RowsStep, BlobsStep, CopiesStep, CountsStep
     DEF TypeOK, RowStep, Rows, Runs, Steps

-----------------------------------------------------------------------------
(* The invariant, part by part.                                            *)

\* Who has the cleaned audio after a step had it before, or has just been answered.
LEMMA CleansStep ==
    ASSUME TypeOK, RunsAreReal, [Next]_vars, NEW s \in Slots, Cleans(s)'
    PROVE  \/ Cleans(s) /\ run'[s].path = run[s].path /\ run'[s].data = run[s].data
           \/ Called(s)
<1>1. SlotStep(s) /\ run'[s].fn = "clean"
      /\ run'[s].pc \in {"backup", "overwrite", "mark", "tell"}
  BY SlotsStep DEF Cleans
<1>2. CASE run'[s] \in {run[s], Idle}
  BY <1>1, <1>2, IdleIsTyped DEF Cleans
<1>3. ASSUME NEW pc \in Steps, Moves(s, pc), GoesOn(s, pc)
      PROVE  Cleans(s) /\ run'[s].path = run[s].path /\ run'[s].data = run[s].data
  BY <1>1, <1>3 DEF Moves, GoesOn, Restarts, Cleans, At
<1> QED
  BY <1>1, <1>2, <1>3 DEF SlotStep, Starts, Checked

LEMMA CallsStep ==
    ASSUME TypeOK, RunsAreReal, [Next]_vars, NEW s \in Slots, At(s, "clean", "call")'
    PROVE  At(s, "clean", "call") \/ Checked(s)
<1>1. SlotStep(s) /\ run'[s].fn = "clean" /\ run'[s].pc = "call"
  BY SlotsStep DEF At
<1>2. CASE run'[s] \in {run[s], Idle}
  BY <1>1, <1>2, IdleIsTyped DEF At
<1>3. ASSUME NEW pc \in Steps, Moves(s, pc), GoesOn(s, pc)
      PROVE  At(s, "clean", "call")
  BY <1>1, <1>3 DEF Moves, GoesOn, Restarts, At
<1> QED
  BY <1>1, <1>2, <1>3 DEF SlotStep, Starts, Called

\* Who has overwritten the object had done so before the step, or has just done it.
LEMMA MarksStep ==
    ASSUME TypeOK, RunsAreReal, [Next]_vars, NEW s \in Slots,
           At(s, "clean", "mark")' \/ At(s, "clean", "tell")'
    PROVE  /\ run'[s].path = run[s].path /\ Cleans(s)
           /\ \/ At(s, "clean", "mark") \/ At(s, "clean", "tell")
              \/ blob'[run[s].path] = run[s].data
<1>1. SlotStep(s) /\ run'[s].fn = "clean" /\ run'[s].pc \in {"mark", "tell"}
  BY SlotsStep DEF At
<1>2. CASE run'[s] \in {run[s], Idle}
  BY <1>1, <1>2, IdleIsTyped DEF At, Cleans
<1>3. ASSUME NEW pc \in Steps, Moves(s, pc), GoesOn(s, pc)
      PROVE  /\ run'[s].path = run[s].path /\ Cleans(s)
             /\ \/ At(s, "clean", "mark") \/ At(s, "clean", "tell")
                \/ blob'[run[s].path] = run[s].data
  BY <1>1, <1>3 DEF Moves, GoesOn, Restarts, At, Cleans
<1> QED
  BY <1>1, <1>2, <1>3 DEF SlotStep, Starts, Checked, Called

LEMMA RealStep ==
    ASSUME TypeOK, RunsAreReal, [Next]_vars
    PROVE  RunsAreReal'
<1> SUFFICES ASSUME NEW s \in Slots
             PROVE  /\ run'[s].pc # "idle" => run'[s].fn # "none"
                    /\ run'[s].pc \notin {"idle", "check", "failing"} => run'[s].path \in Genres
                    /\ run'[s].pc = "told" => run'[s].fn = "upload"
                    /\ run'[s].pc = "archive" => segments' # {}
  BY DEF RunsAreReal
<1>1. CASE run'[s] = run[s]
  BY <1>1, CopiesStep DEF RunsAreReal
<1>2. CASE run'[s] = Idle
  BY <1>2, IdleIsTyped
<1>3. CASE Starts(s)
  BY <1>3 DEF Starts
<1>4. CASE Checked(s)
  BY <1>4 DEF Checked, RunsAreReal, TypeOK
<1>5. CASE Called(s)
  BY <1>5 DEF Called, RunsAreReal, At
<1>6. ASSUME NEW pc \in Steps, Moves(s, pc), GoesOn(s, pc)
      PROVE  /\ run'[s].pc # "idle" => run'[s].fn # "none"
             /\ run'[s].pc \notin {"idle", "check", "failing"} => run'[s].path \in Genres
             /\ run'[s].pc = "told" => run'[s].fn = "upload"
             /\ run'[s].pc = "archive" => segments' # {}
  <2>1. run'[s].fn = run[s].fn /\ run'[s].path = run[s].path /\ run'[s].pc = pc
    BY <1>6 DEF Moves
  <2>2. run[s].pc \notin {"idle", "failing"}
    BY <1>6 DEF GoesOn, Restarts, At
  <2>3. pc \notin {"idle", "check", "failing"} => run[s].pc # "check"
    BY <1>6 DEF GoesOn, Restarts, At
  <2>4. pc = "told" => run[s].fn = "upload"
    BY <1>6 DEF GoesOn, Restarts
  <2>5. pc = "archive" => segments' # {}
    BY <1>6 DEF GoesOn, Restarts
  <2> QED
    BY <2>1, <2>2, <2>3, <2>4, <2>5 DEF RunsAreReal
<1> QED
  BY <1>1, <1>2, <1>3, <1>4, <1>5, <1>6, SlotsStep DEF SlotStep

LEMMA CopiesAreMadeStep ==
    ASSUME TypeOK, RunsAreReal, CopiesAreMade, [Next]_vars
    PROVE  CopiesAreMade'
\* What has a copy keeps one.
<1>1. ASSUME NEW g \in Genres, original[g] # NULL
      PROVE  original'[g] # NULL
  BY <1>1, CopiesStep DEF CopyStep
<1>2. ASSUME NEW g \in Genres, blob'[g] = "cleaned"
      PROVE  original'[g] # NULL
  <2>1. CASE blob'[g] \in {blob[g], NULL}
    BY <1>1, <1>2, <2>1 DEF CopiesAreMade
  <2>2. ASSUME NEW r \in Slots, At(r, "clean", "overwrite"), run[r].path = g
        PROVE  original'[g] # NULL
    BY <1>1, <2>2 DEF CopiesAreMade
  <2> QED
    BY <1>2, <2>1, <2>2, BlobsStep DEF BlobStep
\* Uncleaned audio that has an uncleaned copy keeps it.
<1>3. ASSUME NEW s \in Slots, NEW g \in Genres, Cleans(s), ~late', blob'[g] \in Uncleaned,
             blob[g] \in Uncleaned /\ ~late => original[g] \in Uncleaned
      PROVE  original'[g] \in Uncleaned
  <2>1. ~late /\ ~PutAudio
    BY <1>3, CountsStep DEF PutAudio
  <2>2. ASSUME NEW r \in Slots, At(r, "clean", "overwrite")
        PROVE  run[r].data = "cleaned"
    BY <2>2 DEF CopiesAreMade, Cleans, At
  <2>3. blob'[g] = blob[g]
    BY <1>3, <2>1, <2>2, BlobsStep DEF BlobStep, Uncleaned
  <2> QED
    BY <1>3, <2>1, <2>3, CopiesStep DEF CopyStep
<1>4. ASSUME NEW s \in Slots, At(s, "clean", "overwrite")'
      PROVE  /\ original'[run'[s].path] # NULL
             /\ blob'[run'[s].path] \in Uncleaned /\ ~late'
                   => original'[run'[s].path] \in Uncleaned
  <2>1. CASE run'[s] \in {run[s], Idle}
    <3>1. run'[s] = run[s] /\ run[s].path \in Genres /\ At(s, "clean", "overwrite")
      BY <1>4, <2>1, IdleIsTyped DEF RunsAreReal, At
    <3> QED
      BY <1>1, <1>3, <3>1 DEF CopiesAreMade, Cleans, At
  <2>2. ASSUME NEW pc \in Steps, Moves(s, pc), GoesOn(s, pc)
        PROVE  /\ original'[run'[s].path] # NULL
               /\ blob'[run'[s].path] \in Uncleaned => original'[run'[s].path] \in Uncleaned
    <3>1. /\ run'[s].path = run[s].path /\ blob[run[s].path] # NULL
          /\ original'[run[s].path] = blob[run[s].path] /\ UNCHANGED blob
      BY <1>4, <2>2 DEF Moves, GoesOn, Restarts, At
    <3> QED
      BY <3>1
  <2> QED
    BY <1>4, <2>1, <2>2, SlotsStep DEF SlotStep, Starts, Checked, Called, At
<1>5. ASSUME NEW s \in Slots, Cleans(s)'
      PROVE  run'[s].data = "cleaned"
  BY <1>5, CleansStep DEF CopiesAreMade, Called
<1> QED
  BY <1>2, <1>4, <1>5 DEF CopiesAreMade

\* Who is cleaning or splitting was, or has just been started.
LEMMA SameFunction ==
    ASSUME TypeOK, RunsAreReal, [Next]_vars, NEW s \in Slots, run'[s].fn # "none"
    PROVE  \/ run'[s].fn = run[s].fn /\ ~Starts(s)
           \/ Starts(s)
<1>1. ASSUME NEW pc \in Steps, Moves(s, pc)
      PROVE  run'[s].fn = run[s].fn
  BY <1>1 DEF Moves
<1> QED
  BY <1>1, SlotsStep, IdleIsTyped DEF SlotStep, Checked, Called, At

LEMMA EarlyStep ==
    ASSUME TypeOK, RunsAreReal, [Next]_vars, NEW s \in Slots, Early(s)'
    PROVE  Early(s) \/ Starts(s)
<1>1. SlotStep(s) /\ run'[s].fn = "clean"
      /\ run'[s].pc \in {"check", "call", "backup", "overwrite"}
  BY SlotsStep DEF Early
<1>2. ASSUME NEW pc \in Steps, Moves(s, pc), GoesOn(s, pc)
      PROVE  Early(s)
  BY <1>1, <1>2 DEF Moves, GoesOn, Restarts, Early, At
<1> QED
  BY <1>1, <1>2, IdleIsTyped DEF SlotStep, Checked, Called, Early, At

LEMMA UnsavedStep ==
    ASSUME TypeOK, RunsAreReal, [Next]_vars, NEW s \in Slots, Unsaved(s)',
           "split" \notin halfway'
    PROVE  Unsaved(s) \/ Starts(s)
<1>1. SlotStep(s) /\ run'[s].fn = "split" /\ run'[s].pc \notin {"archive", "tell"}
  BY SlotsStep DEF Unsaved
<1>2. ASSUME NEW pc \in Steps, Moves(s, pc), GoesOn(s, pc)
      PROVE  Unsaved(s)
  <2>1. run[s].fn = "split" /\ pc \notin {"archive", "tell"}
    BY <1>1, <1>2 DEF Moves
  <2> QED
    BY <1>2, <2>1 DEF GoesOn, Restarts, Unsaved, At
<1> QED
  BY <1>1, <1>2, IdleIsTyped DEF SlotStep, Checked, Called, Unsaved, At

\* A function that was the only one of its kind still is, since the first is started when
\* there is none.
LEMMA OneOfAKind ==
    ASSUME TypeOK, RunsAreReal, [Next]_vars, NEW fn \in {"clean", "split"},
           used[fn] = 0 => \A r \in Slots : run[r].fn # fn,
           used[fn] <= 1 => \A r, s \in Slots : run[r].fn = fn /\ run[s].fn = fn => r = s
    PROVE  /\ used'[fn] = 0 => \A r \in Slots : run'[r].fn # fn
           /\ used'[fn] <= 1 =>
                 \A r, s \in Slots : run'[r].fn = fn /\ run'[s].fn = fn => r = s
           /\ \A r \in Slots : Starts(r) /\ run'[r].fn = fn /\ used'[fn] <= 1 => used[fn] = 0
<1>1. used[fn] \in Nat /\ used'[fn] \in Nat /\ used[fn] <= used'[fn]
  BY CountsStep DEF TypeOK, Requests
<1>2. ASSUME NEW r \in Slots, Starts(r), run'[r].fn = fn
      PROVE  used'[fn] = used[fn] + 1 /\ \A t \in Slots \ {r} : run'[t] = run[t]
  BY <1>2 DEF Starts
<1>3. ASSUME NEW r \in Slots, run'[r].fn = fn
      PROVE  run[r].fn = fn \/ Starts(r)
  BY <1>3, SameFunction
<1>4. used'[fn] = 0 => \A r \in Slots : run'[r].fn # fn
  BY <1>1, <1>2, <1>3
<1>5. ASSUME used'[fn] <= 1, NEW r \in Slots, Starts(r), run'[r].fn = fn
      PROVE  used[fn] = 0
  BY <1>1, <1>2, <1>5
<1>6. ASSUME used'[fn] <= 1, NEW r \in Slots, NEW s \in Slots, run'[r].fn = fn, run'[s].fn = fn
      PROVE  r = s
  <2>1. CASE Starts(r) \/ Starts(s)
    <3>1. \A t \in Slots : run[t].fn # fn
      BY <1>5, <1>6, <2>1
    <3> QED
      BY <1>2, <1>6, <2>1, <3>1
  <2>2. CASE ~Starts(r) /\ ~Starts(s)
    <3>1. used[fn] <= 1
      BY <1>1, <1>6
    <3> QED
      BY <1>3, <1>6, <2>2, <3>1
  <2> QED
    BY <2>1, <2>2
<1> QED
  BY <1>4, <1>5, <1>6

LEMMA OneCleaningStep ==
    ASSUME TypeOK, RunsAreReal, OneCleaning, [Next]_vars
    PROVE  OneCleaning'
<1>1. /\ used["clean"] \in Nat /\ used'["clean"] \in Nat /\ used["clean"] <= used'["clean"]
      /\ halfway \subseteq halfway'
  BY CountsStep DEF TypeOK, Requests
<1>2. /\ used'["clean"] = 0 => \A r \in Slots : run'[r].fn # "clean"
      /\ used'["clean"] <= 1 =>
            \A r, s \in Slots : run'[r].fn = "clean" /\ run'[s].fn = "clean" => r = s
      /\ \A r \in Slots :
            Starts(r) /\ run'[r].fn = "clean" /\ used'["clean"] <= 1 => used["clean"] = 0
  BY OneOfAKind DEF OneCleaning
<1>3. ASSUME used'["clean"] = 0, NEW g \in Genres
      PROVE  blob'[g] # "cleaned"
  <2>1. (\A r \in Slots : run[r].fn # "clean") /\ blob[g] # "cleaned"
    BY <1>1, <1>3 DEF OneCleaning
  <2> QED
    BY <2>1, BlobsStep DEF BlobStep, At
<1>4. ASSUME used'["clean"] <= 1, "clean" \notin halfway', NEW g \in Genres
      PROVE  original'[g] # "cleaned"
  <2>1. /\ original[g] # "cleaned"
        /\ blob[g] = "cleaned" => \A r \in Slots : ~Early(r)
    BY <1>1, <1>4 DEF OneCleaning
  <2>2. ASSUME NEW r \in Slots, At(r, "clean", "backup")
        PROVE  Early(r)
    BY <2>2 DEF At, Early
  <2> QED
    BY <2>1, <2>2, CopiesStep DEF CopyStep
<1>5. ASSUME used'["clean"] <= 1, "clean" \notin halfway', NEW g \in Genres,
             blob'[g] = "cleaned", NEW s \in Slots, Early(s)'
      PROVE  FALSE
  <2>1. used["clean"] <= 1 /\ "clean" \notin halfway
    BY <1>1, <1>5
  <2>2. ~Starts(s) \/ used["clean"] = 0
    BY <1>2, <1>5 DEF Early
  <2>3. CASE blob[g] = "cleaned"
    <3>1. ~Early(s) /\ used["clean"] # 0
      BY <2>1, <2>3 DEF OneCleaning
    <3> QED
      BY <1>5, <2>2, <3>1, EarlyStep
  <2>4. ASSUME NEW r \in Slots, At(r, "clean", "overwrite"), run'[r].pc = "mark"
        PROVE  FALSE
    <3>1. used["clean"] # 0 /\ run[r].fn = "clean"
      BY <2>4 DEF OneCleaning, At
    <3>2. Early(s)
      BY <1>5, <2>2, <3>1, EarlyStep
    <3>3. r = s
      BY <2>1, <3>1, <3>2 DEF OneCleaning, Early
    <3> QED
      BY <1>5, <2>4, <3>3 DEF Early
  <2> QED
    BY <1>5, <2>3, <2>4, BlobsStep DEF BlobStep
<1> QED
  BY <1>2, <1>3, <1>4, <1>5 DEF OneCleaning

LEMMA OneSplitStep ==
    ASSUME TypeOK, RunsAreReal, OneSplit, [Next]_vars
    PROVE  OneSplit'
<1>1. /\ used["split"] \in Nat /\ used'["split"] \in Nat /\ used["split"] <= used'["split"]
      /\ halfway \subseteq halfway'
  BY CountsStep DEF TypeOK, Requests
<1>2. /\ used'["split"] = 0 => \A r \in Slots : run'[r].fn # "split"
      /\ used'["split"] <= 1 =>
            \A r, s \in Slots : run'[r].fn = "split" /\ run'[s].fn = "split" => r = s
      /\ \A r \in Slots :
            Starts(r) /\ run'[r].fn = "split" /\ used'["split"] <= 1 => used["split"] = 0
  BY OneOfAKind DEF OneSplit
<1>3. ASSUME used'["split"] = 0
      PROVE  segments' = {}
  BY <1>1, <1>3, CopiesStep DEF OneSplit, At
<1>4. ASSUME used'["split"] <= 1, row' # NULL, row'.splitting = "failed", NEW s \in Slots,
             run'[s].fn = "split"
      PROVE  FALSE
  <2>1. run[s].fn = "split" /\ ~Starts(s)
    BY <1>4, SameFunction DEF Starts
  <2>2. row # NULL /\ row.splitting # "failed" /\ used["split"] <= 1
    BY <1>1, <1>4, <2>1, RowsStep DEF OneSplit, RowStep
  <2>3. PICK r \in Slots : At(r, "split", "failing") /\ run'[r] = Idle
    BY <1>4, <2>2, RowsStep DEF RowStep
  <2>4. r = s
    BY <2>1, <2>2, <2>3 DEF OneSplit, At
  <2> QED
    BY <1>4, <2>3, <2>4, IdleIsTyped
<1>5. ASSUME used'["split"] <= 1, "split" \notin halfway', segments' # {}
      PROVE  /\ \A s \in Slots : ~Unsaved(s)'
             /\ row' # NULL => row'.splitting # "failed"
  <2>1. used["split"] <= 1 /\ "split" \notin halfway
    BY <1>1, <1>5
  <2>2. ASSUME NEW s \in Slots, Unsaved(s)'
        PROVE  Unsaved(s) /\ used["split"] # 0
    <3>1. used["split"] # 0
      <4>1. CASE used["split"] = 0
        <5>1. segments = {} /\ \A r \in Slots : run[r].fn # "split"
          BY <4>1 DEF OneSplit
        <5> QED
          BY <1>5, <5>1, CopiesStep DEF At
      <4> QED
        BY <4>1
    <3> QED
      BY <1>2, <1>5, <2>2, <3>1, UnsavedStep DEF Unsaved
  <2>3. CASE UNCHANGED segments
    <3>1. (\A s \in Slots : ~Unsaved(s)) /\ (row # NULL => row.splitting # "failed")
      BY <1>5, <2>1, <2>3 DEF OneSplit
    <3>2. \A r \in Slots : ~At(r, "split", "failing")
      BY <3>1 DEF Unsaved, At
    <3> QED
      BY <2>2, <3>1, <3>2, RowsStep DEF RowStep
  <2>4. ASSUME NEW r \in Slots, At(r, "split", "save"), run'[r].pc = "archive", UNCHANGED row
        PROVE  /\ \A s \in Slots : ~Unsaved(s)'
               /\ row' # NULL => row'.splitting # "failed"
    <3>1. row # NULL => row.splitting # "failed"
      BY <2>1, <2>4 DEF OneSplit, At
    <3>2. ASSUME NEW s \in Slots, Unsaved(s)'
          PROVE  FALSE
      <4>1. s = r
        BY <2>1, <2>2, <2>4, <3>2 DEF OneSplit, Unsaved, At
      <4> QED
        BY <2>4, <3>2, <4>1 DEF Unsaved
    <3> QED
      BY <2>4, <3>1, <3>2
  <2> QED
    BY <2>3, <2>4, CopiesStep
<1> QED
  BY <1>2, <1>3, <1>4, <1>5 DEF OneSplit

LEMMA ArchivedStep ==
    ASSUME TypeOK, RunsAreReal, ArchivedMeansSplit, [Next]_vars
    PROVE  ArchivedMeansSplit'
<1> SUFFICES ASSUME row' # NULL, row'.splitting = "archived_after_split"
             PROVE  segments' # {}
  BY DEF ArchivedMeansSplit
<1>1. segments # {}
  BY RowsStep DEF RowStep, ArchivedMeansSplit, RunsAreReal, At
<1> QED
  BY <1>1, CopiesStep

LEMMA UrlStays ==
    ASSUME TypeOK, RunsAreReal, CleanedHasUrl, [Next]_vars
    PROVE  CleanedHasUrl'
<1> SUFFICES ASSUME row' # NULL
             PROVE  /\ row'.cleaning = "cleaned" => row'.gcs_url # NULL
                    /\ \A s \in Slots :
                          Cleans(s)' \/ At(s, "clean", "call")' => row'.gcs_url # NULL
  BY DEF CleanedHasUrl
<1>1. row # NULL /\ (row.gcs_url # NULL => row'.gcs_url # NULL)
  BY RowsStep DEF RowStep
<1>2. ASSUME row'.cleaning = "cleaned"
      PROVE  row.gcs_url # NULL
  BY <1>1, <1>2, RowsStep DEF RowStep, CleanedHasUrl, At, Cleans
<1>3. ASSUME NEW s \in Slots, Cleans(s)'
      PROVE  row.gcs_url # NULL
  BY <1>1, <1>3, CleansStep DEF CleanedHasUrl, Called
<1>4. ASSUME NEW s \in Slots, At(s, "clean", "call")'
      PROVE  row.gcs_url # NULL
  BY <1>1, <1>4, CallsStep DEF CleanedHasUrl, Checked
<1> QED
  BY <1>1, <1>2, <1>3, <1>4

\* While no audio is put, none turns up on another path.
LEMMA TouchedStep ==
    ASSUME TypeOK, RunsAreReal, [Next]_vars, ~PutAudio, NEW g \in Genres, Touched(g)'
    PROVE  Touched(g)
<1>1. CASE blob'[g] # NULL
  <2>1. ASSUME NEW r \in Slots, At(r, "clean", "overwrite"), run[r].path = g
        PROVE  Touched(g)
    BY <2>1 DEF Touched, Cleans, At
  <2> QED
    BY <1>1, <2>1, BlobsStep DEF BlobStep, Touched
<1>2. ASSUME NEW s \in Slots, Cleans(s)', run'[s].path = g
      PROVE  Touched(g)
  BY <1>2, CleansStep DEF Touched, Called
<1> QED
  BY <1>1, <1>2 DEF Touched

\* A PUT that is not late puts the one object.
LEMMA PutStep ==
    ASSUME TypeOK, RunsAreReal, OneAudio, [Next]_vars, PutAudio
    PROVE  OneAudio'
<1> SUFFICES ASSUME ~late'
             PROVE  /\ \A g, h \in Genres : Touched(g)' /\ Touched(h)' => g = h
                    /\ \A r \in Slots : ~Cleans(r)'
                    /\ row' # NULL => row'.cleaning # "cleaned"
  BY DEF OneAudio, Cleans, At
<1>1. PICK g \in Genres :
         /\ \E c \in {"raw", "cut_short"} : blob' = [blob EXCEPT ![g] = c]
         /\ row # NULL => row.cleaning # "cleaned"
         /\ \A r \in Slots : ~Cleans(r)
         /\ \A h \in Genres \ {g} : blob[h] = NULL
  BY DEF PutAudio, TypeOK
<1>2. UNCHANGED <<run, row>>
  BY DEF PutAudio
<1>3. ASSUME NEW h \in Genres, Touched(h)'
      PROVE  h = g
  <2>1. blob'[h] # NULL
    BY <1>1, <1>2, <1>3 DEF Touched, Cleans
  <2> QED
    BY <1>1, <2>1 DEF TypeOK
<1> QED
  BY <1>1, <1>2, <1>3 DEF Cleans

LEMMA OneAudioStep ==
    ASSUME TypeOK, RunsAreReal, CopiesAreMade, OneAudio, [Next]_vars, ~PutAudio
    PROVE  OneAudio'
<1> SUFFICES ASSUME ~late'
             PROVE  /\ \A g, h \in Genres : Touched(g)' /\ Touched(h)' => g = h
                    /\ \A r \in Slots :
                          At(r, "clean", "mark")' \/ At(r, "clean", "tell")'
                              => blob'[run'[r].path] \in {"cleaned", NULL}
                    /\ row' # NULL /\ row'.cleaning = "cleaned" =>
                          \A g \in Genres : blob'[g] \in {"cleaned", NULL}
  BY DEF OneAudio
<1>1. ~late
  BY CountsStep
<1>3. \A g, h \in Genres : Touched(g)' /\ Touched(h)' => g = h
  BY <1>1, TouchedStep DEF OneAudio
\* Whose audio is cleaned has been put.
<1>4. ASSUME NEW r \in Slots, Cleans(r)
      PROVE  run[r].path \in Genres /\ Touched(run[r].path) /\ run[r].data = "cleaned"
  BY <1>4 DEF Touched, Cleans, RunsAreReal, CopiesAreMade
\* What is cleaned stays cleaned or goes.
<1>6. ASSUME NEW g \in Genres, blob[g] \in {"cleaned", NULL}
      PROVE  blob'[g] \in {"cleaned", NULL}
  <2>1. ASSUME NEW r \in Slots, At(r, "clean", "overwrite")
        PROVE  run[r].data = "cleaned"
    BY <2>1 DEF At, Cleans, CopiesAreMade
  <2> QED
    BY <1>6, <2>1, BlobsStep DEF BlobStep
<1>7. ASSUME NEW s \in Slots, At(s, "clean", "mark")' \/ At(s, "clean", "tell")'
      PROVE  blob'[run'[s].path] \in {"cleaned", NULL}
  <2>1. Cleans(s) /\ run'[s].path = run[s].path
    BY <1>7, MarksStep
  <2>2. run[s].path \in Genres /\ run[s].data = "cleaned"
    BY <1>4, <2>1
  <2>3. CASE At(s, "clean", "mark") \/ At(s, "clean", "tell")
    <3>1. blob[run[s].path] \in {"cleaned", NULL}
      BY <1>1, <2>3 DEF OneAudio
    <3> QED
      BY <1>6, <2>1, <2>2, <3>1
  <2>4. CASE blob'[run[s].path] = run[s].data
    BY <2>1, <2>2, <2>4
  <2> QED
    BY <1>7, <2>3, <2>4, MarksStep
<1>8. ASSUME row' # NULL, row'.cleaning = "cleaned", NEW g \in Genres
      PROVE  blob'[g] \in {"cleaned", NULL}
  <2>1. CASE row # NULL /\ row.cleaning = "cleaned"
    BY <1>1, <1>6, <2>1 DEF OneAudio
  <2>2. ASSUME NEW r \in Slots, At(r, "clean", "mark")
        PROVE  blob[g] \in {"cleaned", NULL}
    <3>1. run[r].path \in Genres /\ Touched(run[r].path)
      BY <1>4, <2>2 DEF At, Cleans
    <3>2. blob[run[r].path] \in {"cleaned", NULL}
      BY <1>1, <2>2 DEF OneAudio
    <3>3. blob[g] # NULL => g = run[r].path
      BY <1>1, <3>1 DEF OneAudio, Touched
    <3> QED
      BY <3>2, <3>3
  <2> QED
    BY <1>6, <1>8, <2>1, <2>2, RowsStep DEF RowStep
<1> QED
  BY <1>3, <1>7, <1>8

-----------------------------------------------------------------------------
(* The invariant.                                                          *)

LEMMA RecordingInit ==
    ASSUME Init
    PROVE  RecordingInv
<1> USE DEF Init
<1>1. \A r \in Slots : run[r] = Idle
  OBVIOUS
<1>2. /\ row \in Rows /\ row.cleaning = "none" /\ row.splitting = "none"
  BY DEF Rows, UploadStatus, CleaningStatus, SplittingStatus
<1>3. \A g \in Genres : blob[g] = NULL /\ original[g] = NULL
  OBVIOUS
<1>4. TypeOK
  <2>1. run \in [Slots -> Runs]
    BY IdleIsTyped
  <2>2. blob \in [Genres -> Content] /\ original \in [Genres -> Content]
    BY DEF Content
  <2>3. used \in [Requests -> Nat]
    OBVIOUS
  <2>4. {lost, late} \subseteq BOOLEAN
    OBVIOUS
  <2> QED
    BY <1>2, <2>1, <2>2, <2>3, <2>4 DEF TypeOK, Runs, Steps, Rows
<1>5. RunsAreReal /\ ArchivedMeansSplit
  BY <1>1, <1>2, IdleIsTyped DEF RunsAreReal, ArchivedMeansSplit
<1>6. \A r \in Slots : ~Cleans(r) /\ ~At(r, "clean", "call") /\ ~At(r, "clean", "mark")
                       /\ ~At(r, "clean", "tell") /\ run[r].pc = "idle" /\ run[r].fn = "none"
  BY <1>1, IdleIsTyped DEF Cleans, At
<1>7. CopiesAreMade
  BY <1>3, <1>6 DEF CopiesAreMade, At
<1>8. CleanedHasUrl
  BY <1>2, <1>6 DEF CleanedHasUrl
<1>9. OneAudio
  BY <1>2, <1>3, <1>6 DEF OneAudio, Touched
<1>10. OneCleaning
  BY <1>3, <1>6 DEF OneCleaning
<1>11. OneSplit
  BY <1>2, <1>6 DEF OneSplit
<1> QED
  BY <1>4, <1>5, <1>7, <1>8, <1>9, <1>10, <1>11 DEF RecordingInv

\* The strengthening of StatusesAreTrue that every step of the program keeps.
LEMMA RecordingInvariant == Spec => []RecordingInv
<1>1. Init => RecordingInv
  BY RecordingInit
<1>2. RecordingInv /\ [Next]_vars => RecordingInv'
  <2> SUFFICES ASSUME RecordingInv, [Next]_vars PROVE RecordingInv'
    OBVIOUS
  <2> USE DEF RecordingInv
  <2>1. TypeOK' /\ RunsAreReal' /\ CopiesAreMade' /\ ArchivedMeansSplit' /\ CleanedHasUrl'
    BY TypeStep, RealStep, CopiesAreMadeStep, ArchivedStep, UrlStays
  <2>2. OneCleaning' /\ OneSplit'
    BY OneCleaningStep, OneSplitStep
  <2>3. OneAudio'
    BY PutStep, OneAudioStep
  <2> QED
    BY <2>1, <2>2, <2>3
<1> QED
  BY <1>1, <1>2, PTL DEF Spec

\* However cleaning, splitting and upload functions overlap, fail and retry, also between a
\* write and its record, and whatever the owner and a manager ask for meanwhile: uncleaned
\* audio is overwritten only when an uncleaned copy of it is there, unless the device put it
\* there meanwhile; the copy is overwritten only by a second cleaning or by a step run again
\* after its upload; a recording that says cleaned has no uncleaned audio under its URL
\* unless the device put it there late; an archived parent has its segments, and a parent
\* whose one split failed before it wrote has none (audio_cleaning.py:92,
\* audio_splitting.py:82).
THEOREM RecordingsSayWhatIsSo == Spec => []StatusesAreTrue
<1>1. ASSUME RecordingInv
      PROVE  StatusesAreTrue
  <2> USE <1>1 DEF RecordingInv
  <2>1. \A r \in Slots : At(r, "clean", "overwrite") => run[r].path \in Genres
    BY DEF RunsAreReal, At
  <2>2. used["clean"] \in Nat /\ used["split"] \in Nat
    BY DEF TypeOK, Requests
  <2>3. OriginalIsKept
    BY <2>1, <2>2 DEF OriginalIsKept, CopiesAreMade, OneCleaning
  <2>4. FailedMeansUnsplit
    BY <2>2 DEF FailedMeansUnsplit, OneSplit
  <2>5. ASSUME row # NULL, row.cleaning = "cleaned", ~late
        PROVE  blob[row.gcs_url] \in {"cleaned", NULL}
    <3>1. row.gcs_url \in Genres
      BY <2>5 DEF CleanedHasUrl, TypeOK
    <3> QED
      BY <2>5, <3>1 DEF OneAudio
  <2> QED
    BY <2>3, <2>4, <2>5 DEF StatusesAreTrue, CleanedIsCleaned
<1> QED
  BY <1>1, RecordingInvariant, PTL

=============================================================================
