----------------------------- MODULE Interviews -----------------------------
(***************************************************************************)
(* Interviews about a project's health: a team answers a facilitator turn  *)
(* by turn, and the interview is completed once with a report.             *)
(*                                                                         *)
(* A post holds the interview's row from its read to its commit while the  *)
(* models are asked; a completion reads the row without a lock, has the    *)
(* reports written from what it read, and inserts the report and the new   *)
(* status in one commit.  Times, languages and the wording of turns are    *)
(* left out: a turn is the number of the request that posted it, with the  *)
(* facilitator's answer to it.                                             *)
(***************************************************************************)
EXTENDS Sql, Naturals, FiniteSets, Sequences, SequencesExt

CONSTANTS
    Interviews,   \* ids of ph_interviews rows
    Domains,      \* DOMAIN_KEYS
    Callers,      \* requests in flight at a time
    MinTeamTurns, \* MIN_TEAM_TURNS
    MaxTeamTurns, \* MAX_TEAM_TURNS_HARD
    MaxCalls      \* bound on the posts and completions begun

ASSUME InterviewsAssumption ==
    /\ MinTeamTurns \in Nat /\ MaxTeamTurns \in Nat /\ MaxCalls \in Nat
    /\ NULL \notin Interviews

VARIABLES
    interview,   \* ph_interviews
    report,      \* ph_reports, one for an interview
    call,        \* requests in flight
    calls,       \* history: requests begun, the number of the last one
    acked,       \* history: turns whose post was answered
    overtaken,   \* history: turns posted while a report on their interview was being written
    told         \* history: reports that the callers of complete_interview were given

interviewVars == <<interview, report, call, calls, acked, overtaken, told>>

Coverages == [opening : BOOLEAN, domains : SUBSET Domains]
NoCoverage == [opening |-> FALSE, domains |-> {}]

InterviewRows == [status : {"in_progress", "completed"}, turns : Seq(Nat), coverage : Coverages,
                  evidence : SUBSET Nat]
ReportRows == [id : Nat, of : SUBSET Nat, coverage : Coverages, partial : BOOLEAN]
CallRows == [pc : {"idle", "orchestrating", "reporting"}, n : Nat, interview : Interviews \cup {NULL},
             seen : InterviewRows \cup {NULL}, force : BOOLEAN]

\* SQL NULL is no row.
ASSUME InterviewRowAssumption == NULL \notin InterviewRows \cup ReportRows

IdleCall == [pc |-> "idle", n |-> 0, interview |-> NULL, seen |-> NULL, force |-> FALSE]

\* Turns and evidence are of requests there were.
IsInterview(row) ==
    /\ ToSet(row.turns) \subseteq 1 .. calls
    /\ row.evidence \subseteq ToSet(row.turns)

InterviewsTypeOK ==
    /\ interview \in [Interviews -> InterviewRows \cup {NULL}]
    /\ report \in [Interviews -> ReportRows \cup {NULL}]
    /\ call \in [Callers -> CallRows]
    /\ \A i \in Interviews :
          /\ interview[i] # NULL => IsInterview(interview[i])
          /\ report[i] # NULL =>
                /\ interview[i] # NULL \* the foreign key
                /\ report[i].id \in 1 .. calls
                /\ report[i].of \subseteq ToSet(interview[i].turns)
    /\ \A c \in Callers :
          /\ call[c].n \in 0 .. calls
          /\ call[c].seen # NULL => IsInterview(call[c].seen)
    /\ calls \in 0 .. MaxCalls
    /\ acked \cup overtaken \cup told \subseteq (1 .. calls) \X Interviews

InterviewsInit ==
    /\ interview = [i \in Interviews |-> NULL]
    /\ report = [i \in Interviews |-> NULL]
    /\ call = [c \in Callers |-> IdleCall]
    /\ calls = 0
    /\ acked = {} /\ overtaken = {} /\ told = {}

-----------------------------------------------------------------------------
Begin(c, pc, i, force) ==
    /\ call[c] = IdleCall
    /\ calls < MaxCalls
    /\ calls' = calls + 1
    /\ call' = [call EXCEPT ![c] = [pc |-> pc, n |-> calls + 1, interview |-> i,
                                   seen |-> interview[i], force |-> force]]

Finish(c) == call' = [call EXCEPT ![c] = IdleCall]
Engaged(i, pc) == {c \in Callers : call[c].interview = i /\ call[c].pc = pc}

\* create_interview; no interview is given an id another has had.
CreateInterview(i) ==
    /\ interview[i] = NULL
    /\ \A x \in acked \cup told : x[2] # i
    /\ interview' = [interview EXCEPT ![i] = [status |-> "in_progress", turns |-> <<>>,
                                             coverage |-> NoCoverage, evidence |-> {}]]
    /\ UNCHANGED <<report, call, calls, acked, overtaken, told>>

Active_AnyStatus(row) == Len(row.turns) < MaxTeamTurns

\* What post_message accepts a turn on, given the interview it has read.
Active(row) == row.status = "in_progress" /\ Len(row.turns) < MaxTeamTurns

BeginPost_NoLock(c) ==
    /\ \E i \in Interviews : interview[i] # NULL /\ Active(interview[i]) /\ Begin(c, "orchestrating", i, FALSE)
    /\ UNCHANGED <<interview, report, acked, overtaken, told>>

\* post_message up to the models: the row is read FOR UPDATE, and the next post waits for it.
BeginPost(c) ==
    /\ \E i \in Interviews :
          /\ interview[i] # NULL
          /\ Engaged(i, "orchestrating") = {}
          /\ Active(interview[i])
          /\ Begin(c, "orchestrating", i, FALSE)
    /\ UNCHANGED <<interview, report, acked, overtaken, told>>

\* orchestrate_turn: the coverage is what the planner says now, whatever it was before, and
\* evidence is added of the last turn.
Orchestrated(seen, n) ==
    {[coverage |-> v, evidence |-> seen.evidence \cup e] : v \in Coverages, e \in {{}, {n}}}

\* post_message from the models on.  Only the columns it assigns are written.
CommitPost(c) ==
    LET i == call[c].interview  n == call[c].n
    IN  /\ call[c].pc = "orchestrating"
        /\ \E o \in Orchestrated(call[c].seen, n) :
              interview' = [interview EXCEPT ![i].turns = Append(call[c].seen.turns, n),
                                             ![i].coverage = o.coverage,
                                             ![i].evidence = o.evidence]
        /\ acked' = acked \cup {<<n, i>>}
        /\ overtaken' = IF Engaged(i, "reporting") = {} THEN overtaken ELSE overtaken \cup {<<n, i>>}
        /\ Finish(c)
        /\ UNCHANGED <<report, calls, told>>

-----------------------------------------------------------------------------
(* The report.                                                             *)

MissingDomains(coverage) == Domains \ coverage.domains

\* can_complete_interview and can_force_complete_interview
CanComplete(row, force) ==
    /\ Len(row.turns) >= MinTeamTurns
    /\ row.coverage.opening
    /\ force \/ MissingDomains(row.coverage) = {}

\* complete_interview of an interview that has a report.
CompleteAgain(i) ==
    /\ report[i] # NULL
    /\ told' = told \cup {<<report[i].id, i>>}
    /\ UNCHANGED <<interview, report, call, calls, acked, overtaken>>

\* complete_interview up to the models, by the team or forced by an administrator.
BeginComplete(c, force) ==
    /\ \E i \in Interviews :
          /\ interview[i] # NULL
          /\ interview[i].status = "in_progress"
          /\ report[i] = NULL
          /\ CanComplete(interview[i], force)
          /\ Begin(c, "reporting", i, force)
    /\ UNCHANGED <<interview, report, acked, overtaken, told>>

\* generate_reports, from what was read.
Written(c) ==
    LET seen == call[c].seen
    IN  [id |-> call[c].n, of |-> ToSet(seen.turns), coverage |-> seen.coverage,
         partial |-> call[c].force /\ MissingDomains(seen.coverage) # {}]

File(c) ==
    LET i == call[c].interview
    IN  /\ report' = [report EXCEPT ![i] = Written(c)]
        /\ interview' = [interview EXCEPT ![i].status = "completed"]
        /\ told' = told \cup {<<call[c].n, i>>}

CommitComplete_NotUnique(c) ==
    LET i == call[c].interview
    IN  /\ call[c].pc = "reporting"
        /\ Engaged(i, "orchestrating") = {}
        /\ IF interview[i] = NULL THEN UNCHANGED <<interview, report, told>> ELSE File(c)
        /\ Finish(c)
        /\ UNCHANGED <<calls, acked, overtaken>>

\* The report is unique to its interview: the second of two completions fails, as does that
\* of an interview deleted meanwhile.  The UPDATE waits for a post that holds the row.
CommitComplete(c) ==
    LET i == call[c].interview
    IN  /\ call[c].pc = "reporting"
        /\ Engaged(i, "orchestrating") = {}
        /\ IF interview[i] = NULL \/ report[i] # NULL
           THEN UNCHANGED <<interview, report, told>>
           ELSE File(c)
        /\ Finish(c)
        /\ UNCHANGED <<calls, acked, overtaken>>

\* A model fails or the process stops: what is not committed is rolled back.
Fails(c) ==
    /\ call[c].pc # "idle"
    /\ Finish(c)
    /\ UNCHANGED <<interview, report, calls, acked, overtaken, told>>

DeleteInterview_ReportStays(i) ==
    /\ interview[i] # NULL
    /\ Engaged(i, "orchestrating") = {}
    /\ interview' = [interview EXCEPT ![i] = NULL]
    /\ UNCHANGED <<report, call, calls, acked, overtaken, told>>

\* delete_interview by a platform administrator, the report with it; it waits for a post.
DeleteInterview(i) ==
    /\ interview[i] # NULL
    /\ Engaged(i, "orchestrating") = {}
    /\ interview' = [interview EXCEPT ![i] = NULL]
    /\ report' = [report EXCEPT ![i] = NULL]
    /\ UNCHANGED <<call, calls, acked, overtaken, told>>

\* What a team may do, by the token of its interview.
TeamSteps(c) ==
    BeginPost(c) \/ CommitPost(c) \/ BeginComplete(c, FALSE) \/ CommitComplete(c) \/ Fails(c)

\* What administrators may do besides: complete an interview that has stalled, and delete.
AdminSteps ==
    \/ \E c \in Callers : BeginComplete(c, TRUE)
    \/ \E i \in Interviews : DeleteInterview(i)

InterviewsNext ==
    \/ \E i \in Interviews : CreateInterview(i) \/ CompleteAgain(i)
    \/ \E c \in Callers : TeamSteps(c)
    \/ AdminSteps

InterviewsSpec == InterviewsInit /\ [][InterviewsNext]_interviewVars

-----------------------------------------------------------------------------
(* Properties.                                                             *)

\* A turn that was answered stays in its interview: concurrent posts do not write over each
\* other's turns (post_message.py:52).
AnsweredTurnsStay ==
    \A x \in acked : interview[x[2]] = NULL \/ x[1] \in ToSet(interview[x[2]].turns)

\* A completed interview has a report that was earned, that says when it is partial, and that
\* is on every turn except those posted while it was being written (complete_interview.py:92).
ReportIsOfTheInterview ==
    \A i \in Interviews : interview[i] # NULL =>
        /\ interview[i].status = "completed" <=> report[i] # NULL
        /\ report[i] # NULL =>
              /\ Cardinality(report[i].of) >= MinTeamTurns
              /\ report[i].partial <=> MissingDomains(report[i].coverage) # {}
              /\ \A n \in ToSet(interview[i].turns) \ report[i].of : <<n, i>> \in overtaken

\* Whoever completes an interview is given the one report it has (complete_interview.py:124).
OneReport == \A x \in told, y \in told : x[2] = y[2] => x[1] = y[1]

\* What was answered is kept, and a completed interview has one report, of all of it but for what
\* was posted while it was written (post_message.py:52, complete_interview.py:92).
InterviewsAreReported == InterviewsTypeOK /\ AnsweredTurnsStay /\ ReportIsOfTheInterview /\ OneReport

=============================================================================
