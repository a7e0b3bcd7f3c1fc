------------------------- MODULE MCSnTranscription -------------------------
(***************************************************************************)
(* Two answers and one client; or one answer and two clients, of whom the  *)
(* first may have had the answer transcribed before, and a worker that     *)
(* does not stop.  A behaviour is of one part, picked at the start.        *)
(***************************************************************************)
EXTENDS SnTranscription

CONSTANTS a1, c1

VARIABLE part

\* The first take of a1 was recorded, queued and transcribed.
Transcribed ==
    /\ object = [a \in Answers |-> IF a = a1 THEN 1 ELSE NULL]
    /\ answer = {a1}
    /\ draft = [a \in Answers |->
                  IF a = a1 THEN [status |-> "ready", generation |-> 0, text |-> 1, row |-> 1] ELSE NULL]
    /\ rec = IdleRec /\ trigger = [c \in Clients |-> IdleTrigger] /\ events = 0 /\ run = IdleRun
    /\ takes = 1 /\ starts = 0 /\ rows = 1 /\ floor = [a \in Answers |-> 0]
    /\ lost = FALSE /\ aliased = FALSE /\ overlapped = FALSE

MCInit ==
    \/ part = "answers" /\ TranscriptionInit
    \/ part = "clients" /\ (TranscriptionInit \/ Transcribed)

MCNext ==
    /\ UNCHANGED part
    /\ \/ /\ part = "answers"
          /\ Recorder \/ Trigger(c1) \/ RunProgress \/ RunCrashes
       \/ /\ part = "clients"
          /\ Recorder \/ (\E c \in Clients : Trigger(c)) \/ RunProgress
          /\ rec'.answer \in {a1, NULL}
          /\ \A c \in Clients : trigger'[c].scope \subseteq {a1}

MCSpec == MCInit /\ [][MCNext]_<<transcriptionVars, part>> /\ Fairness

=============================================================================
