--------------------------- MODULE MCConversations ---------------------------
(***************************************************************************)
(* Accounts, and the conversations people have with models: health         *)
(* interviews, the chats of the translation helper, the prompts of both,   *)
(* and their speech.  None of them reads what another writes, so a         *)
(* behaviour is one of one of them, picked at the start.                   *)
(***************************************************************************)
EXTENDS Accounts, Interviews, Chats, AgentPrompts, Speech

VARIABLE part

conversationVars == <<interviewVars, chatVars, promptVars, speechVars>>
vars == <<accountVars, conversationVars, part>>

MCLines == UNION {[1 .. n -> {"a", "b", ".", " "}] : n \in 1 .. 6}

Init ==
    /\ part \in {"accounts", "interviews", "chats", "prompts", "speech"}
    /\ AccountsInit /\ InterviewsInit /\ ChatsInit /\ AgentPromptsInit /\ SpeechInit
    /\ part # "speech" => line = <<"a">>

Next ==
    /\ UNCHANGED part
    /\ \/ /\ part = "accounts" /\ AccountsNext
          /\ UNCHANGED conversationVars
       \/ /\ part = "interviews" /\ InterviewsNext
          /\ UNCHANGED <<accountVars, chatVars, promptVars, speechVars>>
       \/ /\ part = "chats" /\ ChatsNext
          /\ UNCHANGED <<accountVars, interviewVars, promptVars, speechVars>>
       \/ /\ part = "prompts" /\ AgentPromptsNext
          /\ UNCHANGED <<accountVars, interviewVars, chatVars, speechVars>>
       \* the cache does not look at the line
       \/ /\ part = "speech" /\ line = <<"a">> /\ SpeechNext
          /\ UNCHANGED <<accountVars, interviewVars, chatVars, promptVars>>

\* The platform starts a replica that is down, and a start goes on; every entry of the cache of
\* accounts reaches its age, and a request that has read an account fills it.
Spec == /\ Init /\ [][Next]_vars
        /\ \A r \in Replicas : WF_vars(/\ part = "prompts" /\ Starts(r)
                                       /\ UNCHANGED <<part, accountVars, interviewVars, chatVars, speechVars>>)
        /\ \A u \in Users : WF_vars(part = "accounts" /\ Lapses(u) /\ UNCHANGED <<part, conversationVars>>)
        /\ \A r \in Requests : WF_vars(part = "accounts" /\ Fill(r) /\ UNCHANGED <<part, conversationVars>>)

\* However many replicas start at a time and fail at the seeds of one another, in the end all
\* are up (project_health/prompts/seed_prompts.py:14).
ReplicasComeUp == part = "prompts" => EveryReplicaComesUp

=============================================================================
