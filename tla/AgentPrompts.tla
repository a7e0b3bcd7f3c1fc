---------------------------- MODULE AgentPrompts ----------------------------
(***************************************************************************)
(* The prompts of the agents, those of the health interviews and those of  *)
(* the translation helper: seeded by every replica that starts, edited and *)
(* reset by administrators, and filled in when an agent is asked.          *)
(*                                                                         *)
(* A template is the placeholders it uses and the number of the edit that  *)
(* wrote it, 0 for the one the release brings.  Names and descriptions are *)
(* one of either kind, the release's or another.                           *)
(***************************************************************************)
EXTENDS Sql, Naturals, FiniteSets

CONSTANTS
    Edited,       \* prompts that administrators work on
    Editors,      \* their requests in flight at a time
    Replicas,     \* processes that start
    MaxEdits,     \* bound on edits and resets
    MaxStops      \* bound on the stops of replicas

VARIABLES
    prompt,      \* ph_agent_prompts and th_agent_prompts
    editor,      \* edits and resets in flight
    replica,     \* where each replica is in its start
    edits,       \* history: edits and resets begun, the number of the last one
    stops,       \* history: stops
    published,   \* history: the templates each version of a prompt has named
    raced        \* history: prompts two requests edited at a time

promptVars == <<prompt, editor, replica, edits, stops, published, raced>>

PROMPT_KEYS == {"facilitator_system", "coverage_planner", "evidence_mapper", "scoring",
                "interview_context", "team_report", "admin_report", "guardrail"}
AgentId == {"storyteller", "conversation", "oral", "health", "backtrans"}
Keys == PROMPT_KEYS \cup AgentId

ASSUME AgentPromptsAssumption == Edited \subseteq Keys /\ MaxEdits \in Nat /\ MaxStops \in Nat

\* The placeholders that the templates of the release use.
FacilitatorTemplate == {"language_instructions", "obt_assumptions", "domain_list",
                        "obt_domain_guidance", "required_opening_details", "coverage_hints"}
CoveragePlannerTemplate == {"obt_domain_guidance", "required_opening_details", "language"}
EvidenceMapperTemplate == {"obt_domain_guidance"}
ScoringTemplate == {"obt_domain_guidance"}
InterviewContextTemplate == {}
TeamReportTemplate == {"report_language_instructions"}
AdminReportTemplate == {}
GuardrailTemplate == {}

\* Those of _DEFAULTS, and of DEFAULT_PROMPTS, which are used as they are.
Default(k) ==
    CASE k = "facilitator_system" -> FacilitatorTemplate
      [] k = "coverage_planner" -> CoveragePlannerTemplate
      [] k = "evidence_mapper" -> EvidenceMapperTemplate
      [] k = "scoring" -> ScoringTemplate
      [] k = "interview_context" -> InterviewContextTemplate
      [] k = "team_report" -> TeamReportTemplate
      [] k = "admin_report" -> AdminReportTemplate
      [] k = "guardrail" -> GuardrailTemplate
      [] OTHER -> {}

\* What _DEFAULTS lists as the placeholders of a prompt.
Placeholders(k) ==
    CASE k = "facilitator_system" ->
            {"language_instructions", "obt_assumptions", "domain_list", "obt_domain_guidance",
             "required_opening_details", "coverage_hints"}
      [] k = "coverage_planner" -> {"obt_domain_guidance", "required_opening_details", "language"}
      [] k \in {"evidence_mapper", "scoring"} -> {"obt_domain_guidance"}
      [] k = "team_report" -> {"report_language_instructions"}
      [] OTHER -> {}

\* What the agents fill in.
Mapping(k) ==
    CASE k = "facilitator_system" ->
            {"language_instructions", "obt_assumptions", "obt_domain_guidance",
             "required_opening_details", "domain_list", "coverage_hints"}
      [] k = "coverage_planner" -> {"obt_domain_guidance", "required_opening_details", "language"}
      [] k = "evidence_mapper" -> {"obt_domain_guidance"}
      [] k = "scoring" -> {"obt_domain_guidance"}
      [] k = "team_report" -> {"report_language_instructions"}
      [] OTHER -> {}

Vocabulary == (UNION {Placeholders(k) : k \in Keys}) \cup {"unknown"}
Rows == [text : Nat, uses : SUBSET Vocabulary, named : {"release", "otherwise"}, version : Nat]
DefaultRow(k) == [text |-> 0, uses |-> Default(k), named |-> "release", version |-> 1]

EditorRows == [pc : {"idle", "editing", "resetting"}, n : Nat, key : Edited \cup {NULL}, seen : Rows \cup {NULL}]
ReplicaRows == [pc : {"down", "agents", "between", "health", "up"}, seen : SUBSET Keys]

\* SQL NULL is no row and no key.
ASSUME PromptRowAssumption == NULL \notin Rows \cup Keys

IdleEditor == [pc |-> "idle", n |-> 0, key |-> NULL, seen |-> NULL]
Down == [pc |-> "down", seen |-> {}]

AgentPromptsTypeOK ==
    /\ prompt \in [Keys -> Rows \cup {NULL}]
    /\ editor \in [Editors -> EditorRows]
    /\ replica \in [Replicas -> ReplicaRows]
    /\ \A k \in Keys : prompt[k] # NULL => prompt[k].text <= edits
    /\ \A e \in Editors : editor[e].n <= edits
    /\ edits \in 0 .. MaxEdits /\ stops \in 0 .. MaxStops
    /\ published \subseteq Keys \X Nat \X Nat
    /\ raced \subseteq Edited

AgentPromptsInit ==
    /\ prompt = [k \in Keys |-> NULL]
    /\ editor = [e \in Editors |-> IdleEditor]
    /\ replica = [r \in Replicas |-> Down]
    /\ edits = 0 /\ stops = 0
    /\ published = {} /\ raced = {}

-----------------------------------------------------------------------------
(* A replica starts.                                                       *)

At(r, pc) == replica[r].pc = pc
Goes(r, pc, seen) == replica' = [replica EXCEPT ![r] = [pc |-> pc, seen |-> seen]]
Seeded(keys) == {k \in keys : prompt[k] # NULL}
Insert(keys) ==
    /\ prompt' = [k \in Keys |-> IF k \in keys THEN DefaultRow(k) ELSE prompt[k]]
    /\ published' = published \cup {<<k, 1, 0>> : k \in keys}

\* seed_agent_prompts up to its inserts.
Boot(r) ==
    /\ At(r, "down")
    /\ Goes(r, "agents", Seeded(AgentId))
    /\ UNCHANGED <<prompt, editor, edits, stops, published, raced>>

\* seed_agent_prompts: a row another replica was first to insert is passed over.
SeedAgents(r) ==
    /\ At(r, "agents")
    /\ Insert(AgentId \ (replica[r].seen \cup Seeded(AgentId)))
    /\ Goes(r, "between", {})
    /\ UNCHANGED <<editor, edits, stops, raced>>

\* seed_default_prompts up to its inserts.
ReadHealth(r) ==
    /\ At(r, "between")
    /\ Goes(r, "health", Seeded(PROMPT_KEYS))
    /\ UNCHANGED <<prompt, editor, edits, stops, published, raced>>

Missing_All(r) == PROMPT_KEYS

\* The rows seed_default_prompts inserts.
Missing(r) == PROMPT_KEYS \ replica[r].seen

\* seed_default_prompts: one commit, which fails, and the start with it, when another replica
\* was first.
SeedHealth(r) ==
    /\ At(r, "health")
    /\ IF Seeded(Missing(r)) # {}
       THEN Goes(r, "down", {}) /\ UNCHANGED <<prompt, published>>
       ELSE Goes(r, "up", {}) /\ Insert(Missing(r))
    /\ UNCHANGED <<editor, edits, stops, raced>>

\* The replica stops; what it has not committed is gone.
Stops(r) ==
    /\ ~At(r, "down")
    /\ stops < MaxStops
    /\ stops' = stops + 1
    /\ Goes(r, "down", {})
    /\ UNCHANGED <<prompt, editor, edits, published, raced>>

-----------------------------------------------------------------------------
(* An administrator edits or resets a prompt.                              *)

Take(e, pc) ==
    /\ editor[e] = IdleEditor
    /\ edits < MaxEdits
    /\ edits' = edits + 1
    /\ \E k \in Edited :
          /\ prompt[k] # NULL
          /\ editor' = [editor EXCEPT ![e] = [pc |-> pc, n |-> edits + 1, key |-> k, seen |-> prompt[k]]]
          /\ raced' = IF \E q \in Editors : editor[q].key = k THEN raced \cup {k} ELSE raced
    /\ UNCHANGED <<prompt, replica, stops, published>>

BeginUpdate(e) == Take(e, "editing")
BeginReset(e) == Take(e, "resetting")

Valid_OnlyMissing(k, uses) == Placeholders(k) \subseteq uses

\* _validate_template, of the health prompts alone: none missing, none unknown.
Valid(k, uses) == k \in AgentId \/ uses = Placeholders(k)

\* What an administrator may write: the right placeholders, one short, one too many.
Submitted(k) == {Placeholders(k), Placeholders(k) \cup {"unknown"}}
              \cup {Placeholders(k) \ {p} : p \in Placeholders(k)}

\* The version that a changed template gets is one more than that of the row as read; columns
\* left unchanged are not written.
Publish(e, text, uses, named) ==
    LET k == editor[e].key  version == editor[e].seen.version + 1
    IN  /\ prompt' = [prompt EXCEPT ![k] = [text |-> text, uses |-> uses, named |-> named,
                                            version |-> version]]
        /\ published' = published \cup {<<k, version, text>>}

Rest(e) == editor' = [editor EXCEPT ![e] = IdleEditor]

\* update_prompt and update_agent_prompt, of a template or of the name alone.
CommitUpdate(e) ==
    LET k == editor[e].key
    IN  /\ editor[e].pc = "editing"
        /\ \/ \E uses \in Submitted(k) :
                 IF Valid(k, uses)
                 THEN \E named \in {prompt[k].named, "otherwise"} : Publish(e, editor[e].n, uses, named)
                 ELSE UNCHANGED <<prompt, published>>
           \/ prompt' = [prompt EXCEPT ![k].named = "otherwise"] /\ UNCHANGED published
        /\ Rest(e)
        /\ UNCHANGED <<replica, edits, stops, raced>>

Bumps_Never(e) == FALSE

\* Whether a reset makes a new version: of a health prompt when the template differs, of an
\* agent's when anything does.
Bumps(e) ==
    LET row == editor[e].seen
    IN  row.text # 0 \/ (editor[e].key \in AgentId /\ row.named # "release")

\* reset_prompt and reset_agent_prompt_to_default.
CommitReset(e) ==
    LET k == editor[e].key
        text == IF editor[e].seen.text # 0 THEN 0 ELSE prompt[k].text
        uses == IF editor[e].seen.text # 0 THEN Default(k) ELSE prompt[k].uses
        named == IF editor[e].seen.named # "release" THEN "release" ELSE prompt[k].named
    IN  /\ editor[e].pc = "resetting"
        /\ IF Bumps(e)
           THEN Publish(e, text, uses, named)
           ELSE /\ prompt' = [prompt EXCEPT ![k].text = text, ![k].uses = uses, ![k].named = named]
                /\ published' = published \cup {<<k, prompt[k].version, text>>}
        /\ Rest(e)
        /\ UNCHANGED <<replica, edits, stops, raced>>

\* What an agent is asked with: the row's template, the release's before there is one.
InForce(k) == IF prompt[k] # NULL THEN prompt[k].uses ELSE Default(k)

Starts(r) == Boot(r) \/ SeedAgents(r) \/ ReadHealth(r) \/ SeedHealth(r)

AgentPromptsNext ==
    \/ \E r \in Replicas : Starts(r) \/ Stops(r)
    \/ \E e \in Editors : BeginUpdate(e) \/ BeginReset(e) \/ CommitUpdate(e) \/ CommitReset(e)

AgentPromptsSpec == AgentPromptsInit /\ [][AgentPromptsNext]_promptVars

-----------------------------------------------------------------------------
(* Properties.                                                             *)

\* Whatever template is in force, an agent of the interviews is asked with every placeholder
\* filled in and nothing dropped of what it is given (agents/prompts.py:127).
RenderedWhole == \A k \in PROMPT_KEYS : InForce(k) = Mapping(k)

\* A version of a prompt names one template, unless two administrators worked on the prompt
\* at a time (update_prompt.py:72).
VersionNamesATemplate ==
    \A x \in published, y \in published :
        x[1] = y[1] /\ x[2] = y[2] /\ x[1] \notin raced => x[3] = y[3]

\* However many replicas start at a time and fail at the seeds of one another, in the end all
\* are up (seed_prompts.py:14).
EveryReplicaComesUp == <>[](\A r \in Replicas : At(r, "up"))

\* Templates render whole whatever edits are in force, and a version names one template, unless
\* two administrators worked on the prompt at a time (agents/prompts.py:127, update_prompt.py:72).
PromptsAreWhole == AgentPromptsTypeOK /\ RenderedWhole /\ VersionNamesATemplate

=============================================================================
