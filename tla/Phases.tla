------------------------------- MODULE Phases -------------------------------
(***************************************************************************)
(* The phases of projects: which depend on which, which project has which, *)
(* and how far it is with it.                                              *)
(*                                                                         *)
(* What a request checks before it writes is backed by a unique constraint *)
(* or a foreign key, so it is one step.  A list is read in two statements, *)
(* the phases and then their dependencies, and each sees what is committed *)
(* when it begins.                                                         *)
(***************************************************************************)
EXTENDS Sql

CONSTANTS
    Phase,         \* ids of phases rows
    PhaseProjects, \* projects, which are never deleted
    Statuses,      \* of project_phases, "not_started" among them
    PhaseLists     \* lists read at a time

VARIABLES
    phase,        \* phases
    dependency,   \* phase_dependencies: <<phase_id, depends_on_id>>
    attached,     \* project_phases: the status, per project and phase
    list,         \* lists being read or just read
    crossed       \* history: lists a dependency was added during

phaseVars == <<phase, dependency, attached, list, crossed>>

\* SQL NULL is no id and no status.
ASSUME PhasesAssumption ==
    /\ NULL \notin Phase \cup PhaseProjects \cup Statuses
    /\ "not_started" \in Statuses

ListRows == [pc : {"idle", "listed", "read"}, of : PhaseProjects \cup {NULL},
             phases : SUBSET Phase, deps : SUBSET (Phase \X Phase)]
NoList == [pc |-> "idle", of |-> NULL, phases |-> {}, deps |-> {}]

PhasesTypeOK ==
    /\ phase \subseteq Phase
    /\ dependency \subseteq phase \X phase
    /\ attached \in [PhaseProjects \X Phase -> Statuses \cup {NULL}]
    /\ \A p \in PhaseProjects, h \in Phase : attached[<<p, h>>] # NULL => h \in phase
    /\ list \in [PhaseLists -> ListRows]
    /\ crossed \subseteq PhaseLists

PhasesInit ==
    /\ phase = {}
    /\ dependency = {}
    /\ attached = [x \in PhaseProjects \X Phase |-> NULL]
    /\ list = [l \in PhaseLists |-> NoList]
    /\ crossed = {}

-----------------------------------------------------------------------------
CreatePhase ==
    /\ \E h \in Phase \ phase : phase' = phase \cup {h}
    /\ UNCHANGED <<dependency, attached, list, crossed>>

\* Mutant: the projects' links with the phase stay.
DeletePhase_LinksStay ==
    /\ \E h \in phase :
          /\ phase' = phase \ {h}
          /\ dependency' = {d \in dependency : h \notin {d[1], d[2]}}
    /\ UNCHANGED <<attached, list, crossed>>

\* Foreign keys take the dependencies, both ways, and the projects' links with the phase.
DeletePhase ==
    /\ \E h \in phase :
          /\ phase' = phase \ {h}
          /\ dependency' = {d \in dependency : h \notin {d[1], d[2]}}
          /\ attached' = [x \in PhaseProjects \X Phase |-> IF x[2] = h THEN NULL ELSE attached[x]]
    /\ UNCHANGED <<list, crossed>>

\* Only a dependency of a phase on itself is refused; a circle of two is not.
AddDependency ==
    /\ \E h, g \in phase :
          /\ h # g
          /\ <<h, g>> \notin dependency
          /\ dependency' = dependency \cup {<<h, g>>}
    /\ crossed' = crossed \cup {l \in PhaseLists : list[l].pc = "listed"}
    /\ UNCHANGED <<phase, attached, list>>

RemoveDependency ==
    /\ \E d \in dependency : dependency' = dependency \ {d}
    /\ UNCHANGED <<phase, attached, list, crossed>>

Attach ==
    /\ \E p \in PhaseProjects, h \in phase :
          /\ attached[<<p, h>>] = NULL
          /\ attached' = [attached EXCEPT ![<<p, h>>] = "not_started"]
    /\ UNCHANGED <<phase, dependency, list, crossed>>

Detach ==
    /\ \E p \in PhaseProjects, h \in phase :
          /\ attached[<<p, h>>] # NULL
          /\ attached' = [attached EXCEPT ![<<p, h>>] = NULL]
    /\ UNCHANGED <<phase, dependency, list, crossed>>

\* Any status follows any other, whatever the phases depended on have reached.
UpdateStatus ==
    /\ \E p \in PhaseProjects, h \in Phase, status \in Statuses :
          /\ attached[<<p, h>>] # NULL
          /\ attached' = [attached EXCEPT ![<<p, h>>] = status]
    /\ UNCHANGED <<phase, dependency, list, crossed>>

-----------------------------------------------------------------------------
(* Reading. *)

PhasesOf(p) == {h \in phase : attached[<<p, h>>] # NULL}

\* Mutant: a join with the dependencies loses the phases without any.
BeginList_Joined(l) ==
    /\ list[l].pc # "listed"
    /\ \E p \in PhaseProjects \cup {NULL} :
          list' = [list EXCEPT ![l] = [pc |-> "listed", of |-> p, deps |-> {},
                                       phases |-> IF p = NULL THEN {d[1] : d \in dependency} ELSE PhasesOf(p)]]
    /\ crossed' = crossed \ {l}
    /\ UNCHANGED <<phase, dependency, attached>>

\* Of all phases, or of those of a project.
BeginList(l) ==
    /\ list[l].pc # "listed"
    /\ \E p \in PhaseProjects \cup {NULL} :
          list' = [list EXCEPT ![l] = [pc |-> "listed", of |-> p, deps |-> {},
                                       phases |-> IF p = NULL THEN phase ELSE PhasesOf(p)]]
    /\ crossed' = crossed \ {l}
    /\ UNCHANGED <<phase, dependency, attached>>

\* Dependencies of phases that were not listed are passed over, those on such phases are not.
FinishList(l) ==
    /\ list[l].pc = "listed"
    /\ list' = [list EXCEPT ![l].pc = "read",
                            ![l].deps = {d \in dependency : d[1] \in list[l].phases}]
    /\ UNCHANGED <<phase, dependency, attached, crossed>>

PhaseSteps == \/ CreatePhase \/ DeletePhase \/ AddDependency \/ RemoveDependency
              \/ Attach \/ Detach \/ UpdateStatus
              \/ \E l \in PhaseLists : BeginList(l) \/ FinishList(l)

PhasesSpec == PhasesInit /\ [][PhaseSteps]_phaseVars

-----------------------------------------------------------------------------
(* Properties. *)

\* Every phase that a list of all phases says another depends on is in the list, unless a
\* dependency was added between its two statements: deleting a phase meanwhile leaves none over
\* (list_all_phases_with_deps.py:10).
ListedWhole ==
    \A l \in PhaseLists : list[l].pc = "read" /\ list[l].of = NULL /\ l \notin crossed =>
        \A d \in list[l].deps : {d[1], d[2]} \subseteq list[l].phases

\* Rows point at rows, and what a list says a phase depends on is in the list
\* (list_all_phases_with_deps.py:10).
PhasesAreListedWhole == PhasesTypeOK /\ ListedWhole

=============================================================================
