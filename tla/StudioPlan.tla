----------------------------- MODULE StudioPlan -----------------------------
(***************************************************************************)
(* The plan of an export: of the recordings of a language, those that the  *)
(* notebooks can use.  A pure function of the stored rows, and with it the *)
(* measure of readiness that the collectors are shown.  Files are members  *)
(* of any set; what is sorted by name is given in that order.              *)
(***************************************************************************)
EXTENDS Naturals, Sequences, FiniteSets, SequencesExt, FiniteSetsExt

CONSTANTS
    MinInstances, \* MIN_INSTANCES_PER_WORD
    SamePerSide,  \* SAME_PER_SIDE_PER_PAIR
    DiffPerPair,  \* DIFF_PER_PAIR
    RepsPerSide,  \* REPS_PER_SIDE
    Files,        \* names of files
    PairLists     \* the lists of Tier B pairs that one is drawn from

FilesOfPair(pair) == ToSet(pair.a) \cup ToSet(pair.b)

\* A file is named once, of one side of one pair.
IsPairList(ps) ==
    /\ \A p \in DOMAIN ps : /\ IsInjective(ps[p].a) /\ IsInjective(ps[p].b)
                            /\ ToSet(ps[p].a) \cap ToSet(ps[p].b) = {}
    /\ \A p, q \in DOMAIN ps : p # q => FilesOfPair(ps[p]) \cap FilesOfPair(ps[q]) = {}

ASSUME StudioPlanAssumption ==
    /\ MinInstances \in Nat
    /\ SamePerSide \in Nat \ {0} /\ DiffPerPair \in Nat \ {0} /\ RepsPerSide \in Nat \ {0, 1}
    /\ PairLists \subseteq Seq([a : Seq(Files), b : Seq(Files)])
    /\ \A ps \in PairLists : IsPairList(ps)

VARIABLE pairs \* the Tier B pairs whose plan is checked, each with its files a and b

-----------------------------------------------------------------------------
(* Tier A: recordings are records with the label of their word.            *)

Instances(recs, label) == {r \in recs : r.label = label}

PlanTierA_More(recs) == {r \in recs : Cardinality(Instances(recs, r.label)) > MinInstances}

\* _plan_tier_a: words with too few instances are dropped.
PlanTierA(recs) == {r \in recs : Cardinality(Instances(recs, r.label)) >= MinInstances}

-----------------------------------------------------------------------------
(* Tier B: pairs of files of one word, and as many of two.                 *)

Firsts(s, n) == SubSeq(s, 1, Min({n, Len(s)}))

\* itertools.combinations(s, 2)
Combinations2(s) == FlattenSeq([i \in 1 .. Len(s) |-> [j \in 1 .. Len(s) - i |-> <<s[i], s[i + j]>>]])
Cross(s, t) == FlattenSeq([i \in 1 .. Len(s) |-> [j \in 1 .. Len(t) |-> <<s[i], t[j]>>]])

SameRows(ps) ==
    FlattenSeq([p \in 1 .. Len(ps) |-> Firsts(Combinations2(ps[p].a), SamePerSide)
                                       \o Firsts(Combinations2(ps[p].b), SamePerSide)])
DiffRows(ps) == FlattenSeq([p \in 1 .. Len(ps) |-> Firsts(Cross(ps[p].a, ps[p].b), DiffPerPair)])

StrideSample_Near(items, n) ==
    IF n + 1 >= Len(items) THEN items ELSE [i \in 1 .. n |-> items[((i - 1) * Len(items)) \div n + 1]]

\* _stride_sample, with the index rounded down.
StrideSample(items, n) ==
    IF n >= Len(items) THEN items ELSE [i \in 1 .. n |-> items[((i - 1) * Len(items)) \div n + 1]]

\* _plan_tier_b; the rows alternate.
PlanTierB(ps) ==
    LET same == SameRows(ps)  diff == DiffRows(ps)  n == Min({Len(same), Len(diff)})
    IN  [same |-> StrideSample(same, n), diff |-> StrideSample(diff, n)]

\* The files that rows name.
FilesOf(rows) == {rows[i][1] : i \in DOMAIN rows} \cup {rows[i][2] : i \in DOMAIN rows}
FilesOfPlan(plan) == FilesOf(plan.same) \cup FilesOf(plan.diff)

PairReady_OfAny(pair) == Len(pair.a) + Len(pair.b) >= RepsPerSide

\* pairs_ready of compute_readiness
PairReady(pair) == Len(pair.a) >= RepsPerSide /\ Len(pair.b) >= RepsPerSide

-----------------------------------------------------------------------------
\* The notebook compares every same row with every different row, so there are as many of one
\* kind as of the other and none twice, for any number of takes of any number of pairs
\* (app/services/annotation_studio/export_plan.py:103).
RowsAreBalanced ==
    LET plan == PlanTierB(pairs)
    IN  /\ Len(plan.same) = Len(plan.diff)
        /\ IsInjective(plan.same) /\ IsInjective(plan.diff)

\* A pair that the collectors were shown as ready is in the export, whatever the other pairs
\* lack and wherever the sampling falls (readiness_service.py:63, export_plan.py:73).
ReadyPairsAreExported ==
    \A p \in 1 .. Len(pairs) :
        PairReady(pairs[p]) =>
            FilesOfPlan(PlanTierB(pairs)) \cap FilesOfPair(pairs[p]) # {}

=============================================================================
