------------------------------ MODULE MCStudio ------------------------------
(***************************************************************************)
(* The studio in parts that have one state to say it in: the three ways of *)
(* collecting, the exports of what was collected, the references of words, *)
(* results, members, and the plan of Tier B over lists of pairs of any     *)
(* number of takes.  A behaviour is of one part, picked at the start.      *)
(***************************************************************************)
EXTENDS Studio

CONSTANTS l1, w1, s1, t1, t2, t3

VARIABLE part

vars == <<studioVars, part>>

Sided(k, side, n) == [i \in 1 .. n |-> <<k, side, i>>]
MCFiles == (1 .. 3) \X {"a", "b"} \X (1 .. 5)
MCPair(k, n, m) == [a |-> Sided(k, "a", n), b |-> Sided(k, "b", m)]

\* Lists of three pairs with up to five takes of a side.
MCPairLists ==
    LET N == {0, 1, 2, 3, 5}
    IN  {<<MCPair(1, n[1], n[2]), MCPair(2, n[3], n[4]), MCPair(3, n[5], n[6])>> :
            n \in N \X N \X N \X N \X N \X N}

\* A language with two words, one speaker and two takes of a word.
Collected ==
    /\ word = [i \in Words |-> IF i = w1 THEN NewWord(l1, 1, NULL) ELSE NULL]
    /\ speaker = [i \in Speakers |-> IF i = s1 THEN [lang |-> l1, label |-> 1] ELSE NULL]
    /\ pair = [i \in Pairs |-> NULL]
    /\ take = [i \in Takes |-> CASE i = t1 -> [NewTake("a", w1, s1, 1, <<1, 1, 1>>) EXCEPT !.status = "stored"]
                                 [] i = t2 -> [NewTake("a", w1, s1, 2, <<1, 1, 2>>) EXCEPT !.status = "stored"]
                                 [] i = t3 -> [NewTake("c", l1, NULL, 1, <<1>>) EXCEPT !.status = "stored"]
                                 [] OTHER -> NULL]
    /\ sorts = {[clip |-> t3, dimension |-> "onset", round |-> "normal", group |-> ""]}
    /\ audio = [k \in AudioKeys |-> IF k \in {t1, t2, t3} THEN "good" ELSE "none"]
    /\ export = [i \in Exports |-> NULL] /\ result = [i \in Results |-> NULL]
    /\ ticket \in IF part = "exports" THEN {{}, {t1}} ELSE {{}}
    /\ born = {w1, s1, t1, t2, t3}
    /\ member = {} /\ bundle = [x \in Exports |-> NULL] /\ call = [c \in Callers |-> Idle]

\* Bound: the rows that a behaviour of collecting creates.
MaxRows == [a |-> 5, b |-> 3, c |-> 2]

Init ==
    /\ part \in {"a", "b", "c", "references", "exports", "results", "members", "plan"}
    /\ IF part \in {"references", "exports", "members"} THEN Collected ELSE StudioInit
    /\ IF part = "plan" THEN pairs \in PairLists ELSE pairs = <<>>

Next ==
    /\ UNCHANGED part
    /\ \/ part \in Tiers /\ Collect(part)
       \/ part \in {"references", "exports"} /\ (Upload \/ ExpireTicket)
       \/ part \in Tiers \cup {"exports"} /\ \E c \in Callers : TakeSteps(c)
       \/ part = "a" /\ \E c \in Callers : WordSteps(c)
       \/ part = "references" /\ \E c \in Callers : ReferenceSteps(c) \/ ObjectSteps(c)
       \/ part = "exports" /\ \E c \in Callers : ExportSteps(c)
       \/ part = "results" /\ (CreateResult \/ \E c \in Callers : PlotSteps(c))
       \/ part = "members" /\ (AddMember \/ RemoveMember \/ \E c \in Callers : DeleteWord(c))
    /\ part \in Tiers => Cardinality(born') <= MaxRows[part]

\* The server goes on with an export it builds.
Spec == /\ Init /\ [][Next]_vars
        /\ \A c \in Callers : WF_vars(part = "exports" /\ Building(c) /\ UNCHANGED part)

=============================================================================
