------------------------------ MODULE GpuGroups ------------------------------
(***************************************************************************)
(* planner/gpu_groups.py: how GPUs are put into tensor-parallel groups.    *)
(*                                                                         *)
(* A machine or cluster hw has the GPUs hw.gpus, the node of each, and the *)
(* link score of each pair that was measured; hw.known says whether the    *)
(* topology could be queried at all.  A group is a set of GPUs (the code   *)
(* keeps it sorted), a layout a set of groups, which the plan sorts.       *)
(***************************************************************************)
EXTENDS Orders, Sequences, SequencesExt, FiniteSetsExt

CONSTANT ExhaustiveMax  \* EXHAUSTIVE_MAX_GPUS

Failed == <<>>  \* NoViablePlanError

\* Mutant of PairScore: a pair of different machines scores like any other.
PairScore_AnyNode(hw, a, b) == IF {a, b} \in DOMAIN hw.link THEN hw.link[{a, b}] ELSE 1

PairScore(hw, a, b) ==
    CASE hw.node[a] # hw.node[b] -> 0
      [] hw.node[a] = hw.node[b] /\ ~hw.known -> Max({1, 8 - Max({a - b, b - a})})
      [] OTHER -> IF {a, b} \in DOMAIN hw.link THEN hw.link[{a, b}] ELSE 1

GroupScore(hw, g) == SumFunction([p \in kSubset(2, g) |-> PairScore(hw, Min(p), Max(p))])

PartitionScore(hw, layout) == SumFunction([g \in layout |-> GroupScore(hw, g)])

\* The order of itertools.combinations on sets of the same size.
Before(a, b) == \E x \in a \ b: \A y \in a \cup b: y < x => (y \in a <=> y \in b)

\* The layout "found" for each group is compared as it comes, and only a better one
\* replaces the first: best_score starts at -1.
Preferred(hw, found) ==
    LET Score(g) == PartitionScore(hw, found[g])
    IN First(DOMAIN found, {p \in (DOMAIN found) \X (DOMAIN found):
                              \/ Score(p[1]) > Score(p[2])
                              \/ Score(p[1]) = Score(p[2]) /\ Before(p[1], p[2])})

\* The best layout of k groups, when the smallest remaining GPU is in one of them;
\* "best" has the layouts of what then remains.
Anchored(hw, tp, rest, k, best) ==
    LET found == [g \in {c \in kSubset(tp, rest): Min(rest) \in c} |->
                    {g} \cup best[rest \ g][k - 1]]
    IN found[Preferred(hw, found)]

\* Mutant of BestLayout: a GPU is never left over before the last group.
BestLayout_NoSkip(hw, tp, rest, k, best) ==
    IF k = 0 \/ Cardinality(rest) < tp * k THEN {} ELSE Anchored(hw, tp, rest, k, best)

\* recurse(): the smallest remaining GPU is in the next group or, when there are
\* more GPUs than are needed, in none.  It never runs out of GPUs.
BestLayout(hw, tp, rest, k, best) ==
    LET anchored == Anchored(hw, tp, rest, k, best)
        skipped == best[rest \ {Min(rest)}][k]
    IN IF k = 0 \/ Cardinality(rest) < tp * k THEN {}
       ELSE IF /\ Cardinality(rest) > tp * k
               /\ PartitionScore(hw, skipped) > PartitionScore(hw, anchored)
            THEN skipped ELSE anchored

\* _exhaustive
Search(hw, tp, n, ids) ==
    LET Recurse[rest \in SUBSET ids] == [k \in 0..n |-> BestLayout(hw, tp, rest, k, Recurse)]
    IN Recurse[ids][n]

\* max() over GPUs, ties going to the lowest.
Best(f) ==
    First(DOMAIN f, {p \in (DOMAIN f) \X (DOMAIN f):
                       f[p[1]] > f[p[2]] \/ (f[p[1]] = f[p[2]] /\ p[1] < p[2])})

LinksTo(hw, i, S) == SumFunction([j \in S |-> PairScore(hw, i, j)])

Seed(hw, rest) == {Best([i \in rest |-> LinksTo(hw, i, rest \ {i})])}
Grow(hw, rest, g) == g \cup {Best([c \in rest \ g |-> LinksTo(hw, c, g)])}

\* A group grows from the best-connected GPU left.
NextGroup(hw, tp, rest) ==
    LET Grown[j \in 0..tp - 1] == IF j = 0 THEN Seed(hw, rest) ELSE Grow(hw, rest, Grown[j - 1])
    IN Grown[tp - 1]

AddGroup(hw, tp, ids, gs) == gs \cup {NextGroup(hw, tp, ids \ UNION gs)}

\* _greedy
Greedy(hw, tp, n, ids) ==
    LET Chosen[j \in 0..n] == IF j = 0 THEN {} ELSE AddGroup(hw, tp, ids, Chosen[j - 1])
    IN Chosen[n]

\* plan(..., allow_cross_node=True), before it sorts
Formed(hw, tp, n, ids) ==
    IF Cardinality(ids) <= ExhaustiveMax THEN Search(hw, tp, n, ids) ELSE Greedy(hw, tp, n, ids)

ByGpu(S) == {p \in S \X S: Min(p[1]) < Min(p[2])}

NodeOf(hw, g) == hw.node[Min(g)]

ByNode(hw, S) ==
    {p \in S \X S: \/ NodeOf(hw, p[1]) < NodeOf(hw, p[2])
                   \/ NodeOf(hw, p[1]) = NodeOf(hw, p[2]) /\ Min(p[1]) < Min(p[2])}

\* As many groups as each node holds, of all nodes.
PerNode(hw, tp, ids) ==
    LET OnIt(m) == {i \in ids: hw.node[i] = m}
    IN UNION {Formed(hw, tp, Cardinality(OnIt(m)) \div tp, OnIt(m)): m \in {hw.node[i]: i \in ids}}

\* Node after node, then cut to size.
PlanPerNode(hw, tp, n, ids) ==
    LET all == PerNode(hw, tp, ids)
    IN IF Cardinality(all) < n THEN Failed ELSE SubSeq(InOrder(all, ByNode(hw, all)), 1, n)

Sorted(S) == InOrder(S, ByGpu(S))

\* plan(tp_size, replica_count, gpu_ids)
PlanGroups(hw, tp, n, ids) ==
    IF tp * n > Cardinality(ids) THEN Failed
    ELSE IF tp = 1 THEN SubSeq(Sorted({{i}: i \in ids}), 1, n)
    ELSE IF Cardinality({hw.node[i]: i \in ids}) > 1 THEN PlanPerNode(hw, tp, n, ids)
    ELSE Sorted(Formed(hw, tp, n, ids))

=============================================================================
