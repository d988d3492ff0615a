----------------------------- MODULE Candidates -----------------------------
(***************************************************************************)
(* planner/candidates.py: from the hardware, a model, a workload, the      *)
(* engines and the user's constraints to the candidate plans.              *)
(*                                                                         *)
(* A query q has them as q.hw, q.model, q.work, q.engines and q.cons.  The *)
(* list of excluded candidates only explains, and is left out; the plans   *)
(* are a set, because two of them never have the same structural key.      *)
(***************************************************************************)
EXTENDS GpuGroups, Memory, EngineArgs

Divisors(n) == {d \in 1..n: n % d = 0}

Ids(q) == IF q.cons.gpus = None THEN q.hw.gpus ELSE q.cons.gpus
Nodes(q) == {q.hw.node[i]: i \in Ids(q)}
OnNode(q, n) == {i \in Ids(q): q.hw.node[i] = n}
GpusPerNode(q) == Min({Cardinality(OnNode(q, n)): n \in Nodes(q)})
IsCluster(q) == Cardinality(Nodes(q)) > 1

\* select_gpus: the GPUs must exist and be of one kind.
SelectError(q) ==
    CASE q.hw.gpus = {} -> "HardwareError"
      [] q.hw.gpus # {} /\ ~(Ids(q) \subseteq q.hw.gpus) -> "ConfigurationError"
      [] q.hw.gpus # {} /\ Ids(q) \subseteq q.hw.gpus
         /\ \E i, j \in Ids(q): q.hw.total[i] # q.hw.total[j] -> "HardwareError"
      [] OTHER -> None

Requested(q) == IF q.cons.context # None THEN q.cons.context ELSE q.work.context

\* resolve_context_length: what the workload asks for is cut to the model's
\* limit, what the user asks for is not.
Context(q) ==
    IF q.model.limit # None /\ q.cons.context = None THEN Min({Requested(q), q.model.limit})
    ELSE Requested(q)

ContextError(q) ==
    /\ q.model.limit # None
    /\ \/ q.cons.context = None /\ Requested(q) > q.model.limit /\ q.work.p95 > q.model.limit
       \/ Context(q) > q.model.limit /\ ~q.cons.override

HeadsSplit(m, tp) == m.heads # None => m.heads % tp = 0
ExpertsSplit(m, ep) == m.experts # None => m.experts % ep = 0

\* --tp must divide the GPUs of a node, unless it is larger than a node.
TpError(q) ==
    /\ q.cons.tp # None /\ q.cons.tp \notin Divisors(GpusPerNode(q))
    /\ ~(q.cons.tp > GpusPerNode(q) /\ IsCluster(q))

TpValues(q) == IF q.cons.tp = None THEN Divisors(GpusPerNode(q))
               ELSE Divisors(GpusPerNode(q)) \cap {q.cons.tp}

MaxReplicas(q, tp) == SumFunction([n \in Nodes(q) |-> Cardinality(OnNode(q, n)) \div tp])

\* --replicas has no room with one of the sizes.
ReplicasError(q) ==
    q.cons.replicas # None /\ \E tp \in TpValues(q): HeadsSplit(q.model, tp)
                                                 /\ q.cons.replicas > MaxReplicas(q, tp)

EngineChoice(q) == {e \in q.engines: q.cons.engine \in {None, e.name}}

\* The variants of an MoE model; expert parallelism needs the experts to split.
Variants(q, e, tp) ==
    {""} \cup {v \in {"-ep"}: q.model.moe /\ tp > 1 /\ SupportsEP(e, q.model)
                              /\ ExpertsSplit(q.model, tp)}
         \cup {v \in {"-dpa"}: q.model.moe /\ tp > 1 /\ SupportsDPA(e, q.model)}

\* _max_num_seqs
MaxNumSeqs(q, est) ==
    CASE q.cons.seqs # None -> q.cons.seqs
      [] q.cons.seqs = None /\ est.tokens = None -> 256
      [] OTHER -> Max({16, Min({1024, est.tokens \div q.work.p50})})

Total(q) == q.hw.total[Min(Ids(q))]

MakePlan(q, e, tp, pp, groups, variant, est, backend) ==
    [engine |-> e, tp |-> tp, pp |-> pp, dp |-> IF variant = "-dpa" THEN tp ELSE 1,
     groups |-> groups, variant |-> variant, backend |-> backend,
     spans |-> backend # None /\ IsCluster(q),
     context |-> Context(q), fraction |-> est.fraction, seqs |-> MaxNumSeqs(q, est),
     total |-> Total(q), dynamic |-> Dynamic(Total(q), tp),
     unknown |-> est.confidence = "unknown"]

EstimateOn(q, gpus, tp, pp) ==
    Estimate(q.model, Total(q), {q.hw.free[i]: i \in gpus}, tp, pp, Context(q), q.cons.fraction)

\* The plans of a layout whose memory was estimated, one for each engine that
\* supports it and each variant.
Estimated(q, tp, groups, est) ==
    LET All == UNION {{MakePlan(q, e, tp, 1, groups, v, est, None): v \in Variants(q, e, tp)}:
                      e \in EngineChoice(q)}
    IN IF Pruned(est) THEN {} ELSE {p \in All: Supports(p.engine, q.model, p)}

Grouped(q, tp, groups) == Estimated(q, tp, groups, EstimateOn(q, UNION ToSet(groups), tp, 1))

\* The candidates of one tensor-parallel size.
OfSize(q, tp) ==
    LET n == IF q.cons.replicas = None THEN MaxReplicas(q, tp) ELSE q.cons.replicas
    IN Grouped(q, tp, PlanGroups(q.hw, tp, n, Ids(q)))

WithinNodes(q) ==
    UNION {OfSize(q, tp): tp \in {t \in TpValues(q): HeadsSplit(q.model, t)}}

\* One replica of the shape s = <<TP, PP>> over all these GPUs.
Spanning(q, e, all, s, est) ==
    IF Pruned(est) \/ (s[2] > 1 /\ ~SupportsPP(e)) THEN {}
    ELSE {p \in {MakePlan(q, e, s[1], s[2], <<all>>, "", est, "ray")}: Supports(e, q.model, p)}

\* As many GPUs of every node as the smallest has.
Evenly(q) ==
    UNION {{i \in OnNode(q, n): Cardinality({j \in OnNode(q, n): j < i}) < GpusPerNode(q)}:
           n \in Nodes(q)}

\* TP in the nodes and PP across, or TP over everything.
Shapes(q) ==
    LET total == GpusPerNode(q) * Cardinality(Nodes(q))
    IN {<<GpusPerNode(q), Cardinality(Nodes(q))>>}
         \cup {s \in {<<total, 1>>}: HeadsSplit(q.model, total)}

\* _cross_node_candidates
AcrossNodes(q) ==
    IF ~(q.cons.replicas \in {None, 1}) THEN {}
    ELSE UNION {Spanning(q, e, Evenly(q), s, EstimateOn(q, Evenly(q), s[1], s[2])):
                    e \in {x \in EngineChoice(q): SupportsRay(x)},
                    s \in {x \in Shapes(q): q.cons.tp \in {None, x[1]}}}

OrAcross(q, within) == IF within = {} /\ IsCluster(q) THEN AcrossNodes(q) ELSE within

\* Across nodes only when nothing fits in one.
PlansOf(q) == OrAcross(q, WithinNodes(q))

\* What generate_candidates raises before it looks at any layout; a result
\* without candidates is a NoViablePlanError, too.
PlanError(q) ==
    CASE q.engines = {} -> "NoViablePlanError"
      [] q.engines # {} /\ SelectError(q) # None -> SelectError(q)
      [] q.engines # {} /\ SelectError(q) = None
         /\ (ContextError(q) \/ TpError(q) \/ ReplicasError(q)) -> "ConfigurationError"
      [] OTHER -> None

Candidates(q) == IF PlanError(q) = None THEN PlansOf(q) ELSE {}

=============================================================================
