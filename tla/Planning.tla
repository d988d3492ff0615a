------------------------------ MODULE Planning ------------------------------
(***************************************************************************)
(* The decisions the planner and the tuner make from given data, asked one *)
(* after the other: what the hardware and a model are, what a command asks *)
(* for, how GPUs are grouped, which candidates there are, which of several *)
(* results wins, when a sweep stops and what it chooses.  The questions    *)
(* are constants, so that TLC answers every one of a bounded set.          *)
(***************************************************************************)
EXTENDS Candidates

INSTANCE SweepRun
INSTANCE Inspection
INSTANCE Hardware
INSTANCE Options

CONSTANTS Sites,        \* [cluster, nvml, visible], with what is true of the
                        \* machines: wires, named, clear
          Commands,     \* [file, flags]
          Repositories, \* [place, error, config, files, counts, kvDtype], with
                        \* what is true of the model: real, realKv
          Groupings,  \* [hw, tp, n]
          Queries,    \* queries of Candidates.tla
          Contests,   \* [rs, objective, slo]: results to choose a winner from
          Sweeps,     \* [h, objective, slo]: results of growing concurrency
          Searches    \* questions of SweepRun.tla

\* GPUs have numbers, and on their node others, different for each.
HwTyped(hw) ==
    /\ hw.gpus \subseteq Nat /\ IsFiniteSet(hw.gpus)
    /\ \A i \in hw.gpus: hw.node[i] \in Nat
    /\ \A i, j \in hw.gpus: hw.node[i] = hw.node[j] /\ hw.local[i] = hw.local[j] => i = j
    /\ \A p \in DOMAIN hw.link: hw.link[p] \in Nat

GroupingTyped(x) == HwTyped(x.hw) /\ x.tp \in Nat \ {0} /\ x.n \in Nat

\* What is inspected and asked for has a form: GPUs of at least 100 MiB, a model
\* whose sizes are known or not, and the workload of a valid profile.
QueryTyped(x) ==
    /\ HwTyped(x.hw) /\ \A e \in x.engines: e.version \in Nat
    /\ \A i \in x.hw.gpus: x.hw.total[i] \in Nat /\ x.hw.total[i] >= 100 /\ x.hw.free[i] \in Nat
    /\ x.model.weight \in Nat \cup {None} /\ x.model.limit \in Nat \cup {None}
    /\ x.model.kind \in {"attention", "mla", "unknown"}
    /\ x.model.kind # "unknown" => x.model.kv \in Nat
    /\ x.model.kind = "attention" => x.model.kvHeads \in Nat \ {0}
    /\ x.work.context \in Nat /\ x.work.p95 \in 0..x.work.context /\ x.work.p50 \in Nat \ {0}
    /\ x.cons.gpus # {} /\ x.cons.context \in Nat \cup {None}
    /\ x.cons.fraction \in (1..99) \cup {None}
    /\ x.cons.replicas \in Nat \cup {None} /\ x.cons.seqs \in Nat \cup {None}

\* The keys of a configuration that are numbers.
Numbers == Lengths \cup {"maxContext", "context", "expected", "lat", "ttft"}

CommandTyped(x) ==
    /\ x.file = [k \in DOMAIN x.file |-> x.file[k]]
    /\ x.flags = [k \in DOMAIN x.file |-> x.flags[k]]
    /\ Numbers \cup {"name"} \subseteq DOMAIN x.file
    /\ \A k \in Numbers: x.file[k] \in Int \cup {None} /\ x.flags[k] \in Int \cup {None}

Objectives == {"throughput", "latency", "balanced"}

\* A request that succeeds takes time.
ResultTyped(r) ==
    /\ r.c \in Nat /\ r.tps \in Nat /\ r.lat \in Nat /\ r.err \in Nat /\ r.ttft \in Nat \cup {None}
    /\ ~r.none => r.lat > 0 /\ r.ttft # 0

ContestTyped(x) ==
    IsFiniteSet(x.rs) /\ x.objective \in Objectives /\ \A r \in x.rs: ResultTyped(r)

SweepTyped(x) ==
    /\ Len(x.h) \in Nat /\ DOMAIN x.h = 1..Len(x.h)
    /\ \A i \in DOMAIN x.h: ResultTyped(x.h[i])

SearchTyped(x) ==
    /\ IsFiniteSet(DOMAIN x.engine) /\ DOMAIN x.engine # {} /\ DOMAIN x.engine \subseteq Nat
    /\ \A c \in DOMAIN x.engine: x.engine[c] = None \/ ResultTyped(x.engine[c])
    /\ {x.max, x.expected} \subseteq (Nat \ {0}) \cup {None}
    /\ x.seqs \in Nat \ {0} /\ x.replicas \in Nat \ {0}

\* The links listed for GPU i of machine m that go to GPU j, and those to a switch.
LinksAt(m, i, j) ==
    {k \in DOMAIN m.nvlink[i]: ~m.nvlink[i][k].switch /\ m.nvlink[i][k].remote = m.device[j].bus}
LinksOver(m, i) == {k \in DOMAIN m.nvlink[i]: m.nvlink[i][k].switch}

\* Wires w are those of m: a list of links is finite, and there is some number of each.
WiresOf(m, w) ==
    /\ m.count \in Nat /\ \A p \in GpuPairs(m): w.direct[p] \in Nat
    /\ \A i \in 1..m.count: /\ m.device[i].free = w.free[i] /\ w.switch[i] \in Nat
                           /\ IsFiniteSet(DOMAIN m.nvlink[i])

\* The driver names the ends of all links it lists, and lists none that is not there.
EndsNamed(m, w) ==
    \A i \in 1..m.count:
        /\ m.device[i].bus # None /\ Cardinality(LinksOver(m, i)) <= w.switch[i]
        /\ DOMAIN m.nvlink[i] = LinksOver(m, i) \cup UNION {LinksAt(m, i, j): j \in (1..m.count) \ {i}}
        /\ \A j \in (1..m.count) \ {i}: Cardinality(LinksAt(m, i, j)) <= w.direct[{i, j}]

\* It lists all, and all are active.
LinksListed(m, w) ==
    \A i \in 1..m.count:
        /\ \A k \in DOMAIN m.nvlink[i]: m.nvlink[i][k].active
        /\ Cardinality(LinksOver(m, i)) = w.switch[i]
        /\ \A j \in (1..m.count) \ {i}: Cardinality(LinksAt(m, i, j)) = w.direct[{i, j}]

MachineTyped(m, w, named, clear) ==
    m.count # None => /\ WiresOf(m, w)
                      /\ named => EndsNamed(m, w)
                      /\ clear => named /\ LinksListed(m, w)

SiteTyped(x) ==
    IF x.cluster = None THEN MachineTyped(x.nvml, x.wires[1], x.named, x.clear)
    ELSE LET nodes == {n \in x.cluster: n.alive /\ n.gpus > 0} IN
         /\ IsFiniteSet(x.cluster)
         /\ \A n \in nodes: /\ n.head \in BOOLEAN /\ n.address \in Nat
                            /\ MachineTyped(n.nvml, x.wires[n.address], x.named, x.clear)
         /\ \A n, o \in nodes: n # o => n.address # o.address

\* Files of one format and copy are a whole model, in one directory; the sizes of
\* local ones are known.
RepositoryTyped(x) ==
    LET Whole(f) == {g \in x.files: g.fmt = f.fmt /\ g.copy = f.copy /\ ~g.excluded} IN
    \A f \in x.files: ~f.excluded /\ f.fmt # "other" =>
        /\ \A g \in Whole(f): g.sub = f.sub
        /\ (\A g \in Whole(f): g.size # None) => Bytes(Whole(f)) = x.real
        /\ x.place = "dir" => f.size # None

ASSUME QuestionsAssumption ==
    /\ \A x \in Sites: SiteTyped(x)
    /\ \A x \in Repositories: RepositoryTyped(x)
    /\ \A x \in Groupings: GroupingTyped(x)
    /\ \A x \in Queries: QueryTyped(x)
    /\ \A x \in Commands: CommandTyped(x)
    /\ \A x \in Contests: ContestTyped(x)
    /\ \A x \in Sweeps: SweepTyped(x)
    /\ \A x \in Searches: SearchTyped(x)

ASSUME PlanningNoneAssumption ==
    /\ None \notin Int /\ None \notin Int \X Int
    /\ None \notin {"hardware", "options", "model", "groups", "plan", "contest", "sweep", "search"}
    /\ None \notin {"ray", "NoViablePlanError", "HardwareError", "ConfigurationError"}

VARIABLES asked,   \* the kind of question, or None
          q,       \* the question
          answer   \* the profile, the groups, the plans or the chosen result

planningVars == <<asked, q, answer>>

PlanningInit == asked = None /\ q = None /\ answer = None

Ask(kind, S) == asked = None /\ asked' = kind /\ q' \in S

Looked == Ask("hardware", Sites) /\ answer' = HardwareOf(q')
Read == Ask("options", Commands) /\ answer' = Understood(q')
Model == Ask("model", Repositories) /\ answer' = Inspect(q')
Grouping == Ask("groups", Groupings)
            /\ answer' = PlanGroups(q'.hw, q'.tp, q'.n, q'.hw.gpus)
Planned == Ask("plan", Queries) /\ answer' = Candidates(q')
Contest == Ask("contest", Contests) /\ answer' = Selectable(q'.rs, q'.objective, q'.slo)
SweptOut == Ask("sweep", Sweeps) /\ answer' = Choose(q'.h, q'.objective, q'.slo)
Searched == Ask("search", Searches) /\ answer' = Measurements(q', StageA(q'))
Answered == asked # None /\ asked' = None /\ q' = None /\ answer' = None

PlanningNext ==
    \/ Looked \/ Read \/ Model \/ Grouping \/ Planned
    \/ Contest \/ SweptOut \/ Searched \/ Answered

PlanningSpec == PlanningInit /\ [][PlanningNext]_planningVars

----------------------------------------------------------------------------
(* Hardware                                                                *)

\* The links of a pair of GPUs of one machine, over a switch or direct.
Wired(hw, p) ==
    LET w == q.wires[hw.node[Min(p)]]
    IN Max({w.direct[LocalIds(hw, p)], Min({w.switch[i]: i \in LocalIds(hw, p)})})

OneNode(hw) == {p \in kSubset(2, hw.gpus): hw.node[Min(p)] = hw.node[Max(p)]}

PairScored(hw, p) == PairScore(hw, Min(p), Max(p))

\* Under the indices of a cluster or a restricted machine, a GPU is still the one
\* whose memory and links were read.  No link is counted that is not there, as
\* long as the driver names the ends of all; when it answers everything, the pair
\* with more links is the better one; and no two machines count as linked.
WiringTrue ==
    asked = "hardware" /\ answer # HardwareError =>
        /\ \A i \in answer.gpus:
             answer.free[i] = q.wires[answer.node[i]].free[answer.local[i]]
        /\ \A p \in kSubset(2, answer.gpus) \ OneNode(answer): PairScored(answer, p) = 0
        /\ answer.known /\ q.named =>
             \A p \in OneNode(answer):
                /\ PairScored(answer, p) <= 100 + Wired(answer, p)
                /\ Wired(answer, p) = 0 => PairScored(answer, p) <= 40
        /\ answer.known /\ q.clear =>
             \A p, r \in OneNode(answer):
                Wired(answer, p) > Wired(answer, r) => PairScored(answer, p) > PairScored(answer, r)

----------------------------------------------------------------------------
(* Options                                                                 *)

\* The user states typical lengths and no others, neither in flags nor in the file.
OnlyTypical(o) ==
    /\ \A k \in {"in95", "out95", "context", "name"}: o.flags[k] = None
    /\ \A k \in Lengths \cup {"maxContext", "name"}: o.file[k] = None

\* A workload that is benchmarked fits into the context that is served, unless a
\* file limits the one and not the other; and whoever states only typical lengths
\* is not refused for lengths that were not stated.
LengthsAgree ==
    asked = "options" =>
        /\ ~Refused(q) /\ q.file.context = None =>
             answer.work.p95 <= (IF answer.cons.context = None THEN answer.work.context
                                 ELSE answer.cons.context)
        /\ Refused(q) =>
             \/ ~OnlyTypical(q)
             \/ Merged(q.file, q.flags).model = None
             \/ \E k \in {"expected", "lat", "ttft"}: ~AtLeast(Merged(q.file, q.flags), k, 1)
             \/ \E k \in {"in50", "out50"}: q.flags[k] # None /\ q.flags[k] < 1
             \/ ~ConfigValid(q.file) \/ ~ConfigValid(Merged(q.file, q.flags))

----------------------------------------------------------------------------
(* Models                                                                  *)

\* No file is left out of a measured size or counted twice in it, whichever
\* formats the repository has beside each other.  It may keep two copies in one
\* format (several GGUF quantizations, a copy in a subdirectory), which are
\* added up; the docs say nothing of them.
MeasuredIsTrue ==
    asked = "model" /\ answer # NotInspected =>
        \/ ~Exact(answer)
        \/ answer.weight = q.real
        \/ \E f, g \in q.files: f.fmt = g.fmt /\ f.copy # g.copy /\ ~f.excluded /\ ~g.excluded

\* What cannot be measured is not estimated too low by more than 5 percent: a
\* text model with a gated SiLU MLP that names its dtype, unquantized.
EstimateSafe ==
    asked = "model" /\ answer # NotInspected =>
        /\ answer.source = "estimated" /\ q.config.gated /\ q.config.text = None
           /\ q.config.quant = None /\ q.config.dtype # None
             => 100 * answer.weight >= 95 * q.real
        /\ answer.source = "safetensors_metadata" => answer.weight = q.real

\* A KV cache is counted in full or not at all, under whatever names the
\* configuration has for its dimensions.
KvCovers ==
    asked = "model" /\ answer # NotInspected /\ answer.kv # None => answer.kv >= q.realKv

\* What the planner is told of the machines and of the model is true: it takes the
\* wiring for what it is, and hears of no less than the model takes.
InputsTrue == WiringTrue /\ MeasuredIsTrue /\ EstimateSafe /\ KvCovers

----------------------------------------------------------------------------
(* GPU groups                                                              *)

\* All ways to form n groups of tp GPUs.
Layouts(q0) == {S \in kSubset(q0.n, kSubset(q0.tp, q0.hw.gpus)):
                  \A g, h \in S: g # h => g \cap h = {}}

\* The exhaustive search of one machine, which looks at each partition once and
\* may leave GPUs over, misses no better connected layout.
BestConnected ==
    /\ asked = "groups" /\ q.tp > 1
    /\ Cardinality(q.hw.gpus) <= ExhaustiveMax
    /\ Cardinality({q.hw.node[i]: i \in q.hw.gpus}) = 1
    /\ q.tp * q.n <= Cardinality(q.hw.gpus)
    => \A S \in Layouts(q): PartitionScore(q.hw, S) <= PartitionScore(q.hw, ToSet(answer))

\* No GPU is in two groups, each group is as large as asked for and on one
\* node, whichever of the three algorithms made them.
GroupsApart ==
    asked = "groups" /\ answer # Failed =>
        /\ Len(answer) = q.n
        /\ \A i \in DOMAIN answer:
             /\ answer[i] \subseteq q.hw.gpus /\ Cardinality(answer[i]) = q.tp
             /\ Cardinality({q.hw.node[g]: g \in answer[i]}) = 1
             /\ \A j \in DOMAIN answer: i # j => answer[i] \cap answer[j] = {}

----------------------------------------------------------------------------
(* Candidates                                                              *)

Used(p) == UNION ToSet(p.groups)

\* The layout of a candidate belongs to it: replicas of tp x pp GPUs of the
\* selected ones, in one machine unless Ray spans it, and without --replicas no
\* machine keeps enough idle GPUs for one more.
LayoutFits ==
    asked = "plan" => \A p \in answer:
        /\ Used(p) \subseteq Ids(q)
        /\ Cardinality(Used(p)) = Len(p.groups) * p.tp * p.pp
        /\ p.backend = None =>
             /\ \A i \in DOMAIN p.groups: Cardinality({q.hw.node[g]: g \in p.groups[i]}) = 1
             /\ q.cons.replicas = None =>
                  \A n \in Nodes(q): Cardinality(OnNode(q, n) \ Used(p)) < p.tp

\* On each GPU of a candidate of known size, the share of the weights, the
\* overheads and one full-context sequence fit into its budget, and the budget
\* is free there; without a forced fraction the safety reserve stays free too.
FitsEveryGpu ==
    asked = "plan" => \A p \in answer: \A g \in Used(p):
        LET budget == (p.fraction * q.hw.total[g]) \div 100
            kv == KvPerRank(q.model, p.tp)
            reserve == IF q.cons.fraction = None THEN SafetyReserve(q.hw.total[g]) ELSE 0
        IN ~p.unknown =>
             /\ budget + reserve <= q.hw.free[g]
             /\ ShardedWeight(q.model.weight, p.tp * p.pp) + Dynamic(q.hw.total[g], p.tp)
                  + (IF kv = None THEN UnknownKvSpare ELSE ((kv \div p.pp) * p.context) \div 1024)
                  <= budget

\* A constraint narrows the search and is never traded away: every candidate
\* has the engine, the TP size and the replicas that were asked for.
ForcedIsKept ==
    asked = "plan" => \A p \in answer:
        /\ q.cons.engine \in {None, p.engine.name}
        /\ q.cons.tp \in {None, p.tp}
        /\ q.cons.replicas \in {None, Len(p.groups)}

\* A replica spans machines only where no single machine can hold one.
SpansAsLastResort ==
    asked = "plan" =>
        \/ \A p \in answer: p.backend = None
        \/ \A p \in answer: p.backend = "ray" /\ Len(p.groups) = 1

\* A planned context is one the model was trained for, or a longer one that the
\* user asked for and allowed; a benchmark of the workload's p95 lengths fits.
ContextServes ==
    asked = "plan" => \A p \in answer:
        /\ q.model.limit # None /\ p.context > q.model.limit
             => q.cons.override /\ q.cons.context # None
        /\ q.cons.context = None => q.work.p95 <= p.context

\* An engine makes one process for each GPU of the replica's group, on a machine
\* where it sees these and no others, or over the machines of Ray; and what its
\* ranks may run adds up to the sequences of the plan.
RankPerGpu ==
    asked = "plan" => \A p \in answer: \A i \in DOMAIN p.groups:
        LET a == Args(p.engine, q.model, p, LocalIds(q.hw, p.groups[i])) IN
        /\ Ranks(p.engine, a) = Cardinality(p.groups[i])
        /\ \/ p.backend = "ray" /\ a.visible = {}
           \/ \E n \in Nodes(q):
                p.groups[i] = {g \in q.hw.gpus: q.hw.node[g] = n /\ q.hw.local[g] \in a.visible}
        /\ a.seqs * (p.tp \div a.tp) >= p.seqs

\* SGLang allocates the overheads outside its static fraction: both parts
\* together stay, to half a percent, within the plan's budget, and the static
\* part holds the weights and one full-context sequence, as long as it is not
\* the smallest one.
SglangWithinBudget ==
    asked = "plan" => \A p \in answer: \A i \in DOMAIN p.groups:
        LET a == Args(p.engine, q.model, p, LocalIds(q.hw, p.groups[i]))
            kv == KvPerRank(q.model, p.tp)
            holds == ShardedWeight(q.model.weight, p.tp)
                       + (IF kv = None THEN UnknownKvSpare ELSE (kv * p.context) \div 1024)
        IN p.engine.name = "sglang" /\ a.fraction > 30 =>
             /\ 2 * a.fraction * p.total + 200 * p.dynamic <= (2 * p.fraction + 1) * p.total
             /\ ~p.unknown => 200 * holds <= (2 * a.fraction + 1) * p.total

\* The partition of the GPUs uses none twice and misses no better connected one;
\* every plan that is tried keeps the constraints, its replicas are laid out where
\* the machines have room, and its engines use just those GPUs.
PlansSound ==
    GroupsApart /\ BestConnected /\ LayoutFits /\ ForcedIsKept /\ SpansAsLastResort /\ RankPerGpu

\* The workload fits into the context that is served, and one sequence of that
\* context, beside the weights, into what is free on each GPU.
WorkloadFits == LengthsAgree /\ ContextServes /\ FitsEveryGpu /\ SglangWithinBudget

\* --replicas is refused only when no TP size has room for them.
PossibleReplicasServed ==
    asked = "plan" /\ q.engines # {} /\ SelectError(q) = None /\ ReplicasError(q) =>
        \A tp \in TpValues(q): HeadsSplit(q.model, tp) => q.cons.replicas > MaxReplicas(q, tp)

----------------------------------------------------------------------------
(* Results                                                                 *)

\* The winner is not beaten by another result of its kind in throughput and
\* latency at once, when that has no more errors and no slower first token.
WinnerUnbeaten ==
    asked = "contest" =>
        \A w \in answer: \A o \in q.rs:
            ~ /\ EligibleResult(o, q.slo) \/ (Valid(o) /\ ~EligibleResult(w, q.slo))
              /\ o.tps > w.tps /\ o.lat < w.lat /\ o.err <= w.err
              /\ \/ o.ttft = None /\ w.ttft = None
                 \/ o.ttft # None /\ w.ttft # None /\ o.ttft <= w.ttft

\* Each point off the Pareto front is dominated by one on it.
FrontCovers ==
    asked = "contest" =>
        \A p \in {r \in q.rs: ~r.none} \ ParetoFront(q.rs):
            \E f \in ParetoFront(q.rs): Dominates(f, p)

\* The chosen concurrency meets the latency limits if any does, and for the
\* latency objective no higher one does.
ChoiceKeepsSlo ==
    asked = "sweep" /\ (\E r \in ToSet(q.h): EligibleResult(r, q.slo)) =>
        /\ EligibleResult(answer, q.slo)
        /\ q.objective = "latency" /\ HasSlo(q.slo) =>
             \A r \in ToSet(q.h): EligibleResult(r, q.slo) => r.c <= answer.c

\* The plateau rule, applied step by step from the lowest concurrency, gives up
\* less throughput in all than it allows for one step.
ChoiceNearBest ==
    asked = "sweep" /\ q.objective # "latency" =>
        \A r \in ToSet(q.h):
            EligibleResult(r, q.slo) => r.tps <= answer.tps \/ SmallGain(answer, r)

\* A sweep does not stop at a point that is the best so far, kept the limits
\* and gained more than the plateau rule asks for.
ImprovingSweepGoesOn ==
    asked = "sweep" /\ Len(q.h) > 1 =>
        LET last == q.h[Len(q.h)] IN
        /\ EligibleResult(last, q.slo)
        /\ \A i \in 1..(Len(q.h) - 1): ~SmallGain(q.h[i], last)
        => GoesOn(q.h, q.slo)

\* The concurrencies a sweep may measure: powers of the growth factor, from the
\* one of the workload for the latency objective, else up to the plan's limit.
Grid == IF q.objective # "latency" THEN ToSet(Grown(SweepStart, q)) \cup {Upper(q)}
        ELSE ToSet(Grown(IF q.expected = None THEN LatencyConcurrency ELSE q.expected, q))

\* All of C succeeded within the limits, and each one after the other gained.
Gaining(C) ==
    LET R(c) == Measured(q, c, "B") IN
    /\ \A c \in C: R(c) # None /\ EligibleResult(R(c), q.slo)
    /\ \A c, d \in C: c < d /\ ~(\E e \in C: c < e /\ e < d) => ~SmallGain(R(c), R(d))

\* A sweep measures each concurrency up to which every step gained and kept the
\* limits, none twice and none above the larger of the plan's limit and what stage
\* A measured, whose load does not heed a limit below 8 or two for each replica.
\* The latency objective without a limit has nothing to look for.
NothingSkipped ==
    asked = "search" /\ answer # <<>> =>
        /\ (q.objective = "latency" => HasSlo(q.slo)) =>
             \A c \in Grid: Gaining({d \in Grid: d <= c}) => \E i \in DOMAIN answer: answer[i].c = c
        /\ \A i, j \in DOMAIN answer: i < j =>
             answer[j].label = "B" /\ (answer[i].label = "B" => answer[i].c # answer[j].c)
        /\ q.objective # "latency" =>
             \A i \in DOMAIN answer: answer[i].c <= Max({Upper(q), StageAConcurrency(q)})

\* No rule that compares results, within a sweep or between plans, loses the best one.
ChoicesSound ==
    WinnerUnbeaten /\ FrontCovers /\ ChoiceKeepsSlo /\ ChoiceNearBest /\ ImprovingSweepGoesOn
    /\ NothingSkipped

=============================================================================
