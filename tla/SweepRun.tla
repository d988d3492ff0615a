------------------------------ MODULE SweepRun ------------------------------
(***************************************************************************)
(* benchmark/tuner.py: which concurrencies the sweep of one candidate      *)
(* measures.  A question q has the plan's limits q.max, q.seqs and         *)
(* q.replicas, the workload's q.objective, q.slo and q.expected            *)
(* concurrency, and q.engine, what the engine achieves at some             *)
(* concurrencies (None: the benchmark fails).  A result also has the label *)
(* of the stage that measured it.                                          *)
(***************************************************************************)
EXTENDS Sweep

SweepStart == 4
SweepMax == 1024
Growth == 2
SweepSteps == 11          \* growing, no concurrency is at or below SweepMax later
LatencyConcurrency == 16

\* What is measured at c: the engine does what it does at the next lower
\* concurrency that q.engine knows, or at its lowest.
Measured(q, c, label) ==
    LET known == {d \in DOMAIN q.engine: d <= c}
        r == q.engine[IF known = {} THEN Min(DOMAIN q.engine) ELSE Max(known)]
    IN IF r = None THEN None
       ELSE [c |-> c, label |-> label, tps |-> r.tps, lat |-> r.lat, ttft |-> r.ttft,
             err |-> r.err, none |-> r.none]

\* _stage_a_concurrency: half of what the plan can take, for enough load.
StageAConcurrency(q) ==
    CASE q.expected # None -> q.expected
      [] q.expected = None /\ q.objective = "latency" -> LatencyConcurrency
      [] OTHER -> LET cap == IF q.max # None THEN q.max ELSE q.seqs * q.replicas
                  IN Max({8, 2 * q.replicas, Min({256, cap \div 2})})

Upper(q) == IF q.max = None THEN SweepMax ELSE Min({SweepMax, q.max})

Grown(from, q) ==
    LET Points[k \in 1..SweepSteps] == IF k = 1 THEN from ELSE Points[k - 1] * Growth
    IN SubSeq(Points, 1, Cardinality({k \in 1..SweepSteps: Points[k] <= Upper(q)}))

\* _sweep_points: the upper limit is always a point.
SweepPoints(q) ==
    LET grown == Grown(SweepStart, q)
    IN IF grown = <<>> \/ grown[Len(grown)] < Upper(q) THEN Append(grown, Upper(q)) ELSE grown

\* _run_point: what stage A has measured is measured again, but nothing else.
Point(q, h, c) ==
    IF \E i \in DOMAIN h: h[i].c = c /\ h[i].label # "A" THEN None ELSE Measured(q, c, "B")

Noted(h, r) == IF r = None THEN h ELSE Append(h, r)

\* A point of a sweep s; a benchmark that fails ends it unless "gaps" are fine.
Swept(q, s, r, gaps) ==
    CASE ~s.go -> s
      [] s.go /\ r = None -> [s EXCEPT !.go = gaps]
      [] OTHER -> [h |-> Append(s.h, r), swept |-> Append(s.swept, r),
                   go |-> GoesOn(Append(s.swept, r), q.slo)]

\* The best result of the sorted sequence v, and its neighbours; what is between them
\* is measured, unless it was, above it first.
BestPoint(v) == Min({i \in DOMAIN v: \A j \in DOMAIN v: v[j].tps <= v[i].tps})

Tried(q, h, v, c) ==
    IF c > 0 /\ \A i \in DOMAIN v: v[i].c # c THEN Noted(h, Point(q, h, c)) ELSE h

Refined(q, h, v) ==
    LET i == BestPoint(v)
        Between(g, j) == IF j \in DOMAIN v THEN Tried(q, g, v, (v[i].c + v[j].c) \div 2) ELSE g
    IN IF Len(v) < 2 THEN h ELSE Between(Between(h, i + 1), i - 1)

SortedValid(h) == ByConcurrency(h, {i \in DOMAIN h: ~h[i].none})

SweepOver(q, h, swept, points, gaps) ==
    LET After[k \in 0..Len(points)] ==
            IF k = 0 THEN [h |-> h, swept |-> swept, go |-> TRUE]
            ELSE Swept(q, After[k - 1], Point(q, After[k - 1].h, points[k]), gaps)
    IN After[Len(points)].h

\* _sweep_throughput
Widened(q, h) == Refined(q, h, SortedValid(h))
SweepThroughput(q, h) == Widened(q, SweepOver(q, h, <<>>, SweepPoints(q), TRUE))

\* _sweep_latency: more samples where the workload operates, and under latency
\* limits the highest concurrency that keeps them.
Operated(q, h, base) ==
    IF ~HasSlo(q.slo) THEN h
    ELSE SweepOver(q, h, ByConcurrency(h, {i \in DOMAIN h: h[i].c = base}),
                   Grown(base * Growth, q), FALSE)
SweepLatency(q, h, base) == Operated(q, Noted(h, Point(q, h, base)), base)

\* What stage B adds to stage A's result of the candidate; without one the
\* candidate is not swept.
Measurements(q, h) ==
    CASE h = <<>> -> <<>>
      [] h # <<>> /\ q.objective = "latency" ->
           SweepLatency(q, h, IF q.expected = None THEN LatencyConcurrency ELSE q.expected)
      [] OTHER -> SweepThroughput(q, h)

StageA(q) == Noted(<<>>, Measured(q, StageAConcurrency(q), "A"))

=============================================================================
