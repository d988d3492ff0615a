------------------------------- MODULE Sweep -------------------------------
(***************************************************************************)
(* planner/scoring.py: how benchmark results are scored, when a sweep      *)
(* stops and which concurrency is chosen.                                  *)
(*                                                                         *)
(* A result r has its concurrency c, tokens per second r.tps, p95 latency  *)
(* r.lat, p95 TTFT r.ttft (None when the engine did not stream), the       *)
(* percentage r.err of failed requests and r.none when no request          *)
(* succeeded.  TPOT is treated like TTFT and left out.  slo is the latency *)
(* and the TTFT limit, either or both None.                                *)
(***************************************************************************)
EXTENDS Orders, Sequences, SequencesExt, FiniteSetsExt

CONSTANT None

MaxErrorRate == 1        \* percent, MAX_ACCEPTABLE_ERROR_RATE
ErrorPenalty == 5        \* ERROR_RATE_PENALTY_WEIGHT
MinGain == 2             \* percent, PLATEAU_MIN_THROUGHPUT_GAIN
LatencyRise == 10        \* percent, PLATEAU_LATENCY_RISE_THRESHOLD
DropStop == 5            \* percent, SWEEP_THROUGHPUT_DROP_STOP

\* slo_violations: an unreported TTFT cannot satisfy a limit on it.
Violates(r, slo) ==
    \/ slo.ttft # None /\ (r.ttft = None \/ r.ttft > slo.ttft)
    \/ slo.lat # None /\ r.lat > slo.lat

HasSlo(slo) == slo.ttft # None \/ slo.lat # None

\* is_valid
Valid(r) == ~r.none /\ r.err <= MaxErrorRate

EligibleResult(r, slo) == Valid(r) /\ ~Violates(r, slo)

ErrorFactor(r) == Max({0, 100 - ErrorPenalty * r.err})

Least(S) == IF S = {} THEN None ELSE Min(S)

\* A fraction is a pair, best over value; None when either was not reported.
Ratio(best, v) == IF best = None \/ v = None \/ v <= 0 THEN None ELSE <<best, v>>
AtMost(a, b) == a[1] * b[2] <= b[1] * a[2]

\* score_results: relative to the best of the valid results.  Only the order of
\* scores counts, so "balanced" is the square of the code's.
Score(rs, r, objective) ==
    LET valid == {x \in rs: Valid(x)}
        lat == Ratio(Least({x.lat: x \in valid} \ {0}), r.lat)
        ttft == Ratio(Least({x.ttft: x \in valid} \ {None}), r.ttft)
        factor == ErrorFactor(r)
    IN CASE objective = "throughput" -> <<r.tps * factor, 1>>
         [] objective = "latency" ->
              CASE lat # None /\ ttft # None ->
                     <<factor * (2 * lat[1] * ttft[2] + ttft[1] * lat[2]), 3 * lat[2] * ttft[2]>>
                [] lat # None /\ ttft = None -> <<factor * lat[1], lat[2]>>
                [] lat = None /\ ttft # None -> <<factor * ttft[1], ttft[2]>>
                [] OTHER -> <<0, 1>>
         [] objective = "balanced" ->
              IF lat = None THEN <<0, 1>> ELSE <<r.tps * lat[1] * factor * factor, lat[2]>>

Highest(rs, pool, objective) ==
    {r \in pool: \A o \in pool: AtMost(Score(rs, o, objective), Score(rs, r, objective))}

\* select_best: the set of results it may return, ties going to the first.
Selectable(rs, objective, slo) ==
    LET eligible == {r \in rs: EligibleResult(r, slo)} IN
    Highest(rs, IF eligible # {} THEN eligible ELSE {r \in rs: Valid(r)}, objective)

\* Did the step from a to b gain less than MinGain percent?
SmallGain(a, b) == b.tps = a.tps \/ (b.tps - a.tps) * 100 < MinGain * a.tps
Rises(a, b) == (b.lat - a.lat) * 100 > LatencyRise * a.lat

\* Mutant of GoesOn: two small steps stop the sweep whatever the last one gained.
GoesOn_TwoSmall(h, slo) ==
    LET last == h[Len(h)]
        best == Max({h[i].tps: i \in DOMAIN h})
        Plateau == \/ SmallGain(h[Len(h) - 1], last) /\ Rises(h[Len(h) - 1], last)
                   \/ Len(h) >= 3 /\ SmallGain(h[Len(h) - 2], h[Len(h) - 1])
    IN \/ h = <<>>
       \/ /\ EligibleResult(last, slo)
          /\ \/ Len(h) < 2
             \/ last.tps * 100 >= best * (100 - DropStop) /\ ~Plateau

\* should_continue_sweep on the history of a sweep.
GoesOn(h, slo) ==
    LET last == h[Len(h)]
        best == Max({h[i].tps: i \in DOMAIN h})
        Plateau == /\ SmallGain(h[Len(h) - 1], last)
                   /\ \/ Rises(h[Len(h) - 1], last)
                      \/ Len(h) >= 3 /\ SmallGain(h[Len(h) - 2], h[Len(h) - 1])
    IN \/ h = <<>>
       \/ /\ EligibleResult(last, slo)
          /\ \/ Len(h) < 2
             \/ last.tps * 100 >= best * (100 - DropStop) /\ ~Plateau

\* One step of the walk upward in choose_concurrency.
Step(cur, nxt) ==
    IF nxt.tps <= cur.tps \/ (SmallGain(cur, nxt) /\ Rises(cur, nxt)) THEN cur ELSE nxt

\* The results of h at the places I, sorted by concurrency, equal ones in order.
ByConcurrency(h, I) ==
    LET before == {p \in I \X I: \/ h[p[1]].c < h[p[2]].c
                                 \/ h[p[1]].c = h[p[2]].c /\ p[1] < p[2]}
        at == InOrder(I, before)
    IN [k \in 1..Cardinality(I) |-> h[at[k]]]

\* The walk upward; pool is sorted.
Walk(pool) ==
    LET Current[k \in 0..Len(pool)] == IF k = 0 THEN pool[1] ELSE Step(Current[k - 1], pool[k])
    IN Current[Len(pool)]

\* choose_concurrency
Choose(h, objective, slo) ==
    LET points == {i \in DOMAIN h: Valid(h[i])}
        eligible == {i \in points: ~Violates(h[i], slo)}
        pool == ByConcurrency(h, IF eligible = {} THEN points ELSE eligible)
    IN CASE pool = <<>> -> None
         [] pool # <<>> /\ objective # "latency" -> Walk(pool)
         [] pool # <<>> /\ objective = "latency" ->
              IF eligible # {} /\ HasSlo(slo)
              THEN pool[Min({i \in DOMAIN pool: pool[i].c = pool[Len(pool)].c})]
              ELSE pool[Min({i \in DOMAIN pool: \A j \in DOMAIN pool: pool[i].lat <= pool[j].lat})]

Dominates(q, p) ==
    q.tps >= p.tps /\ q.lat <= p.lat /\ (q.tps > p.tps \/ q.lat < p.lat)

\* pareto_front
ParetoFront(rs) == {p \in rs: ~p.none /\ ~\E q \in rs: ~q.none /\ Dominates(q, p)}

=============================================================================
