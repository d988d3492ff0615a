------------------------------- MODULE Tuner -------------------------------
(***************************************************************************)
(* The four stages of benchmark/tuner.py over the sessions that            *)
(* benchmark/evaluator.py opens and closes.  Stage A measures every        *)
(* candidate once, B sweeps the concurrency of the best TopK, C tries a    *)
(* larger memory fraction on the winner and D confirms it.  Between the    *)
(* stages a session may stay open and be reused.                           *)
(*                                                                         *)
(* A plan is a candidate's id and whether its memory fraction was raised   *)
(* (mem); the id stands for the structural key.  A benchmark ends "ok",    *)
(* "slow" (valid, but the latency objective is missed), "invalid" (more    *)
(* errors than accepted) or with a BenchmarkError.  The scores decide only *)
(* among results of the same kind, and here the choice among them is free; *)
(* Sweep.tla has the arithmetic.                                           *)
(***************************************************************************)
EXTENDS Values, Naturals, Sequences, SequencesExt

CONSTANTS N,             \* candidates that the planner found viable
          TopK,          \* TuningSettings.top_k
          Points         \* concurrencies of a sweep

ASSUME TunerAssumption == /\ N \in Nat \ {0} /\ TopK \in Nat \ {0}
                          /\ Points \in Nat \ {0}

VARIABLES pc,        \* what the coroutine does next
          todo,      \* candidates the current stage has not handled yet
          ranked,    \* stage B's candidates
          kept,      \* candidates the current stage has measured
          point,     \* next concurrency of a sweep
          session,   \* Tuner._session: the plan served, whether its engines live
          alive,     \* plans with engine processes that a session had launched
          stubborn,  \* plans with engines left over from a failed launch
          stuck,     \* plans whose engines a close could not end
          results,   \* every benchmark result of Tuner.evaluations
          best,      \* the result the later stages start from
          raised     \* an exception leaves tune()

vars == <<pc, todo, ranked, kept, point, session, alive, stubborn, stuck, results, best,
          raised>>

Kinds == {"ok", "slow", "invalid"}
Plans == [id: 1..N, mem: BOOLEAN]
Plan(i) == [id |-> i, mem |-> FALSE]
Sessions == [plan: Plans, dead: BOOLEAN]

ASSUME NoneAssumption == None \notin Sessions

Result(p, s, k) ==
    [plan |-> p, stage |-> s, kind |-> k, on |-> session.plan,
     beside |-> (alive \cup stubborn) \ {session.plan}]

Results == [plan: Plans, stage: {"A", "B", "C", "D"},
            kind: Kinds, on: Plans, beside: SUBSET Plans]

TypeOK ==
    /\ pc \in {"A", "Abench", "Aclose", "B", "Bsweep", "C", "Cbench", "Cclose",
               "D", "Dbench", "close", "done"}
    /\ session \in Sessions \cup {None}
    /\ pc \in {"Abench", "Bsweep", "Cbench", "Dbench"} => session # None
    /\ alive \subseteq Plans /\ stubborn \subseteq Plans /\ stuck \subseteq Plans
    /\ results \subseteq Results
    /\ best \in Results \cup {None}
    /\ ranked \subseteq 1..N /\ kept \subseteq 1..N

Init ==
    /\ pc = "A" /\ todo = [i \in 1..N |-> i]
    /\ ranked = {} /\ kept = {} /\ point = 0
    /\ session = None /\ alive = {} /\ stubborn = {} /\ stuck = {}
    /\ results = {} /\ best = None /\ raised = FALSE

----------------------------------------------------------------------------
(* Sessions                                                                *)

\* The plan that stage C tries: the same layout with a larger memory fraction.
Raised(p) == [id |-> p.id, mem |-> TRUE]

\* The plan the current stage wants a session for.
Target == CASE pc \in {"A", "B"} -> Plan(Head(todo))
            [] pc = "C" -> Raised(best.plan)
            [] pc = "D" -> best.plan

Opens == /\ pc \in {"A", "B", "C", "D"}
         /\ pc \in {"A", "B"} => todo # <<>>

\* Can the open session be used for the plan?
Serves(p) == session # None /\ session.plan = p

\* Close the session, then go on at "next".  If its engines survive, an
\* exception leaves the stage instead.
CloseThen(next) ==
    /\ session' = None /\ UNCHANGED stubborn
    /\ \/ /\ alive' = alive \ {session.plan}
          /\ pc' = next
          /\ UNCHANGED <<stuck, raised>>
       \/ /\ stuck' = stuck \cup {session.plan}
          /\ pc' = "close" /\ raised' = TRUE
          /\ UNCHANGED alive

\* Mutant of CloseOther: the error of a failed close is swallowed.
CloseOther_Swallows ==
    /\ Opens /\ session # None /\ ~Serves(Target)
    /\ session' = None
    /\ stuck' = stuck \cup {session.plan}
    /\ UNCHANGED <<pc, alive, stubborn, raised, todo, ranked, kept, point, results, best>>

CloseOther ==
    /\ Opens /\ session # None /\ ~Serves(Target)
    /\ CloseThen(pc)
    /\ UNCHANGED <<todo, ranked, kept, point, results, best>>

\* A session for the target is there: the open one, or a new one.
Opened ==
    /\ Opens
    /\ \/ Serves(Target) /\ UNCHANGED <<session, alive>>
       \/ /\ session = None
          /\ session' = [plan |-> Target, dead |-> FALSE]
          /\ alive' = alive \cup {Target}
    /\ pc' = CASE pc = "A" -> "Abench" [] pc = "B" -> "Bsweep"
               [] pc = "C" -> "Cbench" [] pc = "D" -> "Dbench"
    /\ point' = IF pc \in {"B", "C"} THEN 1 ELSE 0
    /\ UNCHANGED <<todo, ranked, kept, stubborn, stuck, results, best, raised>>

\* The launch fails.  ReplicaSet.start has stopped what it had launched, but
\* whether every process is gone is known to nobody here.
OpenFails ==
    /\ Opens /\ session = None
    /\ stubborn' \in {stubborn, stubborn \cup {Target}}
    /\ todo' = IF pc \in {"A", "B"} THEN Tail(todo) ELSE todo
    /\ pc' = CASE pc = "C" -> "D" [] pc = "D" -> "close" [] OTHER -> pc
    /\ UNCHANGED <<ranked, kept, point, session, alive, stuck, results, best, raised>>

\* The benchmark server of a launched set does not start: open() stops the
\* engines and lets the exception through.
ServerFails ==
    /\ Opens /\ session = None
    /\ pc' = "close" /\ raised' = TRUE
    /\ UNCHANGED <<todo, ranked, kept, point, session, alive, stubborn, stuck, results,
                   best>>

\* Every engine of the session dies; nobody watches it.
EngineDies ==
    /\ session # None /\ ~session.dead
    /\ session' = [session EXCEPT !.dead = TRUE]
    /\ UNCHANGED <<pc, todo, ranked, kept, point, alive, stubborn, stuck, results, best,
                   raised>>

\* What a benchmark of the session may return; None is a BenchmarkError.
Outcome == IF session.dead THEN {"invalid", None} ELSE Kinds \cup {None}

----------------------------------------------------------------------------
(* Stage A                                                                 *)

\* An interrupted run has measured this very plan, and its result is taken over.
Reuse ==
    /\ pc = "A" /\ todo # <<>>
    /\ \E k \in Kinds:
         results' = results \cup {[plan |-> Plan(Head(todo)), stage |-> "A", kind |-> k,
                                   on |-> Plan(Head(todo)), beside |-> {}]}
    /\ kept' = kept \cup {Head(todo)} /\ todo' = Tail(todo)
    /\ UNCHANGED <<pc, ranked, point, session, alive, stubborn, stuck, best, raised>>

\* The last candidate's session stays open, unless its benchmark failed.
BenchA ==
    /\ pc = "Abench"
    /\ \E k \in Outcome:
         /\ results' = IF k = None THEN results
                       ELSE results \cup {Result(Plan(Head(todo)), "A", k)}
         /\ kept' = IF k = None THEN kept ELSE kept \cup {Head(todo)}
         /\ IF k # None /\ Tail(todo) = <<>>
            THEN pc' = "A" /\ todo' = <<>>
            ELSE pc' = "Aclose" /\ UNCHANGED todo
    /\ UNCHANGED <<ranked, point, session, alive, stubborn, stuck, best, raised>>

\* Mutant of CloseA: a candidate whose benchmark failed is tried again, without
\* a limit.
CloseA_Again ==
    /\ pc = "Aclose"
    /\ CloseThen("A")
    /\ todo' = IF Plan(Head(todo)) \in {r.plan: r \in results} THEN Tail(todo) ELSE todo
    /\ UNCHANGED <<ranked, kept, point, results, best>>

CloseA ==
    /\ pc = "Aclose"
    /\ CloseThen("A")
    /\ todo' = Tail(todo)
    /\ UNCHANGED <<ranked, kept, point, results, best>>

----------------------------------------------------------------------------
(* Stage B                                                                 *)

Eligible(i) == \E r \in results: r.plan = Plan(i) /\ r.kind = "ok"

\* Eligible results come before the others; the scores order each part.
IsRanking(s) == \A a, b \in DOMAIN s: a < b /\ Eligible(s[b]) => Eligible(s[a])

OpenFirst(s) ==
    LET open == {n \in DOMAIN s: session # None /\ s[n] = session.plan.id} IN
    IF open = {} THEN s
    ELSE LET n == CHOOSE n \in open: TRUE IN <<s[n]>> \o RemoveAt(s, n)

StageAOver ==
    /\ pc = "A" /\ todo = <<>>
    /\ IF kept = {}
       THEN pc' = "close" /\ raised' = TRUE /\ UNCHANGED <<todo, ranked>>
       ELSE /\ pc' = "B" /\ UNCHANGED raised
            /\ \E s \in SetToSeqs(kept):
                 /\ IsRanking(s)
                 /\ todo' = OpenFirst(SubSeq(s, 1, IF Len(s) < TopK THEN Len(s) ELSE TopK))
            /\ ranked' = ToSet(todo')
    /\ kept' = {}
    /\ UNCHANGED <<point, session, alive, stubborn, stuck, results, best>>

\* One concurrency of the sweep.
SweepPoint ==
    /\ pc = "Bsweep" /\ point <= Points
    /\ \E k \in Outcome:
         results' = IF k = None THEN results
                    ELSE results \cup {Result(Plan(Head(todo)), "B", k)}
    /\ point' = point + 1
    /\ UNCHANGED <<pc, todo, ranked, kept, session, alive, stubborn, stuck, best, raised>>

\* The sweep has used its points or was told to stop.  Even without a new
\* result the candidate keeps what stage A measured.
SweepEnds ==
    /\ pc = "Bsweep" /\ point > 1
    /\ pc' = "B"
    /\ kept' = kept \cup {Head(todo)} /\ todo' = Tail(todo) /\ point' = 0
    /\ UNCHANGED <<ranked, session, alive, stubborn, stuck, results, best, raised>>

\* The results choose_concurrency and select_best choose among.
Pool(rs) ==
    LET ok == {r \in rs: r.kind = "ok"} IN
    IF ok # {} THEN ok ELSE {r \in rs: r.kind = "slow"}

\* Results of the candidates that were swept, or of stage A when none could
\* be launched again.
Operating == {r \in results: r.plan.id \in (IF kept = {} THEN ranked ELSE kept)}

\* Stage C is left out when memory tuning is off, for the latency objective and
\* where the plan has no room for a larger fraction.
PickWinner ==
    /\ pc = "B" /\ todo = <<>>
    /\ IF Pool(Operating) = {}
       THEN pc' = "close" /\ raised' = TRUE /\ UNCHANGED best
       ELSE /\ best' \in Pool(Operating)
            /\ pc' \in {"C", "D"}
            /\ UNCHANGED raised
    /\ UNCHANGED <<todo, ranked, kept, point, session, alive, stubborn, stuck, results>>

----------------------------------------------------------------------------
(* Stages C and D                                                          *)

MemoryPoint ==
    /\ pc = "Cbench" /\ point <= 2 /\ point <= Points
    /\ \E k \in Outcome:
         results' = IF k = None THEN results
                    ELSE results \cup {Result(Raised(best.plan), "C", k)}
    /\ point' = point + 1
    /\ UNCHANGED <<pc, todo, ranked, kept, session, alive, stubborn, stuck, best, raised>>

\* Mutant of MemoryDecides: adopts the better score without asking whether the
\* result is eligible.
MemoryDecides_AnyKind ==
    LET found == {r \in results: r.stage = "C"} IN
    /\ pc = "Cbench"
    /\ IF Pool(found) = {} THEN pc' = "D" /\ UNCHANGED best
       ELSE \/ best' \in Pool(found) /\ pc' = "D"
            \/ pc' = "Cclose" /\ UNCHANGED best
    /\ UNCHANGED <<todo, ranked, kept, point, session, alive, stubborn, stuck, results, raised>>

\* Without a valid result the raised plan's session stays open; otherwise its
\* gain decides, and only an eligible result is adopted.
MemoryDecides ==
    LET found == {r \in results: r.stage = "C"} IN
    /\ pc = "Cbench"
    /\ IF Pool(found) = {} THEN pc' = "D" /\ UNCHANGED best
       ELSE \/ /\ \E r \in Pool(found): r.kind = "ok" /\ best' = r
               /\ pc' = "D"
            \/ pc' = "Cclose" /\ UNCHANGED best
    /\ UNCHANGED <<todo, ranked, kept, point, session, alive, stubborn, stuck, results, raised>>

CloseC ==
    /\ pc = "Cclose"
    /\ CloseThen("D")
    /\ UNCHANGED <<todo, ranked, kept, point, results, best>>

\* The confirmation replaces the preliminary result whatever it says.
Confirm ==
    /\ pc = "Dbench"
    /\ \E k \in Outcome:
         IF k = None THEN UNCHANGED <<results, best>>
         ELSE /\ results' = results \cup {Result(best.plan, "D", k)}
              /\ best' = Result(best.plan, "D", k)
    /\ pc' = "close"
    /\ UNCHANGED <<todo, ranked, kept, point, session, alive, stubborn, stuck, raised>>

\* Ctrl-C, or an error nobody handles.
Interrupt ==
    /\ pc \notin {"close", "done"}
    /\ pc' = "close" /\ raised' = TRUE
    /\ UNCHANGED <<todo, ranked, kept, point, session, alive, stubborn, stuck, results,
                   best>>

\* Mutant of Finish: the session is closed only when tuning succeeded.
Finish_OnSuccess ==
    /\ pc = "close"
    /\ IF session = None \/ raised
       THEN pc' = "done" /\ UNCHANGED <<session, alive, stubborn, stuck, raised>>
       ELSE CloseThen("done")
    /\ UNCHANGED <<todo, ranked, kept, point, results, best>>

\* The finally block of tune().  A close that fails discards the outcome.
Finish ==
    /\ pc = "close"
    /\ IF session = None THEN pc' = "done" /\ UNCHANGED <<session, alive, stubborn, stuck, raised>>
       ELSE CloseThen("done")
    /\ UNCHANGED <<todo, ranked, kept, point, results, best>>

Tune == \/ CloseOther \/ Opened \/ OpenFails \/ Reuse \/ BenchA \/ CloseA
        \/ StageAOver \/ SweepPoint \/ SweepEnds \/ PickWinner \/ MemoryPoint
        \/ MemoryDecides \/ CloseC \/ Confirm \/ Finish

Next == Tune \/ ServerFails \/ EngineDies \/ Interrupt

Spec == Init /\ [][Next]_vars

\* The event loop keeps running the coroutine, and every call in it has a
\* timeout of its own.
FairSpec == Spec /\ WF_vars(Tune)

----------------------------------------------------------------------------
(* Properties                                                              *)

\* A measurement recorded for a plan was made on engines running that plan with
\* that memory fraction, however the session was passed on between the stages, and
\* with no engine of another plan on the GPUs, except for what a failed launch
\* left there: only a close that fails stops the tuning.
MeasuredAlone ==
    TypeOK /\ \A r \in results: r.on = r.plan /\ r.beside \subseteq stubborn

\* Whatever ended the tuning, the only engines of sessions left are those a close
\* reported.
NothingLeftOpen == pc = "done" => session = None /\ alive \subseteq stuck

\* If a swept candidate met the latency objective, the plan that goes into the
\* confirmation run met it too.
ObjectiveKept ==
    /\ pc \in {"C", "Cbench", "Cclose", "D", "Dbench"}
    /\ \E r \in Operating: r.kind = "ok" /\ r.stage \in {"A", "B"}
    => best.kind = "ok"

\* Tuning ends, however candidates fail and engines die.
TuneEnds == <>(pc = "done")

=============================================================================
