---------------------------- MODULE TunerProofs ----------------------------
(***************************************************************************)
(* What Tuner promises about the sessions it passes on between its stages, *)
(* for any number of candidates and sweep points.                          *)
(*                                                                         *)
(* MeasuredAlone is not inductive.  A measurement is made in the "bench"   *)
(* phases, and the session open there is of the plan measured because      *)
(* opening saw to it; no engine of another plan runs beside it because a   *)
(* close either ended the engines or ended the tuning.  SessionFits says   *)
(* the first for every phase, NoneBeside the second.                       *)
(*                                                                         *)
(* The last part is about the planner, whose answers the tuner is given    *)
(* and asks for: that they are sound for all hardware, models, requests    *)
(* and results, from lemmas on the operators an answer is built with.      *)
(* Recursive ones are reasoned about by induction over finite sets, whose  *)
(* parameter is the set of arguments for which the claim is true.          *)
(***************************************************************************)
EXTENDS Tuner, Planning, TLAPS, FiniteSetTheorems, SequenceTheorems, WellFoundedInduction

Stages == {"A", "Abench", "Aclose", "B", "Bsweep", "C", "Cbench", "Cclose", "D", "Dbench"}

\* The session open in a phase is of the plan the phase works on.
SessionFits ==
    /\ todo \in Seq(1..N)
    /\ pc \in {"Abench", "Aclose", "Bsweep"} => todo # <<>>
    /\ pc \in {"Aclose", "Cclose"} => session # None
    /\ pc \in {"Abench", "Bsweep"} => session.plan = Plan(Head(todo))
    /\ pc \in {"C", "Cbench", "Cclose", "D", "Dbench"} => best \in Results
    /\ pc = "Cbench" => session.plan = Raised(best.plan)
    /\ pc = "Dbench" => session.plan = best.plan

\* Engines of sessions are the open session's, but for those a close reported,
\* and such a close ends the tuning.
NoneBeside ==
    /\ \A p \in alive: p \in stuck \/ (session # None /\ p = session.plan)
    /\ pc \in Stages => stuck = {}
    /\ pc = "done" => session = None

IInv == MeasuredAlone /\ SessionFits /\ NoneBeside

\* At the start nothing is open and nothing lives.
LEMMA InitInv == Init => IInv
<1> SUFFICES ASSUME Init PROVE IInv
  OBVIOUS
<1>1. todo \in Seq(1..N)
  BY TunerAssumption DEF Init
<1>2. TypeOK
  BY DEF Init, TypeOK
<1> QED
  BY <1>1, <1>2 DEF Init, IInv, MeasuredAlone, SessionFits, NoneBeside, Stages

----------------------------------------------------------------------------
(* Operators                                                               *)

LEMMA PlanTypes == \A i \in 1..N: Plan(i) \in Plans
BY DEF Plan, Plans

LEMMA RankedLength ==
    ASSUME NEW S \in SUBSET (1..N), NEW s \in SetToSeqs(S)
    PROVE  s \in Seq(1..N) /\ Len(s) \in Nat
<1>1. Cardinality(S) \in Nat
  <2>1. IsFiniteSet(1..N)
    BY TunerAssumption, FS_Interval
  <2>2. IsFiniteSet(S)
    BY <2>1, FS_Subset
  <2> QED
    BY <2>2, FS_CardinalityType
<1>2. s \in [1..Cardinality(S) -> 1..N]
  BY DEF SetToSeqs
<1>3. s \in UNION {[1..n -> 1..N] : n \in Nat}
  BY <1>1, <1>2
<1> QED
  BY <1>3, SeqDef, LenProperties

\* What a ranking of candidates, cut and reordered, still is: a sequence of
\* candidates.
LEMMA RankingTypes ==
    ASSUME NEW S \in SUBSET (1..N), NEW s \in SetToSeqs(S), NEW k \in Nat, k <= Len(s)
    PROVE  OpenFirst(SubSeq(s, 1, k)) \in Seq(1..N)
<1> DEFINE t == SubSeq(s, 1, k)
<1>2. s \in Seq(1..N)
  BY RankedLength
<1>3. t \in Seq(1..N) /\ Len(t) = k
  <2>1. \A i \in 1..k: s[i] \in 1..N
    <3>1. Len(s) \in Nat
      BY <1>2, LenProperties
    <3>2. \A i \in 1..k: i \in 1..Len(s)
      BY <3>1
    <3> QED
      BY <1>2, <3>2, ElementOfSeq
  <2> QED
    BY <2>1, SubSeqProperties
<1>4. ASSUME NEW n \in 1..Len(t) PROVE <<t[n]>> \o RemoveAt(t, n) \in Seq(1..N)
  <2>1. SubSeq(t, 1, n - 1) \in Seq(1..N)
    BY <1>3
  <2>2. SubSeq(t, n + 1, Len(t)) \in Seq(1..N)
    BY <1>3
  <2>3. <<t[n]>> \in Seq(1..N)
    BY <1>3
  <2> QED
    BY <2>1, <2>2, <2>3 DEF RemoveAt
<1>5. DOMAIN t = 1..Len(t)
  BY <1>3
<1>6. CASE \E n \in DOMAIN t: session # None /\ t[n] = session.plan.id
  <2> DEFINE open == {n \in DOMAIN t: session # None /\ t[n] = session.plan.id}
             first == CHOOSE n \in open: TRUE
  <2>1. open # {}
    BY <1>6
  <2>2. first \in open
    BY <2>1
  <2>3. OpenFirst(t) = <<t[first]>> \o RemoveAt(t, first)
    BY <2>1 DEF OpenFirst
  <2> QED
    BY <1>4, <1>5, <2>2, <2>3 DEF t
<1>7. CASE ~\E n \in DOMAIN t: session # None /\ t[n] = session.plan.id
  BY <1>3, <1>7 DEF OpenFirst, t
<1> QED
  BY <1>6, <1>7

LEMMA PoolIsPart == ASSUME NEW rs PROVE Pool(rs) \subseteq rs
BY DEF Pool

----------------------------------------------------------------------------
(* Sessions                                                                *)

\* The plan of an open session is a plan, and so is the target of a stage.
LEMMA SessionTypes ==
    ASSUME IInv, session # None
    PROVE  session.plan \in Plans /\ session.dead \in BOOLEAN
BY DEF IInv, MeasuredAlone, TypeOK, Sessions

LEMMA TargetTypes ==
    ASSUME IInv, Opens
    PROVE  Target \in Plans
<1>1. CASE pc = "A" \/ pc = "B"
  <2>1. Head(todo) \in 1..N
    BY <1>1, HeadTailProperties DEF IInv, SessionFits, Opens
  <2> QED
    BY <1>1, <2>1 DEF Target, Plan, Plans
<1>2. CASE pc = "C"
  BY <1>2 DEF Target, Raised, IInv, SessionFits, Results, Plans
<1>3. CASE pc = "D"
  BY <1>3 DEF Target, IInv, SessionFits, Results, Plans
<1> QED
  BY <1>1, <1>2, <1>3 DEF Opens

\* A close leaves no engine of a session beside those it reports, and whatever
\* the stage goes on with, no session.
LEMMA CloseKeeps ==
    ASSUME IInv, session # None, NEW next, pc # "done", CloseThen(next), results' = results
    PROVE  /\ session' = None
           /\ alive' \subseteq Plans /\ stubborn' = stubborn /\ stuck' \subseteq Plans
           /\ pc' = next \/ pc' = "close"
           /\ \A p \in alive': p \in stuck'
           /\ pc' = "close" \/ stuck' = stuck
<1>1. session.plan \in Plans
  BY SessionTypes
<1>2. alive \subseteq Plans /\ stuck \subseteq Plans
  BY DEF IInv, MeasuredAlone, TypeOK
<1>3. \A p \in alive: p \in stuck \/ p = session.plan
  BY DEF IInv, NoneBeside
<1> QED
  BY <1>1, <1>2, <1>3 DEF CloseThen

\* What a benchmark of the open session records, where the session is of the plan
\* measured.
LEMMA ResultIsTrue ==
    ASSUME IInv, pc \in Stages, session # None, NEW s \in {"A", "B", "C", "D"},
           NEW k \in Kinds, NEW p \in Plans, session.plan = p
    PROVE  LET r == Result(p, s, k) IN
           r \in Results /\ r.on = r.plan /\ r.beside \subseteq stubborn
<1>1. \A other \in alive: other = p
  BY DEF IInv, NoneBeside
<1>2. (alive \cup stubborn) \ {p} \subseteq stubborn
  BY <1>1
<1>3. stubborn \subseteq Plans
  BY DEF IInv, MeasuredAlone, TypeOK
<1> QED
  BY <1>2, <1>3 DEF Result, Results

LEMMA OutcomeTypes == ASSUME NEW k \in Outcome, k # None PROVE k \in Kinds
BY DEF Outcome, Kinds

----------------------------------------------------------------------------
(* The steps                                                               *)

LEMMA CloseOtherInv == IInv /\ CloseOther => IInv'
<1> SUFFICES ASSUME IInv, CloseOther PROVE IInv'
  OBVIOUS
<1>1. /\ session' = None
      /\ alive' \subseteq Plans /\ stubborn' = stubborn /\ stuck' \subseteq Plans
      /\ pc' = pc \/ pc' = "close"
      /\ \A p \in alive': p \in stuck'
      /\ pc' = "close" \/ stuck' = stuck
  BY CloseKeeps DEF CloseOther, Opens
<1>2. TypeOK'
  BY <1>1 DEF CloseOther, Opens, IInv, MeasuredAlone, TypeOK
<1>3. MeasuredAlone'
  BY <1>1, <1>2 DEF CloseOther, IInv, MeasuredAlone
<1>4. SessionFits'
  BY <1>1 DEF CloseOther, Opens, IInv, SessionFits
<1>5. NoneBeside'
  BY <1>1 DEF CloseOther, Opens, IInv, NoneBeside, Stages
<1> QED
  BY <1>3, <1>4, <1>5 DEF IInv

LEMMA CloseAInv == IInv /\ CloseA => IInv'
<1> SUFFICES ASSUME IInv, CloseA PROVE IInv'
  OBVIOUS
<1>1. /\ session' = None
      /\ alive' \subseteq Plans /\ stubborn' = stubborn /\ stuck' \subseteq Plans
      /\ pc' = "A" \/ pc' = "close"
      /\ \A p \in alive': p \in stuck'
      /\ pc' = "close" \/ stuck' = stuck
  BY CloseKeeps DEF CloseA, IInv, SessionFits
<1>2. TypeOK'
  BY <1>1 DEF CloseA, IInv, MeasuredAlone, TypeOK
<1>3. MeasuredAlone'
  BY <1>1, <1>2 DEF CloseA, IInv, MeasuredAlone
<1>4. SessionFits'
  <2>1. Tail(todo) \in Seq(1..N)
    BY HeadTailProperties DEF CloseA, IInv, SessionFits
  <2> QED
    BY <1>1, <2>1 DEF CloseA, IInv, SessionFits
<1>5. NoneBeside'
  BY <1>1 DEF CloseA, IInv, NoneBeside, Stages
<1> QED
  BY <1>3, <1>4, <1>5 DEF IInv

LEMMA CloseCInv == IInv /\ CloseC => IInv'
<1> SUFFICES ASSUME IInv, CloseC PROVE IInv'
  OBVIOUS
<1>1. /\ session' = None
      /\ alive' \subseteq Plans /\ stubborn' = stubborn /\ stuck' \subseteq Plans
      /\ pc' = "D" \/ pc' = "close"
      /\ \A p \in alive': p \in stuck'
      /\ pc' = "close" \/ stuck' = stuck
  BY CloseKeeps DEF CloseC, IInv, SessionFits
<1>2. TypeOK'
  BY <1>1 DEF CloseC, IInv, MeasuredAlone, TypeOK
<1>3. MeasuredAlone'
  BY <1>1, <1>2 DEF CloseC, IInv, MeasuredAlone
<1>4. SessionFits'
  BY <1>1 DEF CloseC, IInv, SessionFits
<1>5. NoneBeside'
  BY <1>1 DEF CloseC, IInv, NoneBeside, Stages
<1> QED
  BY <1>3, <1>4, <1>5 DEF IInv

LEMMA FinishInv == IInv /\ Finish => IInv'
<1> SUFFICES ASSUME IInv, Finish PROVE IInv'
  OBVIOUS
<1>1. CASE session = None
  <2>1. pc' = "done" /\ UNCHANGED <<session, alive, stubborn, stuck, raised, todo, ranked,
                                    kept, point, results, best>>
    BY <1>1 DEF Finish
  <2>2. TypeOK'
    BY <2>1 DEF IInv, MeasuredAlone, TypeOK
  <2> QED
    BY <1>1, <2>1, <2>2 DEF IInv, MeasuredAlone, SessionFits, NoneBeside, Stages
<1>2. CASE session # None
  <2>1. /\ session' = None
        /\ alive' \subseteq Plans /\ stubborn' = stubborn /\ stuck' \subseteq Plans
        /\ pc' = "done" \/ pc' = "close"
        /\ \A p \in alive': p \in stuck'
    BY <1>2, CloseKeeps DEF Finish
  <2>2. TypeOK'
    BY <2>1 DEF Finish, IInv, MeasuredAlone, TypeOK
  <2> QED
    BY <2>1, <2>2 DEF Finish, IInv, MeasuredAlone, SessionFits, NoneBeside, Stages
<1> QED
  BY <1>1, <1>2

LEMMA OpenedInv == IInv /\ Opened => IInv'
<1> SUFFICES ASSUME IInv, Opened PROVE IInv'
  OBVIOUS
<1>1. Target \in Plans /\ pc \in {"A", "B", "C", "D"}
  BY TargetTypes DEF Opened, Opens
<1>2. session' \in Sessions /\ session' # None /\ session'.plan = Target
      /\ \A p \in alive': p = Target
  <2>1. stuck = {}
    BY <1>1 DEF IInv, NoneBeside, Stages
  <2>2. CASE Serves(Target) /\ UNCHANGED <<session, alive>>
    BY <2>1, <2>2 DEF Serves, IInv, NoneBeside, MeasuredAlone, TypeOK
  <2>3. CASE session = None /\ session' = [plan |-> Target, dead |-> FALSE]
             /\ alive' = alive \cup {Target}
    <3>1. [plan |-> Target, dead |-> FALSE] \in Sessions
      BY <1>1 DEF Sessions
    <3>2. alive = {}
      BY <2>1, <2>3 DEF IInv, NoneBeside
    <3> QED
      BY <2>3, <3>1, <3>2, NoneAssumption
  <2> QED
    BY <2>2, <2>3 DEF Opened
<1>3. /\ pc = "A" => pc' = "Abench" /\ Target = Plan(Head(todo))
      /\ pc = "B" => pc' = "Bsweep" /\ Target = Plan(Head(todo))
      /\ pc = "C" => pc' = "Cbench" /\ Target = Raised(best.plan)
      /\ pc = "D" => pc' = "Dbench" /\ Target = best.plan
  BY <1>1 DEF Opened, Target
<1>4. TypeOK'
  BY <1>1, <1>2, <1>3 DEF Opened, IInv, MeasuredAlone, TypeOK
<1>5. MeasuredAlone'
  BY <1>4 DEF Opened, IInv, MeasuredAlone
<1>6. SessionFits'
  BY <1>1, <1>2, <1>3 DEF Opened, Opens, IInv, SessionFits
<1>7. NoneBeside'
  BY <1>1, <1>2, <1>3 DEF Opened, IInv, NoneBeside, Stages
<1> QED
  BY <1>5, <1>6, <1>7 DEF IInv

LEMMA OpenFailsInv == IInv /\ OpenFails => IInv'
<1> SUFFICES ASSUME IInv, OpenFails PROVE IInv'
  OBVIOUS
<1>1. Target \in Plans /\ pc \in {"A", "B", "C", "D"}
  BY TargetTypes DEF OpenFails, Opens
<1>2. stubborn' \subseteq Plans /\ stubborn \subseteq stubborn'
  BY <1>1 DEF OpenFails, IInv, MeasuredAlone, TypeOK
<1>3. pc' \in {"A", "B", "D", "close"} /\ (pc' = "D" => pc = "C")
      /\ (pc' = "A" => pc = "A") /\ (pc' = "B" => pc = "B")
  BY <1>1 DEF OpenFails
<1>4. todo' \in Seq(1..N)
  BY HeadTailProperties DEF OpenFails, Opens, IInv, SessionFits
<1>5. TypeOK'
  BY <1>2, <1>3 DEF OpenFails, IInv, MeasuredAlone, TypeOK
<1>6. MeasuredAlone'
  BY <1>2, <1>5 DEF OpenFails, IInv, MeasuredAlone
<1>7. SessionFits'
  BY <1>3, <1>4 DEF OpenFails, IInv, SessionFits
<1>8. NoneBeside'
  BY <1>1, <1>3 DEF OpenFails, IInv, NoneBeside, Stages
<1> QED
  BY <1>6, <1>7, <1>8 DEF IInv

LEMMA PassiveInv == IInv /\ (ServerFails \/ EngineDies \/ Interrupt) => IInv'
<1> SUFFICES ASSUME IInv, ServerFails \/ EngineDies \/ Interrupt PROVE IInv'
  OBVIOUS
<1>1. CASE ServerFails
  BY <1>1 DEF ServerFails, Opens, IInv, MeasuredAlone, TypeOK, SessionFits, NoneBeside, Stages
<1>2. CASE EngineDies
  <2>1. session' \in Sessions /\ session' # None /\ session'.plan = session.plan
    BY <1>2, NoneAssumption DEF EngineDies, IInv, MeasuredAlone, TypeOK, Sessions
  <2>2. UNCHANGED <<pc, todo, ranked, kept, alive, stubborn, stuck, results, best>>
    BY <1>2 DEF EngineDies
  <2>3. TypeOK'
    BY <2>1, <2>2 DEF IInv, MeasuredAlone, TypeOK
  <2> QED
    BY <1>2, <2>1, <2>2, <2>3 DEF EngineDies, IInv, MeasuredAlone, SessionFits, NoneBeside
<1>3. CASE Interrupt
  BY <1>3 DEF Interrupt, IInv, MeasuredAlone, TypeOK, SessionFits, NoneBeside, Stages
<1> QED
  BY <1>1, <1>2, <1>3

LEMMA ReuseInv == IInv /\ Reuse => IInv'
<1> SUFFICES ASSUME IInv, Reuse PROVE IInv'
  OBVIOUS
<1>1. Head(todo) \in 1..N /\ Tail(todo) \in Seq(1..N)
  BY HeadTailProperties DEF Reuse, IInv, SessionFits
<1>2. Plan(Head(todo)) \in Plans
  BY <1>1, PlanTypes
<1>3. PICK k \in Kinds:
        results' = results \cup {[plan |-> Plan(Head(todo)), stage |-> "A", kind |-> k,
                                  on |-> Plan(Head(todo)), beside |-> {}]}
  BY DEF Reuse
<1>4. results' \subseteq Results /\ \A r \in results' \ results: r.on = r.plan /\ r.beside = {}
  BY <1>2, <1>3 DEF IInv, MeasuredAlone, TypeOK, Results
<1>5. TypeOK'
  BY <1>1, <1>4 DEF Reuse, IInv, MeasuredAlone, TypeOK
<1>6. MeasuredAlone'
  BY <1>4, <1>5 DEF Reuse, IInv, MeasuredAlone
<1>7. SessionFits' /\ NoneBeside'
  BY <1>1 DEF Reuse, IInv, SessionFits, NoneBeside
<1> QED
  BY <1>6, <1>7 DEF IInv

\* A benchmark adds nothing or a true result.
LEMMA BenchKeeps ==
    ASSUME IInv, pc \in Stages, session # None, NEW s \in {"A", "B", "C", "D"},
           NEW p \in Plans, session.plan = p, NEW k \in Outcome,
           results' = IF k = None THEN results ELSE results \cup {Result(p, s, k)},
           stubborn' = stubborn
    PROVE  /\ results' \subseteq Results
           /\ \A r \in results': r.on = r.plan /\ r.beside \subseteq stubborn'
<1>1. results \subseteq Results /\ \A r \in results: r.on = r.plan /\ r.beside \subseteq stubborn
  BY DEF IInv, MeasuredAlone, TypeOK
<1>2. CASE k = None
  BY <1>1, <1>2
<1>3. CASE k # None
  <2>1. k \in Kinds
    BY <1>3, OutcomeTypes
  <2>2. LET r == Result(p, s, k) IN
        r \in Results /\ r.on = r.plan /\ r.beside \subseteq stubborn
    BY <2>1, ResultIsTrue
  <2> QED
    BY <1>1, <1>3, <2>2
<1> QED
  BY <1>2, <1>3

LEMMA BenchAInv == IInv /\ BenchA => IInv'
<1> SUFFICES ASSUME IInv, BenchA PROVE IInv'
  OBVIOUS
<1>1. /\ pc = "Abench" /\ session # None /\ todo # <<>>
      /\ session.plan = Plan(Head(todo)) /\ pc \in Stages
  BY DEF BenchA, IInv, MeasuredAlone, TypeOK, SessionFits, Stages
<1>2. Head(todo) \in 1..N
  BY <1>1, HeadTailProperties DEF IInv, SessionFits
<1>3. Plan(Head(todo)) \in Plans
  BY <1>2, PlanTypes
<1>4. /\ results' \subseteq Results
      /\ \A r \in results': r.on = r.plan /\ r.beside \subseteq stubborn'
  <2>1. PICK k \in Outcome:
          results' = IF k = None THEN results
                     ELSE results \cup {Result(Plan(Head(todo)), "A", k)}
    BY DEF BenchA
  <2>2. stubborn' = stubborn
    BY DEF BenchA
  <2> QED
    BY <1>1, <1>3, <2>1, <2>2, BenchKeeps
<1>5. /\ kept' \subseteq 1..N
      /\ (pc' = "A" /\ todo' = <<>>) \/ (pc' = "Aclose" /\ todo' = todo)
      /\ UNCHANGED <<ranked, session, alive, stubborn, stuck, best>>
  BY <1>2 DEF BenchA, IInv, MeasuredAlone, TypeOK
<1>6. TypeOK'
  BY <1>4, <1>5 DEF IInv, MeasuredAlone, TypeOK
<1>7. MeasuredAlone'
  BY <1>4, <1>6 DEF MeasuredAlone
<1>8. SessionFits'
  <2>1. todo' \in Seq(1..N)
    <3>1. todo \in Seq(1..N) /\ <<>> \in Seq(1..N)
      BY EmptySeq DEF IInv, SessionFits
    <3> QED
      BY <1>5, <3>1
  <2> QED
    BY <1>1, <1>5, <2>1 DEF SessionFits
<1>9. NoneBeside'
  BY <1>1, <1>5 DEF IInv, NoneBeside, Stages
<1> QED
  BY <1>7, <1>8, <1>9 DEF IInv

LEMMA SweepPointInv == IInv /\ SweepPoint => IInv'
<1> SUFFICES ASSUME IInv, SweepPoint PROVE IInv'
  OBVIOUS
<1>1. /\ pc = "Bsweep" /\ session # None /\ todo # <<>>
      /\ session.plan = Plan(Head(todo)) /\ pc \in Stages
  BY DEF SweepPoint, IInv, MeasuredAlone, TypeOK, SessionFits, Stages
<1>2. Plan(Head(todo)) \in Plans
  BY <1>1, HeadTailProperties, PlanTypes DEF IInv, SessionFits
<1>3. UNCHANGED <<pc, todo, ranked, kept, session, alive, stubborn, stuck, best>>
  BY DEF SweepPoint
<1>4. /\ results' \subseteq Results
      /\ \A r \in results': r.on = r.plan /\ r.beside \subseteq stubborn'
  <2>1. PICK k \in Outcome:
          results' = IF k = None THEN results
                     ELSE results \cup {Result(Plan(Head(todo)), "B", k)}
    BY DEF SweepPoint
  <2> QED
    BY <1>1, <1>2, <1>3, <2>1, BenchKeeps
<1>5. TypeOK'
  BY <1>3, <1>4 DEF IInv, MeasuredAlone, TypeOK
<1> QED
  BY <1>3, <1>4, <1>5 DEF IInv, MeasuredAlone, SessionFits, NoneBeside

LEMMA MemoryPointInv == IInv /\ MemoryPoint => IInv'
<1> SUFFICES ASSUME IInv, MemoryPoint PROVE IInv'
  OBVIOUS
<1> DEFINE p == Raised(best.plan)
<1>1. /\ pc = "Cbench" /\ session # None /\ best \in Results /\ pc \in Stages
      /\ session.plan = Raised(best.plan)
  BY DEF MemoryPoint, IInv, MeasuredAlone, TypeOK, SessionFits, Stages
<1>2. p \in Plans /\ session.plan = p
  BY <1>1 DEF Results, Plans, Raised
<1>3. UNCHANGED <<pc, todo, ranked, kept, session, alive, stubborn, stuck, best>>
  BY DEF MemoryPoint
<1>4. /\ results' \subseteq Results
      /\ \A r \in results': r.on = r.plan /\ r.beside \subseteq stubborn'
  <2>1. PICK k \in Outcome:
          results' = IF k = None THEN results ELSE results \cup {Result(p, "C", k)}
    BY DEF MemoryPoint
  <2> QED
    BY <1>1, <1>2, <1>3, <2>1, BenchKeeps
<1>5. TypeOK'
  BY <1>3, <1>4 DEF IInv, MeasuredAlone, TypeOK
<1> QED
  BY <1>3, <1>4, <1>5 DEF IInv, MeasuredAlone, SessionFits, NoneBeside

LEMMA ConfirmInv == IInv /\ Confirm => IInv'
<1> SUFFICES ASSUME IInv, Confirm PROVE IInv'
  OBVIOUS
<1>1. /\ pc = "Dbench" /\ session # None /\ best \in Results /\ pc \in Stages
      /\ session.plan = best.plan /\ best.plan \in Plans
  BY DEF Confirm, IInv, MeasuredAlone, TypeOK, SessionFits, Stages, Results
<1>2. pc' = "close" /\ UNCHANGED <<todo, ranked, kept, session, alive, stubborn, stuck>>
  BY DEF Confirm
<1>3. PICK k \in Outcome:
        /\ results' = IF k = None THEN results ELSE results \cup {Result(best.plan, "D", k)}
        /\ best' = IF k = None THEN best ELSE Result(best.plan, "D", k)
  BY DEF Confirm
<1>4. /\ results' \subseteq Results
      /\ \A r \in results': r.on = r.plan /\ r.beside \subseteq stubborn'
  BY <1>1, <1>2, <1>3, BenchKeeps
<1>5. best' \in Results
  BY <1>1, <1>3, <1>4
<1>6. TypeOK'
  BY <1>2, <1>4, <1>5 DEF IInv, MeasuredAlone, TypeOK
<1> QED
  BY <1>1, <1>2, <1>4, <1>5, <1>6 DEF IInv, MeasuredAlone, SessionFits, NoneBeside, Stages

LEMMA StageAOverInv == IInv /\ StageAOver => IInv'
<1> SUFFICES ASSUME IInv, StageAOver PROVE IInv'
  OBVIOUS
<1>1. UNCHANGED <<session, alive, stubborn, stuck, results, best>> /\ kept' = {} /\ pc = "A"
  BY DEF StageAOver
<1>2. /\ pc' = "close" \/ pc' = "B"
      /\ todo' \in Seq(1..N) /\ ranked' \subseteq 1..N
  <2>1. CASE kept = {}
    BY <2>1 DEF StageAOver, IInv, MeasuredAlone, TypeOK, SessionFits
  <2>2. CASE kept # {}
    <3>1. kept \in SUBSET (1..N)
      BY DEF IInv, MeasuredAlone, TypeOK
    <3>2. PICK s \in SetToSeqs(kept):
            todo' = OpenFirst(SubSeq(s, 1, IF Len(s) < TopK THEN Len(s) ELSE TopK))
      BY <2>2 DEF StageAOver
    <3> DEFINE k == IF Len(s) < TopK THEN Len(s) ELSE TopK
    <3>3. Len(s) \in Nat
      BY <3>1, RankedLength
    <3>4. k \in Nat /\ k <= Len(s)
      BY <3>3, TunerAssumption
    <3>5. OpenFirst(SubSeq(s, 1, k)) \in Seq(1..N)
      BY <3>1, <3>4, RankingTypes
    <3>6. todo' \in Seq(1..N)
      BY <3>2, <3>5
    <3>7. ranked' = ToSet(todo') /\ pc' = "B"
      BY <2>2 DEF StageAOver
    <3>8. \A i \in DOMAIN todo': todo'[i] \in 1..N
      BY <3>6, ElementOfSeq, LenProperties
    <3> QED
      BY <3>6, <3>7, <3>8 DEF ToSet
  <2> QED
    BY <2>1, <2>2
<1>3. TypeOK'
  BY <1>1, <1>2 DEF IInv, MeasuredAlone, TypeOK
<1> QED
  BY <1>1, <1>2, <1>3 DEF IInv, MeasuredAlone, SessionFits, NoneBeside, Stages

LEMMA SweepEndsInv == IInv /\ SweepEnds => IInv'
<1> SUFFICES ASSUME IInv, SweepEnds PROVE IInv'
  OBVIOUS
<1>1. Head(todo) \in 1..N /\ Tail(todo) \in Seq(1..N) /\ pc = "Bsweep"
  BY HeadTailProperties DEF SweepEnds, IInv, SessionFits
<1>2. TypeOK'
  BY <1>1 DEF SweepEnds, IInv, MeasuredAlone, TypeOK
<1> QED
  BY <1>1, <1>2 DEF SweepEnds, IInv, MeasuredAlone, SessionFits, NoneBeside, Stages

\* The later stages start from a result that was measured.
LEMMA PickWinnerInv == IInv /\ PickWinner => IInv'
<1> SUFFICES ASSUME IInv, PickWinner PROVE IInv'
  OBVIOUS
<1>1. Pool(Operating) \subseteq Results
  BY PoolIsPart DEF Operating, IInv, MeasuredAlone, TypeOK
<1>2. pc = "B" /\ UNCHANGED <<todo, ranked, kept, session, alive, stubborn, stuck, results>>
  BY DEF PickWinner
<1>3. \/ pc' = "close" /\ best' = best
      \/ pc' \in {"C", "D"} /\ best' \in Results
  BY <1>1 DEF PickWinner
<1>4. TypeOK'
  BY <1>2, <1>3 DEF IInv, MeasuredAlone, TypeOK
<1> QED
  BY <1>2, <1>3, <1>4 DEF IInv, MeasuredAlone, SessionFits, NoneBeside, Stages

LEMMA MemoryDecidesInv == IInv /\ MemoryDecides => IInv'
<1> SUFFICES ASSUME IInv, MemoryDecides PROVE IInv'
  OBVIOUS
<1> DEFINE found == {r \in results: r.stage = "C"}
<1>1. Pool(found) \subseteq Results
  BY PoolIsPart DEF IInv, MeasuredAlone, TypeOK
<1>2. /\ pc = "Cbench" /\ session # None /\ best \in Results
      /\ UNCHANGED <<todo, ranked, kept, session, alive, stubborn, stuck, results>>
  BY DEF MemoryDecides, IInv, MeasuredAlone, TypeOK, SessionFits
<1>3. pc' \in {"D", "Cclose"} /\ best' \in Results
  BY <1>1, <1>2 DEF MemoryDecides
<1>4. TypeOK'
  BY <1>2, <1>3 DEF IInv, MeasuredAlone, TypeOK
<1> QED
  BY <1>2, <1>3, <1>4 DEF IInv, MeasuredAlone, SessionFits, NoneBeside, Stages

----------------------------------------------------------------------------
(* Theorems                                                                *)

LEMMA StepInv == IInv /\ [Next]_vars => IInv'
<1> SUFFICES ASSUME IInv, [Next]_vars PROVE IInv'
  OBVIOUS
<1>1. CASE UNCHANGED vars
  BY <1>1 DEF vars, IInv, MeasuredAlone, TypeOK, SessionFits, NoneBeside
<1>2. CASE CloseOther \/ CloseA \/ CloseC \/ Finish
  BY <1>2, CloseOtherInv, CloseAInv, CloseCInv, FinishInv
<1>3. CASE Opened \/ OpenFails \/ Reuse
  BY <1>3, OpenedInv, OpenFailsInv, ReuseInv
<1>4. CASE BenchA \/ SweepPoint \/ MemoryPoint \/ Confirm
  BY <1>4, BenchAInv, SweepPointInv, MemoryPointInv, ConfirmInv
<1>5. CASE StageAOver \/ SweepEnds \/ PickWinner \/ MemoryDecides
  BY <1>5, StageAOverInv, SweepEndsInv, PickWinnerInv, MemoryDecidesInv
<1>6. CASE ServerFails \/ EngineDies \/ Interrupt
  BY <1>6, PassiveInv
<1> QED
  BY <1>1, <1>2, <1>3, <1>4, <1>5, <1>6 DEF Next, Tune

\* The inductive invariant: each phase's session, and what runs beside it.
THEOREM Inductive == Spec => []IInv
BY InitInv, StepInv, PTL DEF Spec

\* Every result of a tuning was measured on engines of the very plan it is recorded
\* for, with no other session's engines on the GPUs: for any number of candidates,
\* of swept ones and of sweep points.
THEOREM ResultsAreTheirPlans == Spec => []MeasuredAlone
<1>1. IInv => MeasuredAlone
  BY DEF IInv
<1> QED
  BY <1>1, Inductive, PTL

\* A tuning that has ended leaves no engine of a session but those a close reported.
THEOREM SessionsEnd == Spec => []NothingLeftOpen
<1>1. IInv => NothingLeftOpen
  BY DEF IInv, NoneBeside, NothingLeftOpen
<1> QED
  BY <1>1, Inductive, PTL

Winner == {"C", "Cbench", "Cclose", "D", "Dbench"}

\* The results the winner was chosen among: stages C and D add none to them.
Chosen == {r \in Operating: r.kind = "ok" /\ r.stage \in {"A", "B"}}

LEMMA ChosenKept ==
    ASSUME UNCHANGED <<ranked, kept>>,
           \A r \in results' \ results: r.stage = "C"
    PROVE  Chosen' \subseteq Chosen
BY DEF Chosen, Operating

LEMMA ObjectiveInit == Init => ObjectiveKept
BY DEF Init, ObjectiveKept

\* The winner's objective is decided where it is picked, and stage C replaces it only
\* by a result that meets the objective too.
LEMMA ObjectiveStep == ObjectiveKept /\ [Next]_vars => ObjectiveKept'
<1> SUFFICES ASSUME ObjectiveKept, [Next]_vars, pc' \in Winner, Chosen' # {}
             PROVE  best'.kind = "ok"
  BY DEF ObjectiveKept, Winner, Chosen
<1>1. ASSUME pc \in Winner, best' = best, UNCHANGED <<ranked, kept>>,
             \A r \in results' \ results: r.stage = "C"
      PROVE  best'.kind = "ok"
  BY <1>1, ChosenKept DEF ObjectiveKept, Winner, Chosen
<1>2. CASE UNCHANGED vars
  BY <1>1, <1>2 DEF vars
<1>3. CASE CloseOther \/ Opened \/ OpenFails \/ ServerFails \/ EngineDies
  <2>1. pc \in Winner /\ UNCHANGED <<best, ranked, kept, results>>
    BY <1>3 DEF CloseOther, CloseThen, Opened, OpenFails, ServerFails, EngineDies, Opens, Winner
  <2> QED
    BY <1>1, <2>1
<1>4. CASE PickWinner
  <2>1. UNCHANGED <<ranked, kept, results>> /\ best' \in Pool(Operating)
    BY <1>4 DEF PickWinner, Winner
  <2>2. Chosen # {}
    BY <2>1 DEF Chosen, Operating
  <2>3. {r \in Operating: r.kind = "ok"} # {}
    BY <2>2 DEF Chosen
  <2> QED
    BY <2>1, <2>3 DEF Pool
<1>5. CASE MemoryPoint
  <2>1. pc \in Winner /\ UNCHANGED <<best, ranked, kept>>
    BY <1>5 DEF MemoryPoint, Winner
  <2>2. \A r \in results' \ results: r.stage = "C"
    BY <1>5 DEF MemoryPoint, Result
  <2> QED
    BY <1>1, <2>1, <2>2
<1>6. CASE MemoryDecides
  <2>1. pc \in Winner /\ UNCHANGED <<ranked, kept, results>>
    BY <1>6 DEF MemoryDecides, Winner
  <2>2. best' = best \/ best'.kind = "ok"
    BY <1>6 DEF MemoryDecides
  <2> QED
    BY <1>1, <2>1, <2>2
<1>7. CASE CloseC
  BY <1>1, <1>7 DEF CloseC, Winner
<1>8. CASE Reuse \/ BenchA \/ CloseA \/ StageAOver \/ SweepPoint \/ SweepEnds \/ Confirm
           \/ Finish \/ Interrupt
  <2>1. pc' \notin Winner
    BY <1>8 DEF Reuse, BenchA, CloseA, CloseThen, StageAOver, SweepPoint, SweepEnds, Confirm,
                Finish, Interrupt, Winner
  <2> QED
    BY <2>1
<1> QED
  BY <1>2, <1>3, <1>4, <1>5, <1>6, <1>7, <1>8 DEF Next, Tune

\* If a swept candidate met the latency objective, so does the plan that goes into the
\* confirmation run.
THEOREM WinnerMeetsObjective == Spec => []ObjectiveKept
BY ObjectiveInit, ObjectiveStep, PTL DEF Spec

----------------------------------------------------------------------------
(* The planner                                                             *)

\* The larger and the smaller of two or three numbers.
LEMMA MaxOf ==
    /\ \A a, b \in Int: Max({a, b}) = IF a >= b THEN a ELSE b
    /\ \A a, b, c \in Int: /\ Max({a, b, c}) \in {a, b, c}
                           /\ Max({a, b, c}) >= a /\ Max({a, b, c}) >= b /\ Max({a, b, c}) >= c
    /\ \A a, b \in Int: Min({a, b}) = IF a <= b THEN a ELSE b
<1>1. ASSUME NEW a \in Int, NEW b \in Int
      PROVE  Max({a, b}) = IF a >= b THEN a ELSE b
  <2>1. CASE a >= b
    <3>1. \A x \in {a, b}: (\A y \in {a, b}: x >= y) <=> x = a
      BY <2>1
    <3> QED
      BY <3>1, <2>1 DEF Max
  <2>2. CASE ~(a >= b)
    <3>1. \A x \in {a, b}: (\A y \in {a, b}: x >= y) <=> x = b
      BY <2>2
    <3> QED
      BY <3>1, <2>2 DEF Max
  <2> QED
    BY <2>1, <2>2
<1>2. ASSUME NEW a \in Int, NEW b \in Int, NEW c \in Int
      PROVE  /\ Max({a, b, c}) \in {a, b, c}
             /\ Max({a, b, c}) >= a /\ Max({a, b, c}) >= b /\ Max({a, b, c}) >= c
  <2>1. \E x \in {a, b, c}: \A y \in {a, b, c}: x >= y
    OBVIOUS
  <2>2. /\ Max({a, b, c}) \in {a, b, c}
        /\ \A y \in {a, b, c}: Max({a, b, c}) >= y
    BY <2>1, Zenon DEF Max
  <2> QED
    BY <2>2
<1>3. ASSUME NEW a \in Int, NEW b \in Int
      PROVE  Min({a, b}) = IF a <= b THEN a ELSE b
  <2>1. CASE a <= b
    <3>1. \A x \in {a, b}: (\A y \in {a, b}: x <= y) <=> x = a
      BY <2>1
    <3> QED
      BY <3>1, <2>1 DEF Min
  <2>2. CASE ~(a <= b)
    <3>1. \A x \in {a, b}: (\A y \in {a, b}: x <= y) <=> x = b
      BY <2>2
    <3> QED
      BY <3>1, <2>2 DEF Min
  <2> QED
    BY <2>1, <2>2
<1> QED
  BY <1>1, <1>2, <1>3

\* A set of natural numbers has a least one.
LEMMA LeastOf ==
    ASSUME NEW S \in SUBSET Nat, S # {}
    PROVE  Min(S) \in S /\ \A x \in S: Min(S) <= x
<1> DEFINE R == {p \in Nat \X Nat: p[1] < p[2]}
<1>1. IsWellFoundedOn(R, Nat)
  BY NatLessThanWellFounded DEF OpToRel
<1>2. PICK x \in S: \A y \in S: ~(<<y, x>> \in R)
  <2> HIDE DEF R
  <2> QED
    BY <1>1, WFMin
<1>3. \A y \in S: x <= y
  <2>1. ASSUME NEW y \in S
        PROVE  x <= y
    <3>1. <<y, x>> \in Nat \X Nat
      OBVIOUS
    <3>2. ~(y < x)
      BY <1>2, <3>1
    <3> QED
      BY <3>2
  <2> QED
    BY <2>1
<1> QED
  BY <1>2, <1>3, Zenon DEF Min

\* What no element exceeds is the maximum.
LEMMA LargestIs ==
    ASSUME NEW S \in SUBSET Nat, NEW m \in S, \A x \in S: x <= m
    PROVE  Max(S) = m
<1>1. \A x \in S: (\A y \in S: x >= y) => x = m
  <2>1. ASSUME NEW x \in S, \A y \in S: x >= y
        PROVE  x = m
    <3>1. x >= m /\ x <= m /\ x \in Nat /\ m \in Nat
      BY <2>1
    <3> QED
      BY <3>1
  <2> QED
    BY <2>1
<1>2. \A y \in S: m >= y
  OBVIOUS
<1> QED
  BY <1>1, <1>2, Zenon DEF Max

\* What Euclidean division means.
LEMMA DivMeans ==
    ASSUME NEW a \in Int, NEW b \in Nat \ {0}
    PROVE  /\ a \div b \in Int
           /\ b * (a \div b) <= a /\ a < b * (a \div b) + b
           /\ a >= 0 => a \div b >= 0
OBVIOUS

\* Products by a natural number keep the order.
LEMMA ProductGrows ==
    ASSUME NEW a \in Int, NEW b \in Int, a <= b, NEW c \in Nat
    PROVE  a * c <= b * c
OBVIOUS

----------------------------------------------------------------------------
(* Induction by size                                                       *)

\* Induction over data of which m is the size: what holds of x when it holds of all
\* that is smaller holds of all.  A is the set of those it holds of.
LEMMA SizeInduction ==
    ASSUME NEW D, NEW m \in [D -> Nat], NEW A,
           \A x \in D: (\A y \in D: m[y] < m[x] => y \in A) => x \in A
    PROVE  D \subseteq A
<1> DEFINE S == {m[x]: x \in D \ A}
<1> SUFFICES ASSUME D \ A # {}
             PROVE  FALSE
  OBVIOUS
<1>1. S \in SUBSET Nat /\ S # {}
  OBVIOUS
<1>2. PICK x \in D \ A: \A y \in D \ A: m[x] <= m[y]
  <2> HIDE DEF S
  <2>1. PICK k \in S: \A l \in S: k <= l
    BY <1>1, LeastOf
  <2> QED
    BY <2>1 DEF S
<1>3. \A y \in D: m[y] < m[x] => y \in A
  <2> SUFFICES ASSUME NEW y \in D, m[y] < m[x], y \notin A
               PROVE  FALSE
    OBVIOUS
  <2>1. m[x] <= m[y] /\ m[x] \in Nat /\ m[y] \in Nat
    BY <1>2
  <2> QED
    BY <2>1
<1> QED
  BY <1>2, <1>3

\* What is true of 0 and stays true up to n.
LEMMA UpToN ==
    ASSUME NEW n \in Nat, NEW A, 0 \in A, \A j \in 0..n: j + 1 \in 0..n /\ j \in A => j + 1 \in A
    PROVE  0..n \subseteq A
<1> DEFINE D == 0..n
<1> DEFINE m == [j \in D |-> j]
<1>1. m \in [D -> Nat]
  OBVIOUS
<1>2. \A x \in D: (\A y \in D: m[y] < m[x] => y \in A) => x \in A
  <2> SUFFICES ASSUME NEW x \in D, \A y \in D: m[y] < m[x] => y \in A
               PROVE  x \in A
    OBVIOUS
  <2>1. CASE x = 0
    BY <2>1
  <2>2. CASE x # 0
    <3>1. x - 1 \in D /\ (x - 1) + 1 = x /\ m[x - 1] < m[x]
      BY <2>2
    <3> QED
      BY <3>1
  <2> QED
    BY <2>1, <2>2
<1>3. D \subseteq A
  <2> HIDE DEF m, D
  <2> QED
    BY <1>1, <1>2, SizeInduction
<1> QED
  BY <1>3

\* F maps an approximation of a function to the next one, which for x only needs the
\* values for what is smaller; no size exceeds b.
Recursive(D, V, m, b, F) ==
    /\ V # {} /\ m \in [D -> Nat] /\ b \in Nat /\ \A x \in D: m[x] <= b
    /\ F \in [[D -> V] -> [D -> V]]
    /\ \A f, g \in [D -> V]: \A x \in D:
         (\A y \in D: m[y] < m[x] => f[y] = g[y]) => F[f][x] = F[g][x]

\* Then the recursive function exists.
LEMMA Recursion ==
    ASSUME NEW D, NEW V, NEW m, NEW b, NEW F, Recursive(D, V, m, b, F)
    PROVE  \E f \in [D -> V]: f = F[f]
<1> USE DEF Recursive
<1> DEFINE Good(f, n) == f \in [D -> V] /\ \A x \in D: m[x] < n => f[x] = F[f][x]
<1> DEFINE A == {n \in 0..b + 1: \E f: Good(f, n)}
<1>1. 0 \in A
  <2>1. PICK v: v \in V
    OBVIOUS
  <2>2. Good([x \in D |-> v], 0)
    BY <2>1
  <2> QED
    BY <2>2
<1>2. \A j \in 0..b + 1: j + 1 \in 0..b + 1 /\ j \in A => j + 1 \in A
  <2> SUFFICES ASSUME NEW j \in 0..b + 1, j + 1 \in 0..b + 1, j \in A
               PROVE  j + 1 \in A
    OBVIOUS
  <2>1. PICK f: Good(f, j)
    OBVIOUS
  <2> DEFINE g == F[f]
  <2>2. g \in [D -> V]
    BY <2>1
  <2>3. \A x \in D: m[x] < j + 1 => g[x] = F[g][x]
    <3> SUFFICES ASSUME NEW x \in D, m[x] < j + 1
                 PROVE  F[f][x] = F[g][x]
      OBVIOUS
    <3>1. \A y \in D: m[y] < m[x] => f[y] = g[y]
      <4> SUFFICES ASSUME NEW y \in D, m[y] < m[x]
                   PROVE  f[y] = g[y]
        OBVIOUS
      <4>1. m[y] < j
        <5>1. m[y] \in Nat /\ m[x] \in Nat
          OBVIOUS
        <5> QED
          BY <5>1
      <4> QED
        BY <2>1, <4>1
    <3> QED
      BY <2>1, <2>2, <3>1
  <2>4. Good(g, j + 1)
    BY <2>2, <2>3
  <2> QED
    BY <2>4
<1>3. b + 1 \in A
  <2> HIDE DEF A
  <2>1. 0..b + 1 \subseteq A
    BY <1>1, <1>2, UpToN
  <2> QED
    BY <2>1
<1>4. PICK f: Good(f, b + 1)
  BY <1>3
<1>5. f = F[f]
  <2>1. \A x \in D: f[x] = F[f][x]
    <3> SUFFICES ASSUME NEW x \in D
                 PROVE  f[x] = F[f][x]
      OBVIOUS
    <3>1. m[x] < b + 1
      <4>1. m[x] \in Nat /\ m[x] <= b
        OBVIOUS
      <4> QED
        BY <4>1
    <3> QED
      BY <1>4, <3>1
  <2>2. f \in [D -> V] /\ F[f] \in [D -> V]
    BY <1>4
  <2> QED
    BY <2>1, <2>2
<1> QED
  BY <1>4, <1>5

\* A chain of values, the j-th made from j and the one before.
IsChain(n, b, G, f) == f = [j \in 0..n |-> IF j = 0 THEN b ELSE G[<<j, f[j - 1]>>]]

\* It does, by induction on its length.
LEMMA Chain ==
    ASSUME NEW n \in Nat, NEW b, NEW G
    PROVE  \E f: IsChain(n, b, G, f)
<1> DEFINE Good(f, k) == f = [j \in 0..k |-> IF j = 0 THEN b ELSE G[<<j, f[j - 1]>>]]
<1> DEFINE A == {k \in 0..n: \E f: Good(f, k)}
<1>1. 0 \in A
  <2>1. \A j \in 0..0: j = 0
    OBVIOUS
  <2>2. Good([j \in 0..0 |-> b], 0)
    BY <2>1
  <2>3. \E f: Good(f, 0)
    BY <2>2
  <2> HIDE DEF Good
  <2> QED
    BY <2>3
<1>2. \A k \in 0..n: k + 1 \in 0..n /\ k \in A => k + 1 \in A
  <2> SUFFICES ASSUME NEW k \in 0..n, k + 1 \in 0..n, k \in A
               PROVE  k + 1 \in A
    OBVIOUS
  <2>1. PICK f: Good(f, k)
    OBVIOUS
  <2> DEFINE g == [j \in 0..k + 1 |-> IF j \in 0..k THEN f[j] ELSE G[<<j, f[k]>>]]
  <2>2. ASSUME NEW j \in 0..k + 1
        PROVE  g[j] = IF j = 0 THEN b ELSE G[<<j, g[j - 1]>>]
    <3>1. CASE j = 0
      BY <2>1, <3>1
    <3>2. CASE j \in 0..k /\ j # 0
      <4>1. j - 1 \in 0..k /\ j - 1 \in 0..k + 1
        BY <3>2
      <4>2. g[j] = f[j] /\ g[j - 1] = f[j - 1]
        BY <3>2, <4>1
      <4>3. f[j] = G[<<j, f[j - 1]>>]
        BY <2>1, <3>2
      <4> QED
        BY <3>2, <4>2, <4>3
    <3>3. CASE j = k + 1
      <4>1. j - 1 = k /\ j # 0 /\ ~(j \in 0..k) /\ k \in 0..k /\ k \in 0..k + 1
        BY <3>3
      <4> QED
        BY <4>1
    <3> QED
      BY <3>1, <3>2, <3>3
  <2>3. Good(g, k + 1)
    BY <2>2
  <2> QED
    BY <2>3
<1> HIDE DEF A
<1>3. n \in A
  <2>1. 0..n \subseteq A
    BY <1>1, <1>2, UpToN
  <2> QED
    BY <2>1
<1>4. \E f: Good(f, n)
  <2> HIDE DEF Good
  <2> QED
    BY <1>3 DEF A
<1> QED
  BY <1>4 DEF IsChain

----------------------------------------------------------------------------
(* Sums                                                                    *)

\* The element that a sum of the library takes first.
AnyOf(s) == CHOOSE x \in s: TRUE

\* The subsets of a finite set have sizes.
LEMMA SubsetSizes ==
    ASSUME NEW S, IsFiniteSet(S)
    PROVE  /\ [s \in SUBSET S |-> Cardinality(s)] \in [SUBSET S -> Nat]
           /\ \A s \in SUBSET S: /\ IsFiniteSet(s) /\ Cardinality(s) \in Nat
                                 /\ Cardinality(s) <= Cardinality(S)
                                 /\ \A x \in s: Cardinality(s \ {x}) = Cardinality(s) - 1
<1>1. ASSUME NEW s \in SUBSET S
      PROVE  /\ IsFiniteSet(s) /\ Cardinality(s) \in Nat /\ Cardinality(s) <= Cardinality(S)
             /\ \A x \in s: Cardinality(s \ {x}) = Cardinality(s) - 1
  <2>1. IsFiniteSet(s) /\ Cardinality(s) <= Cardinality(S)
    BY FS_Subset
  <2>2. Cardinality(s) \in Nat
    BY <2>1, FS_CardinalityType
  <2> QED
    BY <2>1, <2>2, FS_RemoveElement
<1> QED
  BY <1>1

\* f has the sums over the subsets of S, each one element and the sum of the others.
SumsUp(f, w, S) ==
    /\ f \in [SUBSET S -> Int]
    /\ f[{}] = 0 /\ f[S] = SumFunctionOnSet(w, S)
    /\ \A s \in SUBSET S: s # {} => f[s] = w[AnyOf(s)] + f[s \ {AnyOf(s)}]

\* The recursion behind SumFunction has a solution, since a subset is smaller.
LEMMA SumRec ==
    ASSUME NEW S, IsFiniteSet(S), NEW w, \A x \in S: w[x] \in Int
    PROVE  \E f: SumsUp(f, w, S)
<1> DEFINE D == SUBSET S
<1> DEFINE Value(f, s) == IF s = {} THEN 0 ELSE w[AnyOf(s)] + f[s \ {AnyOf(s)}]
<1> DEFINE F == [f \in [D -> Int] |-> [s \in D |-> Value(f, s)]]
<1> DEFINE m == [s \in D |-> Cardinality(s)]
<1>1. /\ m \in [D -> Nat] /\ Cardinality(S) \in Nat
      /\ \A s \in D: m[s] <= Cardinality(S)
      /\ \A s \in D: s # {} => /\ AnyOf(s) \in s /\ AnyOf(s) \in S /\ s \ {AnyOf(s)} \in D
                               /\ m[s \ {AnyOf(s)}] < m[s]
  <2>1. \A s \in D: s # {} => AnyOf(s) \in s
    BY DEF AnyOf
  <2> QED
    BY <2>1, SubsetSizes, FS_CardinalityType
<1>2. \A f \in [D -> Int]: \A s \in D: Value(f, s) \in Int
  <2> SUFFICES ASSUME NEW f \in [D -> Int], NEW s \in D, s # {}
               PROVE  w[AnyOf(s)] + f[s \ {AnyOf(s)}] \in Int
    OBVIOUS
  <2> HIDE DEF m
  <2> QED
    BY <1>1
<1>3. F \in [[D -> Int] -> [D -> Int]]
  BY <1>2
<1>4. \A f, g \in [D -> Int]: \A s \in D:
        (\A t \in D: m[t] < m[s] => f[t] = g[t]) => F[f][s] = F[g][s]
  <2> SUFFICES ASSUME NEW f \in [D -> Int], NEW g \in [D -> Int], NEW s \in D,
                      \A t \in D: m[t] < m[s] => f[t] = g[t]
               PROVE  F[f][s] = F[g][s]
    OBVIOUS
  <2>1. F[f][s] = Value(f, s) /\ F[g][s] = Value(g, s)
    OBVIOUS
  <2>2. Value(f, s) = Value(g, s)
    <3> HIDE DEF m
    <3> QED
      BY <1>1
  <2> QED
    BY <2>1, <2>2
<1>5. \E f \in [D -> Int]: f = F[f]
  <2> HIDE DEF F, m, D
  <2> DEFINE V == Int
  <2> DEFINE b == Cardinality(S)
  <2>1. V # {} /\ m \in [D -> Nat] /\ b \in Nat /\ \A s \in D: m[s] <= b
    BY <1>1
  <2>2. F \in [[D -> V] -> [D -> V]]
    BY <1>3
  <2>3. \A f, g \in [D -> V]: \A s \in D:
          (\A t \in D: m[t] < m[s] => f[t] = g[t]) => F[f][s] = F[g][s]
    BY <1>4
  <2> HIDE DEF V, b
  <2>4. Recursive(D, V, m, b, F)
    BY <2>1, <2>2, <2>3 DEF Recursive
  <2>5. \E f \in [D -> V]: f = F[f]
    BY <2>4, Recursion
  <2> QED
    BY <2>5 DEF V
<1>6. \E f: f = [s \in D |-> Value(f, s)]
  BY <1>5
<1> DEFINE iter == CHOOSE f: f = [s \in D |-> Value(f, s)]
<1>7. iter = [s \in D |-> Value(iter, s)]
  BY <1>6
<1>8. SumFunctionOnSet(w, S) = iter[S]
  BY DEF SumFunctionOnSet, FoldFunctionOnSet, MapThenFoldSet, AnyOf
<1> HIDE DEF iter
<1> DEFINE A == {s \in D: iter[s] \in Int}
<1>9. D \subseteq A
  <2>1. \A s \in D: (\A t \in D: m[t] < m[s] => t \in A) => s \in A
    <3> SUFFICES ASSUME NEW s \in D, \A t \in D: m[t] < m[s] => t \in A
                 PROVE  iter[s] \in Int
      OBVIOUS
    <3>1. iter[s] = Value(iter, s)
      BY <1>7
    <3> HIDE DEF m
    <3>2. s # {} => w[AnyOf(s)] \in Int /\ iter[s \ {AnyOf(s)}] \in Int
      BY <1>1
    <3> QED
      BY <3>1, <3>2
  <2> HIDE DEF A, D, m
  <2> QED
    BY <1>1, <2>1, SizeInduction
<1>10. iter \in [D -> Int]
  BY <1>7, <1>9
<1>11. /\ iter[{}] = 0
       /\ \A s \in SUBSET S: s # {} => iter[s] = w[AnyOf(s)] + iter[s \ {AnyOf(s)}]
  BY <1>7
<1>12. SumsUp(iter, w, S)
  BY <1>8, <1>10, <1>11 DEF SumsUp
<1> QED
  BY <1>12

\* A sum is a number, that of nothing 0, and it may take any element first.
LEMMA SumTakes ==
    ASSUME NEW S, IsFiniteSet(S), NEW w, \A x \in S: w[x] \in Int
    PROVE  /\ SumFunctionOnSet(w, S) \in Int
           /\ S = {} => SumFunctionOnSet(w, S) = 0
           /\ \A v: (\A x \in S: v[x] = w[x]) => SumFunctionOnSet(v, S) = SumFunctionOnSet(w, S)
           /\ \A x \in S: \A v: (\A y \in S \ {x}: v[y] = w[y])
                => SumFunctionOnSet(w, S) = w[x] + SumFunctionOnSet(v, S \ {x})
<1>0. PICK f: SumsUp(f, w, S)
  BY SumRec
<1>1. /\ f \in [SUBSET S -> Int] /\ f[{}] = 0 /\ f[S] = SumFunctionOnSet(w, S)
      /\ \A s \in SUBSET S: s # {} => f[s] = w[AnyOf(s)] + f[s \ {AnyOf(s)}]
  BY <1>0 DEF SumsUp
<1> DEFINE D == SUBSET S
<1> DEFINE m == [s \in D |-> Cardinality(s)]
<1>2. /\ m \in [D -> Nat]
      /\ \A s \in D: s # {} => AnyOf(s) \in s /\ m[s \ {AnyOf(s)}] < m[s]
      /\ \A s \in D: \A x \in s: s \ {x} \in D /\ m[s \ {x}] < m[s]
  <2>1. \A s \in D: s # {} => AnyOf(s) \in s
    BY DEF AnyOf
  <2>2. m \in [D -> Nat]
    BY SubsetSizes
  <2>3. \A s \in D: \A x \in s: s \ {x} \in D /\ m[s \ {x}] < m[s]
    <3> SUFFICES ASSUME NEW s \in D, NEW x \in s
                 PROVE  s \ {x} \in D /\ m[s \ {x}] < m[s]
      OBVIOUS
    <3>1. Cardinality(s \ {x}) = Cardinality(s) - 1 /\ Cardinality(s) \in Nat
      BY SubsetSizes
    <3> QED
      BY <3>1
  <2> QED
    BY <2>1, <2>2, <2>3
<1> DEFINE A == {s \in D: \A x \in s: f[s] = w[x] + f[s \ {x}]}
<1>3. D \subseteq A
  <2>1. \A s \in D: (\A t \in D: m[t] < m[s] => t \in A) => s \in A
    <3> SUFFICES ASSUME NEW s \in D, \A t \in D: m[t] < m[s] => t \in A, NEW x \in s
                 PROVE  f[s] = w[x] + f[s \ {x}]
      OBVIOUS
    <3> DEFINE c == AnyOf(s)
    <3>1. c \in s /\ f[s] = w[c] + f[s \ {c}]
      BY <1>1, <1>2
    <3> HIDE DEF c
    <3>2. CASE x = c
      BY <3>1, <3>2
    <3>3. CASE x # c
      <4>1. x \in s \ {c} /\ c \in s \ {x} /\ s \ {c} \in D /\ s \ {x} \in D
        BY <3>1, <3>3
      <4>2. s \ {c} \in A /\ s \ {x} \in A
        <5> HIDE DEF A, m
        <5> QED
          BY <1>2, <3>1, <4>1
      <4>3. /\ f[s \ {c}] = w[x] + f[(s \ {c}) \ {x}]
            /\ f[s \ {x}] = w[c] + f[(s \ {x}) \ {c}]
        BY <4>1, <4>2
      <4>4. (s \ {c}) \ {x} = (s \ {x}) \ {c} /\ (s \ {c}) \ {x} \in D
        BY <4>1
      <4>5. w[x] \in Int /\ w[c] \in Int /\ f[(s \ {c}) \ {x}] \in Int
        BY <1>1, <3>1, <4>4
      <4> DEFINE r == (s \ {c}) \ {x}
      <4>6. f[s \ {c}] = w[x] + f[r] /\ f[s \ {x}] = w[c] + f[r]
        BY <4>3, <4>4
      <4>7. f[r] \in Int
        BY <4>5
      <4> HIDE DEF r
      <4> QED
        BY <3>1, <4>5, <4>6, <4>7
    <3> QED
      BY <3>2, <3>3
  <2> HIDE DEF A, D, m
  <2> QED
    BY <1>2, <2>1, SizeInduction
<1>4. ASSUME NEW s \in D, NEW v, \A x \in s: v[x] = w[x]
      PROVE  f[s] = SumFunctionOnSet(v, s)
  <2>1. IsFiniteSet(s) /\ \A x \in s: v[x] \in Int
    BY SubsetSizes, <1>4
  <2>0. PICK g: SumsUp(g, v, s)
    BY <2>1, SumRec
  <2>2. /\ g[{}] = 0 /\ g[s] = SumFunctionOnSet(v, s)
        /\ \A t \in SUBSET s: t # {} => g[t] = v[AnyOf(t)] + g[t \ {AnyOf(t)}]
    BY <2>0 DEF SumsUp
  <2> DEFINE B == {t \in SUBSET S: t \subseteq s => g[t] = f[t]}
  <2>3. D \subseteq B
    <3>1. \A t \in D: (\A u \in D: m[u] < m[t] => u \in B) => t \in B
      <4> SUFFICES ASSUME NEW t \in D, \A u \in D: m[u] < m[t] => u \in B, t \subseteq s
                   PROVE  g[t] = f[t]
        OBVIOUS
      <4>1. CASE t = {}
        BY <4>1, <1>1, <2>2
      <4>2. CASE t # {}
        <5>1. AnyOf(t) \in t /\ t \ {AnyOf(t)} \in D /\ t \ {AnyOf(t)} \subseteq s
          BY <1>2, <4>2
        <5>2. t \ {AnyOf(t)} \in B
          <6> HIDE DEF B, m
          <6> QED
            BY <1>2, <4>2, <5>1
        <5>3. g[t \ {AnyOf(t)}] = f[t \ {AnyOf(t)}]
          BY <5>1, <5>2
        <5>4. g[t] = v[AnyOf(t)] + g[t \ {AnyOf(t)}] /\ f[t] = w[AnyOf(t)] + f[t \ {AnyOf(t)}]
          BY <1>1, <2>2, <4>2
        <5> QED
          BY <1>4, <5>1, <5>3, <5>4
      <4> QED
        BY <4>1, <4>2
    <3> HIDE DEF B, D, m
    <3> QED
      BY <1>2, <3>1, SizeInduction
  <2>4. s \in B
    BY <2>3
  <2> QED
    BY <2>2, <2>4
<1>5. SumFunctionOnSet(w, S) \in Int /\ (S = {} => SumFunctionOnSet(w, S) = 0)
  BY <1>1
<1>6. \A v: (\A x \in S: v[x] = w[x]) => SumFunctionOnSet(v, S) = SumFunctionOnSet(w, S)
  BY <1>1, <1>4
<1>7. ASSUME NEW x \in S, NEW v, \A y \in S \ {x}: v[y] = w[y]
      PROVE  SumFunctionOnSet(w, S) = w[x] + SumFunctionOnSet(v, S \ {x})
  <2>1. f[S] = w[x] + f[S \ {x}]
    BY <1>3
  <2>2. f[S \ {x}] = SumFunctionOnSet(v, S \ {x})
    BY <1>4, <1>7
  <2> QED
    BY <1>1, <2>1, <2>2
<1> QED
  BY <1>5, <1>6, <1>7

----------------------------------------------------------------------------
(* Orders                                                                  *)

\* R decides between any two elements of S, and without a cycle.
TotalOrder(R, S) ==
    /\ \A x \in S: <<x, x>> \notin R
    /\ \A x, y \in S: x = y \/ <<x, y>> \in R \/ <<y, x>> \in R
    /\ \A x, y, z \in S: <<x, y>> \in R /\ <<y, z>> \in R => <<x, z>> \in R

\* What comes before x, and how much that is.
Earlier(R, S, x) == {y \in S: <<y, x>> \in R}
Place(R, S, x) == Cardinality(Earlier(R, S, x))

\* The places of the elements of S are different, and less than its size.
LEMMA Places ==
    ASSUME NEW S, IsFiniteSet(S), NEW R, TotalOrder(R, S)
    PROVE  /\ \A x \in S: Place(R, S, x) \in 0..Cardinality(S) - 1
           /\ \A x, y \in S: <<x, y>> \in R => Place(R, S, x) < Place(R, S, y)
           /\ \A x, y \in S: Place(R, S, x) = Place(R, S, y) => x = y
<1>1. ASSUME NEW x \in S
      PROVE  IsFiniteSet(Earlier(R, S, x)) /\ Place(R, S, x) \in 0..Cardinality(S) - 1
  <2>1. Earlier(R, S, x) \subseteq S /\ x \in S /\ x \notin Earlier(R, S, x)
    BY DEF Earlier, TotalOrder
  <2>2. /\ IsFiniteSet(Earlier(R, S, x)) /\ Cardinality(Earlier(R, S, x)) <= Cardinality(S)
        /\ Cardinality(Earlier(R, S, x)) # Cardinality(S)
    BY <2>1, FS_Subset
  <2>3. Cardinality(Earlier(R, S, x)) \in Nat /\ Cardinality(S) \in Nat
    BY <2>2, FS_CardinalityType
  <2> QED
    BY <2>2, <2>3 DEF Place
<1>2. ASSUME NEW x \in S, NEW y \in S, <<x, y>> \in R
      PROVE  Place(R, S, x) < Place(R, S, y)
  <2>1. Earlier(R, S, x) \subseteq Earlier(R, S, y)
    BY <1>2 DEF Earlier, TotalOrder
  <2>2. x \in Earlier(R, S, y) /\ x \notin Earlier(R, S, x)
    BY <1>2 DEF Earlier, TotalOrder
  <2>3. IsFiniteSet(Earlier(R, S, y))
    BY <1>1
  <2>4. /\ Cardinality(Earlier(R, S, x)) <= Cardinality(Earlier(R, S, y))
        /\ Cardinality(Earlier(R, S, y)) # Cardinality(Earlier(R, S, x))
    BY <2>1, <2>2, <2>3, FS_Subset
  <2>5. Place(R, S, x) \in Int /\ Place(R, S, y) \in Int
    BY <1>1
  <2> QED
    BY <2>4, <2>5 DEF Place
<1>3. ASSUME NEW x \in S, NEW y \in S, Place(R, S, x) = Place(R, S, y)
      PROVE  x = y
  <2>1. Place(R, S, x) \in Int /\ Place(R, S, y) \in Int
    BY <1>1
  <2>2. x = y \/ <<x, y>> \in R \/ <<y, x>> \in R
    BY DEF TotalOrder
  <2> QED
    BY <1>2, <1>3, <2>1, <2>2
<1> QED
  BY <1>1, <1>2, <1>3

\* The first of a finite set.
LEMMA FirstIs ==
    ASSUME NEW S, IsFiniteSet(S), S # {}, NEW R, TotalOrder(R, S)
    PROVE  First(S, R) \in S /\ \A y \in S \ {First(S, R)}: <<First(S, R), y>> \in R
<1> DEFINE K == {Place(R, S, x): x \in S}
<1>1. K \in SUBSET Nat /\ K # {}
  BY Places
<1>2. PICK x \in S: \A y \in S: Place(R, S, x) <= Place(R, S, y)
  <2> HIDE DEF K
  <2>1. PICK k \in K: \A l \in K: k <= l
    BY <1>1, LeastOf
  <2> QED
    BY <2>1 DEF K
<1>3. \A y \in S \ {x}: <<x, y>> \in R
  <2> SUFFICES ASSUME NEW y \in S, y # x, <<y, x>> \in R
               PROVE  FALSE
    BY DEF TotalOrder
  <2>1. Place(R, S, y) < Place(R, S, x) /\ Place(R, S, x) <= Place(R, S, y)
    BY <1>2, Places
  <2>2. Place(R, S, y) \in Int /\ Place(R, S, x) \in Int
    BY Places
  <2> QED
    BY <2>1, <2>2
<1> QED
  BY <1>3, Zenon DEF First

\* All places are taken.
LEMMA PlacesTaken ==
    ASSUME NEW S, IsFiniteSet(S), NEW R, TotalOrder(R, S), NEW k \in 0..Cardinality(S) - 1
    PROVE  \E x \in S: Place(R, S, x) = k
<1> DEFINE n == Cardinality(S)
<1> DEFINE place == [x \in S |-> Place(R, S, x)]
<1>1. n \in Nat
  BY FS_CardinalityType
<1>2. place \in Injection(S, 0..n - 1)
  BY Places DEF Injection, IsInjective
<1>3. IsFiniteSet(0..n - 1) /\ Cardinality(0..n - 1) = n
  BY <1>1, FS_Interval
<1>4. place \in Surjection(S, 0..n - 1)
  <2> HIDE DEF place
  <2> QED
    BY <1>2, <1>3, FS_Injection
<1> QED
  BY <1>4 DEF Surjection

\* Sorting keeps every element once, and puts it before those it comes before.
LEMMA InOrderIs ==
    ASSUME NEW S, IsFiniteSet(S), NEW R, TotalOrder(R, S)
    PROVE  LET s == InOrder(S, R) IN
           /\ s \in Seq(S) /\ Len(s) = Cardinality(S)
           /\ \A i, j \in 1..Len(s): i < j => <<s[i], s[j]>> \in R
           /\ \A i, j \in 1..Len(s): i # j => s[i] # s[j]
           /\ \A x \in S: \E i \in 1..Len(s): s[i] = x
<1> DEFINE n == Cardinality(S)
<1> DEFINE s == InOrder(S, R)
<1>1. n \in Nat
  BY FS_CardinalityType
<1>5. \A k \in 0..n - 1: \E x \in S: Place(R, S, x) = k
  BY PlacesTaken
<1>6. s = [k \in 1..n |-> CHOOSE x \in S: Place(R, S, x) = k - 1]
  BY DEF InOrder, Place, Earlier
<1>7. \A k \in 1..n: s[k] \in S /\ Place(R, S, s[k]) = k - 1
  <2> SUFFICES ASSUME NEW k \in 1..n
               PROVE  s[k] \in S /\ Place(R, S, s[k]) = k - 1
    OBVIOUS
  <2>1. s[k] = CHOOSE x \in S: Place(R, S, x) = k - 1
    BY <1>6
  <2>2. k - 1 \in 0..n - 1
    BY <1>1
  <2>3. \E x \in S: Place(R, S, x) = k - 1
    BY <1>5, <2>2
  <2> HIDE DEF s
  <2> QED
    BY <2>1, <2>3
<1> HIDE DEF s
<1>8. s \in Seq(S) /\ Len(s) = n
  <2>1. s \in [1..n -> S]
    BY <1>6, <1>7
  <2> QED
    BY <1>1, <2>1
<1>9. \A i, j \in 1..n: i < j => <<s[i], s[j]>> \in R
  <2> SUFFICES ASSUME NEW i \in 1..n, NEW j \in 1..n, i < j
               PROVE  <<s[i], s[j]>> \in R
    OBVIOUS
  <2>1. Place(R, S, s[i]) < Place(R, S, s[j]) /\ Place(R, S, s[i]) \in Int
    BY <1>7
  <2>2. ~(Place(R, S, s[j]) < Place(R, S, s[i])) /\ s[i] # s[j]
    BY <1>7, <2>1
  <2>3. ~(<<s[j], s[i]>> \in R)
    BY <1>7, <2>2, Places
  <2> QED
    BY <1>7, <2>2, <2>3 DEF TotalOrder
<1>10. \A i, j \in 1..n: i # j => s[i] # s[j]
  <2> SUFFICES ASSUME NEW i \in 1..n, NEW j \in 1..n, s[i] = s[j]
               PROVE  i = j
    OBVIOUS
  <2>1. i - 1 = j - 1
    BY <1>7
  <2> QED
    BY <2>1
<1>11. \A x \in S: \E i \in 1..n: s[i] = x
  <2> SUFFICES ASSUME NEW x \in S
               PROVE  \E i \in 1..n: s[i] = x
    OBVIOUS
  <2> DEFINE i == Place(R, S, x) + 1
  <2>1. Place(R, S, x) \in 0..n - 1
    BY Places
  <2>2. i \in 1..n /\ i - 1 = Place(R, S, x)
    BY <1>1, <2>1
  <2>3. s[i] \in S /\ Place(R, S, s[i]) = Place(R, S, x)
    <3> HIDE DEF i
    <3> QED
      BY <1>7, <2>2
  <2> QED
    BY <2>2, <2>3, Places
<1> QED
  BY <1>8, <1>9, <1>10, <1>11 DEF s

\* The first k of a set; they are k, if the set has as many.
Leading(R, S, k) == {x \in S: Place(R, S, x) < k}

LEMMA LeadingAre ==
    ASSUME NEW S, IsFiniteSet(S), NEW R, TotalOrder(R, S), NEW k \in 0..Cardinality(S)
    PROVE  IsFiniteSet(Leading(R, S, k)) /\ Cardinality(Leading(R, S, k)) = k
<1> DEFINE B == Leading(R, S, k)
<1>0. Cardinality(S) \in Nat /\ k \in Nat
  BY FS_CardinalityType
<1>1. B = {x \in S: Place(R, S, x) < k}
  BY DEF Leading
<1> HIDE DEF B
<1>2. IsFiniteSet(B)
  BY <1>1, FS_Subset
<1>3. IsFiniteSet(0..k - 1) /\ Cardinality(0..k - 1) = k
  <2>1. k - 1 \in Int /\ 0 \in Int
    BY <1>0
  <2>2. /\ IsFiniteSet(0..k - 1)
        /\ Cardinality(0..k - 1) = IF 0 > k - 1 THEN 0 ELSE k - 1 - 0 + 1
    BY <2>1, FS_Interval
  <2> QED
    BY <1>0, <2>2
<1> DEFINE f == [x \in B |-> Place(R, S, x)]
<1>4. \A x \in S: Place(R, S, x) \in 0..Cardinality(S) - 1
  BY Places
<1>5. f \in Injection(B, 0..k - 1)
  <2>1. \A x \in B: f[x] \in 0..k - 1
    BY <1>0, <1>1, <1>4
  <2>2. \A x, y \in B: f[x] = f[y] => x = y
    BY <1>1, Places
  <2> QED
    BY <2>1, <2>2 DEF Injection, IsInjective
<1>6. \A l \in 0..k - 1: \E x \in B: f[x] = l
  <2> SUFFICES ASSUME NEW l \in 0..k - 1
               PROVE  \E x \in B: f[x] = l
    OBVIOUS
  <2>1. l \in 0..Cardinality(S) - 1 /\ l < k
    BY <1>0
  <2>2. PICK x \in S: Place(R, S, x) = l
    BY <2>1, PlacesTaken
  <2> QED
    BY <1>1, <2>1, <2>2
<1>7. f \in Surjection(B, 0..k - 1)
  BY <1>5, <1>6 DEF Surjection, Injection
<1> HIDE DEF f
<1>8. Cardinality(B) = Cardinality(0..k - 1)
  BY <1>3, <1>5, <1>7, FS_Injection
<1> QED
  BY <1>2, <1>3, <1>8 DEF B

\* The k lowest numbers of a set.
Lowest(S, k) == {i \in S: Cardinality({j \in S: j < i}) < k}

LEMMA LowestAre ==
    ASSUME NEW S \in SUBSET Nat, IsFiniteSet(S), NEW k \in 0..Cardinality(S)
    PROVE  IsFiniteSet(Lowest(S, k)) /\ Cardinality(Lowest(S, k)) = k
<1> DEFINE R == {p \in S \X S: p[1] < p[2]}
<1>1. \A x, y \in S: <<x, y>> \in R <=> x < y
  OBVIOUS
<1> HIDE DEF R
<1>2. TotalOrder(R, S)
  BY <1>1 DEF TotalOrder
<1>3. \A i \in S: Earlier(R, S, i) = {j \in S: j < i}
  BY <1>1 DEF Earlier
<1>4. Lowest(S, k) = Leading(R, S, k)
  BY <1>3 DEF Lowest, Leading, Place
<1>5. IsFiniteSet(Leading(R, S, k)) /\ Cardinality(Leading(R, S, k)) = k
  BY <1>2, LeadingAre
<1> QED
  BY <1>4, <1>5, Zenon


----------------------------------------------------------------------------
(* Layouts                                                                 *)

\* What is true of the empty set and stays true when an element is added.
LEMMA SubsetInduction ==
    ASSUME NEW S, IsFiniteSet(S), NEW A, {} \in A,
           \A s \in SUBSET S: \A x \in s: s \ {x} \in A => s \in A
    PROVE  S \in A
<1> DEFINE D == SUBSET S
<1> DEFINE m == [s \in D |-> Cardinality(s)]
<1>1. m \in [D -> Nat] /\ \A s \in D: \A x \in s: s \ {x} \in D /\ m[s \ {x}] < m[s]
  <2>1. m \in [D -> Nat]
    BY SubsetSizes
  <2>2. ASSUME NEW s \in D, NEW x \in s
        PROVE  s \ {x} \in D /\ m[s \ {x}] < m[s]
    <3>1. Cardinality(s \ {x}) = Cardinality(s) - 1 /\ Cardinality(s) \in Nat
      BY SubsetSizes
    <3> QED
      BY <3>1
  <2> QED
    BY <2>1, <2>2
<1>2. \A s \in D: (\A t \in D: m[t] < m[s] => t \in A) => s \in A
  <2> SUFFICES ASSUME NEW s \in D, \A t \in D: m[t] < m[s] => t \in A
               PROVE  s \in A
    OBVIOUS
  <2>1. CASE s = {}
    BY <2>1
  <2>2. CASE s # {}
    <3>1. PICK x: x \in s
      BY <2>2
    <3>2. s \ {x} \in D /\ m[s \ {x}] < m[s]
      BY <1>1, <3>1
    <3> HIDE DEF m
    <3>3. s \ {x} \in A
      BY <3>2
    <3> QED
      BY <3>1, <3>3
  <2> QED
    BY <2>1, <2>2
<1>3. D \subseteq A
  <2> HIDE DEF D, m
  <2> QED
    BY <1>1, <1>2, SizeInduction
<1> QED
  BY <1>3

\* Sets that have no element in common have together as many as their sizes sum up to.
LEMMA UnionSize ==
    ASSUME NEW M, IsFiniteSet(M), NEW F, \A m \in M: IsFiniteSet(F[m]),
           \A m, k \in M: m # k => F[m] \cap F[k] = {}
    PROVE  /\ IsFiniteSet(UNION {F[m]: m \in M})
           /\ Cardinality(UNION {F[m]: m \in M})
                = SumFunction([m \in M |-> Cardinality(F[m])])
<1> DEFINE w == [m \in M |-> Cardinality(F[m])]
<1> DEFINE Whole(s) == UNION {F[m]: m \in s}
<1> DEFINE A == {s \in SUBSET M: IsFiniteSet(Whole(s))
                                 /\ Cardinality(Whole(s)) = SumFunctionOnSet(w, s)}
<1>1. \A m \in M: w[m] \in Int
  BY FS_CardinalityType
<1>2. {} \in A
  <2>1. Whole({}) = {} /\ IsFiniteSet({}) /\ Cardinality({}) = 0
    BY FS_EmptySet
  <2>2. SumFunctionOnSet(w, {}) = 0
    BY FS_EmptySet, SumTakes
  <2> QED
    BY <2>1, <2>2
<1>3. \A s \in SUBSET M: \A x \in s: s \ {x} \in A => s \in A
  <2> SUFFICES ASSUME NEW s \in SUBSET M, NEW x \in s, s \ {x} \in A
               PROVE  s \in A
    OBVIOUS
  <2> DEFINE rest == Whole(s \ {x})
  <2>1. IsFiniteSet(rest) /\ Cardinality(rest) = SumFunctionOnSet(w, s \ {x})
    OBVIOUS
  <2>2. Whole(s) = rest \cup F[x] /\ rest \cap F[x] = {}
    OBVIOUS
  <2>3. IsFiniteSet(F[x]) /\ Cardinality(F[x]) \in Int /\ w[x] = Cardinality(F[x])
    BY FS_CardinalityType
  <2>4. Cardinality({}) = 0
    BY FS_EmptySet
  <2> DEFINE new == F[x]
  <2> DEFINE whole == Whole(s)
  <2>5. IsFiniteSet(whole) /\ Cardinality(whole) = Cardinality(rest) + Cardinality(new)
    <3>1. whole = rest \cup new /\ rest \cap new = {} /\ IsFiniteSet(rest) /\ IsFiniteSet(new)
      BY <2>1, <2>2, <2>3
    <3> HIDE DEF rest, new, whole
    <3>2. /\ IsFiniteSet(rest \cup new)
          /\ Cardinality(rest \cup new) = Cardinality(rest) + Cardinality(new) - Cardinality(rest \cap new)
      BY <3>1, FS_Union
    <3>4. Cardinality(rest \cap new) = 0
      BY <2>4, <3>1, Zenon
    <3>5. IsFiniteSet(whole) /\ Cardinality(whole) = Cardinality(rest \cup new)
      BY <3>1, <3>2, Zenon
    <3>3. Cardinality(rest) \in Int /\ Cardinality(new) \in Int
      BY <3>1, FS_CardinalityType
    <3> QED
      BY <3>2, <3>3, <3>4, <3>5
  <2> HIDE DEF rest, Whole
  <2>6. IsFiniteSet(s) /\ \A y \in s: w[y] \in Int
    BY <1>1, SubsetSizes
  <2> HIDE DEF w
  <2>7. SumFunctionOnSet(w, s) = w[x] + SumFunctionOnSet(w, s \ {x})
    BY <2>6, SumTakes
  <2>8. Cardinality(rest) \in Int
    BY <2>1, FS_CardinalityType
  <2>9. Cardinality(Whole(s)) = SumFunctionOnSet(w, s)
    BY <2>1, <2>3, <2>5, <2>7, <2>8
  <2> QED
    BY <2>5, <2>9
<1>4. M \in A
  <2> HIDE DEF A
  <2> QED
    BY <1>2, <1>3, SubsetInduction
<1>5. SumFunction(w) = SumFunctionOnSet(w, M)
  BY DEF SumFunction
<1> QED
  BY <1>4, <1>5

\* A sum of equal numbers is a product.
LEMMA SumOfEqual ==
    ASSUME NEW S, IsFiniteSet(S), NEW k \in Int, NEW w, \A x \in S: w[x] = k
    PROVE  SumFunctionOnSet(w, S) = k * Cardinality(S)
<1> DEFINE A == {s \in SUBSET S: SumFunctionOnSet(w, s) = k * Cardinality(s)}
<1>1. {} \in A
  <2>1. SumFunctionOnSet(w, {}) = 0 /\ Cardinality({}) = 0
    BY FS_EmptySet, SumTakes
  <2> QED
    BY <2>1
<1>2. \A s \in SUBSET S: \A x \in s: s \ {x} \in A => s \in A
  <2> SUFFICES ASSUME NEW s \in SUBSET S, NEW x \in s, s \ {x} \in A
               PROVE  s \in A
    OBVIOUS
  <2>1. IsFiniteSet(s) /\ Cardinality(s) \in Int /\ Cardinality(s \ {x}) = Cardinality(s) - 1
    BY SubsetSizes
  <2>2. SumFunctionOnSet(w, s) = w[x] + SumFunctionOnSet(w, s \ {x})
    BY <2>1, SumTakes
  <2>3. SumFunctionOnSet(w, s) = k + k * (Cardinality(s) - 1)
    BY <2>1, <2>2
  <2>4. k + k * (Cardinality(s) - 1) = k * Cardinality(s)
    BY <2>1
  <2> QED
    BY <2>3, <2>4
<1>3. S \in A
  <2> HIDE DEF A
  <2> QED
    BY <1>1, <1>2, SubsetInduction
<1> QED
  BY <1>3

\* The largest of a finite set.
LEMMA GreatestOf ==
    ASSUME NEW S \in SUBSET Int, IsFiniteSet(S), S # {}
    PROVE  Max(S) \in S /\ \A x \in S: x <= Max(S)
<1> DEFINE R == {p \in S \X S: p[1] > p[2]}
<1>0. \A x, y \in S: <<x, y>> \in R <=> x > y
  OBVIOUS
<1>1. TotalOrder(R, S)
  <2> HIDE DEF R
  <2> QED
    BY <1>0 DEF TotalOrder
<1>2. PICK x \in S: \A y \in S \ {x}: x > y
  <2> HIDE DEF R
  <2> QED
    BY <1>0, <1>1, FirstIs
<1>3. \A y \in S: x >= y
  BY <1>2
<1>4. Max(S) \in S /\ \A y \in S: Max(S) >= y
  BY <1>3, Zenon DEF Max
<1> QED
  BY <1>4

\* gs are groups of tp GPUs out of "rest" that have none in common.
IsLayout(tp, rest, gs) ==
    gs \subseteq kSubset(tp, rest) /\ \A g, h \in gs: g # h => g \cap h = {}

\* They need tp GPUs each.
LEMMA LayoutSize ==
    ASSUME NEW rest, IsFiniteSet(rest), NEW tp \in Nat, NEW gs, IsLayout(tp, rest, gs)
    PROVE  /\ IsFiniteSet(gs) /\ Cardinality(gs) \in Nat /\ UNION gs \subseteq rest
           /\ IsFiniteSet(UNION gs) /\ Cardinality(UNION gs) = tp * Cardinality(gs)
           /\ tp * Cardinality(gs) <= Cardinality(rest)
<1>1. gs \subseteq SUBSET rest /\ \A g \in gs: Cardinality(g) = tp /\ IsFiniteSet(g)
  BY FS_Subset DEF IsLayout, kSubset
<1>2. IsFiniteSet(gs) /\ Cardinality(gs) \in Nat
  BY <1>1, FS_SUBSET, FS_Subset, FS_CardinalityType
<1> DEFINE F == [g \in gs |-> g]
<1>3. \A g \in gs: IsFiniteSet(F[g])
  BY <1>1
<1>4. \A g, h \in gs: g # h => F[g] \cap F[h] = {}
  BY DEF IsLayout
<1>5. UNION {F[g]: g \in gs} = UNION gs
  OBVIOUS
<1> DEFINE w == [g \in gs |-> Cardinality(F[g])]
<1>6. \A g \in gs: w[g] = tp
  BY <1>1
<1>7. IsFiniteSet(UNION {F[g]: g \in gs}) /\ Cardinality(UNION {F[g]: g \in gs}) = SumFunction(w)
  <2> HIDE DEF F
  <2> QED
    BY <1>2, <1>3, <1>4, UnionSize
<1>8. SumFunction(w) = tp * Cardinality(gs)
  <2>1. SumFunction(w) = SumFunctionOnSet(w, gs)
    BY DEF SumFunction
  <2> HIDE DEF w
  <2> QED
    BY <1>2, <1>6, <2>1, SumOfEqual
<1>9. UNION gs \subseteq rest
  BY <1>1
<1>10. Cardinality(UNION gs) <= Cardinality(rest)
  BY <1>9, FS_Subset
<1> QED
  BY <1>2, <1>5, <1>7, <1>8, <1>9, <1>10

\* k groups.
Lays(tp, rest, k, gs) == IsLayout(tp, rest, gs) /\ Cardinality(gs) = k

\* A group of other GPUs is one more.
LEMMA LayoutGrows ==
    ASSUME NEW rest, IsFiniteSet(rest), NEW tp \in Nat \ {0}, NEW g \in kSubset(tp, rest),
           NEW k \in Nat, NEW gs, Lays(tp, rest \ g, k, gs)
    PROVE  Lays(tp, rest, k + 1, {g} \cup gs) /\ g \notin gs
<1> USE DEF Lays
<1>1. g \subseteq rest /\ IsFiniteSet(g) /\ Cardinality(g) = tp
  BY FS_Subset DEF kSubset
<1>2. g # {}
  BY <1>1, FS_EmptySet
<1>3. \A h \in gs: h \subseteq rest \ g /\ h \in kSubset(tp, rest)
  BY DEF IsLayout, kSubset
<1>4. g \notin gs
  BY <1>1, <1>2, <1>3
<1>5. IsLayout(tp, rest, {g} \cup gs)
  BY <1>3 DEF IsLayout
<1>6. IsFiniteSet(gs)
  <2>1. IsFiniteSet(rest \ g)
    BY FS_Difference
  <2> QED
    BY <2>1, LayoutSize
<1>7. Cardinality(gs \cup {g}) = Cardinality(gs) + 1 /\ gs \cup {g} = {g} \cup gs
  BY <1>4, <1>6, FS_AddElement
<1> QED
  BY <1>4, <1>5, <1>7

----------------------------------------------------------------------------
(* Scores                                                                  *)

\* GPUs have numbers.
LEMMA GpusNumbered ==
    ASSUME NEW hw, HwTyped(hw), NEW g \in SUBSET hw.gpus, g # {}
    PROVE  /\ IsFiniteSet(g) /\ g \subseteq Nat
           /\ Min(g) \in g /\ Max(g) \in g
           /\ \A x \in g: Min(g) <= x /\ x <= Max(g)
<1>1. g \in SUBSET Nat /\ g \in SUBSET Int
  BY DEF HwTyped
<1>2. IsFiniteSet(g)
  BY FS_Subset DEF HwTyped
<1>3. Min(g) \in g /\ \A x \in g: Min(g) <= x
  BY <1>1, LeastOf
<1>4. Max(g) \in g /\ \A x \in g: x <= Max(g)
  BY <1>1, <1>2, GreatestOf
<1> QED
  BY <1>1, <1>2, <1>3, <1>4

\* Scores are numbers.
LEMMA PairNumber ==
    ASSUME NEW hw, HwTyped(hw), NEW a \in hw.gpus, NEW b \in hw.gpus
    PROVE  PairScore(hw, a, b) \in Int
<1>1. a \in Int /\ b \in Int /\ \A p \in DOMAIN hw.link: hw.link[p] \in Int
  BY DEF HwTyped
<1>2. Max({1, 8 - Max({a - b, b - a})}) \in Int
  <2>1. a - b \in Int /\ b - a \in Int
    BY <1>1
  <2>2. Max({a - b, b - a}) \in Int
    BY <2>1, MaxOf
  <2>3. 1 \in Int /\ 8 - Max({a - b, b - a}) \in Int
    BY <2>2
  <2> DEFINE far == 8 - Max({a - b, b - a})
  <2> HIDE DEF far
  <2>4. far \in Int => Max({1, far}) \in Int
    BY MaxOf
  <2> QED
    BY <2>3, <2>4 DEF far
<1>3. (IF {a, b} \in DOMAIN hw.link THEN hw.link[{a, b}] ELSE 1) \in Int
  BY <1>1
<1> DEFINE near == Max({1, 8 - Max({a - b, b - a})})
<1> DEFINE linked == IF {a, b} \in DOMAIN hw.link THEN hw.link[{a, b}] ELSE 1
<1> HIDE DEF near, linked
<1>4. PairScore(hw, a, b) \in {0, near, linked}
  BY DEF PairScore, near, linked
<1> QED
  BY <1>2, <1>3, <1>4 DEF near, linked

\* A group's score is a number, since those of its pairs are.
LEMMA GroupNumber ==
    ASSUME NEW hw, HwTyped(hw), NEW g \in SUBSET hw.gpus
    PROVE  GroupScore(hw, g) \in Int
<1> DEFINE S == kSubset(2, g)
<1> DEFINE w == [p \in S |-> PairScore(hw, Min(p), Max(p))]
<1>1. IsFiniteSet(S)
  <2>1. IsFiniteSet(g)
    BY FS_Subset DEF HwTyped
  <2>2. S \subseteq SUBSET g
    BY DEF kSubset
  <2> QED
    BY <2>1, <2>2, FS_SUBSET, FS_Subset
<1>2. \A p \in S: w[p] \in Int
  <2> SUFFICES ASSUME NEW p \in S
               PROVE  PairScore(hw, Min(p), Max(p)) \in Int
    OBVIOUS
  <2>1. p \in SUBSET hw.gpus /\ Cardinality(p) = 2
    BY DEF kSubset
  <2>2. p # {}
    BY <2>1, FS_EmptySet
  <2>3. Min(p) \in hw.gpus /\ Max(p) \in hw.gpus
    BY <2>1, <2>2, GpusNumbered
  <2> QED
    BY <2>3, PairNumber
<1>3. SumFunctionOnSet(w, S) \in Int
  <2> HIDE DEF w, S
  <2> QED
    BY <1>1, <1>2, SumTakes
<1>4. GroupScore(hw, g) = SumFunctionOnSet(w, S)
  BY DEF GroupScore, SumFunction
<1> QED
  BY <1>3, <1>4

\* A layout scores what its groups score.
LEMMA LayoutScore ==
    ASSUME NEW hw, HwTyped(hw), NEW gs \in SUBSET SUBSET hw.gpus
    PROVE  /\ PartitionScore(hw, gs) \in Int
           /\ \A g \in gs: PartitionScore(hw, gs)
                             = GroupScore(hw, g) + PartitionScore(hw, gs \ {g})
<1> DEFINE w == [g \in gs |-> GroupScore(hw, g)]
<1>1. IsFiniteSet(gs)
  BY FS_SUBSET, FS_Subset DEF HwTyped
<1>2. \A g \in gs: w[g] \in Int
  BY GroupNumber
<1>3. PartitionScore(hw, gs) = SumFunctionOnSet(w, gs)
  BY DEF PartitionScore, SumFunction
<1>4. ASSUME NEW g \in gs
      PROVE  SumFunctionOnSet(w, gs) = GroupScore(hw, g) + PartitionScore(hw, gs \ {g})
  <2> DEFINE v == [h \in gs \ {g} |-> GroupScore(hw, h)]
  <2>1. \A h \in gs \ {g}: v[h] = w[h]
    OBVIOUS
  <2>2. PartitionScore(hw, gs \ {g}) = SumFunctionOnSet(v, gs \ {g})
    BY DEF PartitionScore, SumFunction
  <2>3. w[g] = GroupScore(hw, g)
    OBVIOUS
  <2> HIDE DEF v, w
  <2>4. SumFunctionOnSet(w, gs) = w[g] + SumFunctionOnSet(v, gs \ {g})
    BY <1>1, <1>2, <2>1, SumTakes
  <2> QED
    BY <2>2, <2>3, <2>4
<1>5. SumFunctionOnSet(w, gs) \in Int
  <2> HIDE DEF w
  <2> QED
    BY <1>1, <1>2, SumTakes
<1> QED
  BY <1>3, <1>4, <1>5

\* So does the number of links of a GPU to others.
LEMMA LinksNumber ==
    ASSUME NEW hw, HwTyped(hw), NEW i \in hw.gpus, NEW S \in SUBSET hw.gpus
    PROVE  LinksTo(hw, i, S) \in Int
<1> DEFINE w == [j \in S |-> PairScore(hw, i, j)]
<1>1. IsFiniteSet(S) /\ \A j \in S: w[j] \in Int
  BY FS_Subset, PairNumber DEF HwTyped
<1>2. SumFunctionOnSet(w, S) \in Int
  <2> HIDE DEF w
  <2> QED
    BY <1>1, SumTakes
<1> QED
  BY <1>2 DEF LinksTo, SumFunction

----------------------------------------------------------------------------
(* The exhaustive search                                                   *)

\* Sets of numbers are ordered by the least one that only one of them has.
LEMMA BeforeOrders ==
    ASSUME NEW a \in SUBSET Nat, NEW b \in SUBSET Nat
    PROVE  /\ ~Before(a, a)
           /\ a = b \/ Before(a, b) \/ Before(b, a)
           /\ \A c \in SUBSET Nat: Before(a, b) /\ Before(b, c) => Before(a, c)
<1>1. \A s, t \in SUBSET Nat: Before(s, t) <=>
        \E x \in s \ t: \A y \in Nat: y < x => (y \in s <=> y \in t)
  BY DEF Before
<1>2. a = b \/ Before(a, b) \/ Before(b, a)
  <2> SUFFICES ASSUME a # b
               PROVE  Before(a, b) \/ Before(b, a)
    OBVIOUS
  <2> DEFINE apart == (a \ b) \cup (b \ a)
  <2>1. apart \in SUBSET Nat /\ apart # {}
    OBVIOUS
  <2>2. PICK x \in apart: \A y \in apart: x <= y
    <3> HIDE DEF apart
    <3> QED
      BY <2>1, LeastOf
  <2>3. \A y \in Nat: y < x => (y \in a <=> y \in b)
    BY <2>2
  <2> QED
    BY <1>1, <2>2, <2>3
<1>3. ASSUME NEW c \in SUBSET Nat, Before(a, b), Before(b, c)
      PROVE  Before(a, c)
  <2>1. PICK x \in a \ b: \A y \in Nat: y < x => (y \in a <=> y \in b)
    BY <1>1, <1>3
  <2>2. PICK z \in b \ c: \A y \in Nat: y < z => (y \in b <=> y \in c)
    BY <1>1, <1>3
  <2>3. x \in Nat /\ z \in Nat
    OBVIOUS
  <2>4. CASE x < z
    <3>1. x \in a \ c /\ \A y \in Nat: y < x => (y \in a <=> y \in c)
      BY <2>1, <2>2, <2>3, <2>4
    <3> QED
      BY <1>1, <3>1
  <2>5. CASE z < x
    <3>1. z \in a \ c /\ \A y \in Nat: y < z => (y \in a <=> y \in c)
      BY <2>1, <2>2, <2>3, <2>5
    <3> QED
      BY <1>1, <3>1
  <2>6. x # z
    BY <2>1, <2>2
  <2> QED
    BY <2>3, <2>4, <2>5, <2>6
<1> QED
  BY <1>1, <1>2, <1>3

\* No layout that was found scores more than the preferred one.
LEMMA PreferredIs ==
    ASSUME NEW hw, HwTyped(hw), NEW D \in SUBSET SUBSET hw.gpus, D # {},
           NEW found \in [D -> SUBSET SUBSET hw.gpus]
    PROVE  /\ Preferred(hw, found) \in D
           /\ \A g \in D: PartitionScore(hw, found[g])
                            <= PartitionScore(hw, found[Preferred(hw, found)])
<1> DEFINE Scored(g) == PartitionScore(hw, found[g])
<1> DEFINE R == {p \in D \X D: \/ Scored(p[1]) > Scored(p[2])
                               \/ Scored(p[1]) = Scored(p[2]) /\ Before(p[1], p[2])}
<1>1. \A g \in D: Scored(g) \in Int
  BY LayoutScore
<1>2. IsFiniteSet(D) /\ D \subseteq SUBSET Nat
  BY FS_SUBSET, FS_Subset DEF HwTyped
<1>3. \A x, y \in D: <<x, y>> \in R <=> \/ Scored(x) > Scored(y)
                                        \/ Scored(x) = Scored(y) /\ Before(x, y)
  OBVIOUS
<1>4. Preferred(hw, found) = First(D, R)
  BY DEF Preferred
<1> HIDE DEF Scored, R
<1>5. TotalOrder(R, D)
  <2>1. \A x \in D: <<x, x>> \notin R
    BY <1>1, <1>2, <1>3, BeforeOrders
  <2>2. \A x, y \in D: x = y \/ <<x, y>> \in R \/ <<y, x>> \in R
    <3> SUFFICES ASSUME NEW x \in D, NEW y \in D
                 PROVE  x = y \/ <<x, y>> \in R \/ <<y, x>> \in R
      OBVIOUS
    <3>1. x = y \/ Before(x, y) \/ Before(y, x)
      BY <1>2, BeforeOrders
    <3>2. Scored(x) \in Int /\ Scored(y) \in Int
      BY <1>1
    <3> QED
      BY <1>3, <3>1, <3>2
  <2>3. \A x, y, z \in D: <<x, y>> \in R /\ <<y, z>> \in R => <<x, z>> \in R
    <3> SUFFICES ASSUME NEW x \in D, NEW y \in D, NEW z \in D, <<x, y>> \in R, <<y, z>> \in R
                 PROVE  <<x, z>> \in R
      OBVIOUS
    <3>1. Before(x, y) /\ Before(y, z) => Before(x, z)
      BY <1>2, BeforeOrders
    <3>2. Scored(x) \in Int /\ Scored(y) \in Int /\ Scored(z) \in Int
      BY <1>1
    <3> QED
      BY <1>3, <3>1, <3>2
  <2> QED
    BY <2>1, <2>2, <2>3 DEF TotalOrder
<1> DEFINE p == First(D, R)
<1>6. p \in D /\ \A g \in D \ {p}: <<p, g>> \in R
  BY <1>2, <1>5, FirstIs
<1> HIDE DEF p
<1>7. \A g \in D: Scored(g) <= Scored(p)
  <2> SUFFICES ASSUME NEW g \in D
               PROVE  Scored(g) <= Scored(p)
    OBVIOUS
  <2>1. Scored(g) \in Int /\ Scored(p) \in Int /\ p \in D
    BY <1>1, <1>6
  <2>2. CASE g = p
    BY <2>1, <2>2
  <2>3. CASE g # p
    <3>1. Scored(p) > Scored(g) \/ Scored(p) = Scored(g)
      BY <1>3, <1>6, <2>1, <2>3
    <3> QED
      BY <2>1, <3>1
  <2> QED
    BY <2>2, <2>3
<1> QED
  BY <1>4, <1>6, <1>7 DEF p, Scored

\* A set has a subset of each smaller size around each element.
LEMMA SubsetOfSize ==
    ASSUME NEW S, IsFiniteSet(S), NEW x \in S, NEW t \in 1..Cardinality(S)
    PROVE  \E c \in kSubset(t, S): x \in c
<1> DEFINE n == Cardinality(S)
<1> DEFINE A == {j \in 0..n: j = 0 \/ \E c \in SUBSET S: Cardinality(c) = j /\ x \in c}
<1>1. n \in Nat
  BY FS_CardinalityType
<1>2. \A j \in 0..n: j + 1 \in 0..n /\ j \in A => j + 1 \in A
  <2> SUFFICES ASSUME NEW j \in 0..n, j + 1 \in 0..n, j \in A
               PROVE  \E c \in SUBSET S: Cardinality(c) = j + 1 /\ x \in c
    OBVIOUS
  <2>1. CASE j = 0
    <3>1. Cardinality({x}) = 1 /\ {x} \in SUBSET S /\ x \in {x}
      BY FS_Singleton
    <3>2. \E c \in SUBSET S: Cardinality(c) = 1 /\ x \in c
      BY <3>1, Zenon
    <3>3. j + 1 = 1
      BY <2>1
    <3> QED
      BY <3>2, <3>3
  <2>2. CASE j # 0
    <3>1. PICK c \in SUBSET S: Cardinality(c) = j /\ x \in c
      BY <2>2
    <3>2. IsFiniteSet(c)
      BY FS_Subset
    <3>3. c # S
      BY <1>1, <3>1
    <3>4. PICK y \in S: y \notin c
      BY <3>3
    <3>5. Cardinality(c \cup {y}) = j + 1
      BY <3>1, <3>2, <3>4, FS_AddElement
    <3> QED
      BY <3>1, <3>4, <3>5
  <2> QED
    BY <2>1, <2>2
<1>3. 0..n \subseteq A
  <2>1. 0 \in A
    BY <1>1
  <2> HIDE DEF A
  <2> QED
    BY <1>1, <1>2, <2>1, UpToN
<1>4. t \in A /\ t # 0
  BY <1>1, <1>3
<1> QED
  BY <1>4 DEF kSubset

\* gs is a layout of k groups, and no other one scores more.
Optimal(hw, tp, rest, k, gs) ==
    /\ IsLayout(tp, rest, gs) /\ Cardinality(gs) = k
    /\ \A S: IsLayout(tp, rest, S) /\ Cardinality(S) = k
               => PartitionScore(hw, S) <= PartitionScore(hw, gs)

\* The groups the smallest GPU may be in.
Around(tp, rest) == {c \in kSubset(tp, rest): Min(rest) \in c}

\* There are such groups wherever enough GPUs are left.
LEMMA AroundIs ==
    ASSUME NEW hw, HwTyped(hw), NEW rest \in SUBSET hw.gpus, NEW tp \in Nat \ {0},
           tp <= Cardinality(rest)
    PROVE  /\ IsFiniteSet(rest) /\ Cardinality(rest) \in Nat /\ rest # {} /\ Min(rest) \in rest
           /\ Around(tp, rest) # {} /\ Around(tp, rest) \subseteq SUBSET hw.gpus
           /\ \A g \in Around(tp, rest):
                /\ g \in kSubset(tp, rest) /\ g # {} /\ g \subseteq rest
                /\ Cardinality(rest \ g) = Cardinality(rest) - tp
<1>1. IsFiniteSet(rest) /\ Cardinality(rest) \in Nat
  BY FS_Subset, FS_CardinalityType DEF HwTyped
<1>2. rest # {}
  BY <1>1, FS_EmptySet
<1>3. Min(rest) \in rest
  BY <1>2, GpusNumbered
<1>4. tp \in 1..Cardinality(rest)
  BY <1>1
<1>5. Around(tp, rest) # {}
  <2> DEFINE x == Min(rest)
  <2>1. \E c \in kSubset(tp, rest): x \in c
    <3> HIDE DEF x
    <3> QED
      BY <1>1, <1>3, <1>4, SubsetOfSize DEF x
  <2> QED
    BY <2>1 DEF Around
<1>6. ASSUME NEW g \in Around(tp, rest)
      PROVE  /\ g \in kSubset(tp, rest) /\ g # {} /\ g \subseteq rest
             /\ Cardinality(rest \ g) = Cardinality(rest) - tp
  <2>1. g \in kSubset(tp, rest) /\ g # {} /\ g \subseteq rest /\ Cardinality(g) = tp
    BY DEF Around, kSubset
  <2>2. Cardinality(rest \ g) = Cardinality(rest) - Cardinality(rest \cap g) /\ rest \cap g = g
    BY <1>1, <2>1, FS_Difference
  <2> QED
    BY <2>1, <2>2
<1>7. Around(tp, rest) \subseteq SUBSET hw.gpus
  BY <1>6
<1> QED
  BY <1>1, <1>2, <1>3, <1>5, <1>6, <1>7

\* below has layouts of k groups less one, of what each group leaves.
SomeRests(hw, tp, rest, k, below) ==
    \A g \in Around(tp, rest): below[rest \ g][k - 1] \in SUBSET SUBSET hw.gpus

\* With the group itself.
With(rest, k, below, g) == {g} \cup below[rest \ g][k - 1]

\* The preferred one of these.
LEMMA AnchoredOneOf ==
    ASSUME NEW hw, HwTyped(hw), NEW rest \in SUBSET hw.gpus, NEW tp \in Nat \ {0},
           tp <= Cardinality(rest), NEW k \in Nat \ {0}, NEW below, SomeRests(hw, tp, rest, k, below)
    PROVE  \E p \in Around(tp, rest):
             /\ Anchored(hw, tp, rest, k, below) = With(rest, k, below, p)
             /\ \A g \in Around(tp, rest): PartitionScore(hw, With(rest, k, below, g))
                                             <= PartitionScore(hw, With(rest, k, below, p))
<1> DEFINE D == Around(tp, rest)
<1> DEFINE found == [g \in D |-> With(rest, k, below, g)]
<1>1. D \in SUBSET SUBSET hw.gpus /\ D # {}
  BY AroundIs
<1>2. found \in [D -> SUBSET SUBSET hw.gpus]
  BY <1>1 DEF SomeRests, With
<1>3. Anchored(hw, tp, rest, k, below) = found[Preferred(hw, found)]
  BY DEF Anchored, Around, With
<1>4. /\ Preferred(hw, found) \in D
      /\ \A g \in D: PartitionScore(hw, found[g])
                       <= PartitionScore(hw, found[Preferred(hw, found)])
  <2> HIDE DEF found, D
  <2> QED
    BY <1>1, <1>2, PreferredIs
<1> QED
  BY <1>3, <1>4

\* They are optimal.
BestRests(hw, tp, rest, k, below) ==
    \A g \in Around(tp, rest): Optimal(hw, tp, rest \ g, k - 1, below[rest \ g][k - 1])

\* Then no layout that has the smallest GPU in a group
\* scores more.
LEMMA AnchoredIs ==
    ASSUME NEW hw, HwTyped(hw), NEW rest \in SUBSET hw.gpus, NEW tp \in Nat \ {0},
           tp <= Cardinality(rest), NEW k \in Nat \ {0}, NEW below,
           BestRests(hw, tp, rest, k, below)
    PROVE  /\ IsLayout(tp, rest, Anchored(hw, tp, rest, k, below))
           /\ Cardinality(Anchored(hw, tp, rest, k, below)) = k
           /\ \A S: IsLayout(tp, rest, S) /\ Cardinality(S) = k /\ Min(rest) \in UNION S
                => PartitionScore(hw, S) <= PartitionScore(hw, Anchored(hw, tp, rest, k, below))
<1> DEFINE D == Around(tp, rest)
<1> DEFINE Rest(g) == below[rest \ g][k - 1]
<1>1. ASSUME NEW g \in D
      PROVE  /\ Rest(g) \in SUBSET SUBSET hw.gpus
             /\ IsLayout(tp, rest, {g} \cup Rest(g)) /\ Cardinality({g} \cup Rest(g)) = k
             /\ PartitionScore(hw, {g} \cup Rest(g))
                  = GroupScore(hw, g) + PartitionScore(hw, Rest(g))
  <2>1. g \in kSubset(tp, rest) /\ IsFiniteSet(rest)
    BY AroundIs
  <2>2. PICK gs: gs = Rest(g) /\ IsLayout(tp, rest \ g, gs) /\ Cardinality(gs) = k - 1
    BY DEF BestRests, Optimal
  <2> HIDE DEF Rest, D
  <2>3. IsLayout(tp, rest, {g} \cup gs) /\ g \notin gs /\ Cardinality({g} \cup gs) = k
    <3>1. Lays(tp, rest \ g, k - 1, gs) /\ k - 1 \in Nat
      BY <2>2 DEF Lays
    <3>2. Lays(tp, rest, (k - 1) + 1, {g} \cup gs) /\ g \notin gs
      BY <2>1, <3>1, LayoutGrows
    <3> QED
      BY <3>2 DEF Lays
  <2>4. {g} \cup gs \in SUBSET SUBSET hw.gpus /\ gs = ({g} \cup gs) \ {g}
    BY <2>3 DEF IsLayout, kSubset
  <2>5. PartitionScore(hw, {g} \cup gs)
          = GroupScore(hw, g) + PartitionScore(hw, ({g} \cup gs) \ {g})
    BY <2>4, LayoutScore
  <2>6. gs \in SUBSET SUBSET hw.gpus
    BY <2>4
  <2> QED
    BY <2>2, <2>3, <2>4, <2>5, <2>6
<1>2. PICK p \in D:
        /\ Anchored(hw, tp, rest, k, below) = {p} \cup Rest(p)
        /\ \A g \in D: PartitionScore(hw, {g} \cup Rest(g)) <= PartitionScore(hw, {p} \cup Rest(p))
  <2>1. SomeRests(hw, tp, rest, k, below)
    BY <1>1 DEF SomeRests
  <2>2. PICK p \in D:
          /\ Anchored(hw, tp, rest, k, below) = With(rest, k, below, p)
          /\ \A g \in D: PartitionScore(hw, With(rest, k, below, g))
                           <= PartitionScore(hw, With(rest, k, below, p))
    BY <2>1, AnchoredOneOf
  <2> QED
    BY <2>2 DEF With
<1>3. ASSUME NEW S, IsLayout(tp, rest, S), Cardinality(S) = k, Min(rest) \in UNION S
      PROVE  PartitionScore(hw, S) <= PartitionScore(hw, {p} \cup Rest(p))
  <2>1. PICK g \in S: Min(rest) \in g
    BY <1>3
  <2>2. g \in D
    BY <1>3, <2>1 DEF Around, IsLayout
  <2>3. S \in SUBSET SUBSET hw.gpus
    BY <1>3 DEF IsLayout, kSubset
  <2>4. /\ IsFiniteSet(rest) /\ Optimal(hw, tp, rest \ g, k - 1, Rest(g))
    BY <2>2, AroundIs DEF BestRests
  <2>5. IsLayout(tp, rest \ g, S \ {g})
    <3>1. \A h \in S \ {g}: h \in kSubset(tp, rest) /\ h \cap g = {}
      BY <1>3 DEF IsLayout
    <3> QED
      BY <1>3, <3>1 DEF IsLayout, kSubset
  <2>6. Cardinality(S \ {g}) = k - 1
    <3>1. IsFiniteSet(S)
      BY <1>3, <2>4, LayoutSize
    <3> QED
      BY <1>3, <3>1, FS_RemoveElement
  <2>7. PartitionScore(hw, S \ {g}) <= PartitionScore(hw, Rest(g))
    BY <2>4, <2>5, <2>6 DEF Optimal
  <2>8. PartitionScore(hw, S) = GroupScore(hw, g) + PartitionScore(hw, S \ {g})
    BY <2>3, LayoutScore
  <2>9. /\ PartitionScore(hw, {g} \cup Rest(g)) = GroupScore(hw, g) + PartitionScore(hw, Rest(g))
        /\ Rest(g) \in SUBSET SUBSET hw.gpus
    BY <1>1, <2>2
  <2>10. PartitionScore(hw, {g} \cup Rest(g)) <= PartitionScore(hw, {p} \cup Rest(p))
    BY <1>2, <2>2
  <2>11. {p} \cup Rest(p) \in SUBSET SUBSET hw.gpus
    <3>1. Rest(p) \in SUBSET SUBSET hw.gpus /\ p \in SUBSET hw.gpus
      BY <1>1, <1>2, AroundIs
    <3> HIDE DEF Rest
    <3> QED
      BY <3>1
  <2> DEFINE a == PartitionScore(hw, S \ {g})
  <2> DEFINE b == PartitionScore(hw, Rest(g))
  <2> DEFINE c == GroupScore(hw, g)
  <2> DEFINE d == PartitionScore(hw, {p} \cup Rest(p))
  <2>12. a \in Int /\ b \in Int /\ d \in Int /\ c \in Int
    <3>1. g \in SUBSET hw.gpus /\ S \ {g} \in SUBSET SUBSET hw.gpus
      BY <2>3
    <3> HIDE DEF Rest
    <3> QED
      BY <2>9, <2>11, <3>1, LayoutScore, GroupNumber
  <2>13. a <= b /\ c + b <= d /\ PartitionScore(hw, S) = c + a
    BY <2>7, <2>8, <2>9, <2>10
  <2> HIDE DEF a, b, c, d
  <2>14. PartitionScore(hw, S) <= d
    BY <2>12, <2>13
  <2> QED
    BY <2>14 DEF d
<1> QED
  BY <1>1, <1>2, <1>3

\* What the search may have found, for each set of GPUs and number of groups.
Memories(hw, ids, n) == [SUBSET ids -> [0..n -> SUBSET SUBSET hw.gpus]]

\* Two of them are the same for fewer GPUs than "rest" has.
AlikeBelow(f, g, ids, rest) ==
    \A s \in SUBSET ids: Cardinality(s) < Cardinality(rest) => f[s] = g[s]

\* Only those count for the layout of "rest".
LEMMA BestLayoutTyped ==
    ASSUME NEW hw, HwTyped(hw), NEW ids \in SUBSET hw.gpus, NEW tp \in Nat \ {0}, NEW n \in Nat,
           NEW f \in Memories(hw, ids, n), NEW rest \in SUBSET ids, NEW k \in 0..n,
           NEW g \in Memories(hw, ids, n), AlikeBelow(f, g, ids, rest)
    PROVE  /\ BestLayout(hw, tp, rest, k, f) \in SUBSET SUBSET hw.gpus
           /\ BestLayout(hw, tp, rest, k, f) = BestLayout(hw, tp, rest, k, g)
<1>1. CASE k = 0 \/ Cardinality(rest) < tp * k
  <2>1. BestLayout(hw, tp, rest, k, f) = {} /\ BestLayout(hw, tp, rest, k, g) = {}
    BY <1>1 DEF BestLayout
  <2> QED
    BY <2>1
<1>2. CASE ~(k = 0 \/ Cardinality(rest) < tp * k)
  <2>1. IsFiniteSet(rest) /\ Cardinality(rest) \in Nat /\ rest \in SUBSET hw.gpus
    BY FS_Subset, FS_CardinalityType DEF HwTyped
  <2>2. tp <= Cardinality(rest)
    <3>1. tp * k <= Cardinality(rest) /\ k >= 1
      BY <1>2, <2>1
    <3>2. tp * 1 <= tp * k
      BY <3>1
    <3> QED
      BY <2>1, <3>1, <3>2
  <2>3. /\ Min(rest) \in rest
        /\ \A c \in Around(tp, rest): c # {} /\ c \subseteq rest /\ c \in SUBSET hw.gpus
    BY <2>1, <2>2, AroundIs
  <2>4. k - 1 \in 0..n /\ k \in Nat \ {0}
    BY <1>2
  <2>5. SomeRests(hw, tp, rest, k, f)
    BY <2>4 DEF SomeRests, Memories
  <2>6. Anchored(hw, tp, rest, k, f) \in SUBSET SUBSET hw.gpus
    <3>1. PICK p \in Around(tp, rest): Anchored(hw, tp, rest, k, f) = With(rest, k, f, p)
      BY <2>1, <2>2, <2>4, <2>5, AnchoredOneOf
    <3>2. p \in SUBSET hw.gpus /\ f[rest \ p][k - 1] \in SUBSET SUBSET hw.gpus
      BY <2>3, <2>5 DEF SomeRests
    <3> QED
      BY <3>1, <3>2 DEF With
  <2>7. f[rest \ {Min(rest)}][k] \in SUBSET SUBSET hw.gpus
    BY DEF Memories
  <2>8. /\ Anchored(hw, tp, rest, k, f) = Anchored(hw, tp, rest, k, g)
        /\ f[rest \ {Min(rest)}] = g[rest \ {Min(rest)}]
    <3>1. \A s \in SUBSET rest: s # {} =>
            rest \ s \in SUBSET ids /\ Cardinality(rest \ s) < Cardinality(rest)
      <4> SUFFICES ASSUME NEW s \in SUBSET rest, s # {}
                   PROVE  Cardinality(rest \ s) < Cardinality(rest)
        OBVIOUS
      <4>1. Cardinality(rest \ s) = Cardinality(rest) - Cardinality(s)
        <5>1. Cardinality(rest \ s) = Cardinality(rest) - Cardinality(rest \cap s)
          BY <2>1, FS_Difference
        <5>2. rest \cap s = s
          OBVIOUS
        <5> QED
          BY <5>1, <5>2, Zenon
      <4>2. Cardinality(s) \in Nat /\ Cardinality(s) # 0
        BY <2>1, FS_Subset, FS_CardinalityType, FS_EmptySet
      <4> QED
        BY <2>1, <4>1, <4>2
    <3>2. \A c \in Around(tp, rest): f[rest \ c] = g[rest \ c]
      BY <2>3, <3>1 DEF AlikeBelow
    <3>3. [c \in Around(tp, rest) |-> {c} \cup f[rest \ c][k - 1]]
            = [c \in Around(tp, rest) |-> {c} \cup g[rest \ c][k - 1]]
      BY <3>2
    <3>4. Anchored(hw, tp, rest, k, f) = Anchored(hw, tp, rest, k, g)
      BY <3>3 DEF Anchored, Around
    <3>5. f[rest \ {Min(rest)}] = g[rest \ {Min(rest)}]
      BY <2>3, <3>1 DEF AlikeBelow
    <3> QED
      BY <3>4, <3>5
  <2>9. /\ BestLayout(hw, tp, rest, k, f) = BestLayout(hw, tp, rest, k, g)
        /\ BestLayout(hw, tp, rest, k, f)
             \in {f[rest \ {Min(rest)}][k], Anchored(hw, tp, rest, k, f)}
    BY <1>2, <2>8 DEF BestLayout
  <2> QED
    BY <2>6, <2>7, <2>9
<1> QED
  BY <1>1, <1>2

\* What it finds is a fixed point of its equation, which exists.
Memory(hw, tp, n, ids, f) ==
    f = [rest \in SUBSET ids |-> [k \in 0..n |-> BestLayout(hw, tp, rest, k, f)]]

\* It does: a layout depends on those of fewer GPUs only.
LEMMA RecurseExists ==
    ASSUME NEW hw, HwTyped(hw), NEW ids \in SUBSET hw.gpus, NEW tp \in Nat \ {0}, NEW n \in Nat
    PROVE  \E f: Memory(hw, tp, n, ids, f)
<1> DEFINE D == SUBSET ids
<1> DEFINE V == [0..n -> SUBSET SUBSET hw.gpus]
<1> DEFINE m == [s \in D |-> Cardinality(s)]
<1> DEFINE b == Cardinality(ids)
<1> DEFINE F == [f \in [D -> V] |-> [s \in D |-> [k \in 0..n |-> BestLayout(hw, tp, s, k, f)]]]
<1>1. IsFiniteSet(ids) /\ b \in Nat
  BY FS_Subset, FS_CardinalityType DEF HwTyped
<1>2. m \in [D -> Nat] /\ \A s \in D: m[s] <= b
  BY <1>1, SubsetSizes
<1>3. V # {}
  <2>1. [k \in 0..n |-> {}] \in V
    OBVIOUS
  <2> QED
    BY <2>1
<1>4. F \in [[D -> V] -> [D -> V]]
  <2>1. \A f \in [D -> V]: \A s \in D: \A k \in 0..n:
          BestLayout(hw, tp, s, k, f) \in SUBSET SUBSET hw.gpus
    <3> SUFFICES ASSUME NEW f \in [D -> V], NEW s \in D, NEW k \in 0..n
                 PROVE  BestLayout(hw, tp, s, k, f) \in SUBSET SUBSET hw.gpus
      OBVIOUS
    <3>1. f \in Memories(hw, ids, n) /\ AlikeBelow(f, f, ids, s)
      BY DEF Memories, AlikeBelow
    <3> HIDE DEF V, m, b, F
    <3> QED
      BY <3>1, BestLayoutTyped
  <2> QED
    BY <2>1
<1>5. \A f, g \in [D -> V]: \A s \in D:
        (\A t \in D: m[t] < m[s] => f[t] = g[t]) => F[f][s] = F[g][s]
  <2> SUFFICES ASSUME NEW f \in [D -> V], NEW g \in [D -> V], NEW s \in D,
                      \A t \in D: m[t] < m[s] => f[t] = g[t]
               PROVE  F[f][s] = F[g][s]
    OBVIOUS
  <2>1. AlikeBelow(f, g, ids, s) /\ f \in Memories(hw, ids, n) /\ g \in Memories(hw, ids, n)
    BY DEF AlikeBelow, Memories
  <2>2. \A k \in 0..n: BestLayout(hw, tp, s, k, f) = BestLayout(hw, tp, s, k, g)
    <3> SUFFICES ASSUME NEW k \in 0..n
                 PROVE  BestLayout(hw, tp, s, k, f) = BestLayout(hw, tp, s, k, g)
      OBVIOUS
    <3> HIDE DEF V, m, b, F
    <3> QED
      BY <2>1, BestLayoutTyped
  <2>3. F[f][s] = [k \in 0..n |-> BestLayout(hw, tp, s, k, f)]
        /\ F[g][s] = [k \in 0..n |-> BestLayout(hw, tp, s, k, g)]
    OBVIOUS
  <2> QED
    BY <2>2, <2>3
<1>6. Recursive(D, V, m, b, F)
  <2> HIDE DEF D, V, m, b, F
  <2> QED
    BY <1>1, <1>2, <1>3, <1>4, <1>5 DEF Recursive
<1>7. \E f \in [D -> V]: f = F[f]
  <2> HIDE DEF D, V, m, b, F
  <2> QED
    BY <1>6, Recursion
<1> QED
  BY <1>7 DEF Memory

\* _exhaustive finds the best layout.
LEMMA SearchFinds ==
    ASSUME NEW hw, HwTyped(hw), NEW ids \in SUBSET hw.gpus, NEW tp \in Nat \ {0}, NEW n \in Nat,
           tp * n <= Cardinality(ids)
    PROVE  Optimal(hw, tp, ids, n, Search(hw, tp, n, ids))
<1> DEFINE Found == CHOOSE f:
             f = [rest \in SUBSET ids |-> [k \in 0..n |-> BestLayout(hw, tp, rest, k, f)]]
<1>1. Found = [rest \in SUBSET ids |-> [k \in 0..n |-> BestLayout(hw, tp, rest, k, Found)]]
  <2>1. \E f: Memory(hw, tp, n, ids, f)
    BY RecurseExists
  <2> QED
    BY <2>1 DEF Memory
<1>2. Search(hw, tp, n, ids) = Found[ids][n]
  BY DEF Search
<1> HIDE DEF Found
<1>3. IsFiniteSet(ids)
  BY FS_Subset DEF HwTyped
<1> DEFINE D == SUBSET ids
<1> DEFINE m == [s \in D |-> Cardinality(s)]
<1> DEFINE Good(s, k) == tp * k <= Cardinality(s) => Optimal(hw, tp, s, k, Found[s][k])
<1> DEFINE A == {s \in D: \A k \in 0..n: Good(s, k)}
<1>4. ASSUME NEW s \in D, \A t \in D: Cardinality(t) < Cardinality(s) => t \in A,
             NEW k \in 0..n, tp * k <= Cardinality(s)
      PROVE  Optimal(hw, tp, s, k, Found[s][k])
  <2>1. IsFiniteSet(s) /\ Cardinality(s) \in Nat /\ s \in SUBSET hw.gpus
    BY <1>3, SubsetSizes
  <2>2. Found[s][k] = BestLayout(hw, tp, s, k, Found)
    BY <1>1
  <2>3. CASE k = 0
    <3>1. Found[s][k] = {}
      BY <2>2, <2>3 DEF BestLayout
    <3>2. \A S: IsLayout(tp, s, S) /\ Cardinality(S) = 0 => S = {}
      BY <2>1, LayoutSize, FS_EmptySet
    <3>3. IsLayout(tp, s, {}) /\ Cardinality({}) = 0
      BY FS_EmptySet DEF IsLayout
    <3>4. PartitionScore(hw, {}) <= PartitionScore(hw, {})
      <4>1. PartitionScore(hw, {}) \in Int
        BY LayoutScore
      <4> QED
        BY <4>1
    <3> QED
      BY <2>3, <3>1, <3>2, <3>3, <3>4 DEF Optimal
  <2>4. CASE k # 0
    <3>1. k - 1 \in 0..n /\ k \in Nat \ {0} /\ tp * k = tp * (k - 1) + tp
          /\ tp * (k - 1) >= 0 /\ tp * k \in Nat
      BY <2>4
    <3>2. tp <= Cardinality(s)
      BY <1>4, <2>1, <3>1
    <3>3. \A g \in Around(tp, s): Optimal(hw, tp, s \ g, k - 1, Found[s \ g][k - 1])
      <4> SUFFICES ASSUME NEW g \in Around(tp, s)
                   PROVE  Optimal(hw, tp, s \ g, k - 1, Found[s \ g][k - 1])
        OBVIOUS
      <4>1. s \ g \in D /\ Cardinality(s \ g) = Cardinality(s) - tp
        BY <2>1, <3>2, AroundIs
      <4>2. s \ g \in A
        <5> HIDE DEF A
        <5> QED
          BY <1>4, <2>1, <4>1
      <4>3. tp * (k - 1) <= Cardinality(s \ g)
        BY <1>4, <2>1, <3>1, <4>1
      <4> QED
        BY <3>1, <4>2, <4>3
    <3> DEFINE anchored == Anchored(hw, tp, s, k, Found)
    <3> DEFINE skipped == Found[s \ {Min(s)}][k]
    <3>4. /\ IsLayout(tp, s, anchored) /\ Cardinality(anchored) = k
          /\ \A S: IsLayout(tp, s, S) /\ Cardinality(S) = k /\ Min(s) \in UNION S
               => PartitionScore(hw, S) <= PartitionScore(hw, anchored)
      <4>1. BestRests(hw, tp, s, k, Found)
        BY <3>3 DEF BestRests
      <4> QED
        BY <2>1, <3>1, <3>2, <4>1, AnchoredIs
    <3>5. Min(s) \in s
      BY <2>1, <3>2, AroundIs
    <3>6. s \ {Min(s)} \in D /\ Cardinality(s \ {Min(s)}) = Cardinality(s) - 1
      BY <2>1, <3>5, FS_RemoveElement
    <3>7. Cardinality(s) > tp * k => Optimal(hw, tp, s \ {Min(s)}, k, skipped)
      <4> SUFFICES ASSUME Cardinality(s) > tp * k
                   PROVE  Optimal(hw, tp, s \ {Min(s)}, k, skipped)
        OBVIOUS
      <4>1. s \ {Min(s)} \in A
        <5> HIDE DEF A
        <5> QED
          BY <1>4, <2>1, <3>6
      <4>2. tp * k <= Cardinality(s \ {Min(s)})
        BY <2>1, <3>1, <3>6
      <4> QED
        BY <4>1, <4>2
    <3>8. \A S: IsLayout(tp, s \ {Min(s)}, S) => IsLayout(tp, s, S)
      BY DEF IsLayout, kSubset
    <3>9. \A S: IsLayout(tp, s, S) /\ Cardinality(S) = k /\ Min(s) \notin UNION S
            => IsLayout(tp, s \ {Min(s)}, S) /\ Cardinality(s) > tp * k
      <4> SUFFICES ASSUME NEW S, IsLayout(tp, s, S), Cardinality(S) = k, Min(s) \notin UNION S
                   PROVE  IsLayout(tp, s \ {Min(s)}, S) /\ Cardinality(s) > tp * k
        OBVIOUS
      <4>1. IsLayout(tp, s \ {Min(s)}, S)
        BY DEF IsLayout, kSubset
      <4>2. IsFiniteSet(s \ {Min(s)})
        BY <2>1, FS_RemoveElement, <3>5
      <4>3. tp * k <= Cardinality(s) - 1
        <5>1. tp * Cardinality(S) <= Cardinality(s \ {Min(s)})
          BY <4>1, <4>2, LayoutSize
        <5> QED
          BY <3>6, <5>1
      <4> QED
        BY <2>1, <3>1, <4>1, <4>3
    <3>10. Found[s][k] = IF /\ Cardinality(s) > tp * k
                            /\ PartitionScore(hw, skipped) > PartitionScore(hw, anchored)
                         THEN skipped ELSE anchored
      BY <1>4, <2>1, <2>2, <2>4, <3>1 DEF BestLayout
    <3>11. \A S: IsLayout(tp, s, S) => S \in SUBSET SUBSET hw.gpus
      BY <2>1 DEF IsLayout, kSubset
    <3> HIDE DEF anchored, skipped
    <3>12. PartitionScore(hw, anchored) \in Int
      BY <3>4, <3>11, LayoutScore
    <3>13. CASE Found[s][k] = skipped /\ Cardinality(s) > tp * k
                /\ PartitionScore(hw, skipped) > PartitionScore(hw, anchored)
      <4>1. IsLayout(tp, s, skipped) /\ Cardinality(skipped) = k
        BY <3>7, <3>8, <3>13 DEF Optimal
      <4>2. PartitionScore(hw, skipped) \in Int
        BY <3>11, <4>1, LayoutScore
      <4>3. ASSUME NEW S, IsLayout(tp, s, S), Cardinality(S) = k
            PROVE  PartitionScore(hw, S) <= PartitionScore(hw, skipped)
        <5>1. CASE Min(s) \in UNION S
          <6>1. PartitionScore(hw, S) <= PartitionScore(hw, anchored)
            BY <3>4, <4>3, <5>1
          <6>2. PartitionScore(hw, S) \in Int
            BY <3>11, <4>3, LayoutScore
          <6> QED
            BY <3>12, <3>13, <4>2, <6>1, <6>2
        <5>2. CASE Min(s) \notin UNION S
          BY <3>7, <3>9, <4>3, <5>2 DEF Optimal
        <5> QED
          BY <5>1, <5>2
      <4> QED
        BY <3>13, <4>1, <4>3 DEF Optimal
    <3>14. CASE Found[s][k] = anchored
                /\ ~(/\ Cardinality(s) > tp * k
                     /\ PartitionScore(hw, skipped) > PartitionScore(hw, anchored))
      <4>1. ASSUME NEW S, IsLayout(tp, s, S), Cardinality(S) = k
            PROVE  PartitionScore(hw, S) <= PartitionScore(hw, anchored)
        <5>1. CASE Min(s) \in UNION S
          BY <3>4, <4>1, <5>1
        <5>2. CASE Min(s) \notin UNION S
          <6>1. /\ IsLayout(tp, s, skipped)
                /\ PartitionScore(hw, S) <= PartitionScore(hw, skipped)
            BY <3>7, <3>8, <3>9, <4>1, <5>2 DEF Optimal
          <6>2. PartitionScore(hw, S) \in Int /\ PartitionScore(hw, skipped) \in Int
            BY <3>11, <4>1, <6>1, LayoutScore
          <6>3. ~(PartitionScore(hw, skipped) > PartitionScore(hw, anchored))
            BY <3>9, <3>14, <4>1, <5>2
          <6> QED
            BY <3>12, <6>1, <6>2, <6>3
        <5> QED
          BY <5>1, <5>2
      <4> QED
        BY <3>4, <3>14, <4>1 DEF Optimal
    <3> QED
      BY <3>10, <3>13, <3>14
  <2> QED
    BY <2>3, <2>4
<1>5. D \subseteq A
  <2>1. m \in [D -> Nat]
    BY <1>3, SubsetSizes
  <2>2. \A s \in D: (\A t \in D: m[t] < m[s] => t \in A) => s \in A
    <3> SUFFICES ASSUME NEW s \in D, \A t \in D: m[t] < m[s] => t \in A
                 PROVE  s \in A
      OBVIOUS
    <3>1. \A t \in D: Cardinality(t) < Cardinality(s) => t \in A
      <4> HIDE DEF A
      <4> QED
        OBVIOUS
    <3>2. \A k \in 0..n: Good(s, k)
      <4> HIDE DEF A
      <4> QED
        BY <1>4, <3>1
    <3> QED
      BY <3>2
  <2> HIDE DEF A, D, m
  <2> QED
    BY <2>1, <2>2, SizeInduction
<1>6. ids \in A /\ n \in 0..n
  BY <1>5
<1> QED
  BY <1>2, <1>6

----------------------------------------------------------------------------
(* The greedy choice                                                       *)

\* max() over GPUs is one of them.
LEMMA BestIs ==
    ASSUME NEW D \in SUBSET Nat, IsFiniteSet(D), D # {}, NEW f \in [D -> Int]
    PROVE  Best(f) \in D
<1> DEFINE R == {p \in D \X D: f[p[1]] > f[p[2]] \/ (f[p[1]] = f[p[2]] /\ p[1] < p[2])}
<1>1. \A x, y \in D: <<x, y>> \in R <=> f[x] > f[y] \/ (f[x] = f[y] /\ x < y)
  OBVIOUS
<1>2. Best(f) = First(D, R)
  BY DEF Best
<1> HIDE DEF R
<1>3. TotalOrder(R, D)
  <2>1. \A x \in D: <<x, x>> \notin R
    <3> SUFFICES ASSUME NEW x \in D, <<x, x>> \in R
                 PROVE  FALSE
      OBVIOUS
    <3>1. f[x] > f[x] \/ x < x
      BY <1>1
    <3>2. f[x] \in Int /\ x \in Int
      OBVIOUS
    <3> QED
      BY <3>1, <3>2
  <2>2. \A x, y \in D: x = y \/ <<x, y>> \in R \/ <<y, x>> \in R
    <3> SUFFICES ASSUME NEW x \in D, NEW y \in D
                 PROVE  x = y \/ <<x, y>> \in R \/ <<y, x>> \in R
      OBVIOUS
    <3>1. f[x] \in Int /\ f[y] \in Int /\ x \in Int /\ y \in Int
      OBVIOUS
    <3> QED
      BY <1>1, <3>1
  <2>3. \A x, y, z \in D: <<x, y>> \in R /\ <<y, z>> \in R => <<x, z>> \in R
    <3> SUFFICES ASSUME NEW x \in D, NEW y \in D, NEW z \in D, <<x, y>> \in R, <<y, z>> \in R
                 PROVE  <<x, z>> \in R
      OBVIOUS
    <3>1. /\ f[x] \in Int /\ f[y] \in Int /\ f[z] \in Int
          /\ x \in Int /\ y \in Int /\ z \in Int
      OBVIOUS
    <3>2. f[x] > f[y] \/ (f[x] = f[y] /\ x < y)
      BY <1>1
    <3>3. f[y] > f[z] \/ (f[y] = f[z] /\ y < z)
      BY <1>1
    <3>4. f[x] > f[z] \/ (f[x] = f[z] /\ x < z)
      BY <3>1, <3>2, <3>3
    <3> QED
      BY <1>1, <3>4
  <2> QED
    BY <2>1, <2>2, <2>3 DEF TotalOrder
<1> QED
  BY <1>2, <1>3, FirstIs

\* A group starts with one GPU and grows by one.
LEMMA SeedIs ==
    ASSUME NEW hw, HwTyped(hw), NEW rest \in SUBSET hw.gpus, rest # {}
    PROVE  \E i \in rest: Seed(hw, rest) = {i}
<1> DEFINE f == [i \in rest |-> LinksTo(hw, i, rest \ {i})]
<1>1. f \in [rest -> Int]
  BY LinksNumber
<1>2. rest \in SUBSET Nat /\ IsFiniteSet(rest)
  BY GpusNumbered
<1>3. Best(f) \in rest
  <2> HIDE DEF f
  <2> QED
    BY <1>1, <1>2, BestIs
<1> QED
  BY <1>3 DEF Seed

\* A group grows by one GPU of those left.
LEMMA GrowIs ==
    ASSUME NEW hw, HwTyped(hw), NEW rest \in SUBSET hw.gpus, NEW g \in SUBSET rest, g # rest
    PROVE  \E c \in rest \ g: Grow(hw, rest, g) = g \cup {c}
<1> DEFINE D == rest \ g
<1> DEFINE f == [c \in D |-> LinksTo(hw, c, g)]
<1>1. f \in [D -> Int]
  BY LinksNumber
<1>2. D \in SUBSET Nat /\ IsFiniteSet(D) /\ D # {}
  <2>1. D \in SUBSET hw.gpus /\ D # {}
    OBVIOUS
  <2> QED
    BY <2>1, GpusNumbered
<1>3. Best(f) \in D
  <2> HIDE DEF f, D
  <2> QED
    BY <1>1, <1>2, BestIs
<1> QED
  BY <1>3 DEF Grow

\* It grows to its size.
LEMMA NextGroupIs ==
    ASSUME NEW hw, HwTyped(hw), NEW rest \in SUBSET hw.gpus, NEW tp \in Nat \ {0},
           tp <= Cardinality(rest)
    PROVE  NextGroup(hw, tp, rest) \in kSubset(tp, rest)
<1> DEFINE n == tp - 1
<1> DEFINE Follows(f) == /\ f[0] = Seed(hw, rest)
                         /\ \A j \in 1..n: f[j - 1] \in SUBSET rest
                                             => f[j] = Grow(hw, rest, f[j - 1])
<1> DEFINE Equal(f) == f = [j \in 0..n |-> IF j = 0 THEN Seed(hw, rest)
                                           ELSE Grow(hw, rest, f[j - 1])]
<1>1. n \in Nat /\ IsFiniteSet(rest) /\ Cardinality(rest) \in Nat /\ rest # {}
  BY FS_Subset, FS_CardinalityType, FS_EmptySet DEF HwTyped
<1>2. ASSUME NEW f, Follows(f)
      PROVE  \A j \in 0..n: f[j] \in SUBSET rest /\ Cardinality(f[j]) = j + 1
  <2> DEFINE A == {j \in 0..n: f[j] \in SUBSET rest /\ Cardinality(f[j]) = j + 1}
  <2>1. 0 \in A
    <3>1. PICK i \in rest: Seed(hw, rest) = {i}
      BY <1>1, SeedIs
    <3>2. f[0] = {i} /\ Cardinality({i}) = 1
      BY <1>2, <3>1, FS_Singleton
    <3> QED
      BY <1>1, <3>1, <3>2
  <2>2. \A j \in 0..n: j + 1 \in 0..n /\ j \in A => j + 1 \in A
    <3> SUFFICES ASSUME NEW j \in 0..n, j + 1 \in 0..n, j \in A
                 PROVE  j + 1 \in A
      OBVIOUS
    <3>1. PICK g: g = f[j]
      OBVIOUS
    <3>2. g \in SUBSET rest /\ Cardinality(g) = j + 1 /\ IsFiniteSet(g)
      BY <1>1, <3>1, FS_Subset
    <3>3. g # rest
      BY <1>1, <3>2
    <3>4. PICK c \in rest \ g: Grow(hw, rest, g) = g \cup {c}
      BY <3>2, <3>3, GrowIs
    <3>5. f[j + 1] = Grow(hw, rest, g)
      <4>1. j + 1 \in 1..n /\ (j + 1) - 1 = j
        OBVIOUS
      <4> QED
        BY <1>2, <3>1, <3>2, <4>1
    <3>6. Cardinality(g \cup {c}) = (j + 1) + 1
      BY <3>2, <3>4, FS_AddElement
    <3>7. f[j + 1] = g \cup {c} /\ g \cup {c} \in SUBSET rest
      BY <3>2, <3>4, <3>5
    <3>8. f[j + 1] \in SUBSET rest /\ Cardinality(f[j + 1]) = (j + 1) + 1
      BY <3>6, <3>7, Zenon
    <3> QED
      BY <3>8
  <2>3. 0..n \subseteq A
    <3> HIDE DEF A
    <3> QED
      BY <1>1, <2>1, <2>2, UpToN
  <2> QED
    BY <2>3
<1>3. \A f: Equal(f) => Follows(f)
  <2> SUFFICES ASSUME NEW f, Equal(f)
               PROVE  Follows(f)
    OBVIOUS
  <2>1. \A j \in 0..n: f[j] = IF j = 0 THEN Seed(hw, rest) ELSE Grow(hw, rest, f[j - 1])
    OBVIOUS
  <2>2. 0 \in 0..n /\ \A j \in 1..n: j \in 0..n /\ j # 0
    BY <1>1
  <2> QED
    BY <2>1, <2>2
<1>4. \E f: Equal(f)
  <2> DEFINE G == [y \in (1..n) \X SUBSET rest |-> Grow(hw, rest, y[2])]
  <2> DEFINE b == Seed(hw, rest)
  <2>1. PICK f: IsChain(n, b, G, f)
    <3> HIDE DEF G, b
    <3> QED
      BY <1>1, Chain
  <2>2. \A j \in 0..n: f[j] = IF j = 0 THEN b ELSE G[<<j, f[j - 1]>>]
    BY <2>1 DEF IsChain
  <2>3. Follows(f)
    <3>1. 0 \in 0..n /\ \A j \in 1..n: j \in 0..n /\ j # 0
      BY <1>1
    <3> QED
      BY <2>2, <3>1
  <2>4. \A j \in 0..n: j # 0 => f[j - 1] \in SUBSET rest
    <3>1. \A j \in 0..n: j # 0 => j - 1 \in 0..n
      OBVIOUS
    <3> HIDE DEF Follows
    <3> QED
      BY <1>2, <2>3, <3>1
  <2>5. \A j \in 0..n: f[j] = IF j = 0 THEN Seed(hw, rest) ELSE Grow(hw, rest, f[j - 1])
    <3>1. \A j \in 1..n: \A g \in SUBSET rest: G[<<j, g>>] = Grow(hw, rest, g)
      OBVIOUS
    <3>2. \A j \in 0..n: j # 0 => j \in 1..n
      OBVIOUS
    <3> HIDE DEF G
    <3> QED
      BY <2>2, <2>4, <3>1, <3>2
  <2>6. Equal(f)
    BY <2>1, <2>5 DEF IsChain
  <2> HIDE DEF Equal
  <2> QED
    BY <2>6
<1> DEFINE Grew == CHOOSE f: Equal(f)
<1>5. Equal(Grew)
  <2> HIDE DEF Equal
  <2> QED
    BY <1>4
<1>6. NextGroup(hw, tp, rest) = Grew[n]
  BY DEF NextGroup
<1> HIDE DEF Grew
<1>7. Follows(Grew)
  BY <1>3, <1>5
<1>8. n \in 0..n /\ n + 1 = tp
  BY <1>1
<1>9. Grew[n] \in SUBSET rest /\ Cardinality(Grew[n]) = tp
  <2> HIDE DEF Follows
  <2> QED
    BY <1>2, <1>7, <1>8
<1> QED
  BY <1>6, <1>9 DEF kSubset

\* A group of GPUs that a layout leaves over is one more group.
LEMMA AddGroupIs ==
    ASSUME NEW hw, HwTyped(hw), NEW ids \in SUBSET hw.gpus, NEW tp \in Nat \ {0}, NEW j \in Nat,
           NEW gs, Lays(tp, ids, j, gs), tp * (j + 1) <= Cardinality(ids)
    PROVE  Lays(tp, ids, j + 1, AddGroup(hw, tp, ids, gs))
<1>0. IsLayout(tp, ids, gs) /\ Cardinality(gs) = j
  BY DEF Lays
<1>1. IsFiniteSet(ids) /\ Cardinality(ids) \in Nat
  BY FS_Subset, FS_CardinalityType DEF HwTyped
<1>2. UNION gs \subseteq ids /\ IsFiniteSet(UNION gs) /\ Cardinality(UNION gs) = tp * j
  <2>1. UNION gs \subseteq ids /\ IsFiniteSet(UNION gs)
        /\ Cardinality(UNION gs) = tp * Cardinality(gs)
    BY <1>0, <1>1, LayoutSize
  <2> QED
    BY <1>0, <2>1
<1> DEFINE left == ids \ UNION gs
<1> DEFINE g == NextGroup(hw, tp, left)
<1>3. left \in SUBSET hw.gpus /\ tp <= Cardinality(left)
  <2>1. Cardinality(left) = Cardinality(ids) - tp * j
    <3>1. Cardinality(left) = Cardinality(ids) - Cardinality(ids \cap UNION gs)
      BY <1>1, FS_Difference
    <3>2. ids \cap UNION gs = UNION gs
      BY <1>2
    <3>3. Cardinality(ids \cap UNION gs) = tp * j
      BY <1>2, <3>2, Zenon
    <3> QED
      BY <3>1, <3>3
  <2>2. tp * (j + 1) = tp * j + tp /\ tp * j \in Nat
    OBVIOUS
  <2> QED
    BY <1>1, <2>1, <2>2
<1>4. g \in kSubset(tp, left)
  <2> HIDE DEF left
  <2> QED
    BY <1>3, NextGroupIs
<1>5. g \in kSubset(tp, ids) /\ \A h \in gs: g \cap h = {}
  BY <1>4 DEF kSubset
<1>6. IsLayout(tp, ids \ g, gs)
  <2>1. \A h \in gs: h \in kSubset(tp, ids)
    BY <1>0 DEF IsLayout
  <2>2. \A h \in gs: h \in kSubset(tp, ids \ g)
    BY <1>5, <2>1 DEF kSubset
  <2> HIDE DEF g
  <2> QED
    BY <1>0, <2>2 DEF IsLayout
<1>7. PICK new: new = g
  OBVIOUS
<1>8. Lays(tp, ids, j + 1, {new} \cup gs)
  <2>1. new \in kSubset(tp, ids) /\ Lays(tp, ids \ new, j, gs)
    BY <1>0, <1>5, <1>6, <1>7 DEF Lays
  <2> HIDE DEF g, left
  <2> QED
    BY <1>1, <2>1, LayoutGrows
<1>9. AddGroup(hw, tp, ids, gs) = {new} \cup gs
  BY <1>7 DEF AddGroup
<1> QED
  BY <1>8, <1>9

\* _greedy makes a layout, too.
LEMMA GreedyLays ==
    ASSUME NEW hw, HwTyped(hw), NEW ids \in SUBSET hw.gpus, NEW tp \in Nat \ {0}, NEW n \in Nat,
           tp * n <= Cardinality(ids)
    PROVE  Lays(tp, ids, n, Greedy(hw, tp, n, ids))
<1> DEFINE Follows(f) == /\ f[0] = {}
                         /\ \A j \in 1..n: f[j - 1] \in SUBSET SUBSET ids
                                             => f[j] = AddGroup(hw, tp, ids, f[j - 1])
<1> DEFINE Equal(f) == f = [j \in 0..n |-> IF j = 0 THEN {}
                                           ELSE AddGroup(hw, tp, ids, f[j - 1])]
<1>1. IsFiniteSet(ids) /\ Cardinality(ids) \in Nat
  BY FS_Subset, FS_CardinalityType DEF HwTyped
<1>2. ASSUME NEW f, Follows(f)
      PROVE  \A j \in 0..n: f[j] \in SUBSET SUBSET ids /\ Lays(tp, ids, j, f[j])
  <2> DEFINE A == {j \in 0..n: Lays(tp, ids, j, f[j])}
  <2>1. 0 \in A
    <3>1. Lays(tp, ids, 0, {})
      BY FS_EmptySet DEF Lays, IsLayout
    <3>2. f[0] = {} /\ 0 \in 0..n
      BY <1>2
    <3> QED
      BY <3>1, <3>2, Zenon
  <2>2. \A j \in 0..n: j + 1 \in 0..n /\ j \in A => j + 1 \in A
    <3> SUFFICES ASSUME NEW j \in 0..n, j + 1 \in 0..n, j \in A
                 PROVE  j + 1 \in A
      OBVIOUS
    <3>1. PICK gs: gs = f[j]
      OBVIOUS
    <3>2. Lays(tp, ids, j, gs) /\ gs \in SUBSET SUBSET ids /\ j \in Nat
      BY <3>1 DEF Lays, IsLayout, kSubset
    <3>3. tp * (j + 1) <= Cardinality(ids)
      <4>1. j + 1 <= n /\ j + 1 \in Nat
        OBVIOUS
      <4>2. (j + 1) * tp <= n * tp
        BY <4>1
      <4>3. (j + 1) * tp = tp * (j + 1) /\ n * tp = tp * n /\ tp * n \in Nat /\ tp * (j + 1) \in Nat
        BY <4>1
      <4> QED
        BY <1>1, <4>2, <4>3
    <3>4. f[j + 1] = AddGroup(hw, tp, ids, gs)
      <4>1. j + 1 \in 1..n /\ (j + 1) - 1 = j
        OBVIOUS
      <4> QED
        BY <1>2, <3>1, <3>2, <4>1
    <3>5. Lays(tp, ids, j + 1, AddGroup(hw, tp, ids, gs))
      BY <3>2, <3>3, AddGroupIs
    <3> QED
      BY <3>4, <3>5
  <2>3. 0..n \subseteq A
    <3> HIDE DEF A
    <3> QED
      BY <2>1, <2>2, UpToN
  <2>4. \A gs: \A j \in 0..n: Lays(tp, ids, j, gs) => gs \in SUBSET SUBSET ids
    BY DEF Lays, IsLayout, kSubset
  <2> QED
    BY <2>3, <2>4
<1>3. \A f: Equal(f) => Follows(f)
  <2> SUFFICES ASSUME NEW f, Equal(f)
               PROVE  Follows(f)
    OBVIOUS
  <2>1. \A j \in 0..n: f[j] = IF j = 0 THEN {} ELSE AddGroup(hw, tp, ids, f[j - 1])
    OBVIOUS
  <2>2. 0 \in 0..n /\ \A j \in 1..n: j \in 0..n /\ j # 0
    OBVIOUS
  <2> QED
    BY <2>1, <2>2
<1>4. \E f: Equal(f)
  <2> DEFINE G == [y \in (1..n) \X SUBSET SUBSET ids |-> AddGroup(hw, tp, ids, y[2])]
  <2> DEFINE b == {}
  <2>1. PICK f: IsChain(n, b, G, f)
    <3> HIDE DEF G, b
    <3> QED
      BY Chain
  <2>2. \A j \in 0..n: f[j] = IF j = 0 THEN {} ELSE G[<<j, f[j - 1]>>]
    BY <2>1 DEF IsChain
  <2>3. Follows(f)
    <3>1. 0 \in 0..n /\ \A j \in 1..n: j \in 0..n /\ j # 0
      OBVIOUS
    <3> QED
      BY <2>2, <3>1
  <2>4. \A j \in 0..n: j # 0 => f[j - 1] \in SUBSET SUBSET ids
    <3>1. \A j \in 0..n: j # 0 => j - 1 \in 0..n
      OBVIOUS
    <3> HIDE DEF Follows
    <3> QED
      BY <1>2, <2>3, <3>1
  <2>5. \A j \in 0..n: f[j] = IF j = 0 THEN {} ELSE AddGroup(hw, tp, ids, f[j - 1])
    <3>1. \A j \in 1..n: \A g \in SUBSET SUBSET ids: G[<<j, g>>] = AddGroup(hw, tp, ids, g)
      OBVIOUS
    <3>2. \A j \in 0..n: j # 0 => j \in 1..n
      OBVIOUS
    <3> HIDE DEF G
    <3> QED
      BY <2>2, <2>4, <3>1, <3>2
  <2>6. Equal(f)
    BY <2>1, <2>5 DEF IsChain
  <2> HIDE DEF Equal
  <2> QED
    BY <2>6
<1> DEFINE Got == CHOOSE f: Equal(f)
<1>5. Equal(Got)
  <2> HIDE DEF Equal
  <2> QED
    BY <1>4
<1>6. Greedy(hw, tp, n, ids) = Got[n]
  BY DEF Greedy
<1> HIDE DEF Got
<1>7. Follows(Got)
  BY <1>3, <1>5
<1>8. Lays(tp, ids, n, Got[n])
  <2>1. n \in 0..n
    OBVIOUS
  <2> HIDE DEF Follows
  <2> QED
    BY <1>2, <1>7, <2>1
<1> QED
  BY <1>6, <1>8

\* Either way.
LEMMA FormedLays ==
    ASSUME NEW hw, HwTyped(hw), NEW ids \in SUBSET hw.gpus, NEW tp \in Nat \ {0}, NEW n \in Nat,
           tp * n <= Cardinality(ids)
    PROVE  /\ Lays(tp, ids, n, Formed(hw, tp, n, ids))
           /\ Cardinality(ids) <= ExhaustiveMax
                => Optimal(hw, tp, ids, n, Formed(hw, tp, n, ids))
<1>1. Optimal(hw, tp, ids, n, Search(hw, tp, n, ids))
  BY SearchFinds
<1>2. Lays(tp, ids, n, Greedy(hw, tp, n, ids))
  BY GreedyLays
<1>3. Lays(tp, ids, n, Search(hw, tp, n, ids))
  BY <1>1 DEF Optimal, Lays
<1> QED
  BY <1>1, <1>2, <1>3 DEF Formed

----------------------------------------------------------------------------
(* Replicas on the nodes                                                   *)

\* The first n groups of a layout in some order.
LEMMA FirstOnes ==
    ASSUME NEW S, IsFiniteSet(S), NEW R, TotalOrder(R, S), NEW n \in Nat, n <= Cardinality(S)
    PROVE  LET s == SubSeq(InOrder(S, R), 1, n) IN
           /\ Len(s) = n /\ DOMAIN s = 1..n /\ ToSet(s) \subseteq S
           /\ \A i, j \in 1..n: i # j => s[i] # s[j]
           /\ n = Cardinality(S) => ToSet(s) = S /\ s = InOrder(S, R)
<1> DEFINE all == InOrder(S, R)
<1> DEFINE s == SubSeq(all, 1, n)
<1>1. /\ all \in Seq(S) /\ Len(all) = Cardinality(S)
      /\ \A i, j \in 1..Len(all): i # j => all[i] # all[j]
      /\ \A x \in S: \E i \in 1..Len(all): all[i] = x
  BY InOrderIs
<1> HIDE DEF all
<1>2. Cardinality(S) \in Nat
  BY FS_CardinalityType
<1>3. s = [i \in 1..n |-> all[i]] /\ Len(s) = n /\ DOMAIN s = 1..n
  <2>1. Len(s) = n /\ \A i \in 1..n: s[i] = all[i]
    BY <1>1, <1>2
  <2>2. s \in Seq(S)
    BY <1>1, <1>2
  <2> HIDE DEF s
  <2> QED
    BY <2>1, <2>2
<1> HIDE DEF s
<1>4. \A i \in 1..n: s[i] = all[i] /\ i \in 1..Len(all) /\ all[i] \in S
  BY <1>1, <1>2, <1>3
<1>5. ToSet(s) = {s[i]: i \in 1..n}
  BY <1>3 DEF ToSet
<1>6. ToSet(s) \subseteq S
  BY <1>4, <1>5
<1>7. \A i, j \in 1..n: i # j => s[i] # s[j]
  BY <1>1, <1>4
<1>8. ASSUME n = Cardinality(S)
      PROVE  ToSet(s) = S /\ s = all
  <2>1. s = all
    BY <1>1, <1>3, <1>8
  <2>2. S \subseteq ToSet(s)
    BY <1>1, <1>5, <1>8, <2>1
  <2> QED
    BY <1>6, <2>1, <2>2
<1> QED
  BY <1>3, <1>6, <1>7, <1>8 DEF s, all

\* Groups are ordered by their smallest GPUs, or by these after their nodes.
LEMMA GroupsOrdered ==
    ASSUME NEW hw, HwTyped(hw), NEW tp \in Nat \ {0}, NEW ids \in SUBSET hw.gpus,
           NEW gs, IsLayout(tp, ids, gs)
    PROVE  TotalOrder(ByGpu(gs), gs) /\ TotalOrder(ByNode(hw, gs), gs)
<1>1. ASSUME NEW g \in gs
      PROVE  Min(g) \in g /\ Min(g) \in Nat /\ NodeOf(hw, g) \in Nat
  <2>1. g \in SUBSET hw.gpus /\ Cardinality(g) = tp
    BY DEF IsLayout, kSubset
  <2>2. g # {}
    BY <2>1, FS_EmptySet
  <2>3. Min(g) \in g /\ g \subseteq Nat
    BY <2>1, <2>2, GpusNumbered
  <2> QED
    BY <2>1, <2>3 DEF NodeOf, HwTyped
<1>2. \A g, h \in gs: Min(g) = Min(h) => g = h
  BY <1>1 DEF IsLayout
<1>3. \A g, h \in gs: <<g, h>> \in ByGpu(gs) <=> Min(g) < Min(h)
  BY DEF ByGpu
<1>4. \A g, h \in gs: <<g, h>> \in ByNode(hw, gs)
        <=> \/ NodeOf(hw, g) < NodeOf(hw, h)
            \/ NodeOf(hw, g) = NodeOf(hw, h) /\ Min(g) < Min(h)
  BY DEF ByNode
<1> DEFINE a == ByGpu(gs)
<1> DEFINE b == ByNode(hw, gs)
<1> HIDE DEF a, b
<1>5. TotalOrder(a, gs)
  <2> SUFFICES ASSUME NEW x \in gs, NEW y \in gs, NEW z \in gs
               PROVE  /\ <<x, x>> \notin a /\ (x = y \/ <<x, y>> \in a \/ <<y, x>> \in a)
                      /\ <<x, y>> \in a /\ <<y, z>> \in a => <<x, z>> \in a
    BY DEF TotalOrder
  <2>1. Min(x) \in Int /\ Min(y) \in Int /\ Min(z) \in Int /\ (Min(x) = Min(y) => x = y)
    BY <1>1, <1>2
  <2>2. /\ <<x, x>> \in a <=> Min(x) < Min(x)
        /\ <<x, y>> \in a <=> Min(x) < Min(y)
        /\ <<y, x>> \in a <=> Min(y) < Min(x)
        /\ <<y, z>> \in a <=> Min(y) < Min(z)
        /\ <<x, z>> \in a <=> Min(x) < Min(z)
    BY <1>3 DEF a
  <2> QED
    BY <2>1, <2>2
<1>6. TotalOrder(b, gs)
  <2> SUFFICES ASSUME NEW x \in gs, NEW y \in gs, NEW z \in gs
               PROVE  /\ <<x, x>> \notin b /\ (x = y \/ <<x, y>> \in b \/ <<y, x>> \in b)
                      /\ <<x, y>> \in b /\ <<y, z>> \in b => <<x, z>> \in b
    BY DEF TotalOrder
  <2>1. /\ Min(x) \in Int /\ Min(y) \in Int /\ Min(z) \in Int /\ (Min(x) = Min(y) => x = y)
        /\ NodeOf(hw, x) \in Int /\ NodeOf(hw, y) \in Int /\ NodeOf(hw, z) \in Int
    BY <1>1, <1>2
  <2> DEFINE Less(g, h) == \/ NodeOf(hw, g) < NodeOf(hw, h)
                           \/ NodeOf(hw, g) = NodeOf(hw, h) /\ Min(g) < Min(h)
  <2>2. /\ <<x, x>> \in b <=> Less(x, x)
        /\ <<x, y>> \in b <=> Less(x, y)
        /\ <<y, x>> \in b <=> Less(y, x)
        /\ <<y, z>> \in b <=> Less(y, z)
        /\ <<x, z>> \in b <=> Less(x, z)
    BY <1>4 DEF b
  <2> QED
    BY <2>1, <2>2
<1> QED
  BY <1>5, <1>6 DEF a, b

\* The nodes of GPUs, the GPUs of a node, and the groups the nodes hold.
NodesOf(hw, ids) == {hw.node[i]: i \in ids}
On(hw, ids, m) == {i \in ids: hw.node[i] = m}
Room(hw, tp, ids) == SumFunction([m \in NodesOf(hw, ids) |-> Cardinality(On(hw, ids, m)) \div tp])

\* The groups of all nodes are a layout that leaves no room on any.
LEMMA PerNodeIs ==
    ASSUME NEW hw, HwTyped(hw), NEW ids \in SUBSET hw.gpus, NEW tp \in Nat \ {0}
    PROVE  /\ Lays(tp, ids, Room(hw, tp, ids), PerNode(hw, tp, ids))
           /\ \A g \in PerNode(hw, tp, ids): \E m \in NodesOf(hw, ids): g \subseteq On(hw, ids, m)
           /\ \A m \in NodesOf(hw, ids):
                Cardinality(On(hw, ids, m) \ UNION PerNode(hw, tp, ids)) < tp
<1> DEFINE M == NodesOf(hw, ids)
<1> DEFINE O(m) == On(hw, ids, m)
<1> DEFINE k(m) == Cardinality(O(m)) \div tp
<1> DEFINE F == [m \in M |-> Formed(hw, tp, k(m), O(m))]
<1>1. IsFiniteSet(ids) /\ IsFiniteSet(M)
  <2>1. IsFiniteSet(ids)
    BY FS_Subset DEF HwTyped
  <2> DEFINE f == [i \in ids |-> hw.node[i]]
  <2>2. f \in Surjection(ids, M)
    BY DEF NodesOf, Surjection
  <2> QED
    BY <2>1, <2>2, FS_Surjection
<1>2. ASSUME NEW m \in M
      PROVE  /\ O(m) \in SUBSET ids /\ O(m) \in SUBSET hw.gpus
             /\ IsFiniteSet(O(m)) /\ Cardinality(O(m)) \in Nat
             /\ k(m) \in Nat /\ tp * k(m) <= Cardinality(O(m))
             /\ Cardinality(O(m)) < tp * k(m) + tp
  <2>1. O(m) \in SUBSET ids
    BY DEF On
  <2>2. IsFiniteSet(O(m)) /\ Cardinality(O(m)) \in Nat
    BY <1>1, <2>1, FS_Subset, FS_CardinalityType
  <2> QED
    BY <2>1, <2>2
<1>3. \A m \in M: Lays(tp, O(m), k(m), F[m])
  <2> SUFFICES ASSUME NEW m \in M
               PROVE  Lays(tp, O(m), k(m), Formed(hw, tp, k(m), O(m)))
    OBVIOUS
  <2>1. O(m) \in SUBSET hw.gpus /\ k(m) \in Nat /\ tp * k(m) <= Cardinality(O(m))
    BY <1>2
  <2> HIDE DEF O, k
  <2> QED
    BY <2>1, FormedLays
<1>4. PerNode(hw, tp, ids) = UNION {F[m]: m \in M}
  BY DEF PerNode, On, NodesOf
<1> HIDE DEF F, k
<1>5. \A m \in M: \A g \in F[m]: g \in kSubset(tp, ids) /\ g \subseteq O(m) /\ g # {}
  <2> SUFFICES ASSUME NEW m \in M, NEW g \in F[m]
               PROVE  g \in kSubset(tp, ids) /\ g \subseteq O(m) /\ g # {}
    OBVIOUS
  <2>1. g \subseteq O(m) /\ Cardinality(g) = tp
    BY <1>3 DEF Lays, IsLayout, kSubset
  <2> QED
    BY <1>2, <2>1, FS_EmptySet DEF kSubset
<1>6. \A m, j \in M: m # j => O(m) \cap O(j) = {}
  BY DEF On
<1>7. \A m, j \in M: m # j => F[m] \cap F[j] = {}
  <2> HIDE DEF O, M
  <2> QED
    BY <1>5, <1>6
<1>8. ASSUME NEW m \in M
      PROVE  /\ IsFiniteSet(F[m]) /\ Cardinality(F[m]) = k(m)
             /\ UNION F[m] \subseteq O(m)
             /\ IsFiniteSet(UNION F[m]) /\ Cardinality(UNION F[m]) = tp * k(m)
  <2>1. PICK on, gs, c: on = O(m) /\ gs = F[m] /\ c = k(m)
    OBVIOUS
  <2>2. IsLayout(tp, on, gs) /\ Cardinality(gs) = c /\ IsFiniteSet(on)
    BY <1>2, <1>3, <2>1 DEF Lays
  <2>3. /\ IsFiniteSet(gs) /\ UNION gs \subseteq on
        /\ IsFiniteSet(UNION gs) /\ Cardinality(UNION gs) = tp * Cardinality(gs)
    BY <2>2, LayoutSize
  <2>4. Cardinality(UNION gs) = tp * c
    BY <2>2, <2>3
  <2> QED
    BY <2>1, <2>2, <2>3, <2>4
<1> DEFINE all == UNION {F[m]: m \in M}
<1>9. IsLayout(tp, ids, all)
  <2>1. all \subseteq kSubset(tp, ids)
    BY <1>5
  <2>2. \A g, h \in all: g # h => g \cap h = {}
    <3> SUFFICES ASSUME NEW g \in all, NEW h \in all, g # h
                 PROVE  g \cap h = {}
      OBVIOUS
    <3>1. PICK m \in M: g \in F[m]
      OBVIOUS
    <3>2. PICK j \in M: h \in F[j]
      OBVIOUS
    <3>3. CASE m = j
      <4>1. \A c, d \in F[m]: c # d => c \cap d = {}
        BY <1>3 DEF Lays, IsLayout
      <4> QED
        BY <3>1, <3>2, <3>3, <4>1
    <3>4. CASE m # j
      <4>1. g \subseteq O(m) /\ h \subseteq O(j) /\ O(m) \cap O(j) = {}
        BY <1>5, <1>6, <3>1, <3>2, <3>4
      <4> HIDE DEF O
      <4> QED
        BY <4>1
    <3> QED
      BY <3>3, <3>4
  <2> QED
    BY <2>1, <2>2 DEF IsLayout
<1>10. Cardinality(all) = Room(hw, tp, ids)
  <2>1. Cardinality(all) = SumFunction([m \in M |-> Cardinality(F[m])])
    <3> HIDE DEF M
    <3>1. \A m \in M: IsFiniteSet(F[m])
      BY <1>8
    <3> QED
      BY <1>1, <1>7, <3>1, UnionSize
  <2>2. [m \in M |-> Cardinality(F[m])] = [m \in M |-> k(m)]
    BY <1>8
  <2>3. Room(hw, tp, ids) = SumFunction([m \in M |-> k(m)])
    BY DEF Room, k
  <2> QED
    BY <2>1, <2>2, <2>3
<1>11. \A m \in M: Cardinality(O(m) \ UNION all) < tp
  <2> SUFFICES ASSUME NEW m \in M
               PROVE  Cardinality(O(m) \ UNION all) < tp
    OBVIOUS
  <2>1. PICK on, used: on = O(m) /\ used = UNION F[m]
    OBVIOUS
  <2>2. /\ IsFiniteSet(on) /\ used \subseteq on /\ Cardinality(used) = tp * k(m)
        /\ Cardinality(on) < tp * k(m) + tp /\ Cardinality(on) \in Nat /\ k(m) \in Nat
    BY <1>2, <1>8, <2>1
  <2>3. Cardinality(on \ used) = Cardinality(on) - tp * k(m)
    <3>1. Cardinality(on \ used) = Cardinality(on) - Cardinality(on \cap used)
      BY <2>2, FS_Difference
    <3>2. on \cap used = used
      BY <2>2
    <3>3. Cardinality(on \cap used) = tp * k(m)
      BY <2>2, <3>2, Zenon
    <3> QED
      BY <3>1, <3>3
  <2>4. PICK idle: idle = on \ UNION all
    OBVIOUS
  <2>5. idle \subseteq on \ used
    BY <2>1, <2>4
  <2>6. IsFiniteSet(on \ used)
    BY <2>2, FS_Difference
  <2>7. Cardinality(idle) <= Cardinality(on \ used) /\ Cardinality(idle) \in Nat
    BY <2>5, <2>6, FS_Subset, FS_CardinalityType
  <2>8. Cardinality(idle) < tp
    <3>1. PICK x: x = tp * k(m)
      OBVIOUS
    <3>2. x \in Int
      BY <2>2, <3>1
    <3> QED
      BY <2>2, <2>3, <2>7, <3>1, <3>2
  <2> QED
    BY <2>1, <2>4, <2>8
<1>12. \A g \in all: \E m \in M: g \subseteq O(m)
  BY <1>5
<1> QED
  BY <1>4, <1>9, <1>10, <1>11, <1>12 DEF Lays

\* Products with a natural number keep the order.
LEMMA TimesGrows ==
    ASSUME NEW a \in Int, NEW b \in Int, a <= b, NEW c \in Nat
    PROVE  c * a <= c * b
OBVIOUS

\* The replicas have n groups of tp GPUs, none twice and each of one node.
Placed(hw, tp, n, ids, s) ==
    /\ Len(s) = n /\ DOMAIN s = 1..n
    /\ Lays(tp, ids, n, ToSet(s))
    /\ \A i, j \in 1..n: i # j => s[i] # s[j]
    /\ \A i \in 1..n: \E m \in NodesOf(hw, ids): s[i] \subseteq On(hw, ids, m)

\* No node has room for another.
Filled(hw, tp, ids, gs) ==
    \A m \in NodesOf(hw, ids): Cardinality(On(hw, ids, m) \ UNION gs) < tp

\* Each group is on one node.
OnNodes(hw, ids, gs) == \A g \in gs: \E m \in NodesOf(hw, ids): g \subseteq On(hw, ids, m)

\* A function that has no value twice has as many values as arguments.
LEMMA ValuesOf ==
    ASSUME NEW n \in Nat, NEW s, DOMAIN s = 1..n, \A i, j \in 1..n: i # j => s[i] # s[j]
    PROVE  IsFiniteSet(ToSet(s)) /\ Cardinality(ToSet(s)) = n
<1> DEFINE f == [i \in 1..n |-> s[i]]
<1>1. ToSet(s) = {s[i]: i \in 1..n}
  BY DEF ToSet
<1>2. f \in Bijection(1..n, ToSet(s))
  BY <1>1 DEF Bijection, Injection, Surjection, IsInjective
<1>3. IsFiniteSet(1..n) /\ Cardinality(1..n) = n
  BY FS_Interval
<1> HIDE DEF f
<1>4. ExistsBijection(1..n, ToSet(s))
  BY <1>2 DEF ExistsBijection
<1>5. IsFiniteSet(ToSet(s)) /\ Cardinality(ToSet(s)) = Cardinality(1..n)
  BY <1>3, <1>4, FS_Bijection
<1> QED
  BY <1>3, <1>5

\* The first n groups of a layout, in either order.
LEMMA FirstPlaced ==
    ASSUME NEW hw, HwTyped(hw), NEW tp \in Nat \ {0}, NEW ids \in SUBSET hw.gpus,
           NEW k \in Nat, NEW gs, Lays(tp, ids, k, gs),
           OnNodes(hw, ids, gs), NEW R, TotalOrder(R, gs), NEW n \in 0..k
    PROVE  LET s == SubSeq(InOrder(gs, R), 1, n) IN
           Placed(hw, tp, n, ids, s) /\ (n = k => ToSet(s) = gs /\ s = InOrder(gs, R))
<1>1. IsFiniteSet(ids) /\ IsLayout(tp, ids, gs) /\ Cardinality(gs) = k
  BY FS_Subset DEF HwTyped, Lays
<1>2. IsFiniteSet(gs)
  BY <1>1, LayoutSize
<1> DEFINE s == SubSeq(InOrder(gs, R), 1, n)
<1>3. /\ Len(s) = n /\ DOMAIN s = 1..n /\ ToSet(s) \subseteq gs
      /\ \A i, j \in 1..n: i # j => s[i] # s[j]
      /\ n = k => ToSet(s) = gs /\ s = InOrder(gs, R)
  <2>1. n \in Nat /\ n <= Cardinality(gs)
    BY <1>1
  <2> QED
    BY <1>1, <1>2, <2>1, FirstOnes
<1> HIDE DEF s
<1>4. Lays(tp, ids, n, ToSet(s))
  <2>1. Cardinality(ToSet(s)) = n
    BY <1>3, ValuesOf
  <2>2. IsLayout(tp, ids, ToSet(s))
    BY <1>1, <1>3 DEF IsLayout
  <2> QED
    BY <2>1, <2>2 DEF Lays
<1>5. \A i \in 1..n: \E m \in NodesOf(hw, ids): s[i] \subseteq On(hw, ids, m)
  BY <1>3, SMTT(30) DEF OnNodes, ToSet
<1> QED
  BY <1>3, <1>4, <1>5 DEF Placed, s

\* The groups of one GPU each.
LEMMA SinglesLaid ==
    ASSUME NEW ids, IsFiniteSet(ids)
    PROVE  Lays(1, ids, Cardinality(ids), {{i}: i \in ids})
<1> DEFINE gs == {{i}: i \in ids}
<1>1. gs \subseteq kSubset(1, ids)
  BY FS_Singleton DEF kSubset
<1>2. IsLayout(1, ids, gs)
  BY <1>1 DEF IsLayout
<1>3. 1 * Cardinality(gs) = Cardinality(UNION gs) /\ Cardinality(gs) \in Nat
  <2> HIDE DEF gs
  <2>1. 1 \in Nat
    OBVIOUS
  <2> QED
    BY <1>2, <2>1, LayoutSize
<1>4. UNION gs = ids
  OBVIOUS
<1> HIDE DEF gs
<1>5. Cardinality(gs) = Cardinality(ids)
  <2>1. Cardinality(UNION gs) = Cardinality(ids)
    BY <1>4, Zenon
  <2> QED
    BY <1>3, <2>1
<1> QED
  BY <1>2, <1>5 DEF Lays, gs

\* Where there is one node, all GPUs are on it.
LEMMA OneNodeOnly ==
    ASSUME NEW hw, NEW ids, IsFiniteSet(ids), Cardinality(NodesOf(hw, ids)) <= 1, NEW i \in ids
    PROVE  ids = On(hw, ids, hw.node[i])
<1> DEFINE M == NodesOf(hw, ids)
<1>1. IsFiniteSet(M)
  <2> DEFINE f == [j \in ids |-> hw.node[j]]
  <2>1. f \in Surjection(ids, M)
    BY DEF NodesOf, Surjection
  <2> HIDE DEF f
  <2> QED
    BY <2>1, FS_Surjection
<1> SUFFICES ASSUME NEW j \in ids, hw.node[j] # hw.node[i]
             PROVE  FALSE
  BY DEF On
<1>2. PICK a, b: a = hw.node[i] /\ b = hw.node[j]
  OBVIOUS
<1>3. a \in M /\ b \in M /\ b \notin {a}
  BY <1>2 DEF NodesOf
<1>4. IsFiniteSet({a}) /\ Cardinality({a}) = 1
  BY FS_Singleton
<1>5. Cardinality({a} \cup {b}) = Cardinality({a}) + 1
  BY <1>3, <1>4, FS_AddElement
<1> DEFINE both == {a} \cup {b}
<1>6. both \subseteq M /\ Cardinality(both) = 2
  BY <1>3, <1>4, <1>5
<1> HIDE DEF both
<1>7. Cardinality(both) <= Cardinality(M)
  BY <1>1, <1>6, FS_Subset
<1>8. Cardinality(M) \in Nat
  BY <1>1, FS_CardinalityType
<1> QED
  BY <1>6, <1>7, <1>8

\* A layout on one node with as many groups as there is room leaves none.
LEMMA RoomIs ==
    ASSUME NEW hw, HwTyped(hw), NEW ids \in SUBSET hw.gpus, NEW tp \in Nat \ {0}
    PROVE  /\ Room(hw, tp, ids) \in Nat /\ tp * Room(hw, tp, ids) \in Nat
           /\ tp * Room(hw, tp, ids) <= Cardinality(ids)
           /\ tp = 1 => Room(hw, tp, ids) = Cardinality(ids)
                        /\ tp * Room(hw, tp, ids) = Cardinality(ids)
           /\ Cardinality(NodesOf(hw, ids)) <= 1 =>
                Cardinality(ids) < tp * Room(hw, tp, ids) + tp
<1>1. IsFiniteSet(ids) /\ Cardinality(ids) \in Nat
  BY FS_Subset, FS_CardinalityType DEF HwTyped
<1> DEFINE all == PerNode(hw, tp, ids)
<1> DEFINE room == Room(hw, tp, ids)
<1>2. /\ IsLayout(tp, ids, all) /\ Cardinality(all) = room
      /\ \A m \in NodesOf(hw, ids): Cardinality(On(hw, ids, m) \ UNION all) < tp
  BY PerNodeIs DEF Lays
<1> HIDE DEF all, room
<1>3. /\ room \in Nat /\ UNION all \subseteq ids
      /\ Cardinality(UNION all) = tp * room /\ tp * room <= Cardinality(ids)
  <2>1. /\ Cardinality(all) \in Nat /\ UNION all \subseteq ids
        /\ Cardinality(UNION all) = tp * Cardinality(all)
        /\ tp * Cardinality(all) <= Cardinality(ids)
    BY <1>1, <1>2, LayoutSize
  <2> QED
    BY <1>2, <2>1
<1>4. ASSUME tp = 1
      PROVE  room = Cardinality(ids) /\ tp * room = Cardinality(ids)
  <2>1. ids \subseteq UNION all
    <3> SUFFICES ASSUME NEW i \in ids, i \notin UNION all
                 PROVE  FALSE
      OBVIOUS
    <3>1. PICK idle: idle = On(hw, ids, hw.node[i]) \ UNION all
      OBVIOUS
    <3>2. i \in idle /\ idle \subseteq ids /\ hw.node[i] \in NodesOf(hw, ids)
      BY <3>1 DEF On, NodesOf
    <3>3. Cardinality(idle) < 1
      BY <1>2, <1>4, <3>1, <3>2
    <3>4. Cardinality(idle) \in Nat /\ Cardinality(idle) # 0
      BY <1>1, <3>2, FS_Subset, FS_CardinalityType, FS_EmptySet
    <3> QED
      BY <3>3, <3>4
  <2>2. UNION all = ids
    BY <1>3, <2>1
  <2>3. Cardinality(ids) = tp * room
    BY <1>3, <2>2, Zenon
  <2>4. Cardinality(ids) = 1 * room
    BY <1>4, <2>3, Zenon
  <2>5. 1 * room = room
    BY <1>3
  <2> QED
    BY <2>3, <2>4, <2>5
<1>5. ASSUME Cardinality(NodesOf(hw, ids)) <= 1
      PROVE  Cardinality(ids) < tp * room + tp
  <2>1. CASE ids = {}
    <3>1. Cardinality(ids) = 0
      BY <2>1, FS_EmptySet
    <3>2. tp * room \in Nat
      BY <1>3
    <3> QED
      BY <3>1, <3>2
  <2>2. CASE ids # {}
    <3>1. PICK i \in ids: TRUE
      BY <2>2
    <3> DEFINE m == hw.node[i]
    <3>2. m \in NodesOf(hw, ids)
      BY DEF NodesOf
    <3>3. ids = On(hw, ids, m)
      BY <1>1, <1>5, OneNodeOnly
    <3>4. Cardinality(ids \ UNION all) < tp
      BY <1>2, <3>2, <3>3
    <3>5. Cardinality(ids \ UNION all) = Cardinality(ids) - tp * room
      <4>1. Cardinality(ids \ UNION all) = Cardinality(ids) - Cardinality(ids \cap UNION all)
        BY <1>1, FS_Difference
      <4>2. ids \cap UNION all = UNION all
        BY <1>3
      <4>3. Cardinality(ids \cap UNION all) = tp * room
        BY <1>3, <4>2, Zenon
      <4> QED
        BY <4>1, <4>3
    <3>6. PICK x: x = tp * room
      OBVIOUS
    <3>7. x \in Nat
      BY <1>3, <3>6
    <3> QED
      BY <1>1, <3>4, <3>5, <3>6, <3>7
  <2> QED
    BY <2>1, <2>2
<1> QED
  BY <1>3, <1>4, <1>5 DEF room

\* A layout with as many groups as there is room for leaves no room on a single node.
LEMMA FilledOne ==
    ASSUME NEW hw, HwTyped(hw), NEW ids \in SUBSET hw.gpus, NEW tp \in Nat \ {0},
           tp = 1 \/ Cardinality(NodesOf(hw, ids)) <= 1,
           NEW gs, Lays(tp, ids, Room(hw, tp, ids), gs)
    PROVE  Filled(hw, tp, ids, gs)
<1>1. IsFiniteSet(ids) /\ Cardinality(ids) \in Nat
  BY FS_Subset, FS_CardinalityType DEF HwTyped
<1>2. PICK room: room = Room(hw, tp, ids)
  OBVIOUS
<1>3. /\ room \in Nat /\ tp * room \in Nat
      /\ tp = 1 => tp * room = Cardinality(ids)
      /\ Cardinality(NodesOf(hw, ids)) <= 1 => Cardinality(ids) < tp * room + tp
  BY <1>2, RoomIs
<1>4. IsLayout(tp, ids, gs) /\ Cardinality(gs) = room
  BY <1>2 DEF Lays
<1>5. UNION gs \subseteq ids /\ Cardinality(UNION gs) = tp * room
  <2>1. UNION gs \subseteq ids /\ Cardinality(UNION gs) = tp * Cardinality(gs)
    BY <1>1, <1>4, LayoutSize
  <2> QED
    BY <1>4, <2>1
<1>6. Cardinality(ids \ UNION gs) = Cardinality(ids) - tp * room
  <2>1. Cardinality(ids \ UNION gs) = Cardinality(ids) - Cardinality(ids \cap UNION gs)
    BY <1>1, FS_Difference
  <2>2. ids \cap UNION gs = UNION gs
    BY <1>5
  <2>3. Cardinality(ids \cap UNION gs) = tp * room
    BY <1>5, <2>2, Zenon
  <2> QED
    BY <2>1, <2>3
<1>7. Cardinality(ids \ UNION gs) < tp
  <2>1. PICK x: x = tp * room
    OBVIOUS
  <2>2. x \in Nat
    BY <1>3, <2>1, Zenon
  <2>5. Cardinality(ids \ UNION gs) = Cardinality(ids) - x
    BY <1>6, <2>1, Zenon
  <2>3. CASE tp = 1
    <3>1. x = Cardinality(ids)
      BY <1>3, <2>1, <2>3, Zenon
    <3> QED
      BY <1>1, <2>2, <2>3, <2>5, <3>1
  <2>4. CASE Cardinality(NodesOf(hw, ids)) <= 1
    <3>1. Cardinality(ids) < x + tp
      BY <1>3, <2>1, <2>4, Zenon
    <3> QED
      BY <1>1, <2>2, <2>5, <3>1
  <2> QED
    BY <2>3, <2>4
<1>8. ASSUME NEW m \in NodesOf(hw, ids)
      PROVE  Cardinality(On(hw, ids, m) \ UNION gs) < tp
  <2>1. PICK idle: idle = On(hw, ids, m) \ UNION gs
    OBVIOUS
  <2>2. idle \subseteq ids \ UNION gs /\ IsFiniteSet(ids \ UNION gs)
    BY <1>1, <2>1, FS_Difference DEF On
  <2>3. /\ Cardinality(idle) <= Cardinality(ids \ UNION gs)
        /\ Cardinality(idle) \in Nat /\ Cardinality(ids \ UNION gs) \in Nat
    BY <2>2, FS_Subset, FS_CardinalityType
  <2>4. Cardinality(idle) < tp
    BY <1>7, <2>3
  <2> QED
    BY <2>1, <2>4
<1> QED
  BY <1>8 DEF Filled

\* plan(): as many groups as were asked for, if there is room for them; all the
\* room there is; and on one node the best.
LEMMA PlanGroupsIs ==
    ASSUME NEW hw, HwTyped(hw), NEW ids \in SUBSET hw.gpus, NEW tp \in Nat \ {0}, NEW n \in Nat
    PROVE  LET s == PlanGroups(hw, tp, n, ids) IN
           /\ s = Failed \/ Placed(hw, tp, n, ids, s)
           /\ n <= Room(hw, tp, ids) => Placed(hw, tp, n, ids, s)
           /\ n = Room(hw, tp, ids) => Filled(hw, tp, ids, ToSet(s))
           /\ /\ tp > 1 /\ tp * n <= Cardinality(ids) /\ Cardinality(ids) <= ExhaustiveMax
              /\ Cardinality(NodesOf(hw, ids)) = 1
              => Optimal(hw, tp, ids, n, ToSet(s))
<1> DEFINE s == PlanGroups(hw, tp, n, ids)
<1> DEFINE room == Room(hw, tp, ids)
<1>1. IsFiniteSet(ids) /\ Cardinality(ids) \in Nat
  BY FS_Subset, FS_CardinalityType DEF HwTyped
<1>2. /\ room \in Nat /\ tp * room \in Nat /\ tp * room <= Cardinality(ids)
      /\ tp = 1 => room = Cardinality(ids)
  BY RoomIs
<1>3. n <= room => tp * n <= Cardinality(ids)
  <2> HIDE DEF room
  <2> SUFFICES ASSUME n <= room
               PROVE  tp * n <= Cardinality(ids)
    OBVIOUS
  <2>1. PICK r: r = room
    OBVIOUS
  <2>2. r \in Nat /\ n <= r /\ tp * r <= Cardinality(ids)
    BY <1>2, <2>1
  <2>3. tp * n <= tp * r
    BY <2>2, TimesGrows
  <2>4. tp * n \in Int /\ tp * r \in Int
    BY <2>2
  <2> QED
    BY <1>1, <2>2, <2>3, <2>4
<1>4. IsFiniteSet(NodesOf(hw, ids)) /\ Cardinality(NodesOf(hw, ids)) \in Nat
  <2> DEFINE f == [j \in ids |-> hw.node[j]]
  <2>1. f \in Surjection(ids, NodesOf(hw, ids))
    BY DEF NodesOf, Surjection
  <2> HIDE DEF f
  <2> QED
    BY <1>1, <2>1, FS_Surjection, FS_CardinalityType
<1> HIDE DEF room
<1>5. CASE tp * n > Cardinality(ids)
  <2>1. s = Failed
    BY <1>5 DEF PlanGroups
  <2>2. ~(n <= room) /\ n # room /\ ~(tp * n <= Cardinality(ids))
    <3>1. ~(tp * n <= Cardinality(ids))
      BY <1>1, <1>5
    <3> QED
      BY <1>2, <1>3, <3>1
  <2> HIDE DEF s
  <2> QED
    BY <2>1, <2>2 DEF s, room
<1>6. CASE ~(tp * n > Cardinality(ids)) /\ tp = 1
  <2> DEFINE gs == {{i}: i \in ids}
  <2>1. s = SubSeq(Sorted(gs), 1, n)
    BY <1>6 DEF PlanGroups
  <2>2. Lays(tp, ids, room, gs)
    BY <1>1, <1>2, <1>6, SinglesLaid
  <2>3. OnNodes(hw, ids, gs)
    <3>1. \A i \in ids: {i} \subseteq On(hw, ids, hw.node[i]) /\ hw.node[i] \in NodesOf(hw, ids)
      BY DEF NodesOf, On
    <3> QED
      BY <3>1 DEF OnNodes
  <2>4. n \in 0..room
    BY <1>1, <1>2, <1>6
  <2> HIDE DEF gs, s
  <2>5. TotalOrder(ByGpu(gs), gs)
    BY <2>2, GroupsOrdered DEF Lays
  <2>6. Placed(hw, tp, n, ids, s) /\ (n = room => ToSet(s) = gs)
    BY <1>2, <2>1, <2>2, <2>3, <2>4, <2>5, FirstPlaced DEF Sorted
  <2>7. Filled(hw, tp, ids, gs)
    BY <1>6, <2>2, FilledOne DEF room
  <2> QED
    BY <1>6, <2>6, <2>7 DEF s, room
<1>7. CASE ~(tp * n > Cardinality(ids)) /\ tp # 1 /\ Cardinality(NodesOf(hw, ids)) > 1
  <2> DEFINE gs == PerNode(hw, tp, ids)
  <2>1. s = IF Cardinality(gs) < n THEN Failed ELSE SubSeq(InOrder(gs, ByNode(hw, gs)), 1, n)
    BY <1>7 DEF PlanGroups, PlanPerNode, NodesOf
  <2>2. /\ Lays(tp, ids, room, gs) /\ Filled(hw, tp, ids, gs)
        /\ OnNodes(hw, ids, gs)
    BY PerNodeIs DEF Filled, OnNodes, room
  <2> HIDE DEF gs, s
  <2>3. Cardinality(gs) = room
    BY <2>2 DEF Lays
  <2>4. TotalOrder(ByNode(hw, gs), gs)
    BY <2>2, GroupsOrdered DEF Lays
  <2>5. CASE n <= room
    <3>1. n \in 0..room /\ ~(room < n)
      BY <1>2, <2>5
    <3>2. s = SubSeq(InOrder(gs, ByNode(hw, gs)), 1, n)
      BY <2>1, <2>3, <3>1
    <3>3. Placed(hw, tp, n, ids, s) /\ (n = room => ToSet(s) = gs)
      <4>1. PICK order: order = ByNode(hw, gs)
        OBVIOUS
      <4>2. room \in Nat /\ Lays(tp, ids, room, gs) /\ OnNodes(hw, ids, gs)
            /\ TotalOrder(order, gs)
        BY <1>2, <2>2, <2>4, <4>1
      <4>3. LET t == SubSeq(InOrder(gs, order), 1, n) IN
            Placed(hw, tp, n, ids, t) /\ (n = room => ToSet(t) = gs /\ t = InOrder(gs, order))
        BY <3>1, <4>2, FirstPlaced
      <4> QED
        BY <3>2, <4>1, <4>3, Zenon
    <3>4. Cardinality(NodesOf(hw, ids)) # 1
      BY <1>4, <1>7
    <3> QED
      BY <2>2, <3>3, <3>4, Zenon DEF s, room
  <2>6. CASE ~(n <= room)
    <3>1. s = Failed
      BY <1>2, <2>1, <2>3, <2>6
    <3>2. n # room /\ Cardinality(NodesOf(hw, ids)) # 1
      BY <1>2, <1>4, <1>7, <2>6
    <3> QED
      BY <2>6, <3>1, <3>2 DEF s, room
  <2> QED
    BY <2>5, <2>6
<1>8. CASE ~(tp * n > Cardinality(ids)) /\ tp # 1 /\ ~(Cardinality(NodesOf(hw, ids)) > 1)
  <2> DEFINE gs == Formed(hw, tp, n, ids)
  <2>1. s = Sorted(gs)
    BY <1>8 DEF PlanGroups, NodesOf
  <2>2. tp * n <= Cardinality(ids) /\ Cardinality(NodesOf(hw, ids)) <= 1
    BY <1>1, <1>4, <1>8
  <2>3. Lays(tp, ids, n, gs)
        /\ (Cardinality(ids) <= ExhaustiveMax => Optimal(hw, tp, ids, n, gs))
    BY <2>2, FormedLays
  <2> HIDE DEF gs, s
  <2>4. TotalOrder(ByGpu(gs), gs)
    BY <2>3, GroupsOrdered DEF Lays
  <2>5. OnNodes(hw, ids, gs)
    <3> SUFFICES ASSUME NEW g \in gs
                 PROVE  \E m \in NodesOf(hw, ids): g \subseteq On(hw, ids, m)
      BY DEF OnNodes
    <3>1. g \subseteq ids /\ Cardinality(g) = tp
      BY <2>3 DEF Lays, IsLayout, kSubset
    <3>2. PICK i \in ids: i \in g
      BY <3>1, FS_EmptySet
    <3>3. hw.node[i] \in NodesOf(hw, ids)
      BY DEF NodesOf
    <3>4. ids = On(hw, ids, hw.node[i])
      BY <1>1, <2>2, OneNodeOnly
    <3> QED
      BY <3>1, <3>3, <3>4
  <2>6. /\ Placed(hw, tp, n, ids, SubSeq(InOrder(gs, ByGpu(gs)), 1, n)) /\ ToSet(s) = gs
        /\ SubSeq(InOrder(gs, ByGpu(gs)), 1, n) = s
    <3>1. n \in 0..n
      OBVIOUS
    <3>2. LET t == SubSeq(InOrder(gs, ByGpu(gs)), 1, n) IN
          Placed(hw, tp, n, ids, t) /\ ToSet(t) = gs /\ t = InOrder(gs, ByGpu(gs))
      BY <2>3, <2>4, <2>5, <3>1, FirstPlaced
    <3> QED
      BY <2>1, <3>2 DEF Sorted
  <2>7. n = room => Filled(hw, tp, ids, gs)
    BY <2>2, <2>3, FilledOne DEF room
  <2> QED
    BY <2>3, <2>6, <2>7 DEF s, room
<1> QED
  BY <1>5, <1>6, <1>7, <1>8

\* Where a group is on one node, it names that node only.
LEMMA OnOneNode ==
    ASSUME NEW hw, NEW ids, NEW m, NEW g, g # {}, g \subseteq On(hw, ids, m)
    PROVE  Cardinality(NodesOf(hw, g)) = 1
<1>1. NodesOf(hw, g) = {m}
  BY DEF On, NodesOf
<1>2. PICK one: one = {m}
  OBVIOUS
<1>3. Cardinality(one) = 1
  BY <1>2, FS_Singleton
<1> QED
  BY <1>1, <1>2, <1>3

\* Each group of replicas: on one node, and none in two.
EachApart(hw, tp, ids, s) ==
    \A i \in DOMAIN s:
        /\ s[i] \subseteq ids /\ Cardinality(s[i]) = tp /\ s[i] # {}
        /\ Cardinality(NodesOf(hw, s[i])) = 1
        /\ \A j \in DOMAIN s: i # j => s[i] \cap s[j] = {}

\* So are all replicas that are placed.
LEMMA EachPlaced ==
    ASSUME NEW hw, NEW tp \in Nat \ {0}, NEW n, NEW ids, NEW s, Placed(hw, tp, n, ids, s)
    PROVE  EachApart(hw, tp, ids, s)
<1> SUFFICES ASSUME NEW i \in DOMAIN s
             PROVE  /\ s[i] \subseteq ids /\ Cardinality(s[i]) = tp /\ s[i] # {}
                    /\ Cardinality(NodesOf(hw, s[i])) = 1
                    /\ \A j \in DOMAIN s: i # j => s[i] \cap s[j] = {}
  BY DEF EachApart
<1>1. \A j \in DOMAIN s: s[j] \in ToSet(s)
  BY DEF ToSet
<1>2. s[i] \subseteq ids /\ Cardinality(s[i]) = tp
  BY <1>1 DEF Placed, Lays, IsLayout, kSubset
<1>3. s[i] # {}
  BY <1>2, FS_EmptySet
<1>4. PICK m \in NodesOf(hw, ids): s[i] \subseteq On(hw, ids, m)
  BY DEF Placed
<1>5. Cardinality(NodesOf(hw, s[i])) = 1
  <2>1. PICK g: g = s[i]
    OBVIOUS
  <2>2. g # {} /\ g \subseteq On(hw, ids, m)
    BY <1>3, <1>4, <2>1
  <2>3. Cardinality(NodesOf(hw, g)) = 1
    BY <2>2, OnOneNode
  <2> QED
    BY <2>1, <2>3
<1>6. ASSUME NEW j \in DOMAIN s, i # j
      PROVE  s[i] \cap s[j] = {}
  BY <1>1, <1>6 DEF Placed, Lays, IsLayout
<1> QED
  BY <1>2, <1>3, <1>5, <1>6

----------------------------------------------------------------------------
(* Estimates                                                               *)

\* What inspection reports of a model, as far as estimates read it.
ModelTyped(m) ==
    /\ m.weight \in Nat \cup {None}
    /\ m.kind \in {"attention", "mla", "unknown"}
    /\ m.kind # "unknown" => m.kv \in Nat
    /\ m.kind = "attention" => m.kvHeads \in Nat \ {0}

\* Types of the estimate's parts.
LEMMA PerRank ==
    ASSUME NEW m, ModelTyped(m), NEW tp \in Nat \ {0}
    PROVE  KvPerRank(m, tp) \in Nat \cup {None}
<1>1. CASE m.kind = "attention"
  BY <1>1 DEF ModelTyped, KvPerRank
<1>2. CASE m.kind = "mla"
  BY <1>2 DEF ModelTyped, KvPerRank
<1>3. CASE m.kind = "unknown"
  BY <1>3 DEF ModelTyped, KvPerRank
<1> QED
  BY <1>1, <1>2, <1>3 DEF ModelTyped

LEMMA Sharded ==
    ASSUME NEW w \in Nat, NEW n \in Nat
    PROVE  ShardedWeight(w, n) \in Nat
<1>1. CASE n <= 1
  BY <1>1 DEF ShardedWeight
<1>2. CASE n > 1
  BY <1>2, DivMeans DEF ShardedWeight
<1> QED
  BY <1>1, <1>2

LEMMA DynamicTyped ==
    ASSUME NEW total \in Nat, NEW tp \in Nat
    PROVE  Dynamic(total, tp) \in Nat
BY DEF Dynamic, CudaGraphs, EngineOverhead, CommBuffer, GiB

\* The fraction leaves the reserve free wherever as much is free.
LEMMA FractionLeavesReserve ==
    ASSUME NEW total \in Nat \ {0}, NEW free \in Nat
    PROVE  /\ SafetyReserve(total) \in Nat
           /\ MemoryFraction(total, free) \in 0..95
           /\ MemoryFraction(total, free) > 0 =>
                Percent(MemoryFraction(total, free), total) + SafetyReserve(total) <= free
<1> DEFINE r == SafetyReserve(total)
<1> DEFINE k == ((free - r) * 100) \div total
<1> DEFINE f == MemoryFraction(total, free)
<1>1. r \in Nat
  <2>1. Percent(Headroom, total) \in Nat
    BY DEF Percent, Headroom
  <2> QED
    BY <2>1, MaxOf DEF SafetyReserve, GiB
<1> HIDE DEF r
<1>2. k \in Int /\ total * k <= (free - r) * 100
  <2> DEFINE a == (free - r) * 100
  <2>1. a \in Int
    BY <1>1
  <2> HIDE DEF a
  <2>2. a \div total \in Int /\ total * (a \div total) <= a
    BY <2>1, DivMeans
  <2> QED
    BY <2>2 DEF a
<1>3. f = Max({0, Min({95, k})})
  BY DEF MemoryFraction, MaxFraction, r
<1> HIDE DEF k, f
<1>4. f \in 0..95 /\ (f > 0 => f <= k)
  <2> DEFINE x == Min({95, k})
  <2>1. x = IF 95 <= k THEN 95 ELSE k
    BY <1>2, MaxOf
  <2> HIDE DEF x
  <2>2. x \in Int /\ x <= 95 /\ x <= k
    BY <1>2, <2>1
  <2>3. Max({0, x}) = IF 0 >= x THEN 0 ELSE x
    BY <2>2, MaxOf
  <2> QED
    BY <1>3, <2>2, <2>3 DEF x
<1>5. ASSUME f > 0
      PROVE  (f * total) \div 100 + r <= free
  <2>1. f * total <= k * total
    BY <1>2, <1>4, <1>5, ProductGrows
  <2>2. f * total \in Int /\ f * total <= (free - r) * 100
    BY <1>1, <1>2, <1>4, <2>1
  <2> QED
    BY <1>1, <2>2
<1> QED
  BY <1>1, <1>4, <1>5 DEF Percent, r, f

LEMMA FractionTyped ==
    ASSUME NEW m, NEW total \in Nat \ {0}, NEW frees \in SUBSET Nat, frees # {}, NEW tp, NEW pp,
           NEW context, NEW forced \in (1..99) \cup {None}
    PROVE  Estimate(m, total, frees, tp, pp, context, forced).fraction \in Nat
<1> DEFINE free == LeastFree(frees)
<1>1. free \in Nat
  BY LeastOf DEF LeastFree
<1> HIDE DEF free
<1>2. MemoryFraction(total, free) \in 0..95
  BY <1>1, FractionLeavesReserve
<1>3. Estimate(m, total, frees, tp, pp, context, forced).fraction
        = IF forced # None THEN forced ELSE MemoryFraction(total, free)
  BY DEF Estimate, free
<1> QED
  BY <1>2, <1>3

\* One token of the cache that Estimate counts is no less than a stage's share.
StageKv(m, tp, pp) ==
    IF pp = 1 \/ KvPerRank(m, tp) = None THEN KvPerRank(m, tp)
    ELSE Max({1, KvPerRank(m, tp) \div pp})

\* What one sequence of the served context takes of a stage's GPU.
Need(m, tp, pp, context) ==
    IF KvPerRank(m, tp) = None THEN UnknownKvSpare
    ELSE ((KvPerRank(m, tp) \div pp) * context) \div 1024

LEMMA StageNeeds ==
    ASSUME NEW m, ModelTyped(m), NEW tp \in Nat \ {0}, NEW pp \in Nat \ {0}, NEW context \in Nat,
           None \notin Int
    PROVE  LET kv == StageKv(m, tp, pp)
           IN /\ kv \in Nat \cup {None}
              /\ kv = None <=> KvPerRank(m, tp) = None
              /\ kv # None => (kv * context * MinKvSequences) \div 1024 \in Nat
              /\ Need(m, tp, pp, context) \in Nat
              /\ kv # None =>
                   Need(m, tp, pp, context) <= (kv * context * MinKvSequences) \div 1024
<1> DEFINE K == KvPerRank(m, tp)
<1> DEFINE kv == StageKv(m, tp, pp)
<1>1. K \in Nat \cup {None}
  BY PerRank
<1> HIDE DEF K
<1>2. CASE K = None
  BY <1>2 DEF StageKv, Need, K, UnknownKvSpare, GiB
<1>3. CASE K # None
  <2> DEFINE s == K \div pp
  <2>1. K \in Nat
    BY <1>1, <1>3
  <2>2. s \in Nat
    BY <2>1, DivMeans
  <2>3. pp = 1 => s = K
    BY <2>1
  <2> HIDE DEF s
  <2>4. Max({1, s}) = IF 1 >= s THEN 1 ELSE s
    BY <2>2, MaxOf
  <2>5. kv \in Nat /\ s <= kv
    <3>1. CASE pp = 1
      BY <2>1, <2>2, <2>3, <3>1 DEF StageKv, K
    <3>2. CASE pp # 1
      BY <1>3, <2>2, <2>4, <3>2 DEF StageKv, K, s
    <3> QED
      BY <3>1, <3>2
  <2> HIDE DEF kv
  <2>6. s * context <= kv * context /\ s * context \in Nat /\ kv * context \in Nat
    BY <2>2, <2>5, ProductGrows
  <2>7. /\ (kv * context * MinKvSequences) \div 1024 \in Nat
        /\ (s * context) \div 1024 \in Nat
        /\ (s * context) \div 1024 <= (kv * context * MinKvSequences) \div 1024
    <3> DEFINE a == s * context
    <3> DEFINE b == kv * context
    <3>1. a \in Nat /\ b \in Nat /\ a <= b
      BY <2>6
    <3> HIDE DEF a, b
    <3>2. b * 1 = b /\ a \div 1024 \in Nat /\ b \div 1024 \in Nat /\ a \div 1024 <= b \div 1024
      BY <3>1
    <3> QED
      BY <3>2 DEF a, b, MinKvSequences
  <2>8. Need(m, tp, pp, context) = (s * context) \div 1024
    BY <1>3 DEF Need, K, s
  <2>9. kv # None
    BY <2>5
  <2> QED
    BY <1>3, <2>5, <2>7, <2>8, <2>9 DEF kv, K
<1> QED
  BY <1>2, <1>3

\* The three conditions hold of every estimate that is not pruned, if the size
\* of the weights is known.
LEMMA KeptPlanFits ==
    ASSUME NEW m, ModelTyped(m), m.weight # None, NEW total \in Nat, total >= 100,
           NEW frees \in SUBSET Nat, frees # {}, NEW tp \in Nat \ {0}, NEW pp \in Nat \ {0},
           NEW context \in Nat, NEW forced \in (1..99) \cup {None}, None \notin Int,
           ~Pruned(Estimate(m, total, frees, tp, pp, context, forced))
    PROVE  LET fraction == Estimate(m, total, frees, tp, pp, context, forced).fraction
               budget == Percent(fraction, total)
               reserve == IF forced = None THEN SafetyReserve(total) ELSE 0
           IN /\ fraction \in Nat
              /\ \A f \in frees: budget + reserve <= f
              /\ ShardedWeight(m.weight, tp * pp) + Dynamic(total, tp)
                   + Need(m, tp, pp, context) <= budget
<1> DEFINE e == Estimate(m, total, frees, tp, pp, context, forced)
<1> DEFINE free == LeastFree(frees)
<1> DEFINE fraction == IF forced # None THEN forced ELSE MemoryFraction(total, free)
<1> DEFINE budget == Percent(fraction, total)
<1> DEFINE kv == StageKv(m, tp, pp)
<1> DEFINE weight == IF m.weight = None THEN 0 ELSE ShardedWeight(m.weight, tp * pp)
<1> DEFINE dynamic == Dynamic(total, tp)
<1> DEFINE spare == budget - weight - dynamic
<1> DEFINE required == IF m.weight = None \/ kv \in {None, 0} THEN UnknownKvSpare
                       ELSE (kv * context * MinKvSequences) \div 1024
<1> DEFINE overFree == IF forced # None THEN Max({0, budget - free}) ELSE 0
<1> DEFINE underMin == Max({0, Percent(MinFraction - fraction, total)})
<1> DEFINE fits == Fits(spare, required, fraction, budget, free, forced # None)
<1> DEFINE lack == IF m.weight = None THEN 0 ELSE Max({0, required - spare})
<1>1. /\ e.fraction = fraction
      /\ e.fits = fits
      /\ e.short = Max({overFree, underMin, lack})
  BY DEF Estimate, StageKv
<1>2. free \in Nat /\ \A f \in frees: free <= f
  BY LeastOf DEF LeastFree
<1> HIDE DEF free
<1>3. /\ fraction \in Nat
      /\ forced = None /\ fraction > 0 => budget + SafetyReserve(total) <= free
      /\ SafetyReserve(total) \in Nat
  BY <1>2, FractionLeavesReserve
<1>4. budget \in Nat
  <2> HIDE DEF fraction
  <2>1. fraction * total \in Nat
    BY <1>3
  <2> QED
    BY <2>1 DEF Percent
<1>5. weight \in Nat
  <2>1. tp * pp \in Nat /\ m.weight \in Nat
    BY DEF ModelTyped
  <2> QED
    BY <2>1, Sharded
<1>6. dynamic \in Nat
  BY DynamicTyped
<1>7. required \in Nat /\ Need(m, tp, pp, context) <= required
  <2>1. /\ kv = None <=> KvPerRank(m, tp) = None
        /\ kv # None => (kv * context * MinKvSequences) \div 1024 \in Nat
        /\ kv # None => Need(m, tp, pp, context) <= (kv * context * MinKvSequences) \div 1024
    BY StageNeeds
  <2>2. kv = None => Need(m, tp, pp, context) = UnknownKvSpare
    BY <2>1 DEF Need
  <2> HIDE DEF kv
  <2>3. CASE kv = None
    BY <2>2, <2>3 DEF UnknownKvSpare, GiB
  <2>4. CASE kv # None /\ kv # 0
    BY <2>1, <2>4
  <2>5. CASE kv = 0
    <3>1. (0 * context * MinKvSequences) \div 1024 = 0
      BY DEF MinKvSequences
    <3>2. Need(m, tp, pp, context) <= 0 /\ Need(m, tp, pp, context) \in Nat
      BY <2>1, <2>5, <3>1, StageNeeds
    <3> QED
      BY <2>5, <3>2 DEF UnknownKvSpare, GiB
  <2> QED
    BY <2>3, <2>4, <2>5
<1>8. Need(m, tp, pp, context) \in Nat
  BY StageNeeds
<1> HIDE DEF e, fraction, budget, weight, dynamic, required
<1>9. fits
  <2> SUFFICES ASSUME ~fits
               PROVE  Max({overFree, underMin, lack}) > 0
    BY <1>1, Zenon DEF Pruned, e
  <2>1. overFree \in Int /\ (forced # None /\ budget > free => overFree > 0)
    <3>1. Max({0, budget - free}) = IF 0 >= budget - free THEN 0 ELSE budget - free
      BY <1>2, <1>4, MaxOf
    <3> QED
      BY <1>2, <1>4, <3>1
  <2>2. underMin \in Int /\ (fraction < MinFraction => underMin > 0)
    <3> DEFINE d == MinFraction - fraction
    <3> DEFINE u == Percent(d, total)
    <3>1. d \in Int
      BY <1>3 DEF MinFraction
    <3>2. u \in Int /\ (d > 0 => u > 0)
      <4> HIDE DEF d
      <4>1. d * total \in Int
        BY <3>1
      <4>2. d > 0 => d * total >= total
        BY <3>1, ProductGrows
      <4> QED
        BY <4>1, <4>2 DEF Percent
    <3> HIDE DEF u
    <3>3. Max({0, u}) = IF 0 >= u THEN 0 ELSE u
      BY <3>2, MaxOf
    <3> QED
      BY <1>3, <3>2, <3>3 DEF u, MinFraction
  <2>3. lack \in Int /\ (spare < required => lack > 0)
    <3> DEFINE x == required - spare
    <3>1. x \in Int /\ spare \in Int
      BY <1>4, <1>5, <1>6, <1>7
    <3>2. Max({0, x}) = IF 0 >= x THEN 0 ELSE x
      BY <3>1, MaxOf
    <3> QED
      BY <1>7, <3>1, <3>2
  <2>4. Max({overFree, underMin, lack}) >= overFree /\ Max({overFree, underMin, lack}) >= underMin
        /\ Max({overFree, underMin, lack}) >= lack
        /\ Max({overFree, underMin, lack}) \in {overFree, underMin, lack}
    <3> HIDE DEF overFree, underMin, lack
    <3> QED
      BY <2>1, <2>2, <2>3, MaxOf
  <2>5. \/ forced # None /\ budget > free
        \/ fraction < MinFraction
        \/ spare < required
    BY <1>2, <1>3, <1>4, <1>5, <1>6, <1>7 DEF Fits, MinFraction
  <2> HIDE DEF overFree, underMin, lack, spare
  <2> QED
    BY <2>1, <2>2, <2>3, <2>4, <2>5
<1>10. /\ spare >= required /\ fraction >= 30
       /\ forced # None => budget <= free
  BY <1>9, <1>2, <1>4 DEF Fits, MinFraction
<1>11. \A f \in frees:
         budget + (IF forced = None THEN SafetyReserve(total) ELSE 0) <= f
  BY <1>2, <1>3, <1>4, <1>10
<1>12. weight + dynamic + Need(m, tp, pp, context) <= budget
  BY <1>4, <1>5, <1>6, <1>7, <1>8, <1>10
<1> QED
  BY <1>1, <1>3, <1>11, <1>12 DEF e, budget, weight, dynamic

\* What generate_candidates has made sure of when it looks at layouts.
Admitted(x) ==
    /\ Ids(x) \subseteq x.hw.gpus /\ Ids(x) # {}
    /\ \A i, j \in Ids(x): x.hw.total[i] = x.hw.total[j]
    /\ ~ContextError(x)

\* Candidates are generated for an admitted question only.
LEMMA AdmittedOnly ==
    ASSUME NEW x, QueryTyped(x), PlanError(x) = None
    PROVE  Admitted(x)
<1>1. None # "NoViablePlanError" /\ None # "HardwareError" /\ None # "ConfigurationError"
  BY PlanningNoneAssumption
<1>2. x.engines # {} /\ SelectError(x) = None
  <2>1. x.engines # {}
    BY <1>1 DEF PlanError
  <2>2. CASE SelectError(x) # None
    BY <2>1, <2>2 DEF PlanError
  <2> QED
    BY <2>1, <2>2
<1>3. ~ContextError(x)
  BY <1>1, <1>2 DEF PlanError
<1>4. x.hw.gpus # {}
  BY <1>1, <1>2 DEF SelectError
<1>5. Ids(x) \subseteq x.hw.gpus
  BY <1>1, <1>2, <1>4 DEF SelectError
<1>6. \A i, j \in Ids(x): x.hw.total[i] = x.hw.total[j]
  <2>1. CASE \E i, j \in Ids(x): x.hw.total[i] # x.hw.total[j]
    <3>1. SelectError(x) = "HardwareError"
      BY <1>4, <1>5, <2>1 DEF SelectError
    <3> QED
      BY <1>1, <1>2, <3>1
  <2> QED
    BY <2>1
<1>7. Ids(x) # {}
  BY <1>4 DEF Ids, QueryTyped
<1> QED
  BY <1>3, <1>5, <1>6, <1>7 DEF Admitted

\* The nodes of the GPUs, how many each has at least, and the memory of each.
LEMMA Machines ==
    ASSUME NEW x, QueryTyped(x), Admitted(x)
    PROVE  /\ Cardinality(Nodes(x)) \in Nat \ {0}
           /\ GpusPerNode(x) \in Nat \ {0}
           /\ Total(x) \in Nat /\ Total(x) >= 100
           /\ \A g \in Ids(x): x.hw.total[g] = Total(x) /\ x.hw.free[g] \in Nat
<1>1. IsFiniteSet(Ids(x)) /\ Ids(x) \in SUBSET Nat /\ Ids(x) # {}
  <2>1. x.hw.gpus \subseteq Nat /\ IsFiniteSet(x.hw.gpus)
    BY DEF QueryTyped, HwTyped
  <2>2. Ids(x) \subseteq x.hw.gpus /\ Ids(x) # {}
    BY DEF Admitted
  <2> QED
    BY <2>1, <2>2, FS_Subset
<1>2. Cardinality(Nodes(x)) \in Nat \ {0}
  <2> DEFINE f == [i \in Ids(x) |-> x.hw.node[i]]
  <2>1. f \in Surjection(Ids(x), Nodes(x))
    BY DEF Nodes, Surjection
  <2>2. IsFiniteSet(Nodes(x))
    BY <1>1, <2>1, FS_Surjection
  <2>3. Nodes(x) # {}
    BY <1>1 DEF Nodes
  <2> QED
    BY <2>2, <2>3, FS_EmptySet, FS_CardinalityType
<1>3. GpusPerNode(x) \in Nat \ {0}
  <2> DEFINE S == {Cardinality(OnNode(x, n)): n \in Nodes(x)}
  <2>1. \A n \in Nodes(x): Cardinality(OnNode(x, n)) \in Nat \ {0}
    <3>1. ASSUME NEW n \in Nodes(x)
          PROVE  Cardinality(OnNode(x, n)) \in Nat \ {0}
      <4>1. OnNode(x, n) \subseteq Ids(x) /\ OnNode(x, n) # {}
        BY <3>1 DEF OnNode, Nodes
      <4>2. IsFiniteSet(OnNode(x, n))
        BY <1>1, <4>1, FS_Subset
      <4> QED
        BY <4>1, <4>2, FS_EmptySet, FS_CardinalityType
    <3> QED
      BY <3>1
  <2>2. S \in SUBSET Nat /\ S # {} /\ 0 \notin S
    BY <1>1, <2>1 DEF Nodes
  <2> HIDE DEF S
  <2>3. Min(S) \in S
    BY <2>2, LeastOf
  <2>4. GpusPerNode(x) = Min(S)
    <3>1. S = {Cardinality(OnNode(x, n)): n \in Nodes(x)}
      BY DEF S
    <3> QED
      BY <3>1 DEF GpusPerNode
  <2> QED
    BY <2>2, <2>3, <2>4
<1>4. Min(Ids(x)) \in Ids(x)
  BY <1>1, LeastOf
<1>5. \A g \in Ids(x): x.hw.total[g] = Total(x) /\ x.hw.free[g] \in Nat
  BY <1>4 DEF Total, Admitted, QueryTyped
<1>6. Total(x) \in Nat /\ Total(x) >= 100
  BY <1>4 DEF Total, Admitted, QueryTyped
<1> QED
  BY <1>2, <1>3, <1>5, <1>6

\* The planner's choice of a context.
LEMMA ContextChosen ==
    ASSUME NEW x, QueryTyped(x), Admitted(x)
    PROVE  /\ Context(x) \in Nat
           /\ x.model.limit # None /\ Context(x) > x.model.limit =>
                x.cons.override /\ x.cons.context # None
           /\ x.cons.context = None => x.work.p95 <= Context(x)
<1>1. /\ x.model.limit \in Nat \cup {None} /\ x.cons.context \in Nat \cup {None}
      /\ x.work.context \in Nat /\ x.work.p95 \in 0..x.work.context
  BY DEF QueryTyped
<1>2. /\ Requested(x) \in Nat
      /\ x.cons.context = None => x.work.p95 <= Requested(x)
  BY <1>1 DEF Requested
<1>3. CASE x.model.limit # None /\ x.cons.context = None
  <2>1. x.model.limit \in Nat
    BY <1>1, <1>3
  <2>2. Context(x) = IF Requested(x) <= x.model.limit THEN Requested(x) ELSE x.model.limit
    BY <1>2, <1>3, <2>1, MaxOf DEF Context
  <2>3. ~(Requested(x) > x.model.limit /\ x.work.p95 > x.model.limit)
    BY <1>3 DEF Admitted, ContextError
  <2> QED
    BY <1>1, <1>2, <1>3, <2>1, <2>2, <2>3
<1>4. CASE x.model.limit = None \/ x.cons.context # None
  <2>1. Context(x) = Requested(x)
    BY <1>4 DEF Context
  <2>2. x.model.limit # None /\ Context(x) > x.model.limit => x.cons.override
    BY DEF Admitted, ContextError
  <2> QED
    BY <1>2, <1>4, <2>1, <2>2
<1> QED
  BY <1>3, <1>4

\* Each candidate is a plan made of an estimate on the GPUs of its layout that was
\* not pruned; only an engine that supports Ray has pipeline stages.
MadeOf(x, p, e, tp, pp, groups, v, backend) ==
    LET est == EstimateOn(x, UNION ToSet(groups), tp, pp)
    IN /\ p = MakePlan(x, e, tp, pp, groups, v, est, backend)
       /\ tp \in Nat \ {0} /\ pp \in Nat \ {0}
       /\ ~Pruned(est)
       /\ \/ pp = 1 /\ backend = None
          \/ SupportsRay(e)

\* Every plan comes from the same construction, whatever layout it is given.
LEMMA CandidateMade ==
    ASSUME NEW x, QueryTyped(x), Admitted(x), NEW p \in PlansOf(x)
    PROVE  \E e, tp, pp, groups, v, backend: MadeOf(x, p, e, tp, pp, groups, v, backend)
<1>1. CASE p \in WithinNodes(x)
  <2>1. PICK tp \in TpValues(x): p \in OfSize(x, tp)
    BY <1>1 DEF WithinNodes
  <2>2. tp \in Nat \ {0}
    <3>1. tp \in Divisors(GpusPerNode(x))
      BY <2>1 DEF TpValues
    <3>2. tp \in 1..GpusPerNode(x)
      BY <3>1 DEF Divisors
    <3> QED
      BY <3>2, Machines
  <2>3. PICK groups: p \in Grouped(x, tp, groups)
    BY <2>1 DEF OfSize
  <2> DEFINE est == EstimateOn(x, UNION ToSet(groups), tp, 1)
  <2>4. p \in Estimated(x, tp, groups, est)
    BY <2>3 DEF Grouped
  <2> HIDE DEF est
  <2>5. ~Pruned(est)
    BY <2>4 DEF Estimated
  <2>6. PICK e, v:
          p = MakePlan(x, e, tp, 1, groups, v, est, None)
    BY <2>4 DEF Estimated
  <2>7. MadeOf(x, p, e, tp, 1, groups, v, None)
    BY <2>2, <2>5, <2>6 DEF MadeOf, est
  <2> QED
    BY <2>7
<1>2. CASE p \in AcrossNodes(x)
  <2> DEFINE all == Evenly(x)
  <2>1. PICK e, s: /\ p \in Spanning(x, e, all, s, EstimateOn(x, all, s[1], s[2]))
                   /\ SupportsRay(e) /\ s \in Shapes(x)
    BY <1>2 DEF AcrossNodes
  <2>2. s[1] \in Nat \ {0} /\ s[2] \in Nat \ {0}
    <3> DEFINE per == GpusPerNode(x)
    <3> DEFINE n == Cardinality(Nodes(x))
    <3>1. per \in Nat \ {0} /\ n \in Nat \ {0}
      BY Machines
    <3>2. s \in {<<per, n>>, <<per * n, 1>>}
      BY <2>1 DEF Shapes
    <3> HIDE DEF per, n
    <3>3. per * n \in Nat \ {0}
      BY <3>1
    <3> QED
      BY <3>1, <3>2, <3>3
  <2> DEFINE est == EstimateOn(x, all, s[1], s[2])
  <2>3. ~Pruned(est) /\ p = MakePlan(x, e, s[1], s[2], <<all>>, "", est, "ray")
    <3> HIDE DEF est
    <3>1. p \in Spanning(x, e, all, s, est)
      BY <2>1 DEF est
    <3> QED
      BY <3>1 DEF Spanning
  <2>4. UNION ToSet(<<all>>) = all
    BY DEF ToSet
  <2>5. MadeOf(x, p, e, s[1], s[2], <<all>>, "", "ray")
    <3> HIDE DEF est
    <3>1. est = EstimateOn(x, UNION ToSet(<<all>>), s[1], s[2])
      BY <2>4 DEF est
    <3> QED
      BY <2>1, <2>2, <2>3, <3>1 DEF MadeOf
  <2> QED
    BY <2>5
<1> QED
  BY <1>1, <1>2 DEF PlansOf, OrAcross

\* What SGLang is told to allocate leaves room for the rest and holds what it must.
LEMMA StaticPart ==
    ASSUME NEW p, p.total \in Nat \ {0}, p.dynamic \in Nat, p.fraction \in Nat,
           StaticFraction(p) > 30
    PROVE  LET a == StaticFraction(p)
           IN /\ 2 * a * p.total + 200 * p.dynamic <= (2 * p.fraction + 1) * p.total
              /\ \A holds \in Nat:
                   holds + p.dynamic <= Percent(p.fraction, p.total) =>
                     200 * holds <= (2 * a + 1) * p.total
<1> DEFINE a == StaticFraction(p)
<1> DEFINE k == (200 * p.dynamic + p.total) \div (2 * p.total)
<1> DEFINE T == p.total
<1> DEFINE F == p.fraction
<1> DEFINE D == p.dynamic
<1>1. k \in Int /\ (2 * T) * k <= 200 * D + T /\ 200 * D + T < (2 * T) * k + 2 * T
  <2>1. 200 * D + T \in Int /\ 2 * T \in Nat \ {0}
    OBVIOUS
  <2> QED
    BY <2>1, DivMeans, ZenonT(30)
<1>2. a = F - k
  <2>1. a = Max({30, F - k})
    BY DEF StaticFraction
  <2> HIDE DEF k
  <2>2. F - k \in Int
    BY <1>1
  <2>3. Max({30, F - k}) = IF 30 >= F - k THEN 30 ELSE F - k
    BY <2>2, MaxOf
  <2> HIDE DEF a
  <2>4. a > 30
    BY DEF a
  <2> QED
    BY <2>1, <2>2, <2>3, <2>4
<1> HIDE DEF k, a
<1>3. T \in Nat /\ D \in Nat /\ F \in Nat /\ a \in Int
  BY <1>1, <1>2
<1> HIDE DEF T, F, D
<1>4. a * T = F * T - k * T /\ F * T \in Nat /\ k * T \in Int
  BY <1>1, <1>2, <1>3
<1>5. /\ 2 * a * T = 2 * (a * T) /\ (2 * F + 1) * T = 2 * (F * T) + T
      /\ (2 * a + 1) * T = 2 * (a * T) + T /\ (2 * T) * k = 2 * (k * T)
  BY <1>1, <1>3
<1>6. 2 * a * T + 200 * D <= (2 * F + 1) * T
  <2> DEFINE x == F * T
  <2> DEFINE y == k * T
  <2>1. x \in Int /\ y \in Int
    BY <1>4
  <2> HIDE DEF x, y
  <2>2. 2 * a * T = 2 * x - 2 * y /\ (2 * F + 1) * T = 2 * x + T /\ 200 * D + T < 2 * y + 2 * T
    BY <1>1, <1>3, <1>4, <1>5, <2>1 DEF x, y
  <2> QED
    BY <1>3, <2>1, <2>2
<1>7. ASSUME NEW holds \in Nat, holds + D <= (F * T) \div 100
      PROVE  200 * holds <= (2 * a + 1) * T
  <2> DEFINE x == F * T
  <2> DEFINE y == k * T
  <2>1. x \in Nat /\ y \in Int
    BY <1>4
  <2>2. (2 * a + 1) * T = 2 * x - 2 * y + T /\ 2 * y <= 200 * D + T
    BY <1>1, <1>3, <1>4, <1>5
  <2> HIDE DEF x, y
  <2>3. 100 * (x \div 100) <= x /\ x \div 100 \in Int
    BY <2>1
  <2>4. 100 * (holds + D) <= x
    BY <1>3, <1>7, <2>1, <2>3 DEF x
  <2> QED
    BY <1>3, <2>1, <2>2, <2>4
<1> QED
  BY <1>6, <1>7 DEF Percent, a, T, F, D

\* What is known of a candidate whose layout is of selected GPUs.
LEMMA CandidateFits ==
    ASSUME NEW x, QueryTyped(x), NEW p \in Candidates(x),
           Used(p) \subseteq Ids(x)
    PROVE  LET budget == Percent(p.fraction, p.total)
               reserve == IF x.cons.fraction = None THEN SafetyReserve(p.total) ELSE 0
           IN /\ p.context = Context(x)
              /\ p.tp \in Nat \ {0} /\ p.pp \in Nat \ {0}
              /\ p.total \in Nat \ {0} /\ p.dynamic = Dynamic(p.total, p.tp)
              /\ \A g \in Used(p): x.hw.total[g] = p.total
              /\ (p.pp = 1 /\ p.backend = None) \/ p.engine.name = "vllm"
              /\ ~p.unknown => x.model.weight \in Nat
              /\ Used(p) # {} => p.fraction \in Nat
              /\ Used(p) # {} /\ ~p.unknown =>
                    /\ \A g \in Used(p): budget + reserve <= x.hw.free[g]
                    /\ ShardedWeight(x.model.weight, p.tp * p.pp) + p.dynamic
                         + Need(x.model, p.tp, p.pp, p.context) <= budget
<1>1. PlanError(x) = None /\ p \in PlansOf(x)
  BY DEF Candidates
<1>2. Admitted(x)
  BY <1>1, AdmittedOnly
<1>3. PICK e, tp, pp, groups, v, backend: MadeOf(x, p, e, tp, pp, groups, v, backend)
  BY <1>1, <1>2, CandidateMade
<1> DEFINE est == EstimateOn(x, UNION ToSet(groups), tp, pp)
<1>4. /\ p = MakePlan(x, e, tp, pp, groups, v, est, backend)
      /\ tp \in Nat \ {0} /\ pp \in Nat \ {0} /\ ~Pruned(est)
      /\ (pp = 1 /\ backend = None) \/ SupportsRay(e)
  BY <1>3 DEF MadeOf
<1> HIDE DEF est
<1>5. /\ p.engine = e /\ p.tp = tp /\ p.pp = pp /\ p.groups = groups /\ p.backend = backend
      /\ p.context = Context(x) /\ p.fraction = est.fraction /\ p.total = Total(x)
      /\ p.dynamic = Dynamic(Total(x), tp) /\ p.unknown = (est.confidence = "unknown")
  BY <1>4 DEF MakePlan
<1>6. Used(p) = UNION ToSet(groups)
  BY <1>5 DEF Used
<1>7. /\ p.total \in Nat /\ p.total >= 100
      /\ \A g \in Ids(x): x.hw.total[g] = p.total /\ x.hw.free[g] \in Nat
  BY <1>2, <1>5, Machines
<1>8. (p.pp = 1 /\ p.backend = None) \/ p.engine.name = "vllm"
  BY <1>4, <1>5 DEF SupportsRay
<1>9. ~p.unknown => x.model.weight \in Nat
  <2>1. x.model.weight = None => est.confidence = "unknown"
    BY DEF est, EstimateOn, Estimate
  <2> QED
    BY <1>5, <2>1 DEF QueryTyped
<1> DEFINE frees == {x.hw.free[i]: i \in Used(p)}
<1>11. frees \in SUBSET Nat /\ (Used(p) # {} => frees # {})
  BY <1>7
<1>12. est = Estimate(x.model, p.total, frees, tp, pp, Context(x), x.cons.fraction)
  BY <1>5, <1>6 DEF est, EstimateOn
<1> HIDE DEF frees
<1>13. x.cons.fraction \in (1..99) \cup {None}
  BY DEF QueryTyped
<1>14. Used(p) # {} => p.fraction \in Nat
  <2> SUFFICES ASSUME Used(p) # {}
               PROVE  est.fraction \in Nat
    BY <1>5
  <2>1. p.total \in Nat \ {0} /\ frees # {}
    BY <1>7, <1>11
  <2> QED
    BY <1>11, <1>12, <1>13, <2>1, FractionTyped
<1>10. ASSUME Used(p) # {}, ~p.unknown
       PROVE  /\ \A g \in Used(p):
                   Percent(p.fraction, p.total)
                     + (IF x.cons.fraction = None THEN SafetyReserve(p.total) ELSE 0)
                     <= x.hw.free[g]
              /\ ShardedWeight(x.model.weight, tp * pp) + p.dynamic
                   + Need(x.model, tp, pp, p.context) <= Percent(p.fraction, p.total)
  <2>2. ModelTyped(x.model) /\ x.model.weight # None
    <3>1. x.model.weight # None
      BY <1>9, <1>10, PlanningNoneAssumption
    <3> QED
      BY <3>1 DEF QueryTyped, ModelTyped
  <2>3. Context(x) \in Nat
    BY <1>2, ContextChosen
  <2>6. None \notin Int
    BY PlanningNoneAssumption
  <2> DEFINE budget == Percent(est.fraction, p.total)
  <2>7. /\ est.fraction \in Nat
        /\ \A f \in frees:
             budget + (IF x.cons.fraction = None THEN SafetyReserve(p.total) ELSE 0) <= f
        /\ ShardedWeight(x.model.weight, tp * pp) + Dynamic(p.total, tp)
             + Need(x.model, tp, pp, Context(x)) <= budget
    <3>1. ~Pruned(Estimate(x.model, p.total, frees, tp, pp, Context(x), x.cons.fraction))
      BY <1>4, <1>12
    <3>2. p.total \in Nat /\ p.total >= 100 /\ tp \in Nat \ {0} /\ pp \in Nat \ {0}
      BY <1>4, <1>7
    <3>3. frees \in SUBSET Nat /\ frees # {}
      BY <1>10, <1>11
    <3> DEFINE m == x.model
    <3> DEFINE total == p.total
    <3> DEFINE c == Context(x)
    <3> DEFINE forced == x.cons.fraction
    <3> DEFINE made == Estimate(m, total, frees, tp, pp, c, forced)
    <3>4. /\ ModelTyped(m) /\ m.weight # None /\ total \in Nat /\ total >= 100 /\ c \in Nat
          /\ forced \in (1..99) \cup {None} /\ ~Pruned(made)
      BY <1>13, <2>2, <2>3, <3>1, <3>2
    <3> HIDE DEF m, total, c, forced
    <3>5. /\ made.fraction \in Nat
          /\ \A f \in frees:
               Percent(made.fraction, total)
                 + (IF forced = None THEN SafetyReserve(total) ELSE 0) <= f
          /\ ShardedWeight(m.weight, tp * pp) + Dynamic(total, tp) + Need(m, tp, pp, c)
               <= Percent(made.fraction, total)
      BY <2>6, <3>2, <3>3, <3>4, KeptPlanFits
    <3> QED
      BY <1>12, <3>5 DEF m, total, c, forced
  <2>8. \A g \in Used(p): x.hw.free[g] \in frees
    BY DEF frees
  <2> QED
    BY <1>5, <2>7, <2>8
<1> QED
  BY <1>4, <1>5, <1>7, <1>8, <1>9, <1>10, <1>14

----------------------------------------------------------------------------
(* Candidates                                                              *)

\* As many GPUs of every node as the smallest has: that many on each.
LEMMA EvenlyIs ==
    ASSUME NEW x, QueryTyped(x), Admitted(x)
    PROVE  /\ Evenly(x) \subseteq Ids(x)
           /\ Cardinality(Evenly(x)) = GpusPerNode(x) * Cardinality(Nodes(x))
<1> DEFINE M == Nodes(x)
<1> DEFINE per == GpusPerNode(x)
<1> DEFINE F == [n \in M |-> Lowest(OnNode(x, n), per)]
<1>1. Ids(x) \in SUBSET Nat /\ IsFiniteSet(Ids(x))
  BY FS_Subset DEF QueryTyped, HwTyped, Admitted
<1>2. IsFiniteSet(M)
  <2> DEFINE f == [i \in Ids(x) |-> x.hw.node[i]]
  <2>1. f \in Surjection(Ids(x), M)
    BY DEF Nodes, Surjection
  <2> HIDE DEF f
  <2> QED
    BY <1>1, <2>1, FS_Surjection
<1>3. \A n \in M: OnNode(x, n) \in SUBSET Nat /\ IsFiniteSet(OnNode(x, n))
  BY <1>1, FS_Subset DEF OnNode
<1>4. per \in Nat /\ \A n \in M: per <= Cardinality(OnNode(x, n))
  <2> DEFINE S == {Cardinality(OnNode(x, n)): n \in M}
  <2>1. S \in SUBSET Nat
    BY <1>3, FS_CardinalityType
  <2>2. S # {}
    BY DEF Admitted, Nodes
  <2>3. per = Min(S)
    BY DEF GpusPerNode
  <2>4. \A n \in M: Cardinality(OnNode(x, n)) \in S
    OBVIOUS
  <2> HIDE DEF S, per
  <2> QED
    BY <2>1, <2>2, <2>3, <2>4, LeastOf
<1> HIDE DEF per
<1>5. \A n \in M: IsFiniteSet(F[n]) /\ Cardinality(F[n]) = per
  <2> SUFFICES ASSUME NEW n \in M
               PROVE  IsFiniteSet(F[n]) /\ Cardinality(F[n]) = per
    OBVIOUS
  <2>1. per \in 0..Cardinality(OnNode(x, n))
    BY <1>3, <1>4, FS_CardinalityType
  <2> QED
    BY <1>3, <2>1, LowestAre
<1>6. \A n \in M: F[n] \subseteq OnNode(x, n)
  BY DEF Lowest
<1>7. \A m, n \in M: m # n => F[m] \cap F[n] = {}
  BY <1>6 DEF OnNode
<1>8. Evenly(x) = UNION {F[n]: n \in M}
  BY DEF Evenly, Lowest, per
<1> DEFINE w == [n \in M |-> Cardinality(F[n])]
<1>9. \A n \in M: w[n] = per
  BY <1>5
<1>10. Cardinality(UNION {F[n]: n \in M}) = SumFunction(w)
  <2> HIDE DEF F, M
  <2> QED
    BY <1>2, <1>5, <1>7, UnionSize
<1>11. SumFunction(w) = per * Cardinality(M)
  <2>1. SumFunction(w) = SumFunctionOnSet(w, M)
    BY DEF SumFunction
  <2> HIDE DEF w, M
  <2> QED
    BY <1>2, <1>4, <1>9, <2>1, SumOfEqual
<1>12. Evenly(x) \subseteq Ids(x)
  BY DEF Evenly, OnNode
<1> QED
  BY <1>8, <1>10, <1>11, <1>12 DEF per

\* The replicas a layout is asked for.
Wanted(x, tp) == IF x.cons.replicas = None THEN MaxReplicas(x, tp) ELSE x.cons.replicas

\* A candidate whose replicas are each on one node, and one over all nodes.
Within(x, p, e, tp, v, est) ==
    /\ tp \in TpValues(x) /\ HeadsSplit(x.model, tp)
    /\ e \in EngineChoice(x) /\ v \in Variants(x, e, tp) /\ Supports(e, x.model, p)
    /\ p = MakePlan(x, e, tp, 1, PlanGroups(x.hw, tp, Wanted(x, tp), Ids(x)), v, est, None)

Across(x, p, e, s, est) ==
    /\ s \in Shapes(x) /\ x.cons.tp \in {None, s[1]} /\ x.cons.replicas \in {None, 1}
    /\ e \in EngineChoice(x) /\ SupportsRay(e) /\ IsCluster(x)
    /\ p = MakePlan(x, e, s[1], s[2], <<Evenly(x)>>, "", est, "ray")

\* There are no others.
LEMMA WithinOrAcross ==
    ASSUME NEW x, NEW p \in PlansOf(x)
    PROVE  \/ \E e, tp, v, est: Within(x, p, e, tp, v, est)
           \/ \E e, s, est: Across(x, p, e, s, est)
<1>1. CASE p \in WithinNodes(x)
  <2>1. PICK tp \in TpValues(x): HeadsSplit(x.model, tp) /\ p \in OfSize(x, tp)
    BY <1>1 DEF WithinNodes
  <2>2. PICK groups: groups = PlanGroups(x.hw, tp, Wanted(x, tp), Ids(x))
    OBVIOUS
  <2>3. p \in Grouped(x, tp, groups)
    BY <2>1, <2>2 DEF OfSize, Wanted
  <2>4. PICK est: p \in Estimated(x, tp, groups, est)
    BY <2>3 DEF Grouped
  <2>5. PICK e \in EngineChoice(x):
          \E v \in Variants(x, e, tp):
            p = MakePlan(x, e, tp, 1, groups, v, est, None) /\ Supports(p.engine, x.model, p)
    BY <2>4 DEF Estimated
  <2>6. PICK v \in Variants(x, e, tp):
          p = MakePlan(x, e, tp, 1, groups, v, est, None) /\ Supports(p.engine, x.model, p)
    BY <2>5
  <2>7. p.engine = e
    BY <2>6 DEF MakePlan
  <2>8. Within(x, p, e, tp, v, est)
    BY <2>1, <2>2, <2>6, <2>7 DEF Within
  <2> QED
    BY <2>8
<1>2. CASE p \in AcrossNodes(x) /\ IsCluster(x)
  <2>1. x.cons.replicas \in {None, 1}
    BY <1>2 DEF AcrossNodes
  <2>2. PICK e \in {y \in EngineChoice(x): SupportsRay(y)},
             s \in {z \in Shapes(x): x.cons.tp \in {None, z[1]}}:
          p \in Spanning(x, e, Evenly(x), s, EstimateOn(x, Evenly(x), s[1], s[2]))
    BY <1>2 DEF AcrossNodes
  <2>3. PICK est: p \in Spanning(x, e, Evenly(x), s, est)
    BY <2>2
  <2>4. p = MakePlan(x, e, s[1], s[2], <<Evenly(x)>>, "", est, "ray")
    BY <2>3 DEF Spanning
  <2>5. Across(x, p, e, s, est)
    BY <1>2, <2>1, <2>2, <2>4 DEF Across
  <2> QED
    BY <2>5
<1> QED
  BY <1>1, <1>2 DEF PlansOf, OrAcross

\* The nodes have room for the replicas wanted; without a wish it is all they have.
LEMMA RoomGiven ==
    ASSUME NEW x, QueryTyped(x), PlanError(x) = None, NEW tp \in TpValues(x),
           HeadsSplit(x.model, tp)
    PROVE  /\ tp \in Nat \ {0} /\ Wanted(x, tp) \in Nat
           /\ Wanted(x, tp) <= Room(x.hw, tp, Ids(x))
           /\ x.cons.replicas = None => Wanted(x, tp) = Room(x.hw, tp, Ids(x))
           /\ x.cons.replicas # None => Wanted(x, tp) = x.cons.replicas
<1>1. Admitted(x)
  BY AdmittedOnly
<1>2. tp \in Nat \ {0}
  <2>1. tp \in 1..GpusPerNode(x)
    BY DEF TpValues, Divisors
  <2> QED
    BY <1>1, <2>1, Machines
<1>3. MaxReplicas(x, tp) = Room(x.hw, tp, Ids(x))
  BY DEF MaxReplicas, Room, Nodes, NodesOf, OnNode, On
<1>4. Room(x.hw, tp, Ids(x)) \in Nat
  <2>1. HwTyped(x.hw) /\ Ids(x) \in SUBSET x.hw.gpus
    BY <1>1 DEF QueryTyped, Admitted
  <2> QED
    BY <1>2, <2>1, RoomIs
<1>5. ~ReplicasError(x)
  <2>1. /\ None # "NoViablePlanError" /\ None # "HardwareError"
        /\ None # "ConfigurationError"
    BY PlanningNoneAssumption
  <2>2. x.engines # {}
    BY <2>1 DEF PlanError
  <2>3. SelectError(x) = None
    BY <2>2 DEF PlanError
  <2> QED
    BY <2>1, <2>2, <2>3 DEF PlanError
<1>6. CASE x.cons.replicas = None
  BY <1>2, <1>3, <1>4, <1>6 DEF Wanted
<1>7. CASE x.cons.replicas # None
  <2>1. x.cons.replicas \in Nat
    BY <1>7 DEF QueryTyped
  <2>2. ~(x.cons.replicas > MaxReplicas(x, tp))
    BY <1>5, <1>7 DEF ReplicasError
  <2> QED
    BY <1>2, <1>3, <1>4, <1>7, <2>1, <2>2 DEF Wanted
<1> QED
  BY <1>6, <1>7

\* So each candidate within nodes has its replicas placed.
LEMMA WithinPlaced ==
    ASSUME NEW x, QueryTyped(x), PlanError(x) = None,
           NEW p, NEW e, NEW tp, NEW v, NEW est, Within(x, p, e, tp, v, est)
    PROVE  /\ p.tp = tp /\ p.pp = 1 /\ p.backend = None /\ p.engine = e /\ tp \in Nat \ {0}
           /\ Wanted(x, tp) \in Nat
           /\ Placed(x.hw, tp, Wanted(x, tp), Ids(x), p.groups)
           /\ x.cons.replicas = None => Filled(x.hw, tp, Ids(x), ToSet(p.groups))
           /\ x.cons.replicas # None => Wanted(x, tp) = x.cons.replicas
<1>1. PICK n: n = Wanted(x, tp)
  OBVIOUS
<1>2. /\ p.tp = tp /\ p.pp = 1 /\ p.backend = None /\ p.engine = e
      /\ p.groups = PlanGroups(x.hw, tp, n, Ids(x))
  BY <1>1 DEF Within, MakePlan
<1>3. /\ tp \in Nat \ {0} /\ n \in Nat /\ n <= Room(x.hw, tp, Ids(x))
      /\ x.cons.replicas = None => n = Room(x.hw, tp, Ids(x))
      /\ x.cons.replicas # None => n = x.cons.replicas
  BY <1>1, RoomGiven DEF Within
<1>4. HwTyped(x.hw) /\ Ids(x) \in SUBSET x.hw.gpus
  BY AdmittedOnly DEF QueryTyped, Admitted
<1>5. /\ Placed(x.hw, tp, n, Ids(x), p.groups)
      /\ n = Room(x.hw, tp, Ids(x)) => Filled(x.hw, tp, Ids(x), ToSet(p.groups))
  BY <1>2, <1>3, <1>4, PlanGroupsIs
<1> QED
  BY <1>1, <1>2, <1>3, <1>5

\* And one across them has the GPUs of all, evenly, which are TP times PP.
LEMMA AcrossLaid ==
    ASSUME NEW x, QueryTyped(x), Admitted(x),
           NEW p, NEW e, NEW s, NEW est, Across(x, p, e, s, est)
    PROVE  /\ p.groups = <<Evenly(x)>> /\ p.backend = "ray" /\ p.engine = e /\ p.spans
           /\ p.tp = s[1] /\ p.pp = s[2] /\ p.variant = "" /\ p.dp = 1
           /\ p.tp \in Nat \ {0} /\ p.pp \in Nat \ {0}
           /\ Evenly(x) \subseteq Ids(x) /\ Cardinality(Evenly(x)) = p.tp * p.pp
<1>1. /\ p.groups = <<Evenly(x)>> /\ p.backend = "ray" /\ p.engine = e
      /\ p.tp = s[1] /\ p.pp = s[2] /\ p.variant = "" /\ p.dp = 1
  BY DEF Across, MakePlan
<1>2. p.spans
  <2>1. None # "ray"
    BY PlanningNoneAssumption
  <2> QED
    BY <2>1 DEF Across, MakePlan
<1>3. PICK per, m: per = GpusPerNode(x) /\ m = Cardinality(Nodes(x))
  OBVIOUS
<1>4. per \in Nat \ {0} /\ m \in Nat \ {0}
  BY <1>3, Machines
<1>5. Evenly(x) \subseteq Ids(x) /\ Cardinality(Evenly(x)) = per * m
  BY <1>3, EvenlyIs
<1>6. s \in {<<per, m>>, <<per * m, 1>>}
  BY <1>3 DEF Across, Shapes
<1>7. p.tp \in Nat \ {0} /\ p.pp \in Nat \ {0} /\ p.tp * p.pp = per * m
  <2>1. PICK all: all = per * m
    OBVIOUS
  <2>2. all \in Nat \ {0}
    BY <1>4, <2>1
  <2>3. s = <<per, m>> \/ s = <<all, 1>>
    BY <1>6, <2>1, Zenon
  <2>4. CASE s = <<per, m>>
    BY <1>1, <1>4, <2>4
  <2>5. CASE s = <<all, 1>>
    <3>1. p.tp = all /\ p.pp = 1 /\ all * 1 = all
      <4>1. s[1] = all /\ s[2] = 1
        BY <2>5
      <4>2. p.tp = all /\ p.pp = 1
        BY <1>1, <4>1, Zenon
      <4>3. all * 1 = all
        BY <2>2
      <4> QED
        BY <4>2, <4>3
    <3>2. p.tp * p.pp = all
      BY <3>1, Zenon
    <3>3. p.tp * p.pp = per * m
      BY <2>1, <3>2, Zenon
    <3> QED
      BY <2>2, <3>1, <3>3
  <2> QED
    BY <2>3, <2>4, <2>5
<1> QED
  BY <1>1, <1>2, <1>5, <1>7

\* What LayoutFits says of one candidate.
LaidOut(x, p) ==
    /\ Used(p) \subseteq Ids(x)
    /\ Cardinality(Used(p)) = Len(p.groups) * p.tp * p.pp
    /\ p.backend = None =>
         /\ EachApart(x.hw, p.tp, Ids(x), p.groups)
         /\ x.cons.replicas = None => Filled(x.hw, p.tp, Ids(x), ToSet(p.groups))

\* It is true of both kinds.
LEMMA WithinLaidOut ==
    ASSUME NEW x, QueryTyped(x), PlanError(x) = None,
           NEW p, NEW e, NEW tp, NEW v, NEW est, Within(x, p, e, tp, v, est)
    PROVE  LaidOut(x, p)
<1>1. PICK n: n = Wanted(x, tp)
  OBVIOUS
<1>2. /\ p.tp = tp /\ p.pp = 1 /\ p.backend = None /\ tp \in Nat \ {0} /\ n \in Nat
      /\ Placed(x.hw, tp, n, Ids(x), p.groups)
      /\ x.cons.replicas = None => Filled(x.hw, tp, Ids(x), ToSet(p.groups))
  BY <1>1, WithinPlaced
<1>3. IsFiniteSet(Ids(x))
  BY AdmittedOnly, FS_Subset DEF QueryTyped, HwTyped, Admitted
<1>4. PICK gs: gs = ToSet(p.groups)
  OBVIOUS
<1>5. IsLayout(tp, Ids(x), gs) /\ Cardinality(gs) = n /\ Len(p.groups) = n
  BY <1>2, <1>4 DEF Placed, Lays
<1>6. UNION gs \subseteq Ids(x) /\ Cardinality(UNION gs) = tp * Cardinality(gs)
  <2>1. tp \in Nat /\ IsFiniteSet(Ids(x)) /\ IsLayout(tp, Ids(x), gs)
    BY <1>2, <1>3, <1>5
  <2> QED
    BY <2>1, LayoutSize
<1>7. Used(p) = UNION gs
  BY <1>4 DEF Used
<1>8. Cardinality(Used(p)) = Len(p.groups) * p.tp * p.pp
  <2>1. Cardinality(Used(p)) = tp * n
    BY <1>5, <1>6, <1>7, Zenon
  <2>2. Len(p.groups) * p.tp * p.pp = n * tp * 1
    BY <1>2, <1>5, Zenon
  <2>3. n * tp * 1 = tp * n
    BY <1>2
  <2> QED
    BY <2>1, <2>2, <2>3, Zenon
<1>9. EachApart(x.hw, p.tp, Ids(x), p.groups)
  BY <1>2, EachPlaced
<1> QED
  BY <1>2, <1>6, <1>7, <1>8, <1>9 DEF LaidOut

LEMMA AcrossLaidOut ==
    ASSUME NEW x, QueryTyped(x), Admitted(x),
           NEW p, NEW e, NEW s, NEW est, Across(x, p, e, s, est)
    PROVE  LaidOut(x, p)
<1>1. PICK all: all = Evenly(x)
  OBVIOUS
<1>2. /\ p.groups = <<all>> /\ p.backend = "ray" /\ p.tp \in Nat \ {0} /\ p.pp \in Nat \ {0}
      /\ all \subseteq Ids(x) /\ Cardinality(all) = p.tp * p.pp
  BY <1>1, AcrossLaid
<1>3. p.backend # None
  BY <1>2, PlanningNoneAssumption
<1>4. Len(p.groups) = 1 /\ ToSet(p.groups) = {all}
  BY <1>2 DEF ToSet
<1>5. Used(p) = all
  BY <1>4 DEF Used
<1>6. Len(p.groups) * p.tp * p.pp = p.tp * p.pp
  <2>1. PICK a, b: a = p.tp /\ b = p.pp
    OBVIOUS
  <2>2. 1 * a * b = a * b
    BY <1>2, <2>1
  <2> QED
    BY <1>4, <2>1, <2>2, Zenon
<1>7. Used(p) \subseteq Ids(x) /\ Cardinality(Used(p)) = p.tp * p.pp
  BY <1>2, <1>5, Zenon
<1> QED
  BY <1>3, <1>6, <1>7 DEF LaidOut

\* The tokens that fit are a number where they are estimated.
LEMMA TokensTyped ==
    ASSUME NEW m, ModelTyped(m), NEW total \in Nat \ {0}, NEW frees \in SUBSET Nat, frees # {},
           NEW tp \in Nat \ {0}, NEW pp \in Nat \ {0}, NEW context,
           NEW forced \in (1..99) \cup {None}, None \notin Int
    PROVE  Estimate(m, total, frees, tp, pp, context, forced).tokens \in Nat \cup {None}
<1> DEFINE e == Estimate(m, total, frees, tp, pp, context, forced)
<1> DEFINE kv == StageKv(m, tp, pp)
<1> DEFINE weight == IF m.weight = None THEN 0 ELSE ShardedWeight(m.weight, tp * pp)
<1> DEFINE spare == Percent(e.fraction, total) - weight - Dynamic(total, tp)
<1>1. e.tokens = IF (m.weight = None \/ kv \in {None, 0}) \/ spare <= 0 THEN None
                 ELSE (spare * 1024) \div kv
  BY DEF Estimate, StageKv
<1>2. e.fraction \in Nat
  BY FractionTyped
<1>3. Percent(e.fraction, total) \in Int
  <2> HIDE DEF e
  <2>1. e.fraction * total \in Int
    BY <1>2
  <2> QED
    BY <2>1 DEF Percent
<1>4. weight \in Int
  <2>1. tp * pp \in Nat /\ (m.weight # None => m.weight \in Nat)
    BY DEF ModelTyped
  <2> QED
    <3>1. CASE m.weight = None
      BY <3>1
    <3>2. CASE m.weight # None
      <4>1. PICK w, n: w = m.weight /\ n = tp * pp
        OBVIOUS
      <4>2. ShardedWeight(w, n) \in Nat
        BY <2>1, <3>2, <4>1, Sharded
      <4> QED
        BY <3>2, <4>1, <4>2
    <3> QED
      BY <3>1, <3>2
<1>5. Dynamic(total, tp) \in Int
  BY DynamicTyped
<1>6. kv \in Nat \cup {None}
  <2>1. LET k == StageKv(m, tp, pp) IN k \in Nat \cup {None}
    <3>1. 0 \in Nat
      OBVIOUS
    <3> QED
      BY <3>1, StageNeeds
  <2> QED
    BY <2>1
<1> HIDE DEF e, kv, weight
<1>7. spare \in Int
  BY <1>3, <1>4, <1>5
<1> HIDE DEF spare
<1>8. CASE (m.weight = None \/ kv \in {None, 0}) \/ spare <= 0
  BY <1>1, <1>8 DEF e
<1>9. CASE ~((m.weight = None \/ kv \in {None, 0}) \/ spare <= 0)
  <2>1. spare * 1024 \in Int /\ spare * 1024 >= 0 /\ kv \in Nat \ {0}
    BY <1>6, <1>7, <1>9
  <2>2. (spare * 1024) \div kv \in Nat
    BY <2>1, DivMeans
  <2> QED
    BY <1>1, <1>9, <2>2 DEF e
<1> QED
  BY <1>8, <1>9

\* So is how many sequences a plan runs at once.
LEMMA SeqsTyped ==
    ASSUME NEW x, QueryTyped(x), Admitted(x), NEW p \in PlansOf(x),
           Used(p) \subseteq Ids(x), Used(p) # {}
    PROVE  p.seqs \in Nat
<1>1. PICK e, tp, pp, groups, v, backend: MadeOf(x, p, e, tp, pp, groups, v, backend)
  BY CandidateMade
<1>2. PICK est: est = EstimateOn(x, UNION ToSet(groups), tp, pp)
  OBVIOUS
<1>3. p = MakePlan(x, e, tp, pp, groups, v, est, backend) /\ tp \in Nat \ {0} /\ pp \in Nat \ {0}
  BY <1>1, <1>2 DEF MadeOf
<1>4. p.seqs = MaxNumSeqs(x, est) /\ p.groups = groups
  BY <1>3 DEF MakePlan
<1>5. PICK frees: frees = {x.hw.free[i]: i \in Used(p)}
  OBVIOUS
<1>6. est = Estimate(x.model, Total(x), frees, tp, pp, Context(x), x.cons.fraction)
  BY <1>2, <1>4, <1>5 DEF EstimateOn, Used
<1>7. Total(x) \in Nat \ {0} /\ frees \in SUBSET Nat /\ frees # {}
  BY <1>5, Machines
<1>8. est.tokens \in Nat \cup {None}
  <2>1. ModelTyped(x.model) /\ x.cons.fraction \in (1..99) \cup {None}
    BY DEF QueryTyped, ModelTyped
  <2>2. PICK m, total, c, forced: /\ m = x.model /\ total = Total(x) /\ c = Context(x)
                                  /\ forced = x.cons.fraction
    OBVIOUS
  <2>3. /\ ModelTyped(m) /\ total \in Nat \ {0} /\ forced \in (1..99) \cup {None}
        /\ None \notin Int
    BY <1>7, <2>1, <2>2, PlanningNoneAssumption
  <2>4. Estimate(m, total, frees, tp, pp, c, forced).tokens \in Nat \cup {None}
    BY <1>3, <1>7, <2>3, TokensTyped
  <2> QED
    BY <1>6, <2>2, <2>4
<1>9. CASE x.cons.seqs # None
  BY <1>4, <1>9 DEF MaxNumSeqs, QueryTyped
<1>10. CASE x.cons.seqs = None /\ est.tokens = None
  BY <1>4, <1>10 DEF MaxNumSeqs
<1>11. CASE x.cons.seqs = None /\ est.tokens # None
  <2> DEFINE c50 == est.tokens \div x.work.p50
  <2>1. est.tokens \in Nat /\ x.work.p50 \in Nat \ {0}
    BY <1>8, <1>11 DEF QueryTyped
  <2>2. c50 \in Nat
    BY <2>1, DivMeans
  <2>3. p.seqs = Max({16, Min({1024, c50})})
    BY <1>4, <1>11 DEF MaxNumSeqs
  <2> HIDE DEF c50
  <2>4. Min({1024, c50}) \in Nat
    <3>1. PICK c: c = c50
      OBVIOUS
    <3>2. c \in Nat
      BY <2>2, <3>1
    <3>3. Min({1024, c}) = IF 1024 <= c THEN 1024 ELSE c
      BY <3>2, MaxOf
    <3>4. Min({1024, c}) \in Nat
      BY <3>2, <3>3
    <3> QED
      BY <3>1, <3>4, ZenonT(30)
  <2>5. PICK b: b = Min({1024, c50})
    OBVIOUS
  <2>6. b \in Nat
    BY <2>4, <2>5, Zenon
  <2>7. Max({16, b}) = IF 16 >= b THEN 16 ELSE b
    BY <2>6, MaxOf
  <2>8. p.seqs = IF 16 >= b THEN 16 ELSE b
    <3>1. p.seqs = Max({16, b})
      BY <2>3, <2>5
    <3> QED
      BY <2>7, <3>1
  <2> QED
    BY <2>6, <2>8
<1> QED
  BY <1>9, <1>10, <1>11

\* Rounded up, the ranks' shares are no less than the whole.
LEMMA SharesCover ==
    ASSUME NEW n \in Nat, NEW k \in Nat \ {0}
    PROVE  Max({1, CeilDiv(n, k)}) * k >= n /\ Max({1, CeilDiv(n, k)}) \in Int
<1>1. PICK c: c = CeilDiv(n, k)
  OBVIOUS
<1>2. c \in Int /\ n + k - 1 < k * c + k
  <2>1. n + k - 1 \in Int
    OBVIOUS
  <2> QED
    BY <1>1, <2>1, DivMeans DEF CeilDiv
<1>3. Max({1, c}) = IF 1 >= c THEN 1 ELSE c
  BY <1>2, MaxOf
<1>4. PICK b: b = Max({1, c})
  OBVIOUS
<1>5. b \in Int /\ b >= c
  BY <1>2, <1>3, <1>4
<1>6. k * c \in Int /\ k * c >= n
  BY <1>2
<1>7. b * k >= n
  <2>1. c * k <= b * k
    BY <1>2, <1>5, ProductGrows
  <2>2. c * k = k * c /\ b * k \in Int
    BY <1>2, <1>5
  <2> QED
    BY <1>6, <2>1, <2>2
<1> QED
  BY <1>1, <1>4, <1>5, <1>7

\* What RankPerGpu says of the arguments a of one replica on the GPUs g.
Ranked(x, p, g, a) ==
    /\ Ranks(p.engine, a) = Cardinality(g)
    /\ \/ p.backend = "ray" /\ a.visible = {}
       \/ \E n \in Nodes(x): g = {i \in x.hw.gpus: x.hw.node[i] = n /\ x.hw.local[i] \in a.visible}
    /\ a.seqs * (p.tp \div a.tp) >= p.seqs

\* The GPUs of a group are those of its node that have its numbers there.
LEMMA GroupSeen ==
    ASSUME NEW hw, HwTyped(hw), NEW ids \in SUBSET hw.gpus, NEW n, NEW g,
           g \subseteq On(hw, ids, n)
    PROVE  g = {i \in hw.gpus: hw.node[i] = n /\ hw.local[i] \in LocalIds(hw, g)}
<1>1. g \subseteq hw.gpus /\ \A i \in g: hw.node[i] = n
  BY DEF On
<1>2. ASSUME NEW i \in hw.gpus, hw.node[i] = n, hw.local[i] \in LocalIds(hw, g)
      PROVE  i \in g
  <2>1. PICK j \in g: hw.local[j] = hw.local[i]
    BY <1>2 DEF LocalIds
  <2> QED
    BY <1>1, <1>2, <2>1 DEF HwTyped
<1>3. \A i \in g: hw.local[i] \in LocalIds(hw, g)
  BY DEF LocalIds
<1> QED
  BY <1>1, <1>2, <1>3

\* The arguments of a replica within a node: its size, and its GPUs visible.
LEMMA ArgsWithin ==
    ASSUME NEW x, QueryTyped(x), PlanError(x) = None, NEW p, NEW e, NEW tp, NEW v, NEW est,
           Within(x, p, e, tp, v, est), NEW local, p.seqs \in Nat
    PROVE  LET a == Args(p.engine, x.model, p, local) IN
           /\ Ranks(p.engine, a) = tp /\ a.visible = local
           /\ a.seqs * (tp \div a.tp) >= p.seqs
<1> DEFINE a == Args(p.engine, x.model, p, local)
<1>1. /\ p.engine = e /\ p.tp = tp /\ p.pp = 1 /\ p.variant = v /\ ~p.spans
      /\ p.dp = IF v = "-dpa" THEN tp ELSE 1
  BY DEF Within, MakePlan
<1>2. tp \in Nat \ {0} /\ tp * 1 = tp /\ tp \div tp = 1 /\ tp \div 1 = tp
  <2>1. tp \in Nat \ {0}
    BY RoomGiven DEF Within
  <2> QED
    BY <2>1
<1>3. v = "-dpa" => tp > 1 /\ SupportsDPA(e, x.model)
  BY DEF Within, Variants
<1>4. CASE e.name # "vllm"
  <2>1. a = SglangArgs(e, x.model, p, local)
    BY <1>1, <1>4 DEF Args
  <2>2. a.tp = tp /\ a.pp = 1 /\ a.seqs = p.seqs /\ a.visible = local
    BY <1>1, <2>1 DEF SglangArgs
  <2>3. Ranks(p.engine, a) = tp
    BY <1>1, <1>2, <1>4, <2>2 DEF Ranks
  <2> QED
    BY <1>2, <2>2, <2>3
<1>5. CASE e.name = "vllm"
  <2>1. a = VllmArgs(e, x.model, p, local)
    BY <1>1, <1>5 DEF Args
  <2>2. a.pp = 1 /\ a.visible = local
    BY <1>1, <2>1 DEF VllmArgs
  <2>3. Ranks(p.engine, a) = a.tp * 1 * a.dp
    BY <1>1, <1>5, <2>2 DEF Ranks
  <2>4. CASE v = "-dpa"
    <3>1. p.dp = tp /\ p.variant = "-dpa" /\ p.dp > 1
      BY <1>1, <1>3, <2>4
    <3>2. e.version >= 800
      <4>1. e.version >= 900
        BY <1>3, <1>5, <2>4 DEF SupportsDPA
      <4>2. e.version \in Nat
        BY DEF Within, EngineChoice, QueryTyped
      <4> QED
        BY <4>1, <4>2
    <3>3. a.tp = 1 /\ a.dp = tp /\ a.seqs = Max({1, CeilDiv(p.seqs, tp)})
      BY <2>1, <3>1, <3>2 DEF VllmArgs
    <3>4. Ranks(p.engine, a) = tp
      BY <1>2, <2>3, <3>3
    <3>5. a.seqs * tp >= p.seqs
      BY <1>2, <3>3, SharesCover
    <3> QED
      BY <1>2, <2>2, <3>3, <3>4, <3>5
  <2>5. CASE v # "-dpa"
    <3>1. a.tp = tp /\ a.dp = 1 /\ a.seqs = p.seqs
      BY <1>1, <2>1, <2>5 DEF VllmArgs
    <3> QED
      BY <1>2, <2>2, <2>3, <3>1
  <2> QED
    BY <2>4, <2>5
<1> QED
  BY <1>4, <1>5

\* The arguments of a replica across nodes, which names no GPUs.
LEMMA ArgsAcross ==
    ASSUME NEW x, QueryTyped(x), Admitted(x), NEW p, NEW e, NEW s, NEW est,
           Across(x, p, e, s, est), NEW local, p.seqs \in Nat
    PROVE  LET a == Args(p.engine, x.model, p, local) IN
           /\ Ranks(p.engine, a) = p.tp * p.pp /\ a.visible = {}
           /\ a.seqs * (p.tp \div a.tp) >= p.seqs
<1> DEFINE a == Args(p.engine, x.model, p, local)
<1>1. p.engine = e /\ p.variant = "" /\ p.dp = 1 /\ p.spans
  BY AcrossLaid, ZenonT(30)
<1>2. e.name = "vllm"
  BY DEF Across, SupportsRay
<1>3. a = VllmArgs(e, x.model, p, local)
  BY <1>1, <1>2 DEF Args
<1>4. /\ a.tp = p.tp /\ a.pp = p.pp /\ a.dp = 1 /\ a.seqs = p.seqs /\ a.visible = {}
  <2>1. ~(p.variant = "-dpa" /\ p.dp > 1)
    BY <1>1
  <2>2. a.tp = p.tp
    BY <1>3, <2>1 DEF VllmArgs
  <2>3. a.pp = p.pp
    BY <1>3 DEF VllmArgs
  <2>4. a.seqs = p.seqs
    BY <1>3, <2>1 DEF VllmArgs
  <2>5. a.visible = IF p.spans THEN {} ELSE local
    BY <1>3 DEF VllmArgs
  <2>6. a.dp = IF e.version >= 800 THEN p.dp ELSE 1
    BY <1>3 DEF VllmArgs
  <2> HIDE DEF a
  <2>7. a.visible = {}
    BY <1>1, <2>5, Zenon
  <2> QED
    BY <1>1, <2>2, <2>3, <2>4, <2>6, <2>7, ZenonT(30)
<1> HIDE DEF a
<1>5. PICK t, k: t = p.tp /\ k = p.pp
  OBVIOUS
<1>6. t \in Nat \ {0} /\ k \in Nat \ {0}
  BY <1>5, AcrossLaid
<1>7. Ranks(p.engine, a) = p.tp * p.pp
  <2>1. Ranks(p.engine, a) = t * k * 1
    BY <1>1, <1>2, <1>4, <1>5 DEF Ranks
  <2>2. t * k * 1 = t * k
    BY <1>6
  <2> QED
    BY <1>5, <2>1, <2>2, Zenon
<1>8. a.seqs * (p.tp \div a.tp) >= p.seqs
  <2>1. t \div t = 1
    BY <1>6
  <2>2. p.seqs * 1 >= p.seqs
    OBVIOUS
  <2>3. a.seqs * (p.tp \div a.tp) = p.seqs * 1
    BY <1>4, <1>5, <2>1, Zenon
  <2> QED
    BY <2>2, <2>3
<1> QED
  BY <1>4, <1>7, <1>8 DEF a

----------------------------------------------------------------------------
(* Options and the Pareto front                                            *)

\* Whoever states typical lengths only is understood.
LEMMA OnlyTypicalUnderstood ==
    ASSUME NEW o, CommandTyped(o), OnlyTypical(o),
           \A k \in {"in50", "out50"}: o.flags[k] # None => o.flags[k] >= 1,
           \A k \in {"expected", "lat", "ttft"}: AtLeast(Merged(o.file, o.flags), k, 1)
    PROVE  WorkloadValid(Merged(o.file, o.flags), Values(Merged(o.file, o.flags)))
<1> DEFINE f == o.flags
<1> DEFINE c == Merged(o.file, f)
<1> DEFINE v == Values(c)
<1>1. None \notin Int
  BY PlanningNoneAssumption
<1>2. /\ {"in50", "in95", "out50", "out95", "maxContext", "context", "name"} \subseteq DOMAIN o.file
      /\ f = [k \in DOMAIN o.file |-> f[k]]
      /\ f["in50"] \in Int \cup {None} /\ f["out50"] \in Int \cup {None}
  BY DEF CommandTyped, Numbers, Lengths
<1>3. /\ f["in95"] = None /\ f["out95"] = None /\ f["context"] = None /\ f["name"] = None
      /\ \A k \in {"in50", "in95", "out50", "out95", "maxContext", "name"}: o.file[k] = None
  BY DEF OnlyTypical, Lengths
<1> HIDE DEF f
<1> DEFINE w == Overrides(f)
<1>4. /\ w["in50"] = f["in50"] /\ w["out50"] = f["out50"]
      /\ w["in95"] = LongTail(f["in95"], f["in50"], 4)
      /\ w["out95"] = LongTail(f["out95"], f["out50"], 3)
      /\ w["maxContext"] = f["context"]
      /\ w["name"] \in {"custom", f["name"]}
  BY <1>2, <1>3 DEF Overrides
<1> HIDE DEF w
<1>5. \A k \in {"in50", "in95", "out50", "out95", "maxContext", "name"}:
        c[k] = IF w[k] # None THEN w[k] ELSE None
  BY <1>2, <1>3 DEF Merged, w
<1> HIDE DEF c
<1>6. /\ c["in50"] = f["in50"] /\ c["out50"] = f["out50"]
      /\ c["in95"] = IF f["in50"] = None THEN None ELSE 4 * f["in50"]
      /\ c["out95"] = IF f["out50"] = None THEN None ELSE 3 * f["out50"]
      /\ c["maxContext"] = None /\ c["name"] \in {None, "custom"}
  BY <1>1, <1>2, <1>3, <1>4, <1>5 DEF LongTail
<1> DEFINE V(k) == IF c[k] # None THEN c[k] ELSE Presets["chat"][k]
<1>7. /\ Presets["chat"]["in50"] = 512 /\ Presets["chat"]["in95"] = 2048
      /\ Presets["chat"]["out50"] = 256 /\ Presets["chat"]["out95"] = 768
      /\ Presets["chat"].context = 8192
  BY DEF Presets
<1>8. /\ V("in50") \in Int /\ V("in50") >= 1 /\ V("in95") \in Int /\ V("in50") <= V("in95")
      /\ V("out50") \in Int /\ V("out50") >= 1 /\ V("out95") \in Int /\ V("out50") <= V("out95")
  BY <1>1, <1>2, <1>6, <1>7 DEF f
<1>9. /\ \A k \in Lengths: v[k] = V(k)
      /\ v.context = Max({8192, V("in95") + V("out95")})
  BY <1>6, <1>7 DEF Values, Lengths
<1> HIDE DEF V, v
<1>10. v.context >= 8192 /\ v.context >= v.in95 + v.out95 /\ v.context \in Int
  <2> DEFINE s == V("in95") + V("out95")
  <2>1. s \in Int
    BY <1>8
  <2>2. v.in95 + v.out95 = s
    BY <1>9 DEF Lengths
  <2> HIDE DEF s
  <2>3. Max({8192, s}) = IF 8192 >= s THEN 8192 ELSE s
    BY <2>1, MaxOf
  <2>4. v.context = Max({8192, s})
    BY <1>9 DEF s
  <2> QED
    BY <2>1, <2>2, <2>3, <2>4
<1> QED
  BY <1>8, <1>9, <1>10 DEF WorkloadValid, Lengths, c, v, f

\* A command that is understood has the lengths fit into the context served.
LEMMA UnderstoodFits ==
    ASSUME NEW o, CommandTyped(o), o.file.context = None,
           ~Refused(o)
    PROVE  LET a == Understood(o) IN
           a.work.p95 <= (IF a.cons.context = None THEN a.work.context ELSE a.cons.context)
<1> DEFINE f == o.flags
<1> DEFINE c == Merged(o.file, f)
<1> DEFINE v == Values(c)
<1>1. /\ {"maxContext", "context"} \subseteq DOMAIN o.file
      /\ f = [k \in DOMAIN o.file |-> f[k]]
  BY DEF CommandTyped, Numbers, Lengths
<1>2. /\ WorkloadValid(c, v)
      /\ Understood(o) = [work |-> Workload(c, v), cons |-> ConstraintsOf(c)]
  BY DEF Understood, Refused
<1> HIDE DEF f
<1>3. Overrides(f)["maxContext"] = f["context"] /\ Overrides(f)["context"] = f["context"]
  BY <1>1 DEF Overrides
<1>4. /\ c["context"] = f["context"]
      /\ f["context"] # None => c["maxContext"] = f["context"]
  BY <1>1, <1>3 DEF Merged
<1> HIDE DEF c
<1>5. c["context"] # None => v.context = c["context"]
  BY <1>4 DEF Values
<1> HIDE DEF v
<1>6. v.in95 + v.out95 <= v.context
  BY <1>2 DEF WorkloadValid
<1>7. /\ Understood(o).work.p95 = v.in95 + v.out95
      /\ Understood(o).work.context = v.context
      /\ Understood(o).cons.context = c["context"]
  BY <1>2 DEF Workload, ConstraintsOf
<1> QED
  BY <1>5, <1>6, <1>7

\* The points that are better than p.
DominatedBy(rs, p) == {r \in rs: ~r.none /\ Dominates(r, p)}

\* Of the results that dominate p, one that fewest dominate is on the front.
LEMMA FrontReached ==
    ASSUME NEW x, ContestTyped(x), NEW p \in x.rs, ~p.none, p \notin ParetoFront(x.rs)
    PROVE  \E f \in ParetoFront(x.rs): Dominates(f, p)
<1> DEFINE rs == x.rs
<1> DEFINE D(r) == DominatedBy(rs, r)
<1>1. IsFiniteSet(rs) /\ \A r \in rs: r.tps \in Nat /\ r.lat \in Nat
  BY DEF ContestTyped, ResultTyped
<1>2. \A r \in rs: IsFiniteSet(D(r)) /\ Cardinality(D(r)) \in Nat
  BY <1>1, FS_Subset, FS_CardinalityType DEF DominatedBy
<1>3. D(p) # {}
  BY DEF ParetoFront, DominatedBy
<1> DEFINE S == {Cardinality(D(r)): r \in D(p)}
<1>4. S \in SUBSET Nat /\ S # {}
  BY <1>2, <1>3 DEF DominatedBy
<1>5. PICK f \in D(p): \A r \in D(p): Cardinality(D(f)) <= Cardinality(D(r))
  <2> HIDE DEF S
  <2>1. Min(S) \in S /\ \A n \in S: Min(S) <= n
    BY <1>4, LeastOf
  <2> QED
    BY <2>1 DEF S
<1>6. f \in rs /\ ~f.none /\ Dominates(f, p)
  BY <1>5 DEF DominatedBy
<1>7. D(f) = {}
  <2> SUFFICES ASSUME NEW r \in D(f)
               PROVE  FALSE
    OBVIOUS
  <2>1. r \in rs /\ ~r.none /\ Dominates(r, f)
    BY DEF DominatedBy
  <2>2. \A s \in rs: Dominates(s, r) => Dominates(s, f)
    BY <1>1, <1>6, <2>1 DEF Dominates
  <2>3. ~Dominates(r, r)
    BY <1>1, <2>1 DEF Dominates
  <2>4. r \in D(p)
    <3>1. Dominates(r, p)
      BY <1>1, <1>6, <2>1 DEF Dominates
    <3> QED
      BY <2>1, <3>1 DEF DominatedBy
  <2>5. D(r) \subseteq D(f) /\ r \notin D(r)
    BY <2>2, <2>3 DEF DominatedBy
  <2>6. Cardinality(D(r)) <= Cardinality(D(f)) /\ Cardinality(D(r)) # Cardinality(D(f))
    BY <1>2, <1>6, <2>5, FS_Subset
  <2> QED
    BY <1>2, <1>5, <1>6, <2>1, <2>4, <2>6
<1>8. f \in ParetoFront(rs)
  BY <1>6, <1>7 DEF ParetoFront, DominatedBy
<1> QED
  BY <1>6, <1>8

----------------------------------------------------------------------------
(* Results, sweeps and searches                                            *)

\* Of valid results, none has an error factor of nothing.
LEMMA FactorIs ==
    ASSUME NEW w, NEW o, ResultTyped(w), ResultTyped(o), Valid(w), o.err <= w.err
    PROVE  /\ ErrorFactor(w) \in Nat \ {0} /\ ErrorFactor(o) \in Nat
           /\ ErrorFactor(w) <= ErrorFactor(o)
<1>1. w.err \in Nat /\ w.err <= 1 /\ o.err \in Nat
  BY DEF ResultTyped, Valid, MaxErrorRate
<1>2. ASSUME NEW r, r.err \in Nat
      PROVE  ErrorFactor(r) = IF 0 >= 100 - 5 * r.err THEN 0 ELSE 100 - 5 * r.err
  <2>1. 100 - 5 * r.err \in Int
    BY <1>2
  <2> DEFINE n == 100 - 5 * r.err
  <2>2. ErrorFactor(r) = Max({0, n})
    BY DEF ErrorFactor, ErrorPenalty
  <2> HIDE DEF n
  <2>3. Max({0, n}) = IF 0 >= n THEN 0 ELSE n
    BY <2>1, MaxOf DEF n
  <2> QED
    BY <2>2, <2>3 DEF n
<1> QED
  BY <1>1, <1>2

\* What the score of a valid result is a ratio of: the best latency and, for one with a
\* first token, the best of those.
LEMMA RatiosAre ==
    ASSUME NEW x, ContestTyped(x)
    PROVE  LET valid == {r \in x.rs: Valid(r)}
               L == Least({r.lat: r \in valid} \ {0})
               T == Least({r.ttft: r \in valid} \ {None})
           IN \A r \in valid:
                /\ L \in Nat \ {0} /\ Ratio(L, r.lat) = <<L, r.lat>> /\ r.lat \in Nat \ {0}
                /\ r.ttft # None =>
                     /\ T \in Nat \ {0} /\ Ratio(T, r.ttft) = <<T, r.ttft>>
                     /\ r.ttft \in Nat \ {0}
                /\ r.ttft = None => Ratio(T, r.ttft) = None
<1> DEFINE valid == {r \in x.rs: Valid(r)}
<1> DEFINE A == {r.lat: r \in valid} \ {0}
<1> DEFINE B == {r.ttft: r \in valid} \ {None}
<1>1. ASSUME NEW r \in valid
      PROVE  /\ r.lat \in Nat \ {0}
             /\ r.ttft \in (Nat \ {0}) \cup {None}
  <2>1. ResultTyped(r) /\ ~r.none
    BY DEF ContestTyped, Valid
  <2> QED
    BY <2>1 DEF ResultTyped
<1>2. A \in SUBSET (Nat \ {0}) /\ B \in SUBSET (Nat \ {0})
  BY <1>1
<1> SUFFICES ASSUME NEW r \in valid
             PROVE  /\ Least(A) \in Nat \ {0} /\ Ratio(Least(A), r.lat) = <<Least(A), r.lat>>
                    /\ r.lat \in Nat \ {0}
                    /\ r.ttft # None =>
                         /\ Least(B) \in Nat \ {0} /\ Ratio(Least(B), r.ttft) = <<Least(B), r.ttft>>
                         /\ r.ttft \in Nat \ {0}
                    /\ r.ttft = None => Ratio(Least(B), r.ttft) = None
  OBVIOUS
<1>3. ASSUME NEW S \in SUBSET (Nat \ {0}), NEW v \in S
      PROVE  Least(S) \in Nat \ {0} /\ Ratio(Least(S), v) = <<Least(S), v>>
  <2>1. S \in SUBSET Nat /\ S # {}
    BY <1>3
  <2>2. Min(S) \in S
    BY <2>1, LeastOf
  <2>3. Least(S) = Min(S)
    BY <2>1 DEF Least
  <2>4. Least(S) \in Nat \ {0} /\ v \in Nat \ {0}
    BY <2>2, <2>3
  <2>5. Least(S) # None /\ v # None /\ ~(v <= 0)
    BY <2>4, PlanningNoneAssumption
  <2> QED
    BY <2>4, <2>5 DEF Ratio
<1>4. r.lat \in A /\ (r.ttft # None => r.ttft \in B)
  BY <1>1
<1>5. r.ttft = None => Ratio(Least(B), r.ttft) = None
  BY DEF Ratio
<1> HIDE DEF A, B, valid
<1> QED
  BY <1>2, <1>3, <1>4, <1>5

\* A fraction is larger when its numerator is no smaller and its denominator smaller.
LEMMA LargerIs ==
    ASSUME NEW a \in Nat \ {0}, NEW b \in Nat, a <= b, NEW c \in Nat \ {0}, NEW d \in Nat, c < d
    PROVE  ~(b * d <= a * c)
<1>1. a * c < a * d
  <2>1. a * d = a * c + a * (d - c)
    OBVIOUS
  <2>2. a * (d - c) > 0
    OBVIOUS
  <2>3. a * c \in Nat /\ a * d \in Nat /\ a * (d - c) \in Nat
    OBVIOUS
  <2> QED
    BY <2>1, <2>2, <2>3
<1>2. a * d <= b * d
  BY ProductGrows
<1>3. a * c \in Nat /\ a * d \in Nat /\ b * d \in Nat
  OBVIOUS
<1> QED
  BY <1>1, <1>2, <1>3

\* o would beat w, which was selected.
Beaten(x, w, o) ==
    /\ w \in Selectable(x.rs, x.objective, x.slo) /\ o \in x.rs
    /\ EligibleResult(o, x.slo) \/ (Valid(o) /\ ~EligibleResult(w, x.slo))
    /\ o.tps > w.tps /\ o.lat < w.lat /\ o.err <= w.err
    /\ \/ o.ttft = None /\ w.ttft = None
       \/ o.ttft # None /\ w.ttft # None /\ o.ttft <= w.ttft

\* Then w was found to score at least as much.
LEMMA BothScored ==
    ASSUME NEW x, ContestTyped(x), NEW w, NEW o, Beaten(x, w, o)
    PROVE  /\ AtMost(Score(x.rs, o, x.objective), Score(x.rs, w, x.objective))
           /\ Valid(o) /\ Valid(w) /\ w \in x.rs /\ ResultTyped(o) /\ ResultTyped(w)
           /\ o.tps \in Nat /\ w.tps \in Nat
           /\ ErrorFactor(w) \in Nat \ {0} /\ ErrorFactor(o) \in Nat
           /\ ErrorFactor(w) <= ErrorFactor(o)
<1> DEFINE eligible == {r \in x.rs: EligibleResult(r, x.slo)}
<1> DEFINE valid == {r \in x.rs: Valid(r)}
<1> DEFINE pool == IF eligible # {} THEN eligible ELSE valid
<1>1. w \in Highest(x.rs, pool, x.objective)
  BY DEF Beaten, Selectable
<1>2. w \in pool /\ \A r \in pool: AtMost(Score(x.rs, r, x.objective), Score(x.rs, w, x.objective))
  <2> HIDE DEF pool
  <2> QED
    BY <1>1 DEF Highest
<1>3. o \in pool /\ Valid(w) /\ Valid(o) /\ w \in x.rs /\ o \in x.rs /\ o.err <= w.err
  BY <1>2 DEF Beaten, EligibleResult
<1> HIDE DEF pool
<1>4. ResultTyped(o) /\ ResultTyped(w)
  BY <1>3 DEF ContestTyped
<1>5. o.tps \in Nat /\ w.tps \in Nat
  BY <1>4 DEF ResultTyped
<1> QED
  BY <1>2, <1>3, <1>4, <1>5, FactorIs

\* By throughput, no result of the winner's kind is better in every respect.
LEMMA ThroughputWins ==
    ASSUME NEW x, ContestTyped(x), x.objective = "throughput", NEW w, NEW o, Beaten(x, w, o)
    PROVE  FALSE
<1> DEFINE E == ErrorFactor(w)
<1> DEFINE G == ErrorFactor(o)
<1>1. \A r: Score(x.rs, r, x.objective) = <<r.tps * ErrorFactor(r), 1>>
  BY DEF Score
<1>2. o.tps \in Nat /\ w.tps \in Nat /\ E \in Nat \ {0} /\ G \in Nat /\ E <= G /\ w.tps < o.tps
  BY BothScored DEF Beaten
<1>3. AtMost(<<o.tps * G, 1>>, <<w.tps * E, 1>>)
  BY <1>1, BothScored
<1> HIDE DEF E, G
<1>4. (o.tps * G) * 1 <= (w.tps * E) * 1
  BY <1>3 DEF AtMost
<1>5. G * o.tps <= E * w.tps
  BY <1>2, <1>4
<1>6. CASE w.tps = 0
  <2>1. E * w.tps = 0 /\ G * o.tps > 0
    BY <1>2, <1>6
  <2> QED
    BY <1>2, <1>5, <2>1
<1>7. CASE w.tps # 0
  BY <1>2, <1>5, <1>7, LargerIs
<1> QED
  BY <1>6, <1>7

\* By both, neither.
LEMMA BalancedWins ==
    ASSUME NEW x, ContestTyped(x), x.objective = "balanced", NEW w, NEW o, Beaten(x, w, o)
    PROVE  FALSE
<1> DEFINE E == ErrorFactor(w)
<1> DEFINE G == ErrorFactor(o)
<1> DEFINE valid == {r \in x.rs: Valid(r)}
<1> DEFINE L == Least({r.lat: r \in valid} \ {0})
<1>1. o \in valid /\ w \in valid
  BY BothScored DEF Beaten
<1>2. ASSUME NEW r \in valid
      PROVE  Score(x.rs, r, x.objective) = <<r.tps * L * ErrorFactor(r) * ErrorFactor(r), r.lat>>
             /\ L \in Nat \ {0} /\ r.lat \in Nat \ {0}
  <2>1. L \in Nat \ {0} /\ Ratio(L, r.lat) = <<L, r.lat>> /\ r.lat \in Nat \ {0}
    BY RatiosAre
  <2>2. Ratio(L, r.lat) # None
    BY <2>1, PlanningNoneAssumption
  <2>3. x.objective = "balanced" /\ "balanced" # "throughput" /\ "balanced" # "latency"
    OBVIOUS
  <2>4. Score(x.rs, r, x.objective)
          = IF Ratio(L, r.lat) = None THEN <<0, 1>>
            ELSE <<r.tps * Ratio(L, r.lat)[1] * ErrorFactor(r) * ErrorFactor(r), Ratio(L, r.lat)[2]>>
    BY <2>3 DEF Score
  <2> HIDE DEF L, valid
  <2>5. Ratio(L, r.lat)[1] = L /\ Ratio(L, r.lat)[2] = r.lat
    BY <2>1
  <2> QED
    BY <2>1, <2>2, <2>4, <2>5
<1>3. /\ o.tps \in Nat /\ w.tps \in Nat /\ E \in Nat \ {0} /\ G \in Nat /\ E <= G
      /\ w.tps < o.tps /\ o.lat < w.lat
  BY BothScored DEF Beaten
<1>4. AtMost(<<o.tps * L * G * G, o.lat>>, <<w.tps * L * E * E, w.lat>>)
  BY <1>1, <1>2, BothScored
<1>5. L \in Nat \ {0} /\ o.lat \in Nat \ {0} /\ w.lat \in Nat \ {0}
  BY <1>1, <1>2
<1> HIDE DEF E, G, L, valid
<1>6. (o.tps * L * G * G) * w.lat <= (w.tps * L * E * E) * o.lat
  BY <1>4 DEF AtMost
<1>7. w.tps * L * E * E <= o.tps * L * G * G /\ o.tps * L * G * G > 0
      /\ w.tps * L * E * E \in Nat /\ o.tps * L * G * G \in Nat
  <2>1. w.tps * L <= o.tps * L /\ w.tps * L \in Nat /\ o.tps * L \in Nat \ {0}
    BY <1>3, <1>5, ProductGrows
  <2>2. E * E <= G * G /\ E * E \in Nat /\ G * G \in Nat \ {0}
    BY <1>3
  <2>3. (w.tps * L) * (E * E) <= (o.tps * L) * (G * G)
    <3>1. (w.tps * L) * (E * E) <= (o.tps * L) * (E * E)
      BY <2>1, <2>2, ProductGrows
    <3>2. (E * E) * (o.tps * L) <= (G * G) * (o.tps * L)
      BY <2>1, <2>2, ProductGrows
    <3> QED
      BY <2>1, <2>2, <3>1, <3>2
  <2>4. /\ w.tps * L * E * E = (w.tps * L) * (E * E)
        /\ o.tps * L * G * G = (o.tps * L) * (G * G)
    BY <1>3, <1>5
  <2>5. (o.tps * L) * (G * G) \in Nat \ {0} /\ (w.tps * L) * (E * E) \in Nat
    BY <2>1, <2>2
  <2> QED
    BY <2>3, <2>4, <2>5
<1> DEFINE a == w.tps * L * E * E
<1> DEFINE b == o.tps * L * G * G
<1>8. a \in Nat /\ b \in Nat \ {0} /\ a <= b /\ b * w.lat <= a * o.lat
  BY <1>6, <1>7
<1> HIDE DEF a, b
<1>9. CASE a = 0
  <2>1. b * w.lat > 0 /\ a * o.lat = 0
    BY <1>5, <1>8, <1>9
  <2> QED
    BY <1>5, <1>8, <2>1
<1>10. CASE a # 0
  BY <1>3, <1>5, <1>8, <1>10, LargerIs
<1> QED
  BY <1>9, <1>10

\* By latency, the best latency counts twice as much as the best first token.
LEMMA LatencyScore ==
    ASSUME NEW x, ContestTyped(x), x.objective = "latency", NEW r \in x.rs, Valid(r)
    PROVE  LET valid == {y \in x.rs: Valid(y)}
               L == Least({y.lat: y \in valid} \ {0})
               T == Least({y.ttft: y \in valid} \ {None})
           IN Score(x.rs, r, x.objective)
                = IF r.ttft = None THEN <<ErrorFactor(r) * L, r.lat>>
                  ELSE <<ErrorFactor(r) * (2 * L * r.ttft + T * r.lat), 3 * r.lat * r.ttft>>
<1> DEFINE valid == {y \in x.rs: Valid(y)}
<1> DEFINE L == Least({y.lat: y \in valid} \ {0})
<1> DEFINE T == Least({y.ttft: y \in valid} \ {None})
<1> DEFINE l == Ratio(L, r.lat)
<1> DEFINE t == Ratio(T, r.ttft)
<1> DEFINE f == ErrorFactor(r)
<1>1. /\ L \in Nat \ {0} /\ l = <<L, r.lat>>
      /\ r.ttft # None => T \in Nat \ {0} /\ t = <<T, r.ttft>>
      /\ r.ttft = None => t = None
  BY RatiosAre
<1>2. x.objective = "latency" /\ "latency" # "throughput" /\ "latency" # "balanced"
  OBVIOUS
<1>3. Score(x.rs, r, x.objective)
        = CASE l # None /\ t # None -> <<f * (2 * l[1] * t[2] + t[1] * l[2]), 3 * l[2] * t[2]>>
            [] l # None /\ t = None -> <<f * l[1], l[2]>>
            [] l = None /\ t # None -> <<f * t[1], t[2]>>
            [] OTHER -> <<0, 1>>
  BY <1>2 DEF Score
<1> HIDE DEF L, T, f, valid, l, t
<1>4. l # None /\ l[1] = L /\ l[2] = r.lat
  <2>1. ResultTyped(r) /\ r.lat \in Nat
    BY DEF ContestTyped, ResultTyped
  <2>2. <<L, r.lat>> \in Int \X Int
    BY <1>1, <2>1
  <2> QED
    BY <1>1, <2>2, PlanningNoneAssumption
<1>5. CASE r.ttft = None
  <2>1. t = None
    BY <1>1, <1>5
  <2>2. Score(x.rs, r, x.objective) = <<f * l[1], l[2]>>
    BY <1>3, <1>4, <2>1
  <2> QED
    BY <1>4, <1>5, <2>2 DEF f, L, valid
<1>6. CASE r.ttft # None
  <2>1. ResultTyped(r) /\ r.ttft \in Nat
    BY <1>6 DEF ContestTyped, ResultTyped
  <2>2. <<T, r.ttft>> \in Int \X Int
    BY <1>1, <1>6, <2>1
  <2>3. t # None /\ t[1] = T /\ t[2] = r.ttft
    BY <1>1, <1>6, <2>2, PlanningNoneAssumption
  <2>4. Score(x.rs, r, x.objective) = <<f * (2 * l[1] * t[2] + t[1] * l[2]), 3 * l[2] * t[2]>>
    BY <1>3, <1>4, <2>3
  <2>5. Score(x.rs, r, x.objective) = <<f * (2 * L * r.ttft + T * r.lat), 3 * r.lat * r.ttft>>
    BY <1>4, <2>3, <2>4
  <2> QED
    BY <1>6, <2>5 DEF f, L, T, valid
<1> QED
  BY <1>5, <1>6

\* The sum of two fractions over c and u, of which the first is smaller for w.
LEMMA SumLarger ==
    ASSUME NEW L \in Nat \ {0}, NEW T \in Nat \ {0},
           NEW a \in Nat \ {0}, NEW b \in Nat \ {0}, a < b,
           NEW u \in Nat \ {0}, NEW v \in Nat \ {0}, u <= v
    PROVE  (2 * L * v + T * b) * (3 * a * u) < (2 * L * u + T * a) * (3 * b * v)
<1> DEFINE P == L * u * v
<1> DEFINE R == T * a * b
<1>1. P \in Nat \ {0} /\ R \in Nat \ {0}
  <2>1. L * u \in Nat \ {0} /\ T * a \in Nat \ {0}
    OBVIOUS
  <2>2. \A m, n \in Nat \ {0}: m * n \in Nat \ {0}
    OBVIOUS
  <2> QED
    BY <2>1, <2>2
<1>2. (2 * L * v + T * b) * (3 * a * u) = 6 * (P * a) + 3 * (R * u)
  OBVIOUS
<1>3. (2 * L * u + T * a) * (3 * b * v) = 6 * (P * b) + 3 * (R * v)
  OBVIOUS
<1> HIDE DEF P, R
<1>4. P * a < P * b /\ P * a \in Nat /\ P * b \in Nat
  <2>1. P * b = P * a + P * (b - a)
    BY <1>1
  <2>2. P * (b - a) > 0
    BY <1>1
  <2>3. P * a \in Nat /\ P * b \in Nat /\ P * (b - a) \in Nat
    BY <1>1
  <2> QED
    BY <2>1, <2>2, <2>3
<1>5. R * u <= R * v /\ R * u \in Nat /\ R * v \in Nat
  <2>1. u * R <= v * R
    BY <1>1, ProductGrows
  <2> QED
    BY <1>1, <2>1
<1> QED
  BY <1>2, <1>3, <1>4, <1>5

\* By latency, no result of the winner's kind is better in every respect.
LEMMA LatencyWins ==
    ASSUME NEW x, ContestTyped(x), x.objective = "latency", NEW w, NEW o, Beaten(x, w, o)
    PROVE  FALSE
<1> DEFINE E == ErrorFactor(w)
<1> DEFINE G == ErrorFactor(o)
<1> DEFINE valid == {r \in x.rs: Valid(r)}
<1> DEFINE L == Least({r.lat: r \in valid} \ {0})
<1> DEFINE T == Least({r.ttft: r \in valid} \ {None})
<1>1. o \in x.rs /\ w \in x.rs /\ Valid(o) /\ Valid(w)
  BY BothScored DEF Beaten
<1>2. /\ E \in Nat \ {0} /\ G \in Nat /\ E <= G /\ o.lat < w.lat
      /\ \/ o.ttft = None /\ w.ttft = None
         \/ o.ttft # None /\ w.ttft # None /\ o.ttft <= w.ttft
  BY BothScored DEF Beaten
<1>3. ASSUME NEW r \in x.rs, Valid(r)
      PROVE  /\ Score(x.rs, r, x.objective)
                  = IF r.ttft = None THEN <<ErrorFactor(r) * L, r.lat>>
                    ELSE <<ErrorFactor(r) * (2 * L * r.ttft + T * r.lat), 3 * r.lat * r.ttft>>
             /\ L \in Nat \ {0} /\ r.lat \in Nat \ {0}
             /\ r.ttft # None => T \in Nat \ {0} /\ r.ttft \in Nat \ {0}
  <2>1. r \in valid
    BY <1>3
  <2> QED
    BY <1>3, <2>1, LatencyScore, RatiosAre
<1>4. AtMost(Score(x.rs, o, x.objective), Score(x.rs, w, x.objective))
  BY BothScored
<1>5. L \in Nat \ {0} /\ o.lat \in Nat \ {0} /\ w.lat \in Nat \ {0}
  BY <1>1, <1>3
<1>6. CASE o.ttft = None /\ w.ttft = None
  <2>1. AtMost(<<G * L, o.lat>>, <<E * L, w.lat>>)
    BY <1>1, <1>3, <1>4, <1>6
  <2> HIDE DEF E, G, L
  <2>2. (G * L) * w.lat <= (E * L) * o.lat
    BY <2>1 DEF AtMost
  <2>3. E * L <= G * L /\ E * L \in Nat \ {0} /\ G * L \in Nat
    BY <1>2, <1>5, ProductGrows
  <2> QED
    BY <1>2, <1>5, <2>2, <2>3, LargerIs
<1>7. CASE o.ttft # None /\ w.ttft # None /\ o.ttft <= w.ttft
  <2> DEFINE A == 2 * L * o.ttft + T * o.lat
  <2> DEFINE B == 2 * L * w.ttft + T * w.lat
  <2> DEFINE M == 3 * o.lat * o.ttft
  <2> DEFINE K == 3 * w.lat * w.ttft
  <2>1. AtMost(<<G * A, M>>, <<E * B, K>>)
    BY <1>1, <1>3, <1>4, <1>7
  <2>2. T \in Nat \ {0} /\ o.ttft \in Nat \ {0} /\ w.ttft \in Nat \ {0}
    BY <1>1, <1>3, <1>7
  <2> HIDE DEF E, G, L, T
  <2>3. (G * A) * K <= (E * B) * M
    <3> HIDE DEF A, B, M, K
    <3> QED
      BY <2>1 DEF AtMost
  <2>4. B * M < A * K
    BY <1>2, <1>5, <1>7, <2>2, SumLarger
  <2>5. A * K \in Nat /\ B * M \in Nat /\ A \in Nat /\ B \in Nat /\ M \in Nat /\ K \in Nat
    <3>1. \A m, n \in Nat: m * n \in Nat /\ m + n \in Nat
      OBVIOUS
    <3>2. A \in Nat /\ B \in Nat /\ M \in Nat /\ K \in Nat
      BY <1>5, <2>2, <3>1
    <3> HIDE DEF A, B, M, K
    <3> QED
      BY <3>1, <3>2
  <2> HIDE DEF A, B, M, K
  <2>6. (G * A) * K = (A * K) * G /\ (E * B) * M = E * (B * M)
    BY <1>2, <2>5
  <2> DEFINE X == A * K
  <2> DEFINE Y == B * M
  <2>7. X \in Nat /\ Y \in Nat /\ Y < X /\ X * G <= E * Y
    BY <2>3, <2>4, <2>5, <2>6
  <2> HIDE DEF X, Y
  <2>8. X * E <= X * G
    <3>1. E * X <= G * X
      BY <1>2, <2>7, ProductGrows
    <3> QED
      BY <1>2, <2>7, <3>1
  <2>9. E * Y < X * E
    <3>1. X * E = E * Y + E * (X - Y) /\ E * (X - Y) \in Nat \ {0} /\ E * Y \in Nat /\ X * E \in Nat
      BY <1>2, <2>7
    <3> QED
      BY <3>1
  <2>10. X * E \in Nat /\ X * G \in Nat /\ E * Y \in Nat
    BY <1>2, <2>7
  <2> QED
    BY <2>7, <2>8, <2>9, <2>10
<1> QED
  BY <1>2, <1>6, <1>7

\* p has the results at the places I, in the order of their concurrencies.
Sorts(h, I, p) ==
    /\ p \in Seq({h[i]: i \in I}) /\ Len(p) \in Nat /\ DOMAIN p = 1..Len(p)
    /\ \A k \in 1..Len(p): \E i \in I: p[k] = h[i]
    /\ \A i \in I: \E k \in 1..Len(p): p[k] = h[i]
    /\ \A j, k \in 1..Len(p): j < k => p[j].c <= p[k].c

\* Sorting gives that.
LEMMA SortedIs ==
    ASSUME NEW n \in Nat, NEW h, \A i \in 1..n: h[i].c \in Nat, NEW I \in SUBSET (1..n)
    PROVE  Sorts(h, I, ByConcurrency(h, I))
<1> DEFINE R == {p \in I \X I: \/ h[p[1]].c < h[p[2]].c
                               \/ h[p[1]].c = h[p[2]].c /\ p[1] < p[2]}
<1> DEFINE at == InOrder(I, R)
<1> DEFINE m == Cardinality(I)
<1>1. IsFiniteSet(I) /\ m \in Nat
  <2>1. IsFiniteSet(1..n)
    BY FS_Interval
  <2> QED
    BY <2>1, FS_Subset, FS_CardinalityType
<1>2. \A i, j \in I: <<i, j>> \in R <=> \/ h[i].c < h[j].c
                                        \/ h[i].c = h[j].c /\ i < j
  OBVIOUS
<1>3. \A i \in I: i \in Int /\ h[i].c \in Nat
  OBVIOUS
<1> HIDE DEF R
<1>4. TotalOrder(R, I)
  BY <1>2, <1>3 DEF TotalOrder
<1>5. /\ at \in Seq(I) /\ Len(at) = m
      /\ \A i, j \in 1..Len(at): i < j => <<at[i], at[j]>> \in R
      /\ \A x \in I: \E i \in 1..Len(at): at[i] = x
  BY <1>1, <1>4, InOrderIs
<1> HIDE DEF at
<1> DEFINE p == [k \in 1..m |-> h[at[k]]]
<1>6. ByConcurrency(h, I) = p
  BY DEF ByConcurrency, at, R
<1>7. \A k \in 1..m: at[k] \in I
  BY <1>5
<1> HIDE DEF m
<1>8. p \in Seq({h[i]: i \in I}) /\ Len(p) = m /\ DOMAIN p = 1..m /\ \A k \in 1..m: p[k] = h[at[k]]
  BY <1>1, <1>7
<1>9. \A j, k \in 1..m: j < k => p[j].c <= p[k].c
  <2> SUFFICES ASSUME NEW j \in 1..m, NEW k \in 1..m, j < k
               PROVE  p[j].c <= p[k].c
    OBVIOUS
  <2>1. <<at[j], at[k]>> \in R
    BY <1>5
  <2>2. PICK u, v: u = at[j] /\ v = at[k]
    OBVIOUS
  <2>3. u \in I /\ v \in I /\ <<u, v>> \in R
    BY <1>7, <2>1, <2>2
  <2>4. h[u].c <= h[v].c
    <3>1. h[u].c < h[v].c \/ h[u].c = h[v].c
      BY <1>2, <2>3, Zenon
    <3>2. h[u].c \in Nat /\ h[v].c \in Nat
      BY <1>3, <2>3, Zenon
    <3> QED
      BY <3>1, <3>2
  <2> QED
    BY <1>8, <2>2, <2>4
<1>10. \A k \in 1..m: \E i \in I: p[k] = h[i]
  BY <1>7
<1>11. \A i \in I: \E k \in 1..m: p[k] = h[i]
  BY <1>5
<1> HIDE DEF p
<1> QED
  BY <1>1, <1>6, <1>8, <1>9, <1>10, <1>11 DEF Sorts

\* r gains no more over a than the plateau rule disregards.
Near(a, r) == r.tps <= a.tps \/ SmallGain(a, r)

\* A faster result has no worse a gain ahead of it.
LEMMA NearGrows ==
    ASSUME NEW a, NEW b, NEW r, a.tps \in Nat, b.tps \in Nat, r.tps \in Nat, a.tps <= b.tps, Near(a, r)
    PROVE  Near(b, r)
BY DEF Near, SmallGain, MinGain

\* The walk upward ends at a result, and no other is better by more than that.
LEMMA WalkIs ==
    ASSUME NEW n \in Nat \ {0}, NEW p, Len(p) = n, \A i \in 1..n: p[i].tps \in Nat
    PROVE  \E k \in 1..n: Walk(p) = p[k] /\ \A i \in 1..n: Near(p[k], p[i])
<1> DEFINE P == {p[i]: i \in 1..n}
<1> DEFINE Follows(f) == /\ f[0] = p[1]
                         /\ \A j \in 1..n: f[j] = Step(f[j - 1], p[j])
<1> DEFINE Equal(f) == f = [j \in 0..n |-> IF j = 0 THEN p[1] ELSE Step(f[j - 1], p[j])]
<1>1. ASSUME NEW f, Equal(f)
      PROVE  Follows(f)
  <2>1. \A j \in 0..n: f[j] = IF j = 0 THEN p[1] ELSE Step(f[j - 1], p[j])
    BY <1>1
  <2>2. 0 \in 0..n /\ \A j \in 1..n: j \in 0..n /\ j # 0
    OBVIOUS
  <2> QED
    BY <2>1, <2>2
<1>2. ASSUME NEW f, Follows(f)
      PROVE  f[n] \in P /\ \A i \in 1..n: Near(f[n], p[i])
  <2> DEFINE A == {j \in 0..n: f[j] \in P /\ \A i \in 1..j: Near(f[j], p[i])}
  <2>1. 0 \in A
    BY <1>2
  <2>2. \A j \in 0..n: j + 1 \in 0..n /\ j \in A => j + 1 \in A
    <3> SUFFICES ASSUME NEW j \in 0..n, j + 1 \in 0..n, j \in A
                 PROVE  j + 1 \in A
      OBVIOUS
    <3>1. j + 1 \in 1..n /\ (j + 1) - 1 = j
      OBVIOUS
    <3>2. PICK c, d: c = f[j] /\ d = p[j + 1]
      OBVIOUS
    <3>3. f[j + 1] = Step(c, d)
      BY <1>2, <3>1, <3>2
    <3>4. c \in P /\ d \in P /\ c.tps \in Nat /\ d.tps \in Nat /\ \A i \in 1..j: Near(c, p[i])
      BY <3>1, <3>2
    <3>5. \A i \in 1..j: p[i].tps \in Nat
      OBVIOUS
    <3> HIDE DEF P
    <3>6. CASE Step(c, d) = c
      <4>1. Near(c, d)
        BY <3>4, <3>6 DEF Step, Near, SmallGain
      <4>2. \A i \in 1..j + 1: Near(c, p[i])
        BY <3>2, <3>4, <4>1
      <4> QED
        BY <3>3, <3>4, <3>6, <4>2
    <3>7. CASE Step(c, d) # c
      <4>1. Step(c, d) = d /\ c.tps <= d.tps
        BY <3>4, <3>7 DEF Step
      <4>2. Near(d, d)
        BY <3>4 DEF Near
      <4>3. \A i \in 1..j: Near(d, p[i])
        BY <3>4, <3>5, <4>1, NearGrows
      <4>4. \A i \in 1..j + 1: Near(d, p[i])
        BY <3>2, <4>2, <4>3
      <4> QED
        BY <3>3, <3>4, <4>1, <4>4
    <3> QED
      BY <3>6, <3>7
  <2>3. 0..n \subseteq A
    <3> HIDE DEF A
    <3> QED
      BY <2>1, <2>2, UpToN
  <2>4. n \in A
    BY <2>3
  <2> QED
    BY <2>4
<1>3. \E f: Equal(f)
  <2> DEFINE G == [x \in (1..n) \X P |-> Step(x[2], p[x[1]])]
  <2>1. PICK f: IsChain(n, p[1], G, f)
    <3> HIDE DEF G
    <3> QED
      BY Chain
  <2>2. \A j \in 0..n: f[j] = IF j = 0 THEN p[1] ELSE G[<<j, f[j - 1]>>]
    BY <2>1 DEF IsChain
  <2>3. \A j \in 1..n: f[j - 1] \in P => f[j] = Step(f[j - 1], p[j]) /\ f[j] \in P
    <3> SUFFICES ASSUME NEW j \in 1..n, f[j - 1] \in P
                 PROVE  f[j] = Step(f[j - 1], p[j]) /\ f[j] \in P
      OBVIOUS
    <3>1. j \in 0..n /\ j # 0
      OBVIOUS
    <3>2. f[j] = Step(f[j - 1], p[j])
      BY <2>2, <3>1
    <3>3. Step(f[j - 1], p[j]) \in {f[j - 1], p[j]}
      BY DEF Step
    <3> QED
      BY <3>2, <3>3
  <2> DEFINE A == {j \in 0..n: f[j] \in P}
  <2>4. 0 \in A
    <3>1. 0 \in 0..n /\ 1 \in 1..n
      OBVIOUS
    <3>2. f[0] = p[1]
      BY <2>2, <3>1
    <3> QED
      BY <3>1, <3>2
  <2>5. \A j \in 0..n: j + 1 \in 0..n /\ j \in A => j + 1 \in A
    <3> SUFFICES ASSUME NEW j \in 0..n, j + 1 \in 0..n, j \in A
                 PROVE  j + 1 \in A
      OBVIOUS
    <3>1. j + 1 \in 1..n /\ (j + 1) - 1 = j /\ f[j] \in P
      OBVIOUS
    <3> HIDE DEF P
    <3>2. f[j + 1] \in P
      BY <2>3, <3>1
    <3> QED
      BY <3>2
  <2>6. 0..n \subseteq A
    <3> HIDE DEF A
    <3> QED
      BY <2>4, <2>5, UpToN
  <2>7. \A j \in 0..n: f[j] = IF j = 0 THEN p[1] ELSE Step(f[j - 1], p[j])
    <3> SUFFICES ASSUME NEW j \in 0..n, j # 0
                 PROVE  f[j] = Step(f[j - 1], p[j])
      BY <2>2
    <3>1. j \in 1..n /\ j - 1 \in 0..n
      OBVIOUS
    <3>2. f[j - 1] \in P
      <4> HIDE DEF P
      <4> QED
        BY <2>6, <3>1
    <3> HIDE DEF P
    <3> QED
      BY <2>3, <3>1, <3>2
  <2>8. Equal(f)
    BY <2>1, <2>7 DEF IsChain
  <2> HIDE DEF Equal
  <2> QED
    BY <2>8
<1> DEFINE W == CHOOSE f: Equal(f)
<1>4. Equal(W)
  <2> HIDE DEF Equal
  <2> QED
    BY <1>3
<1>5. Walk(p) = W[n]
  BY DEF Walk
<1> HIDE DEF W
<1>6. Follows(W)
  BY <1>1, <1>4
<1>7. W[n] \in P /\ \A i \in 1..n: Near(W[n], p[i])
  <2> HIDE DEF Follows
  <2> QED
    BY <1>2, <1>6
<1> QED
  BY <1>5, <1>7

\* Of the results that keep the limits, if there are any, one is chosen: for the latency
\* objective with limits one of the highest concurrency, and for others one that the
\* plateau rule finds as good as each.
LEMMA ChoiceIs ==
    ASSUME NEW x, SweepTyped(x), \E r \in ToSet(x.h): EligibleResult(r, x.slo)
    PROVE  LET c == Choose(x.h, x.objective, x.slo) IN
           /\ EligibleResult(c, x.slo)
           /\ x.objective = "latency" /\ HasSlo(x.slo) =>
                \A r \in ToSet(x.h): EligibleResult(r, x.slo) => r.c <= c.c
           /\ x.objective # "latency" =>
                \A r \in ToSet(x.h): EligibleResult(r, x.slo) => Near(c, r)
<1> DEFINE h == x.h
<1> DEFINE n == Len(h)
<1> DEFINE points == {i \in DOMAIN h: Valid(h[i])}
<1> DEFINE I == {i \in points: ~Violates(h[i], x.slo)}
<1> DEFINE p == ByConcurrency(h, I)
<1> DEFINE m == Len(p)
<1>1. n \in Nat /\ DOMAIN h = 1..n /\ \A i \in 1..n: h[i].c \in Nat /\ h[i].tps \in Nat /\ h[i].lat \in Nat
  BY DEF SweepTyped, ResultTyped
<1>2. I \in SUBSET (1..n) /\ \A i \in 1..n: i \in I <=> EligibleResult(h[i], x.slo)
  BY <1>1 DEF EligibleResult
<1>3. ToSet(h) = {h[i]: i \in 1..n}
  BY <1>1 DEF ToSet
<1>4. I # {}
  BY <1>2, <1>3
<1> DEFINE Pick == CASE p = <<>> -> None
                     [] p # <<>> /\ x.objective # "latency" -> Walk(p)
                     [] p # <<>> /\ x.objective = "latency" ->
                            IF I # {} /\ HasSlo(x.slo)
                            THEN p[Min({i \in DOMAIN p: p[i].c = p[Len(p)].c})]
                            ELSE p[Min({i \in DOMAIN p: \A j \in DOMAIN p: p[i].lat <= p[j].lat})]
<1>5. Choose(h, x.objective, x.slo) = Pick
  BY <1>4 DEF Choose
<1> HIDE DEF I, points, h, n
<1>6. /\ p \in Seq({h[i]: i \in I}) /\ m \in Nat /\ DOMAIN p = 1..m
      /\ \A k \in 1..m: \E i \in I: p[k] = h[i]
      /\ \A i \in I: \E k \in 1..m: p[k] = h[i]
      /\ \A j, k \in 1..m: j < k => p[j].c <= p[k].c
  <2>1. n \in Nat /\ (\A i \in 1..n: h[i].c \in Nat) /\ I \in SUBSET (1..n)
    BY <1>1, <1>2
  <2>2. Sorts(h, I, p)
    BY <2>1, SortedIs, Zenon
  <2> HIDE DEF p
  <2> QED
    BY <2>2 DEF Sorts
<1>7. m # 0 /\ p # <<>>
  <2>1. PICK i \in I: TRUE
    BY <1>4
  <2>2. \E k \in 1..m: p[k] = h[i]
    BY <1>6, <2>1
  <2>3. m # 0
    BY <2>2
  <2>4. Len(<<>>) = 0
    OBVIOUS
  <2>5. p # <<>>
    <3> HIDE DEF p
    <3> QED
      BY <2>3, <2>4
  <2> HIDE DEF p
  <2> QED
    BY <2>3, <2>5
<1>8. \A k \in 1..m: EligibleResult(p[k], x.slo) /\ p[k].c \in Nat /\ p[k].tps \in Nat /\ p[k].lat \in Nat
  BY <1>1, <1>2, <1>6
<1>9. ASSUME NEW r \in ToSet(h), EligibleResult(r, x.slo)
      PROVE  \E k \in 1..m: p[k] = r
  BY <1>2, <1>3, <1>6, <1>9
<1> HIDE DEF p, m
<1>10. CASE x.objective # "latency"
  <2>1. Pick = Walk(p)
    BY <1>7, <1>10
  <2>2. PICK k \in 1..m: Walk(p) = p[k] /\ \A i \in 1..m: Near(p[k], p[i])
    <3>1. m \in Nat \ {0} /\ Len(p) = m
      BY <1>6, <1>7 DEF m
    <3> QED
      BY <1>8, <3>1, WalkIs
  <2> HIDE DEF Pick
  <2> QED
    BY <1>5, <1>8, <1>9, <1>10, <2>1, <2>2 DEF h
<1>11. ASSUME x.objective = "latency", HasSlo(x.slo)
       PROVE  \E k \in 1..m: Pick = p[k] /\ \A i \in 1..m: p[i].c <= p[k].c
  <2> DEFINE K == {i \in DOMAIN p: p[i].c = p[Len(p)].c}
  <2>1. Pick = p[Min(K)]
    BY <1>4, <1>7, <1>11
  <2>2. m \in K /\ K \in SUBSET Nat
    BY <1>6, <1>7 DEF m
  <2>3. Min(K) \in K
    <3> HIDE DEF K
    <3> QED
      BY <2>2, LeastOf
  <2>4. PICK k: k = Min(K)
    OBVIOUS
  <2>5. k \in 1..m /\ p[k].c = p[m].c
    BY <1>6, <2>3, <2>4 DEF m
  <2>6. \A i \in 1..m: p[i].c <= p[k].c
    <3> SUFFICES ASSUME NEW i \in 1..m
                 PROVE  p[i].c <= p[k].c
      OBVIOUS
    <3>1. m \in 1..m
      <4>1. m \in Nat /\ m # 0
        BY <1>6, <1>7, Zenon
      <4> QED
        BY <4>1
    <3>2. i = m \/ p[i].c <= p[m].c
      <4>1. \A j, k1 \in 1..m: j < k1 => p[j].c <= p[k1].c
        BY <1>6, Zenon
      <4>2. i = m \/ i < m
        BY <1>6
      <4> QED
        BY <3>1, <4>1, <4>2, Zenon
    <3> QED
      BY <1>8, <2>5, <3>1, <3>2
  <2> HIDE DEF Pick, K
  <2> QED
    BY <2>1, <2>4, <2>5, <2>6
<1>12. ASSUME x.objective = "latency", ~HasSlo(x.slo)
       PROVE  \E k \in 1..m: Pick = p[k]
  <2> DEFINE K == {i \in DOMAIN p: \A j \in DOMAIN p: p[i].lat <= p[j].lat}
  <2>1. Pick = p[Min(K)]
    BY <1>4, <1>7, <1>12
  <2>2. K # {} /\ K \in SUBSET (1..m)
    <3> DEFINE S == {p[j].lat: j \in 1..m}
    <3>1. S \in SUBSET Nat /\ S # {}
      <4>1. 1 \in 1..m
        BY <1>6, <1>7
      <4> QED
        BY <1>8, <4>1
    <3>2. Min(S) \in S /\ \A y \in S: Min(S) <= y
      <4> HIDE DEF S
      <4> QED
        BY <3>1, LeastOf
    <3>3. PICK i \in 1..m: p[i].lat = Min(S)
      BY <3>2
    <3>4. \A j \in 1..m: p[j].lat \in S
      OBVIOUS
    <3> HIDE DEF S
    <3>5. \A j \in 1..m: p[i].lat <= p[j].lat
      BY <3>2, <3>3, <3>4
    <3>6. i \in K
      BY <1>6, <3>5
    <3> QED
      BY <1>6, <3>6
  <2>3. Min(K) \in K
    <3> HIDE DEF K
    <3>1. K \in SUBSET Nat
      BY <1>6, <2>2
    <3> QED
      BY <2>2, <3>1, LeastOf
  <2>4. Min(K) \in 1..m
    BY <2>2, <2>3
  <2> HIDE DEF Pick, K
  <2> QED
    BY <2>1, <2>4
<1>13. CASE x.objective = "latency"
  <2> HIDE DEF Pick
  <2>1. PICK k \in 1..m: Pick = p[k] /\ (HasSlo(x.slo) => \A i \in 1..m: p[i].c <= p[k].c)
    BY <1>11, <1>12, <1>13
  <2> QED
    BY <1>5, <1>8, <1>9, <1>13, <2>1 DEF h
<1> QED
  BY <1>10, <1>13

\* What can be measured.
Measurable(x) == {Measured(x, c, l): c \in Nat \ {0}, l \in {"A", "B"}} \ {None}

\* What a measurement has of its question.
LEMMA MeasuredIs ==
    ASSUME NEW x, SearchTyped(x), NEW c, NEW l, Measured(x, c, l) # None
    PROVE  LET r == Measured(x, c, l) IN r.c = c /\ r.label = l /\ r.tps \in Nat
<1> DEFINE known == {d \in DOMAIN x.engine: d <= c}
<1> DEFINE at == IF known = {} THEN Min(DOMAIN x.engine) ELSE Max(known)
<1> DEFINE r == x.engine[at]
<1>1. at \in DOMAIN x.engine
  <2>1. /\ IsFiniteSet(DOMAIN x.engine) /\ DOMAIN x.engine # {}
        /\ DOMAIN x.engine \in SUBSET Nat
    BY DEF SearchTyped
  <2>2. Min(DOMAIN x.engine) \in DOMAIN x.engine
    BY <2>1, LeastOf
  <2>3. ASSUME known # {}
        PROVE  Max(known) \in known
    <3>1. known \in SUBSET Int /\ IsFiniteSet(known)
      <4>1. known \subseteq DOMAIN x.engine
        OBVIOUS
      <4> HIDE DEF known
      <4> QED
        BY <2>1, <4>1, FS_Subset
    <3> HIDE DEF known
    <3> QED
      BY <2>3, <3>1, GreatestOf
  <2> QED
    BY <2>2, <2>3
<1>2. r = None \/ r.tps \in Nat
  <2>1. x.engine[at] = None \/ ResultTyped(x.engine[at])
    BY <1>1 DEF SearchTyped
  <2> HIDE DEF at
  <2> QED
    BY <2>1 DEF ResultTyped
<1>3. Measured(x, c, l) = IF r = None THEN None
                          ELSE [c |-> c, label |-> l, tps |-> r.tps, lat |-> r.lat,
                                ttft |-> r.ttft, err |-> r.err, none |-> r.none]
  BY DEF Measured
<1> HIDE DEF r
<1> QED
  BY <1>2, <1>3

\* The fields of what can be measured.
LEMMA MeasurableIs ==
    ASSUME NEW x, SearchTyped(x), NEW r \in Measurable(x)
    PROVE  r.c \in Nat \ {0} /\ r.label \in {"A", "B"} /\ r.tps \in Nat
<1>1. PICK c \in Nat \ {0}, l \in {"A", "B"}: r = Measured(x, c, l) /\ r # None
  BY DEF Measurable
<1> QED
  BY <1>1, MeasuredIs

\* A history of a candidate: only its first result may be stage A's, and none of the
\* others is of the concurrency of another.
History(x, h) ==
    /\ h \in Seq(Measurable(x))
    /\ \A i, j \in 1..Len(h): i < j =>
         h[j].label = "B" /\ (h[i].label = "B" => h[i].c # h[j].c)

\* g is h with results of concurrencies in C.
Continues(x, g, h, C) ==
    /\ History(x, g) /\ Len(h) <= Len(g) /\ \A i \in 1..Len(h): g[i] = h[i]
    /\ \A i \in 1..Len(g): i <= Len(h) \/ g[i].c \in C

\* A point is added to the history if it can be measured and was not.
LEMMA PointNoted ==
    ASSUME NEW x, SearchTyped(x), NEW h, History(x, h), NEW c \in Nat \ {0}
    PROVE  LET r == Point(x, h, c)
               g == Noted(h, r)
           IN /\ r \in Measurable(x) \cup {None} /\ Continues(x, g, h, {c})
              /\ r # None => g = Append(h, r) /\ r = Measured(x, c, "B")
              /\ Measured(x, c, "B") # None => \E i \in 1..Len(g): g[i].c = c
<1> DEFINE r == Point(x, h, c)
<1> DEFINE g == Noted(h, r)
<1> DEFINE M == Measured(x, c, "B")
<1>1. h \in Seq(Measurable(x)) /\ Len(h) \in Nat /\ DOMAIN h = 1..Len(h)
      /\ \A i \in 1..Len(h): h[i] \in Measurable(x)
  BY DEF History
<1>2. M # None => M \in Measurable(x) /\ M.c = c /\ M.label = "B"
  BY MeasuredIs DEF Measurable
<1>3. CASE \E i \in DOMAIN h: h[i].c = c /\ h[i].label # "A"
  <2>1. r = None /\ g = h
    BY <1>3 DEF Point, Noted
  <2>2. \E i \in 1..Len(h): h[i].c = c
    BY <1>1, <1>3
  <2> HIDE DEF r, g, M
  <2> QED
    BY <1>1, <2>1, <2>2 DEF Continues, r, g
<1>4. CASE ~\E i \in DOMAIN h: h[i].c = c /\ h[i].label # "A"
  <2>1. r = M
    BY <1>4 DEF Point
  <2>2. CASE M = None
    <3>1. r = None /\ g = h
      BY <2>1, <2>2 DEF Noted
    <3> HIDE DEF r, g
    <3> QED
      BY <1>1, <2>2, <3>1 DEF Continues, r, g
  <2>3. CASE M # None
    <3>1. g = Append(h, M) /\ r = M /\ r # None
      BY <2>1, <2>3 DEF Noted
    <3> HIDE DEF r, g
    <3>2. M \in Measurable(x) /\ M.c = c /\ M.label = "B"
      BY <1>2, <2>3
    <3> HIDE DEF M
    <3>3. /\ g \in Seq(Measurable(x)) /\ Len(g) = Len(h) + 1 /\ g[Len(h) + 1] = M
          /\ \A i \in 1..Len(h): g[i] = h[i]
      BY <1>1, <3>1, <3>2
    <3>4. \A i \in 1..Len(h): h[i].label = "B" => h[i].c # c
      BY <1>1, <1>4
    <3>5. ASSUME NEW i \in 1..Len(g), NEW j \in 1..Len(g), i < j
          PROVE  g[j].label = "B" /\ (g[i].label = "B" => g[i].c # g[j].c)
      <4>1. i \in 1..Len(h) /\ (j \in 1..Len(h) \/ j = Len(h) + 1)
        BY <1>1, <3>3, <3>5
      <4>2. CASE j \in 1..Len(h)
        BY <3>3, <3>5, <4>1, <4>2 DEF History
      <4>3. CASE j = Len(h) + 1
        BY <3>2, <3>3, <3>4, <4>1, <4>3
      <4> QED
        BY <4>1, <4>2, <4>3
    <3>6. History(x, g)
      BY <3>3, <3>5 DEF History
    <3>7. Len(h) + 1 \in 1..Len(g) /\ \A i \in 1..Len(g): i <= Len(h) \/ i = Len(h) + 1
      BY <1>1, <3>3
    <3>8. Continues(x, g, h, {c})
      BY <1>1, <3>2, <3>3, <3>6, <3>7 DEF Continues
    <3>9. \E i \in 1..Len(g): g[i].c = c
      BY <3>2, <3>3, <3>7
    <3> QED
      BY <3>1, <3>2, <3>8, <3>9 DEF M, r, g
  <2> QED
    BY <2>2, <2>3
<1> QED
  BY <1>3, <1>4

\* What continues a continuation continues the whole.
LEMMA ContinuesOn ==
    ASSUME NEW x, NEW f, NEW g, NEW h, NEW C, NEW D, h \in Seq(Measurable(x)),
           Continues(x, g, h, C), Continues(x, f, g, D), C \subseteq D
    PROVE  Continues(x, f, h, D)
<1>1. Len(h) \in Nat /\ Len(g) \in Nat /\ Len(f) \in Nat /\ Len(h) <= Len(g) /\ Len(g) <= Len(f)
  BY DEF Continues, History
<1>2. \A i \in 1..Len(h): i \in 1..Len(g) /\ f[i] = h[i]
  <2>1. \A i \in 1..Len(h): i \in 1..Len(g)
    BY <1>1
  <2> QED
    BY <2>1 DEF Continues
<1>3. \A i \in 1..Len(f): i <= Len(h) \/ f[i].c \in D
  <2> SUFFICES ASSUME NEW i \in 1..Len(f), ~(i <= Len(h))
               PROVE  f[i].c \in D
    OBVIOUS
  <2>1. CASE i <= Len(g)
    <3>1. i \in 1..Len(g)
      BY <1>1, <2>1
    <3>2. g[i].c \in C /\ f[i] = g[i]
      BY <3>1 DEF Continues
    <3> QED
      BY <3>2
  <2>2. CASE ~(i <= Len(g))
    BY <2>2 DEF Continues
  <2> QED
    BY <2>1, <2>2
<1> QED
  BY <1>1, <1>2, <1>3 DEF Continues

\* An improving sweep goes on: its last point is the best.
LEMMA GainingGoesOn ==
    ASSUME NEW h, NEW n \in Nat \ {0}, Len(h) = n, DOMAIN h = 1..n,
           \A i \in 1..n: h[i].tps \in Nat, NEW slo, EligibleResult(h[n], slo),
           \A i \in 1..(n - 1): ~SmallGain(h[i], h[n])
    PROVE  GoesOn(h, slo)
<1> DEFINE last == h[n]
<1>1. last.tps \in Nat /\ \A i \in 1..n: h[i].tps <= last.tps
  <2>1. n \in 1..n /\ \A i \in 1..n: i = n \/ i \in 1..(n - 1)
    OBVIOUS
  <2>2. ASSUME NEW i \in 1..(n - 1)
        PROVE  h[i].tps <= last.tps
    <3>1. h[i].tps \in Nat /\ last.tps \in Nat
      BY <2>1
    <3>2. ~((last.tps - h[i].tps) * 100 < 2 * h[i].tps)
      BY <2>2 DEF SmallGain, MinGain
    <3> QED
      BY <3>1, <3>2
  <2> QED
    BY <2>1, <2>2
<1> DEFINE T == {h[i].tps: i \in DOMAIN h}
<1>2. Max(T) = last.tps
  <2>1. last.tps \in T /\ T \in SUBSET Nat /\ \A t \in T: t <= last.tps
    BY <1>1
  <2> HIDE DEF T
  <2> QED
    BY <2>1, LargestIs
<1> HIDE DEF T
<1>3. last.tps * 100 >= Max(T) * (100 - DropStop)
  BY <1>1, <1>2 DEF DropStop
<1>4. n < 2 \/ ~SmallGain(h[n - 1], last)
  OBVIOUS
<1>5. EligibleResult(last, slo)
  OBVIOUS
<1> HIDE DEF last
<1>6. last = h[Len(h)] /\ Max(T) = Max({h[i].tps: i \in DOMAIN h})
  BY DEF last, T
<1> QED
  BY <1>3, <1>4, <1>5, <1>6 DEF GoesOn

\* What gains enough over a result that gained gains enough over the one before.
LEMMA GainsAdd ==
    ASSUME NEW a, NEW b, NEW c, a.tps \in Nat, b.tps \in Nat, c.tps \in Nat,
           ~SmallGain(a, b), ~SmallGain(b, c)
    PROVE  ~SmallGain(a, c)
BY DEF SmallGain, MinGain

\* The states of a sweep.
SweepStates(x) ==
    {s \in [h: Seq(Measurable(x)), swept: Seq(Measurable(x)), go: BOOLEAN]: History(x, s.h)}

\* A point of a sweep takes a state to a state, and adds at most its result.
LEMMA SweptIs ==
    ASSUME NEW x, SearchTyped(x), NEW s \in SweepStates(x), NEW c \in Nat \ {0}, NEW gaps \in BOOLEAN
    PROVE  LET t == Swept(x, s, Point(x, s.h, c), gaps) IN
           t \in SweepStates(x) /\ Continues(x, t.h, s.h, {c})
<1> DEFINE r == Point(x, s.h, c)
<1> DEFINE t == Swept(x, s, r, gaps)
<1>1. /\ s \in [h: Seq(Measurable(x)), swept: Seq(Measurable(x)), go: BOOLEAN] /\ History(x, s.h)
      /\ s.h \in Seq(Measurable(x)) /\ s.swept \in Seq(Measurable(x)) /\ s.go \in BOOLEAN
      /\ s = [h |-> s.h, swept |-> s.swept, go |-> s.go]
  BY DEF SweepStates
<1>2. /\ r \in Measurable(x) \cup {None} /\ Continues(x, Noted(s.h, r), s.h, {c})
      /\ r # None => Noted(s.h, r) = Append(s.h, r)
  <2>1. History(x, s.h)
    BY <1>1
  <2>2. LET u == Point(x, s.h, c)
            g == Noted(s.h, u)
        IN /\ u \in Measurable(x) \cup {None} /\ Continues(x, g, s.h, {c})
           /\ u # None => g = Append(s.h, u) /\ u = Measured(x, c, "B")
           /\ Measured(x, c, "B") # None => \E i \in 1..Len(g): g[i].c = c
    BY <2>1, PointNoted, Zenon
  <2> QED
    BY <2>2
<1>3. Continues(x, s.h, s.h, {c})
  BY <1>1 DEF Continues
<1> HIDE DEF r
<1>4. CASE ~s.go
  <2>1. t = s
    BY <1>4 DEF Swept
  <2> QED
    BY <1>3, <2>1 DEF r
<1>5. CASE s.go /\ r = None
  <2>1. t = [s EXCEPT !.go = gaps]
    BY <1>5 DEF Swept
  <2>2. t = [h |-> s.h, swept |-> s.swept, go |-> gaps]
    BY <1>1, <2>1
  <2>3. t \in SweepStates(x) /\ t.h = s.h
    BY <1>1, <2>2 DEF SweepStates
  <2> QED
    BY <1>3, <2>3 DEF r
<1>6. CASE s.go /\ r # None
  <2> DEFINE go == GoesOn(Append(s.swept, r), x.slo)
  <2>1. go \in BOOLEAN
    BY DEF GoesOn
  <2>2. t = [h |-> Append(s.h, r), swept |-> Append(s.swept, r), go |-> go]
    BY <1>6 DEF Swept
  <2> HIDE DEF go
  <2>3. r \in Measurable(x) /\ Continues(x, Append(s.h, r), s.h, {c})
    BY <1>2, <1>6
  <2>4. /\ Append(s.h, r) \in Seq(Measurable(x)) /\ Append(s.swept, r) \in Seq(Measurable(x))
        /\ History(x, Append(s.h, r))
    BY <1>1, <2>3 DEF Continues
  <2> HIDE DEF t
  <2>5. t \in SweepStates(x) /\ t.h = Append(s.h, r)
    <3>1. t.h = Append(s.h, r)
      BY <2>2
    <3>2. t \in [h: Seq(Measurable(x)), swept: Seq(Measurable(x)), go: BOOLEAN]
      BY <2>1, <2>2, <2>4
    <3> QED
      BY <2>4, <3>1, <3>2 DEF SweepStates
  <2> QED
    BY <2>3, <2>5 DEF r, t
<1> QED
  BY <1>4, <1>5, <1>6

\* The states that a sweep goes through.
Sweeping(x, h, swept, points, gaps, f) ==
    /\ f[0] = [h |-> h, swept |-> swept, go |-> TRUE]
    /\ \A k \in 1..Len(points): f[k] = Swept(x, f[k - 1], Point(x, f[k - 1].h, points[k]), gaps)
    /\ \A k \in 0..Len(points): f[k] \in SweepStates(x)
    /\ SweepOver(x, h, swept, points, gaps) = f[Len(points)].h

\* They exist: a sweep is defined by recursion on its points.
LEMMA SweepStepped ==
    ASSUME NEW x, SearchTyped(x), NEW h, History(x, h), NEW swept \in Seq(Measurable(x)),
           NEW points, NEW n \in Nat, Len(points) = n, \A k \in 1..n: points[k] \in Nat \ {0},
           NEW gaps \in BOOLEAN
    PROVE  \E f: Sweeping(x, h, swept, points, gaps, f)
<1> DEFINE b == [h |-> h, swept |-> swept, go |-> TRUE]
<1> DEFINE V == SweepStates(x)
<1> DEFINE Next1(s, k) == Swept(x, s, Point(x, s.h, points[k]), gaps)
<1> DEFINE Equal(f) == f = [k \in 0..n |-> IF k = 0 THEN b ELSE Next1(f[k - 1], k)]
<1>1. b \in V
  BY DEF SweepStates, History
<1>2. \A s \in V: \A k \in 1..n: Next1(s, k) \in V
  BY SweptIs
<1> HIDE DEF V, b
<1>3. ASSUME NEW f, Equal(f)
      PROVE  /\ f[0] = b /\ \A k \in 1..n: f[k] = Next1(f[k - 1], k)
             /\ \A k \in 0..n: f[k] \in V
  <2> HIDE DEF Next1
  <2>1. \A k \in 0..n: f[k] = IF k = 0 THEN b ELSE Next1(f[k - 1], k)
    BY <1>3, Zenon
  <2>2. 0 \in 0..n /\ \A k \in 1..n: k \in 0..n /\ k # 0
    OBVIOUS
  <2>3. f[0] = b /\ \A k \in 1..n: f[k] = Next1(f[k - 1], k)
    BY <2>1, <2>2
  <2> DEFINE A == {k \in 0..n: f[k] \in V}
  <2>4. 0 \in A
    BY <1>1, <2>2, <2>3
  <2>5. \A k \in 0..n: k + 1 \in 0..n /\ k \in A => k + 1 \in A
    <3> SUFFICES ASSUME NEW k \in 0..n, k + 1 \in 0..n, k \in A
                 PROVE  k + 1 \in A
      OBVIOUS
    <3>1. k + 1 \in 1..n /\ (k + 1) - 1 = k
      OBVIOUS
    <3>2. f[k + 1] = Next1(f[k], k + 1)
      BY <2>3, <3>1
    <3> QED
      BY <1>2, <3>1, <3>2
  <2>6. 0..n \subseteq A
    <3> HIDE DEF A
    <3> QED
      BY <2>4, <2>5, UpToN
  <2> QED
    BY <2>3, <2>6
<1>4. \E f: Equal(f)
  <2> HIDE DEF Next1
  <2> DEFINE G == [y \in (1..n) \X V |-> Next1(y[2], y[1])]
  <2>1. PICK f: IsChain(n, b, G, f)
    <3> HIDE DEF G
    <3> QED
      BY Chain
  <2>2. \A k \in 0..n: f[k] = IF k = 0 THEN b ELSE G[<<k, f[k - 1]>>]
    BY <2>1 DEF IsChain
  <2>3. \A k \in 1..n: \A s \in V: G[<<k, s>>] = Next1(s, k)
    OBVIOUS
  <2> HIDE DEF G
  <2> DEFINE A == {k \in 0..n: f[k] \in V}
  <2>4. 0 \in A
    <3>1. 0 \in 0..n
      OBVIOUS
    <3>2. f[0] = b
      BY <2>2, <3>1
    <3> QED
      BY <1>1, <3>1, <3>2
  <2>5. \A k \in 0..n: k + 1 \in 0..n /\ k \in A => k + 1 \in A
    <3> SUFFICES ASSUME NEW k \in 0..n, k + 1 \in 0..n, k \in A
                 PROVE  k + 1 \in A
      OBVIOUS
    <3>1. k + 1 \in 1..n /\ (k + 1) - 1 = k /\ k + 1 # 0
      OBVIOUS
    <3>2. f[k + 1] = G[<<k + 1, f[k]>>]
      BY <2>2, <3>1
    <3>3. f[k + 1] = Next1(f[k], k + 1)
      BY <2>3, <3>1, <3>2
    <3> QED
      BY <1>2, <3>1, <3>3 DEF Next1
  <2>6. 0..n \subseteq A
    <3> HIDE DEF A
    <3> QED
      BY <2>4, <2>5, UpToN
  <2>7. \A k \in 0..n: f[k] = IF k = 0 THEN b ELSE Next1(f[k - 1], k)
    <3> SUFFICES ASSUME NEW k \in 0..n, k # 0
                 PROVE  f[k] = Next1(f[k - 1], k)
      BY <2>2
    <3>1. k \in 1..n /\ k - 1 \in 0..n
      OBVIOUS
    <3>2. f[k - 1] \in V
      BY <2>6, <3>1
    <3> QED
      BY <2>2, <2>3, <3>1, <3>2
  <2>8. Equal(f)
    BY <2>1, <2>7 DEF IsChain
  <2> HIDE DEF Equal
  <2> QED
    BY <2>8
<1> DEFINE W == CHOOSE f: Equal(f)
<1>5. Equal(W)
  <2> HIDE DEF Equal
  <2> QED
    BY <1>4
<1>6. SweepOver(x, h, swept, points, gaps) = W[n].h
  BY DEF SweepOver, b
<1> HIDE DEF W
<1>7. /\ W[0] = b /\ \A k \in 1..n: W[k] = Next1(W[k - 1], k)
      /\ \A k \in 0..n: W[k] \in V
  <2> HIDE DEF Equal, Next1
  <2> QED
    BY <1>3, <1>5
<1> HIDE DEF Equal
<1>8. Sweeping(x, h, swept, points, gaps, W)
  BY <1>6, <1>7 DEF Sweeping, V, b
<1> QED
  BY <1>8

\* A sweep adds results of its points to the history.
LEMMA SweepContinues ==
    ASSUME NEW x, SearchTyped(x), NEW h, History(x, h), NEW swept \in Seq(Measurable(x)),
           NEW points, NEW n \in Nat, Len(points) = n, \A k \in 1..n: points[k] \in Nat \ {0},
           NEW gaps \in BOOLEAN, NEW f, Sweeping(x, h, swept, points, gaps, f),
           NEW j \in 0..n, NEW C, \A k \in 1..n: points[k] \in C
    PROVE  Continues(x, f[n].h, f[j].h, C)
<1> DEFINE A == {i \in 0..n: i < j \/ Continues(x, f[i].h, f[j].h, C)}
<1>1. \A i \in 0..n: f[i] \in SweepStates(x) /\ History(x, f[i].h) /\ f[i].h \in Seq(Measurable(x))
  BY DEF Sweeping, SweepStates, History
<1>2. \A i \in 0..n: Continues(x, f[i].h, f[i].h, C)
  BY <1>1 DEF Continues
<1>3. 0 \in A
  <2>1. 0 \in 0..n /\ (0 < j \/ j = 0)
    OBVIOUS
  <2>2. CASE j = 0
    BY <1>2, <2>1, <2>2
  <2> QED
    BY <2>1, <2>2
<1>4. \A i \in 0..n: i + 1 \in 0..n /\ i \in A => i + 1 \in A
  <2> SUFFICES ASSUME NEW i \in 0..n, i + 1 \in 0..n, i \in A
               PROVE  i + 1 \in A
    OBVIOUS
  <2>1. CASE i + 1 < j
    BY <2>1
  <2>2. CASE i + 1 = j
    BY <1>2, <2>2
  <2>3. CASE j <= i
    <3>1. Continues(x, f[i].h, f[j].h, C)
      BY <2>3
    <3>2. i + 1 \in 1..n /\ (i + 1) - 1 = i
      OBVIOUS
    <3>3. f[i + 1] = Swept(x, f[i], Point(x, f[i].h, points[i + 1]), gaps)
      BY <3>2 DEF Sweeping
    <3>4. f[i] \in SweepStates(x) /\ points[i + 1] \in Nat \ {0}
      BY <1>1, <3>2
    <3>5. Continues(x, f[i + 1].h, f[i].h, {points[i + 1]})
      BY <3>3, <3>4, SweptIs
    <3>6. points[i + 1] \in C
      BY <3>2
    <3>7. Continues(x, f[i + 1].h, f[i].h, C)
      BY <3>5, <3>6 DEF Continues
    <3>8. f[j].h \in Seq(Measurable(x))
      BY <1>1
    <3>9. Continues(x, f[i + 1].h, f[j].h, C)
      BY <3>1, <3>7, <3>8, ContinuesOn
    <3> QED
      BY <3>9
  <2>4. i + 1 < j \/ i + 1 = j \/ j <= i
    OBVIOUS
  <2> QED
    BY <2>1, <2>2, <2>3, <2>4
<1>5. 0..n \subseteq A
  <2> HIDE DEF A
  <2> QED
    BY <1>3, <1>4, UpToN
<1>6. n \in A
  <2> HIDE DEF A
  <2>1. n \in 0..n
    OBVIOUS
  <2> QED
    BY <1>5, <2>1
<1>7. ~(n < j)
  OBVIOUS
<1> QED
  BY <1>6, <1>7

\* The first m points were served within the limits and each gained over the one before.
Climbs(x, points, m) ==
    /\ \A k \in 1..m: /\ Measured(x, points[k], "B") # None
                      /\ EligibleResult(Measured(x, points[k], "B"), x.slo)
    /\ \A k \in 1..(m - 1):
         ~SmallGain(Measured(x, points[k], "B"), Measured(x, points[k + 1], "B"))

\* A sweep of these points after that history.
CanSweep(x, h, swept, points) ==
    /\ SearchTyped(x) /\ History(x, h) /\ swept \in Seq(Measurable(x))
    /\ Len(points) \in Nat /\ \A k \in 1..Len(points): points[k] \in Nat \ {0}

\* None of the points, which grow, was measured by a sweep, and the first one gains over
\* what the sweep starts with.
Ahead(x, h, swept, points) ==
    /\ \A j, k \in 1..Len(points): j < k => points[j] < points[k]
    /\ \A i \in 1..Len(h): h[i].label = "B" => \A k \in 1..Len(points): h[i].c # points[k]
    /\ \A i \in 1..Len(swept): ~SmallGain(swept[i], Measured(x, points[1], "B"))

\* Then the sweep measures all that climb.
LEMMA ClimbMeasured ==
    ASSUME NEW x, NEW h, NEW swept, NEW points, CanSweep(x, h, swept, points),
           Ahead(x, h, swept, points), NEW gaps \in BOOLEAN,
           NEW m \in 1..Len(points), Climbs(x, points, m)
    PROVE  LET g == SweepOver(x, h, swept, points, gaps) IN
           \A k \in 1..m: \E i \in 1..Len(g): g[i].c = points[k]
<1> DEFINE n == Len(points)
<1> HIDE DEF n
<1>0. /\ SearchTyped(x) /\ History(x, h) /\ swept \in Seq(Measurable(x))
      /\ n \in Nat /\ Len(points) = n /\ m \in 1..n /\ \A k \in 1..n: points[k] \in Nat \ {0}
      /\ \A j, k \in 1..n: j < k => points[j] < points[k]
      /\ \A i \in 1..Len(h): h[i].label = "B" => \A k \in 1..n: h[i].c # points[k]
      /\ \A i \in 1..Len(swept): ~SmallGain(swept[i], Measured(x, points[1], "B"))
  BY DEF CanSweep, Ahead, n
<1> DEFINE R(k) == Measured(x, points[k], "B")
<1> DEFINE g == SweepOver(x, h, swept, points, gaps)
<1> DEFINE Apart(s, k) == \A i \in 1..Len(s.h): s.h[i].label = "B" =>
                              \A j \in 1..n: k < j => s.h[i].c # points[j]
<1> DEFINE Below(s, k) == \A i \in 1..Len(s.swept): ~SmallGain(s.swept[i], R(k))
<1>1. PICK f: Sweeping(x, h, swept, points, gaps, f)
  BY <1>0, SweepStepped
<1>2. /\ f[0] = [h |-> h, swept |-> swept, go |-> TRUE]
      /\ \A k \in 1..n: f[k] = Swept(x, f[k - 1], Point(x, f[k - 1].h, points[k]), gaps)
      /\ \A k \in 0..n: f[k] \in SweepStates(x)
      /\ g = f[n].h
  BY <1>0, <1>1 DEF Sweeping
<1>3. \A k \in 1..n: R(k) # None => /\ R(k) \in Measurable(x) /\ R(k).tps \in Nat
                                    /\ R(k).c = points[k] /\ R(k).label = "B"
  BY <1>0, MeasuredIs DEF Measurable
<1>4. /\ \A k \in 1..m: R(k) # None /\ EligibleResult(R(k), x.slo)
      /\ \A k \in 1..(m - 1): ~SmallGain(R(k), R(k + 1))
  BY DEF Climbs
<1> HIDE DEF R
<1>5. ASSUME NEW s \in SweepStates(x), NEW k \in 1..m, s.go, Apart(s, k - 1), Below(s, k)
      PROVE  LET t == Swept(x, s, Point(x, s.h, points[k]), gaps) IN
             /\ t.go /\ Apart(t, k) /\ t.h = Append(s.h, R(k))
             /\ k + 1 \in 1..m => Below(t, k + 1)
  <2> DEFINE t == Swept(x, s, Point(x, s.h, points[k]), gaps)
  <2>1. /\ s.h \in Seq(Measurable(x)) /\ s.swept \in Seq(Measurable(x))
        /\ \A i \in 1..Len(s.h): s.h[i] \in Measurable(x)
        /\ \A i \in 1..Len(s.swept): s.swept[i] \in Measurable(x)
        /\ DOMAIN s.h = 1..Len(s.h) /\ Len(s.h) \in Nat /\ Len(s.swept) \in Nat
    BY DEF SweepStates
  <2>2. R(k) # None /\ R(k) \in Measurable(x) /\ R(k).tps \in Nat /\ R(k).c = points[k]
        /\ R(k).label = "B" /\ EligibleResult(R(k), x.slo) /\ k \in 1..n
    BY <1>0, <1>3, <1>4
  <2>3. ~\E i \in DOMAIN s.h: s.h[i].c = points[k] /\ s.h[i].label # "A"
    <3> SUFFICES ASSUME NEW i \in 1..Len(s.h), s.h[i].c = points[k], s.h[i].label # "A"
                 PROVE  FALSE
      BY <2>1
    <3>1. s.h[i].label = "B"
      BY <1>0, <2>1, MeasurableIs
    <3>2. k - 1 < k
      OBVIOUS
    <3> QED
      BY <1>5, <2>2, <3>1, <3>2
  <2>4. Point(x, s.h, points[k]) = R(k)
    BY <2>3 DEF Point, R
  <2> DEFINE w == Append(s.swept, R(k))
  <2>5. t = [h |-> Append(s.h, R(k)), swept |-> w, go |-> GoesOn(w, x.slo)]
    BY <1>5, <2>2, <2>4 DEF Swept
  <2>6. /\ Len(w) = Len(s.swept) + 1 /\ DOMAIN w = 1..Len(w) /\ w[Len(s.swept) + 1] = R(k)
        /\ \A i \in 1..Len(s.swept): w[i] = s.swept[i]
    BY <2>1, <2>2
  <2> HIDE DEF w
  <2>7. \A i \in 1..Len(w): w[i].tps \in Nat
    <3>1. \A i \in 1..Len(s.swept): s.swept[i].tps \in Nat
      BY <1>0, <2>1, MeasurableIs
    <3>2. \A i \in 1..Len(w): i \in 1..Len(s.swept) \/ i = Len(s.swept) + 1
      BY <2>1, <2>6
    <3> QED
      BY <2>2, <2>6, <3>1, <3>2
  <2>8. \A i \in 1..Len(s.swept): ~SmallGain(w[i], R(k))
    BY <1>5, <2>6
  <2>9. GoesOn(w, x.slo)
    <3> DEFINE l == Len(w)
    <3>1. l \in Nat \ {0} /\ Len(w) = l /\ DOMAIN w = 1..l /\ \A i \in 1..l: w[i].tps \in Nat
      BY <2>1, <2>6, <2>7
    <3>2. EligibleResult(w[l], x.slo) /\ \A i \in 1..(l - 1): ~SmallGain(w[i], w[l])
      BY <2>1, <2>2, <2>6, <2>8
    <3> HIDE DEF l
    <3> QED
      BY <3>1, <3>2, GainingGoesOn
  <2>10. t.go /\ t.h = Append(s.h, R(k)) /\ t.swept = w
    BY <2>5, <2>9
  <2> HIDE DEF t
  <2>11. Apart(t, k)
    <3> SUFFICES ASSUME NEW i \in 1..Len(t.h), t.h[i].label = "B", NEW j \in 1..n, k < j
                 PROVE  t.h[i].c # points[j]
      OBVIOUS
    <3>1. \/ i \in 1..Len(s.h) /\ t.h[i] = s.h[i]
          \/ t.h[i] = R(k)
      BY <2>1, <2>2, <2>10
    <3>2. points[k] < points[j] /\ points[k] \in Nat /\ points[j] \in Nat
      BY <1>0, <2>2
    <3>3. CASE i \in 1..Len(s.h) /\ t.h[i] = s.h[i]
      <4>1. k - 1 < j
        OBVIOUS
      <4> QED
        BY <1>5, <3>3, <4>1
    <3>4. CASE t.h[i] = R(k)
      BY <2>2, <3>2, <3>4
    <3> QED
      BY <3>1, <3>3, <3>4
  <2>12. ASSUME k + 1 \in 1..m
         PROVE  Below(t, k + 1)
    <3> SUFFICES ASSUME NEW i \in 1..Len(w)
                 PROVE  ~SmallGain(w[i], R(k + 1))
      BY <2>10
    <3>1. ~SmallGain(R(k), R(k + 1)) /\ R(k + 1).tps \in Nat
      <4>1. k \in 1..(m - 1) /\ k + 1 \in 1..n
        BY <1>0, <2>12
      <4> QED
        BY <1>3, <1>4, <2>12, <4>1
    <3>2. CASE i \in 1..Len(s.swept)
      <4>1. ~SmallGain(w[i], R(k)) /\ w[i].tps \in Nat
        BY <2>7, <2>8, <3>2
      <4> QED
        BY <2>2, <3>1, <4>1, GainsAdd
    <3>3. CASE i = Len(s.swept) + 1
      BY <2>6, <3>1, <3>3
    <3> QED
      BY <2>1, <2>6, <3>2, <3>3
  <2> QED
    BY <2>10, <2>11, <2>12 DEF t
<1> DEFINE A == {k \in 0..m: f[k].go /\ Apart(f[k], k) /\ (k + 1 \in 1..m => Below(f[k], k + 1))}
<1>6. 0 \in A
  <2>1. f[0].go /\ f[0].h = h /\ f[0].swept = swept
    BY <1>2
  <2>2. Apart(f[0], 0)
    BY <1>0, <2>1
  <2>3. Below(f[0], 1)
    BY <1>0, <2>1 DEF R
  <2> QED
    BY <2>1, <2>2, <2>3
<1> HIDE DEF Apart, Below
<1>7. \A k \in 0..m: k + 1 \in 0..m /\ k \in A =>
         k + 1 \in A /\ f[k + 1].h = Append(f[k].h, R(k + 1))
  <2> SUFFICES ASSUME NEW k \in 0..m, k + 1 \in 0..m, k \in A
               PROVE  k + 1 \in A /\ f[k + 1].h = Append(f[k].h, R(k + 1))
    OBVIOUS
  <2>1. k + 1 \in 1..m /\ k + 1 \in 1..n /\ (k + 1) - 1 = k /\ k \in 0..n
    BY <1>0
  <2>2. f[k + 1] = Swept(x, f[k], Point(x, f[k].h, points[k + 1]), gaps) /\ f[k] \in SweepStates(x)
    BY <1>2, <2>1
  <2>3. f[k].go /\ Apart(f[k], (k + 1) - 1) /\ Below(f[k], k + 1)
    BY <2>1
  <2>4. /\ f[k + 1].go /\ Apart(f[k + 1], k + 1) /\ f[k + 1].h = Append(f[k].h, R(k + 1))
        /\ (k + 1) + 1 \in 1..m => Below(f[k + 1], (k + 1) + 1)
    BY <1>5, <2>1, <2>2, <2>3
  <2> QED
    BY <2>4
<1>8. 0..m \subseteq A
  <2>1. \A k \in 0..m: k + 1 \in 0..m /\ k \in A => k + 1 \in A
    BY <1>7
  <2>2. m \in Nat
    BY <1>0
  <2> HIDE DEF A
  <2> QED
    BY <1>6, <2>1, <2>2, UpToN
<1>9. ASSUME NEW k \in 1..m
      PROVE  \E i \in 1..Len(g): g[i].c = points[k]
  <2>1. k - 1 \in 0..m /\ (k - 1) + 1 = k /\ k \in 0..n /\ k - 1 \in 0..n /\ k \in 1..n /\ k \in 0..m
    BY <1>0
  <2>2. f[k].h = Append(f[k - 1].h, R(k))
    BY <1>7, <1>8, <2>1
  <2>3. f[k - 1].h \in Seq(Measurable(x))
    BY <1>2, <2>1 DEF SweepStates
  <2>4. R(k) \in Measurable(x) /\ R(k).c = points[k]
    BY <1>3, <1>4, <2>1
  <2> DEFINE i == Len(f[k - 1].h) + 1
  <2>5. i \in 1..Len(f[k].h) /\ f[k].h[i] = R(k)
    BY <2>2, <2>3, <2>4
  <2> DEFINE C == {points[j]: j \in 1..n}
  <2>6. Continues(x, f[n].h, f[k].h, C)
    <3>0. \A j \in 1..n: points[j] \in C
      OBVIOUS
    <3> HIDE DEF C
    <3>1. /\ SearchTyped(x) /\ History(x, h) /\ swept \in Seq(Measurable(x)) /\ n \in Nat
          /\ Len(points) = n /\ (\A j \in 1..n: points[j] \in Nat \ {0}) /\ gaps \in BOOLEAN
          /\ Sweeping(x, h, swept, points, gaps, f) /\ k \in 0..n
      BY <1>0, <1>1, <2>1
    <3> QED
      BY <3>0, <3>1, SweepContinues
  <2>7. f[k].h \in Seq(Measurable(x)) /\ g \in Seq(Measurable(x)) /\ Continues(x, g, f[k].h, C)
    BY <1>2, <2>1, <2>6 DEF SweepStates, Continues, History
  <2> HIDE DEF i, g
  <2>8. i \in 1..Len(g) /\ g[i] = f[k].h[i]
    BY <2>5, <2>7 DEF Continues
  <2> QED
    BY <2>4, <2>5, <2>8
<1> QED
  BY <1>9

\* How far the k-th point of a sweep has grown.
Powers == <<1, 2, 4, 8, 16, 32, 64, 128, 256, 512, 1024>>

\* They double.
LEMMA PowersAre ==
    /\ Powers[1] = 1 /\ \A k \in 1..11: Powers[k] \in Nat \ {0}
    /\ \A k \in 1..10: Powers[k + 1] = Powers[k] * 2
    /\ \A j, k \in 1..11: j < k => Powers[j] < Powers[k]
BY DEF Powers

\* The limit of a sweep.
LEMMA UpperIs ==
    ASSUME NEW x, SearchTyped(x)
    PROVE  Upper(x) \in 1..1024
<1>1. CASE x.max = None
  BY <1>1 DEF Upper, SweepMax
<1>2. CASE x.max # None
  <2>1. x.max \in Nat \ {0}
    BY <1>2 DEF SearchTyped
  <2>2. Upper(x) = Min({1024, x.max})
    BY <1>2 DEF Upper, SweepMax
  <2>3. Min({1024, x.max}) = IF 1024 <= x.max THEN 1024 ELSE x.max
    BY <2>1, MaxOf
  <2> QED
    BY <2>1, <2>2, <2>3
<1> QED
  BY <1>1, <1>2

\* The beginning of a sequence.
LEMMA PrefixIs ==
    ASSUME NEW S, NEW n \in Nat, NEW s, \A k \in 1..n: s[k] \in S
    PROVE  /\ SubSeq(s, 1, n) \in Seq(S) /\ Len(SubSeq(s, 1, n)) = n
           /\ \A k \in 1..n: SubSeq(s, 1, n)[k] = s[k]
<1> DEFINE g == SubSeq(s, 1, n)
<1>1. /\ g \in Seq(S) /\ Len(g) = IF 1 <= n THEN n - 1 + 1 ELSE 0
      /\ \A k \in 1..n - 1 + 1: g[k] = s[1 + k - 1]
  <2>1. 1 \in Int /\ n \in Int
    OBVIOUS
  <2> QED
    BY <2>1, SubSeqProperties
<1> HIDE DEF g
<1>2. n - 1 + 1 = n /\ \A k \in 1..n: 1 + k - 1 = k
  OBVIOUS
<1>3. Len(g) = n /\ \A k \in 1..n: g[k] = s[k]
  BY <1>1, <1>2
<1> QED
  BY <1>1, <1>3 DEF g

\* Growing points are those up to the limit, in order.
LEMMA GrownIs ==
    ASSUME NEW x, SearchTyped(x), NEW from \in Nat \ {0}
    PROVE  \E n \in 0..11:
             /\ Grown(from, x) \in Seq(Nat \ {0}) /\ Len(Grown(from, x)) = n
             /\ \A k \in 1..n: Grown(from, x)[k] = from * Powers[k]
             /\ \A k \in 1..11: from * Powers[k] <= Upper(x) <=> k \in 1..n
<1> DEFINE U == Upper(x)
<1> DEFINE Equal(f) == f = [k \in 1..SweepSteps |-> IF k = 1 THEN from ELSE f[k - 1] * Growth]
<1> DEFINE P == [k \in 1..11 |-> from * Powers[k]]
<1> DEFINE W == CHOOSE f: Equal(f)
<1>1. U \in Nat
  BY UpperIs
<1>2. Equal(P)
  <2>1. \A k \in 1..11: P[k] = IF k = 1 THEN from ELSE P[k - 1] * 2
    <3> SUFFICES ASSUME NEW k \in 1..11
                 PROVE  P[k] = IF k = 1 THEN from ELSE P[k - 1] * 2
      OBVIOUS
    <3>1. CASE k = 1
      BY <3>1, PowersAre
    <3>2. CASE k # 1
      <4>1. k - 1 \in 1..10 /\ k - 1 \in 1..11 /\ (k - 1) + 1 = k
        BY <3>2
      <4>2. Powers[k] = Powers[k - 1] * 2 /\ Powers[k - 1] \in Nat
        BY <4>1, PowersAre
      <4>3. from * (Powers[k - 1] * 2) = (from * Powers[k - 1]) * 2
        BY <4>2
      <4> QED
        BY <3>2, <4>1, <4>2, <4>3
    <3> QED
      BY <3>1, <3>2
  <2> QED
    BY <2>1 DEF SweepSteps, Growth
<1>3. Equal(W)
  <2> HIDE DEF Equal, P
  <2> QED
    BY <1>2
<1> HIDE DEF W
<1>4. W = P
  <2>1. /\ W = [k \in 1..11 |-> IF k = 1 THEN from ELSE W[k - 1] * 2]
        /\ P = [k \in 1..11 |-> IF k = 1 THEN from ELSE P[k - 1] * 2]
    BY <1>2, <1>3 DEF SweepSteps, Growth
  <2> HIDE DEF P, Equal
  <2> DEFINE A == {k \in 0..11: k = 0 \/ W[k] = P[k]}
  <2>2. \A k \in 0..11: k + 1 \in 0..11 /\ k \in A => k + 1 \in A
    <3> SUFFICES ASSUME NEW k \in 0..11, k + 1 \in 0..11, k \in A
                 PROVE  k + 1 \in A
      OBVIOUS
    <3>1. k + 1 \in 1..11 /\ (k + 1) - 1 = k
      OBVIOUS
    <3>2. W[k + 1] = IF k + 1 = 1 THEN from ELSE W[k] * 2
      BY <2>1, <3>1
    <3>3. P[k + 1] = IF k + 1 = 1 THEN from ELSE P[k] * 2
      BY <2>1, <3>1
    <3> QED
      BY <3>2, <3>3
  <2>3. 0..11 \subseteq A
    <3>1. 0 \in A
      OBVIOUS
    <3> HIDE DEF A
    <3> QED
      BY <2>2, <3>1, UpToN
  <2>4. \A k \in 1..11: W[k] = P[k]
    BY <2>3
  <2> QED
    BY <2>1, <2>4
<1> DEFINE S == {k \in 1..11: P[k] <= U}
<1>5. Grown(from, x) = SubSeq(P, 1, Cardinality(S))
  <2>1. Grown(from, x) = SubSeq(W, 1, Cardinality({k \in 1..11: W[k] <= U}))
    BY DEF Grown, W, SweepSteps
  <2> QED
    BY <1>4, <2>1
<1>6. /\ P \in Seq(Nat \ {0}) /\ Len(P) = 11 /\ DOMAIN P = 1..11
      /\ \A k \in 1..11: P[k] \in Nat \ {0}
      /\ \A j, k \in 1..11: P[k] \in Nat /\ (j < k => P[j] <= P[k])
  <2>1. \A k \in 1..11: from * Powers[k] \in Nat \ {0}
    BY PowersAre
  <2>2. \A j, k \in 1..11: j < k => from * Powers[j] <= from * Powers[k]
    <3> SUFFICES ASSUME NEW j \in 1..11, NEW k \in 1..11, j < k
                 PROVE  from * Powers[j] <= from * Powers[k]
      OBVIOUS
    <3>1. Powers[j] \in Int /\ Powers[k] \in Int /\ Powers[j] <= Powers[k]
      BY PowersAre
    <3>2. Powers[j] * from <= Powers[k] * from
      BY <3>1, ProductGrows
    <3>3. Powers[j] * from = from * Powers[j] /\ Powers[k] * from = from * Powers[k]
      BY <3>1
    <3> QED
      BY <3>2, <3>3
  <2>3. \A k \in 1..11: P[k] = from * Powers[k]
    OBVIOUS
  <2>4. P \in Seq(Nat \ {0}) /\ Len(P) = 11 /\ DOMAIN P = 1..11
    BY <2>1
  <2> HIDE DEF P
  <2>5. \A k \in 1..11: P[k] \in Nat \ {0}
    BY <2>1, <2>3
  <2>6. \A j, k \in 1..11: P[k] \in Nat /\ (j < k => P[j] <= P[k])
    BY <2>2, <2>3, <2>5
  <2> QED
    BY <2>4, <2>5, <2>6
<1>7. \A k \in 1..11: P[k] = from * Powers[k]
  OBVIOUS
<1> HIDE DEF P
<1>8. PICK n \in 0..11: S = 1..n
  <2>1. CASE S = {}
    BY <2>1
  <2>2. CASE S # {}
    <3>1. IsFiniteSet(S) /\ S \in SUBSET Int
      <4>1. IsFiniteSet(1..11)
        <5>1. 1 \in Int /\ 11 \in Int
          OBVIOUS
        <5> QED
          BY <5>1, FS_Interval, Zenon
      <4>2. S \subseteq 1..11
        OBVIOUS
      <4>3. S \in SUBSET Int
        BY <4>2
      <4> HIDE DEF S
      <4> QED
        BY <4>1, <4>2, <4>3, FS_Subset
    <3>2. Max(S) \in S /\ \A k \in S: k <= Max(S)
      <4> HIDE DEF S
      <4> QED
        BY <2>2, <3>1, GreatestOf
    <3>3. PICK n \in S: \A k \in S: k <= n
      <4> HIDE DEF S
      <4> QED
        BY <3>2
    <3>4. ASSUME NEW k \in 1..n
          PROVE  k \in S
      <4>1. k \in 1..11 /\ n \in 1..11 /\ (k < n \/ k = n)
        OBVIOUS
      <4>2. P[k] \in Nat /\ P[n] \in Nat /\ (k < n => P[k] <= P[n])
        BY <1>6, <4>1
      <4>3. P[n] <= U
        OBVIOUS
      <4> QED
        BY <1>1, <4>1, <4>2, <4>3
    <3>5. S = 1..n
      BY <3>3, <3>4
    <3>6. n \in 0..11
      OBVIOUS
    <3> QED
      BY <3>5, <3>6
  <2> QED
    BY <2>1, <2>2
<1>9. Cardinality(S) = n
  <2>1. Cardinality(1..n) = IF 1 > n THEN 0 ELSE n - 1 + 1
    BY FS_Interval
  <2>2. Cardinality(1..n) = n
    BY <2>1
  <2> HIDE DEF S
  <2> QED
    BY <1>8, <2>2
<1> DEFINE g == SubSeq(P, 1, n)
<1>10. g \in Seq(Nat \ {0}) /\ Len(g) = n /\ \A k \in 1..n: g[k] = P[k]
  <2>1. \A k \in 1..n: k \in 1..11
    OBVIOUS
  <2>2. \A k \in 1..n: P[k] \in Nat \ {0}
    BY <1>6, <2>1
  <2>3. n \in Nat
    OBVIOUS
  <2> QED
    BY <2>2, <2>3, PrefixIs
<1>11. \A k \in 1..11: k \in S <=> P[k] <= U
  OBVIOUS
<1>12. \A k \in 1..n: k \in 1..11
  OBVIOUS
<1> HIDE DEF S
<1>13. Grown(from, x) = g
  BY <1>5, <1>9
<1>14. \A k \in 1..n: g[k] = from * Powers[k]
  BY <1>7, <1>10, <1>12
<1>15. \A k \in 1..11: from * Powers[k] <= U <=> k \in 1..n
  <2>1. \A k \in 1..11: k \in S <=> from * Powers[k] <= U
    BY <1>7, <1>11
  <2> QED
    BY <1>8, <2>1
<1> HIDE DEF g, P
<1> QED
  BY <1>10, <1>13, <1>14, <1>15

\* The points of a throughput sweep: the grown ones and the limit, in order.
LEMMA PointsAre ==
    ASSUME NEW x, SearchTyped(x)
    PROVE  LET p == SweepPoints(x) IN
           /\ p \in Seq(Nat \ {0}) /\ Len(p) \in Nat \ {0}
           /\ \A k \in 1..Len(p): p[k] <= Upper(x)
           /\ \A j, k \in 1..Len(p): j < k => p[j] < p[k]
           /\ \A c \in ToSet(Grown(SweepStart, x)) \cup {Upper(x)}: \E k \in 1..Len(p): p[k] = c
           /\ \A k \in 1..Len(p): p[k] \in ToSet(Grown(SweepStart, x)) \cup {Upper(x)}
<1> DEFINE g == Grown(SweepStart, x)
<1> DEFINE U == Upper(x)
<1> DEFINE p == SweepPoints(x)
<1>1. U \in Nat \ {0}
  BY UpperIs
<1>2. PICK n \in 0..11: /\ g \in Seq(Nat \ {0}) /\ Len(g) = n
                        /\ \A k \in 1..n: g[k] = 4 * Powers[k]
                        /\ \A k \in 1..11: 4 * Powers[k] <= U <=> k \in 1..n
  BY GrownIs DEF SweepStart
<1>3. /\ g \in Seq(Nat \ {0}) /\ Len(g) = n /\ n \in Nat /\ DOMAIN g = 1..n
      /\ \A k \in 1..n: g[k] \in Nat \ {0} /\ g[k] <= U
      /\ \A j, k \in 1..n: j < k => g[j] < g[k]
  <2>1. \A k \in 1..n: k \in 1..11 /\ g[k] = 4 * Powers[k]
    BY <1>2
  <2>2. ASSUME NEW j \in 1..n, NEW k \in 1..n, j < k
        PROVE  g[j] < g[k]
    <3>1. Powers[j] < Powers[k] /\ Powers[j] \in Nat /\ Powers[k] \in Nat
      BY <2>1, <2>2, PowersAre
    <3>2. g[j] = 4 * Powers[j] /\ g[k] = 4 * Powers[k]
      BY <2>1
    <3> QED
      BY <3>1, <3>2
  <2>3. \A k \in 1..n: g[k] <= U
    BY <1>2, <2>1
  <2>4. \A k \in 1..n: g[k] \in Nat \ {0}
    BY <2>1, PowersAre
  <2>5. n \in Nat /\ DOMAIN g = 1..n
    BY <1>2
  <2> QED
    BY <1>2, <2>2, <2>3, <2>4, <2>5
<1>4. ToSet(g) = {g[k]: k \in 1..n}
  BY <1>3 DEF ToSet
<1>5. p = IF g = <<>> \/ g[Len(g)] < U THEN Append(g, U) ELSE g
  BY DEF SweepPoints
<1> HIDE DEF g, U, p
<1>6. CASE g = <<>> \/ g[Len(g)] < U
  <2>1. p = Append(g, U)
    BY <1>5, <1>6
  <2>2. /\ p \in Seq(Nat \ {0}) /\ Len(p) = n + 1 /\ p[n + 1] = U
        /\ \A k \in 1..n: p[k] = g[k]
    BY <1>1, <1>3, <2>1
  <2>3. \A k \in 1..n: g[k] < U
    <3>1. CASE n = 0
      BY <3>1
    <3>2. CASE n # 0
      <4>1. g # <<>> /\ n \in 1..n
        BY <1>3, <3>2
      <4>2. g[n] < U /\ g[n] \in Nat
        BY <1>3, <1>6, <4>1
      <4>3. \A k \in 1..n: k = n \/ g[k] < g[n]
        BY <1>3, <4>1
      <4> QED
        BY <1>1, <1>3, <4>2, <4>3
    <3> QED
      BY <3>1, <3>2
  <2>4. \A k \in 1..n + 1: k \in 1..n \/ k = n + 1
    BY <1>3
  <2>5. n + 1 \in 1..n + 1 /\ \A k \in 1..n: k \in 1..n + 1
    BY <1>3
  <2>6. \A k \in 1..Len(p): p[k] <= U /\ p[k] \in ToSet(g) \cup {U}
    BY <1>1, <1>3, <1>4, <2>2, <2>4
  <2>7. \A j, k \in 1..Len(p): j < k => p[j] < p[k]
    BY <1>1, <1>3, <2>2, <2>3, <2>4
  <2>8. \A c \in ToSet(g) \cup {U}: \E k \in 1..Len(p): p[k] = c
    BY <1>4, <2>2, <2>5
  <2> QED
    BY <1>3, <2>2, <2>6, <2>7, <2>8 DEF g, U, p
<1>7. CASE ~(g = <<>> \/ g[Len(g)] < U)
  <2>1. p = g
    BY <1>5, <1>7
  <2>2. n # 0 /\ n \in 1..n /\ g[n] = U
    <3>1. n # 0
      BY <1>3, <1>7
    <3>2. n \in 1..n
      BY <1>3, <3>1
    <3> QED
      BY <1>1, <1>3, <1>7, <3>1, <3>2
  <2>3. \A c \in ToSet(g) \cup {U}: \E k \in 1..Len(p): p[k] = c
    BY <1>3, <1>4, <2>1, <2>2
  <2>4. \A k \in 1..Len(p): p[k] \in ToSet(g) \cup {U}
    BY <1>3, <1>4, <2>1
  <2> QED
    BY <1>3, <2>1, <2>2, <2>3, <2>4 DEF g, U, p
<1> QED
  BY <1>6, <1>7

\* A best point of a sorted sequence is one of it.
LEMMA BestIsPoint ==
    ASSUME NEW v, NEW n \in Nat \ {0}, DOMAIN v = 1..n, \A i \in 1..n: v[i].tps \in Nat
    PROVE  BestPoint(v) \in 1..n
<1> DEFINE T == {v[i].tps: i \in 1..n}
<1> DEFINE B == {i \in DOMAIN v: \A j \in DOMAIN v: v[j].tps <= v[i].tps}
<1>1. T \in SUBSET Int /\ T # {} /\ IsFiniteSet(T)
  <2>1. IsFiniteSet(1..n)
    <3>1. 1 \in Int /\ n \in Int
      OBVIOUS
    <3> QED
      BY <3>1, FS_Interval
  <2>2. IsFiniteSet(T)
    <3> DEFINE f == [i \in 1..n |-> v[i].tps]
    <3>1. f \in Surjection(1..n, T)
      BY DEF Surjection
    <3> HIDE DEF f, T
    <3> QED
      BY <2>1, <3>1, FS_Surjection
  <2>3. 1 \in 1..n
    OBVIOUS
  <2> QED
    BY <2>2, <2>3
<1>2. Max(T) \in T /\ \A t \in T: t <= Max(T)
  <2> HIDE DEF T
  <2> QED
    BY <1>1, GreatestOf
<1>3. PICK i \in 1..n: v[i].tps = Max(T)
  BY <1>2
<1>4. \A j \in 1..n: v[j].tps \in T
  OBVIOUS
<1> HIDE DEF T
<1>5. \A j \in 1..n: v[j].tps <= v[i].tps
  BY <1>2, <1>3, <1>4
<1>6. i \in B /\ B \in SUBSET Nat /\ B \subseteq 1..n
  BY <1>5
<1>7. Min(B) \in B
  <2> HIDE DEF B
  <2> QED
    BY <1>6, LeastOf
<1>8. BestPoint(v) = Min(B)
  BY DEF BestPoint
<1> HIDE DEF B
<1> QED
  BY <1>6, <1>7, <1>8

\* Refining adds results of concurrencies between those that were measured.
LEMMA RefinedContinues ==
    ASSUME NEW x, SearchTyped(x), NEW h, History(x, h), NEW top \in Nat,
           \A i \in 1..Len(h): h[i].c <= top
    PROVE  Continues(x, Widened(x, h), h, 1..top)
<1> DEFINE v == SortedValid(h)
<1> DEFINE I == {i \in DOMAIN h: ~h[i].none}
<1> DEFINE n == Len(v)
<1>1. /\ h \in Seq(Measurable(x)) /\ Len(h) \in Nat /\ DOMAIN h = 1..Len(h)
      /\ \A i \in 1..Len(h): h[i] \in Measurable(x)
  BY DEF History
<1>2. \A i \in 1..Len(h): h[i].c \in Nat \ {0} /\ h[i].c <= top /\ h[i].tps \in Nat
  BY <1>1, MeasurableIs
<1>3. Sorts(h, I, v)
  <2>1. I \in SUBSET (1..Len(h)) /\ \A i \in 1..Len(h): h[i].c \in Nat
    BY <1>1, <1>2
  <2>2. v = ByConcurrency(h, I)
    BY DEF SortedValid
  <2> HIDE DEF I, v
  <2> QED
    BY <1>1, <2>1, <2>2, SortedIs
<1>4. /\ n \in Nat /\ DOMAIN v = 1..n
      /\ \A k \in 1..n: v[k].c \in Nat \ {0} /\ v[k].c <= top /\ v[k].tps \in Nat
  <2>1. n \in Nat /\ DOMAIN v = 1..n /\ \A k \in 1..n: \E i \in I: v[k] = h[i]
    BY <1>3 DEF Sorts
  <2>2. \A i \in I: i \in 1..Len(h)
    BY <1>1
  <2> HIDE DEF v, I
  <2> QED
    BY <1>2, <2>1, <2>2
<1> HIDE DEF v, I
<1>5. Continues(x, h, h, 1..top)
  BY <1>1 DEF Continues
<1>6. ASSUME NEW g, Continues(x, g, h, 1..top), NEW c \in Nat, c <= top
      PROVE  Continues(x, Tried(x, g, v, c), h, 1..top)
  <2>1. CASE c > 0 /\ \A i \in DOMAIN v: v[i].c # c
    <3>1. Tried(x, g, v, c) = Noted(g, Point(x, g, c))
      BY <2>1 DEF Tried
    <3>2. History(x, g) /\ c \in Nat \ {0} /\ {c} \subseteq 1..top
      BY <1>6, <2>1 DEF Continues
    <3>3. Continues(x, Noted(g, Point(x, g, c)), g, {c})
      BY <3>2, PointNoted
    <3>4. Continues(x, Noted(g, Point(x, g, c)), g, 1..top)
      BY <3>2, <3>3 DEF Continues
    <3> QED
      BY <1>1, <1>6, <3>1, <3>4, ContinuesOn
  <2>2. CASE ~(c > 0 /\ \A i \in DOMAIN v: v[i].c # c)
    <3>1. Tried(x, g, v, c) = g
      BY <2>2 DEF Tried
    <3> QED
      BY <1>6, <3>1
  <2> QED
    BY <2>1, <2>2
<1> DEFINE at == BestPoint(v)
<1> DEFINE Between(g, j) ==
               IF j \in DOMAIN v THEN Tried(x, g, v, (v[at].c + v[j].c) \div 2) ELSE g
<1>7. Widened(x, h) = IF n < 2 THEN h ELSE Between(Between(h, at + 1), at - 1)
  BY DEF Widened, Refined, v
<1>8. CASE n < 2
  BY <1>5, <1>7, <1>8
<1>9. CASE ~(n < 2)
  <2>1. at \in 1..n
    <3>1. n \in Nat \ {0}
      BY <1>4, <1>9
    <3> QED
      BY <1>4, <3>1, BestIsPoint
  <2> HIDE DEF at
  <2>2. ASSUME NEW g, Continues(x, g, h, 1..top), NEW j
        PROVE  Continues(x, Between(g, j), h, 1..top)
    <3>1. CASE j \in DOMAIN v
      <4> DEFINE c == (v[at].c + v[j].c) \div 2
      <4>1. c \in Nat /\ c <= top
        BY <1>4, <2>1, <3>1
      <4>2. Between(g, j) = Tried(x, g, v, c)
        BY <3>1
      <4> HIDE DEF c, Between
      <4> QED
        BY <1>6, <2>2, <4>1, <4>2
    <3>2. CASE j \notin DOMAIN v
      BY <2>2, <3>2
    <3> QED
      BY <3>1, <3>2
  <2> HIDE DEF Between
  <2>3. Continues(x, Between(h, at + 1), h, 1..top)
    BY <1>5, <2>2
  <2>4. Continues(x, Between(Between(h, at + 1), at - 1), h, 1..top)
    BY <2>2, <2>3
  <2> QED
    BY <1>7, <1>9, <2>4
<1> QED
  BY <1>8, <1>9

\* The load of stage A.
LEMMA StageAIs ==
    ASSUME NEW x, SearchTyped(x)
    PROVE  StageAConcurrency(x) \in Nat \ {0}
<1>1. CASE x.expected # None
  BY <1>1 DEF SearchTyped, StageAConcurrency
<1>2. CASE x.expected = None /\ x.objective = "latency"
  BY <1>2 DEF StageAConcurrency, LatencyConcurrency
<1>3. CASE x.expected = None /\ x.objective # "latency"
  <2> DEFINE cap == IF x.max # None THEN x.max ELSE x.seqs * x.replicas
  <2> DEFINE half == cap \div 2
  <2> DEFINE least == Min({256, half})
  <2>1. StageAConcurrency(x) = Max({8, 2 * x.replicas, least})
    BY <1>3 DEF StageAConcurrency
  <2>2. x.replicas \in Nat /\ x.seqs \in Nat /\ (x.max # None => x.max \in Nat)
    BY DEF SearchTyped
  <2>3. cap \in Nat
    BY <2>2
  <2> HIDE DEF cap
  <2>4. half \in Int
    BY <2>3
  <2> HIDE DEF half
  <2>5. least \in Int
    <3>1. least = IF 256 <= half THEN 256 ELSE half
      BY <2>4, MaxOf
    <3> QED
      BY <2>4, <3>1
  <2> HIDE DEF least
  <2>6. 2 * x.replicas \in Int
    BY <2>2
  <2> DEFINE m == Max({8, 2 * x.replicas, least})
  <2>7. m \in {8, 2 * x.replicas, least} /\ m >= 8
    <3>1. \A a, b, c \in Int: Max({a, b, c}) \in {a, b, c} /\ Max({a, b, c}) >= a
      BY MaxOf
    <3>2. PICK b \in Int: b = 2 * x.replicas
      BY <2>6
    <3>3. 8 \in Int
      OBVIOUS
    <3>4. Max({8, b, least}) \in {8, b, least} /\ Max({8, b, least}) >= 8
      BY <2>5, <3>1, <3>3, Zenon
    <3> QED
      BY <3>2, <3>4
  <2> HIDE DEF m
  <2>8. m \in Nat \ {0}
    BY <2>5, <2>6, <2>7
  <2> QED
    BY <2>1, <2>8 DEF m
<1> QED
  BY <1>1, <1>2, <1>3

\* Stage A leaves one result, or none.
LEMMA StageAHistory ==
    ASSUME NEW x, SearchTyped(x)
    PROVE  LET h == StageA(x) IN
           /\ History(x, h)
           /\ \A i \in 1..Len(h): h[i].label = "A" /\ h[i].c = StageAConcurrency(x)
<1> DEFINE c == StageAConcurrency(x)
<1> DEFINE r == Measured(x, c, "A")
<1>1. c \in Nat \ {0}
  BY StageAIs
<1> HIDE DEF c
<1>2. StageA(x) = IF r = None THEN <<>> ELSE Append(<<>>, r)
  BY DEF StageA, Noted, c
<1>3. CASE r = None
  <2>1. StageA(x) = <<>>
    BY <1>2, <1>3
  <2>2. <<>> \in Seq(Measurable(x)) /\ Len(<<>>) = 0
    OBVIOUS
  <2> QED
    BY <2>1, <2>2 DEF History
<1>4. CASE r # None
  <2>1. r \in Measurable(x) /\ r.label = "A" /\ r.c = c
    BY <1>1, <1>4, MeasuredIs DEF Measurable
  <2>2. StageA(x) = <<r>>
    BY <1>2, <1>4
  <2> HIDE DEF r
  <2>3. <<r>> \in Seq(Measurable(x)) /\ Len(<<r>>) = 1 /\ <<r>>[1] = r
    BY <2>1
  <2> QED
    BY <2>1, <2>2, <2>3 DEF History, c
<1> QED
  BY <1>3, <1>4

\* A sweep adds results of its points.
LEMMA SweepAdds ==
    ASSUME NEW x, SearchTyped(x), NEW h, History(x, h), NEW swept \in Seq(Measurable(x)),
           NEW points, NEW n \in Nat, Len(points) = n, \A k \in 1..n: points[k] \in Nat \ {0},
           NEW gaps \in BOOLEAN, NEW C, \A k \in 1..n: points[k] \in C
    PROVE  Continues(x, SweepOver(x, h, swept, points, gaps), h, C)
<1>1. PICK f: Sweeping(x, h, swept, points, gaps, f)
  BY SweepStepped
<1>2. 0 \in 0..n
  OBVIOUS
<1>3. Continues(x, f[n].h, f[0].h, C)
  BY <1>1, <1>2, SweepContinues
<1>4. SweepOver(x, h, swept, points, gaps) = f[n].h /\ f[0].h = h
  BY <1>1 DEF Sweeping
<1> QED
  BY <1>3, <1>4

\* Planning's Gaining, of any search.
GainingIn(x, C) ==
    /\ \A c \in C: Measured(x, c, "B") # None /\ EligibleResult(Measured(x, c, "B"), x.slo)
    /\ \A c, d \in C: c < d /\ ~(\E e \in C: c < e /\ e < d) =>
         ~SmallGain(Measured(x, c, "B"), Measured(x, d, "B"))

\* The points up to one are a climb when they gain.
LEMMA GainingClimbs ==
    ASSUME NEW x, NEW n \in Nat, NEW p, \A k \in 1..n: p[k] \in Nat,
           \A j, k \in 1..n: j < k => p[j] < p[k],
           NEW m \in 1..n, NEW C, \A k \in 1..m: p[k] \in C, \A c \in C: \E k \in 1..m: p[k] = c,
           GainingIn(x, C)
    PROVE  Climbs(x, p, m)
<1>1. ASSUME NEW k \in 1..(m - 1)
      PROVE  ~SmallGain(Measured(x, p[k], "B"), Measured(x, p[k + 1], "B"))
  <2>1. k \in 1..m /\ k + 1 \in 1..m /\ k \in 1..n /\ k + 1 \in 1..n
    OBVIOUS
  <2>2. p[k] \in C /\ p[k + 1] \in C /\ p[k] < p[k + 1]
    BY <2>1
  <2>3. ASSUME NEW e \in C, p[k] < e, e < p[k + 1]
        PROVE  FALSE
    <3>1. PICK j \in 1..m: p[j] = e
      OBVIOUS
    <3>2. j \in 1..n /\ (j < k \/ j = k \/ j = k + 1 \/ k + 1 < j)
      BY <2>1
    <3>3. p[j] \in Nat /\ p[k] \in Nat /\ p[k + 1] \in Nat
      BY <2>1, <3>2
    <3>4. (j < k => p[j] < p[k]) /\ (k + 1 < j => p[k + 1] < p[j])
      BY <2>1, <3>2
    <3> QED
      BY <2>3, <3>1, <3>2, <3>3, <3>4
  <2> QED
    BY <2>2, <2>3 DEF GainingIn
<1>2. \A k \in 1..m: /\ Measured(x, p[k], "B") # None
                     /\ EligibleResult(Measured(x, p[k], "B"), x.slo)
  BY DEF GainingIn
<1> QED
  BY <1>1, <1>2 DEF Climbs

\* The sweep g measures each point of the grid up to which the engine keeps gaining.
FindsGaining(x, grid, g) ==
    \A c \in grid: GainingIn(x, {d \in grid: d <= c}) => \E i \in 1..Len(g): g[i].c = c

\* By throughput: the sweep goes up the points, and what is refined is between them.
LEMMA ThroughputSearched ==
    ASSUME NEW x, SearchTyped(x), NEW h, h = StageA(x)
    PROVE  LET g == SweepThroughput(x, h)
               grid == ToSet(Grown(SweepStart, x)) \cup {Upper(x)}
           IN /\ History(x, g)
              /\ \A i \in 1..Len(g): g[i].c <= Max({Upper(x), StageAConcurrency(x)})
              /\ FindsGaining(x, grid, g)
<1> DEFINE U == Upper(x)
<1> DEFINE A == StageAConcurrency(x)
<1> DEFINE top == Max({U, A})
<1> DEFINE grid == ToSet(Grown(SweepStart, x)) \cup {U}
<1> DEFINE p == SweepPoints(x)
<1> DEFINE n == Len(p)
<1> DEFINE s == SweepOver(x, h, <<>>, p, TRUE)
<1> DEFINE g == Widened(x, s)
<1>1. /\ p \in Seq(Nat \ {0}) /\ n \in Nat \ {0} /\ \A k \in 1..n: p[k] \in Nat \ {0}
      /\ \A k \in 1..n: p[k] <= U
      /\ \A j, k \in 1..n: j < k => p[j] < p[k]
      /\ \A c \in grid: \E k \in 1..n: p[k] = c
      /\ \A k \in 1..n: p[k] \in grid
  BY PointsAre
<1>2. U \in Nat \ {0} /\ A \in Nat \ {0}
  BY UpperIs, StageAIs
<1>3. History(x, h) /\ \A i \in 1..Len(h): h[i].label = "A" /\ h[i].c = A
  BY StageAHistory
<1>4. SweepThroughput(x, h) = g
  BY DEF SweepThroughput
<1> HIDE DEF U, A, p, grid
<1>5. top \in Nat /\ U <= top /\ A <= top
  <2>1. top = IF U >= A THEN U ELSE A
    BY <1>2, MaxOf
  <2> QED
    BY <1>2, <2>1
<1> HIDE DEF top, n
<1>6. <<>> \in Seq(Measurable(x)) /\ Len(<<>>) = 0 /\ n \in Nat /\ Len(p) = n /\ TRUE \in BOOLEAN
  BY <1>1 DEF n
<1>7. Continues(x, s, h, 1..top)
  <2>1. \A k \in 1..n: p[k] \in 1..top
    BY <1>1, <1>2, <1>5
  <2> QED
    BY <1>1, <1>3, <1>6, <2>1, SweepAdds
<1> HIDE DEF s
<1>8. History(x, s) /\ s \in Seq(Measurable(x)) /\ Len(s) \in Nat
  BY <1>7 DEF Continues, History
<1>9. \A i \in 1..Len(s): s[i].c <= top
  <2> SUFFICES ASSUME NEW i \in 1..Len(s)
               PROVE  s[i].c <= top
    OBVIOUS
  <2>1. CASE i <= Len(h)
    <3>1. i \in 1..Len(h)
      BY <1>3, <2>1 DEF History
    <3>2. s[i] = h[i] /\ h[i].c = A
      BY <1>3, <1>7, <3>1 DEF Continues
    <3> QED
      BY <1>5, <3>2
  <2>2. CASE ~(i <= Len(h))
    <3>1. s[i].c \in 1..top
      BY <1>7, <2>2 DEF Continues
    <3> QED
      BY <1>5, <3>1
  <2> QED
    BY <2>1, <2>2
<1>10. Continues(x, g, s, 1..top)
  BY <1>5, <1>8, <1>9, RefinedContinues
<1> HIDE DEF g
<1>11. History(x, g) /\ Len(g) \in Nat
  BY <1>10 DEF Continues, History
<1>12. \A i \in 1..Len(g): g[i].c <= top
  <2> SUFFICES ASSUME NEW i \in 1..Len(g)
               PROVE  g[i].c <= top
    OBVIOUS
  <2>1. CASE i <= Len(s)
    <3>1. i \in 1..Len(s)
      BY <1>8, <2>1
    <3> QED
      BY <1>9, <1>10, <3>1 DEF Continues
  <2>2. CASE ~(i <= Len(s))
    <3>1. g[i].c \in 1..top
      BY <1>10, <2>2 DEF Continues
    <3> QED
      BY <1>5, <3>1
  <2> QED
    BY <2>1, <2>2
<1>13. ASSUME NEW c \in grid, GainingIn(x, {d \in grid: d <= c})
       PROVE  \E i \in 1..Len(g): g[i].c = c
  <2>1. PICK m \in 1..n: p[m] = c
    BY <1>1
  <2> DEFINE C == {d \in grid: d <= c}
  <2>2. \A k \in 1..m: p[k] \in C
    <3> SUFFICES ASSUME NEW k \in 1..m
                 PROVE  p[k] \in C
      OBVIOUS
    <3>1. k \in 1..n /\ m \in 1..n /\ (k = m \/ k < m)
      BY <1>6
    <3>2. p[k] \in grid /\ (k < m => p[k] < p[m]) /\ p[k] \in Nat /\ p[m] \in Nat
      BY <1>1, <3>1
    <3> QED
      BY <2>1, <3>1, <3>2
  <2>3. ASSUME NEW d \in C
        PROVE  \E k \in 1..m: p[k] = d
    <3>1. PICK k \in 1..n: p[k] = d
      BY <1>1
    <3>2. ~(m < k)
      <4> SUFFICES ASSUME m < k
                   PROVE  FALSE
        OBVIOUS
      <4>1. p[m] < p[k] /\ p[m] \in Nat /\ p[k] \in Nat
        BY <1>1
      <4> QED
        BY <2>1, <3>1, <4>1
    <3>3. k \in 1..m
      BY <1>6, <3>2
    <3> QED
      BY <3>1, <3>3
  <2> HIDE DEF C
  <2>4. /\ n \in Nat /\ (\A k \in 1..n: p[k] \in Nat) /\ (\A j, k \in 1..n: j < k => p[j] < p[k])
        /\ GainingIn(x, C)
    BY <1>1, <1>6, <1>13 DEF C
  <2>5. Climbs(x, p, m)
    BY <2>2, <2>3, <2>4, GainingClimbs
  <2>6. Ahead(x, h, <<>>, p)
    BY <1>1, <1>3, <1>6 DEF Ahead
  <2>7. \A k \in 1..m: \E i \in 1..Len(s): s[i].c = p[k]
    <3>1. CanSweep(x, h, <<>>, p) /\ m \in 1..Len(p)
      BY <1>1, <1>3, <1>6 DEF CanSweep
    <3>2. ASSUME NEW gaps \in BOOLEAN
          PROVE  LET t == SweepOver(x, h, <<>>, p, gaps) IN
                 \A k \in 1..m: \E i \in 1..Len(t): t[i].c = p[k]
      BY <2>5, <2>6, <3>1, ClimbMeasured
    <3> QED
      BY <3>2 DEF s
  <2>8. PICK i \in 1..Len(s): s[i].c = p[m]
    BY <2>7
  <2>9. i \in 1..Len(g) /\ g[i] = s[i]
    BY <1>8, <1>10, <1>11 DEF Continues
  <2> QED
    BY <2>1, <2>8, <2>9
<1>14. FindsGaining(x, grid, g)
  BY <1>13 DEF FindsGaining
<1> QED
  BY <1>4, <1>11, <1>12, <1>14 DEF top, grid, U, A

\* What is measured does not depend on the stage that measures it.
LEMMA SameMeasured ==
    ASSUME NEW x, SearchTyped(x), NEW r \in Measurable(x)
    PROVE  r.tps = Measured(x, r.c, "B").tps
<1>1. PICK c \in Nat \ {0}, l \in {"A", "B"}: r = Measured(x, c, l) /\ r # None
  BY DEF Measurable
<1>2. r.c = c
  BY <1>1, MeasuredIs
<1> DEFINE known == {d \in DOMAIN x.engine: d <= c}
<1> DEFINE e == x.engine[IF known = {} THEN Min(DOMAIN x.engine) ELSE Max(known)]
<1>3. \A m: Measured(x, c, m) = IF e = None THEN None
                                ELSE [c |-> c, label |-> m, tps |-> e.tps, lat |-> e.lat,
                                      ttft |-> e.ttft, err |-> e.err, none |-> e.none]
  BY DEF Measured
<1> HIDE DEF e
<1>4. e # None
  BY <1>1, <1>3
<1>5. Measured(x, c, "B").tps = e.tps /\ Measured(x, c, l).tps = e.tps
  BY <1>3, <1>4
<1> QED
  BY <1>1, <1>2, <1>5

\* By latency, under limits: the sweep goes up from where the workload operates.
LEMMA LatencySearched ==
    ASSUME NEW x, SearchTyped(x), NEW h, h = StageA(x), NEW base \in Nat \ {0}
    PROVE  LET g == SweepLatency(x, h, base)
               grid == ToSet(Grown(base, x))
           IN /\ History(x, g)
              /\ HasSlo(x.slo) =>
                   \A c \in grid: GainingIn(x, {d \in grid: d <= c}) => \E i \in 1..Len(g): g[i].c = c
<1> DEFINE grid == ToSet(Grown(base, x))
<1> DEFINE f == Noted(h, Point(x, h, base))
<1> DEFINE p == Grown(base * Growth, x)
<1> DEFINE I == {i \in DOMAIN f: f[i].c = base}
<1> DEFINE w == ByConcurrency(f, I)
<1> DEFINE g == SweepLatency(x, h, base)
<1>1. History(x, h) /\ \A i \in 1..Len(h): h[i].label = "A"
  BY StageAHistory
<1>2. /\ Continues(x, f, h, {base})
      /\ Measured(x, base, "B") # None => \E i \in 1..Len(f): f[i].c = base
  BY <1>1, PointNoted
<1>3. g = IF HasSlo(x.slo) THEN SweepOver(x, f, w, p, FALSE) ELSE f
  BY DEF SweepLatency, Operated
<1> HIDE DEF f
<1>4. /\ History(x, f) /\ f \in Seq(Measurable(x)) /\ Len(f) \in Nat /\ DOMAIN f = 1..Len(f)
      /\ \A i \in 1..Len(f): f[i] \in Measurable(x) /\ f[i].c \in Nat
      /\ \A i \in 1..Len(f): f[i].label = "B" => f[i].c = base
  <2>1. History(x, f) /\ f \in Seq(Measurable(x)) /\ Len(f) \in Nat /\ DOMAIN f = 1..Len(f)
        /\ \A i \in 1..Len(f): f[i] \in Measurable(x)
    BY <1>2 DEF Continues, History
  <2>2. \A i \in 1..Len(f): f[i].c \in Nat
    BY <2>1, MeasurableIs
  <2>3. \A i \in 1..Len(f): f[i].label = "B" => f[i].c = base
    <3> SUFFICES ASSUME NEW i \in 1..Len(f), f[i].label = "B"
                 PROVE  f[i].c = base
      OBVIOUS
    <3>1. Len(h) \in Nat
      BY <1>1 DEF History
    <3>2. ~(i <= Len(h))
      <4> SUFFICES ASSUME i <= Len(h)
                   PROVE  FALSE
        OBVIOUS
      <4>1. i \in 1..Len(h)
        BY <2>1, <3>1
      <4>2. f[i] = h[i] /\ h[i].label = "A"
        BY <1>1, <1>2, <4>1 DEF Continues
      <4> QED
        BY <4>2
    <3> QED
      BY <1>2, <3>2 DEF Continues
  <2> QED
    BY <2>1, <2>2, <2>3
<1>5. CASE ~HasSlo(x.slo)
  BY <1>3, <1>4, <1>5
<1>6. CASE HasSlo(x.slo)
  <2>1. Sorts(f, I, w)
    <3>1. I \in SUBSET (1..Len(f)) /\ \A i \in 1..Len(f): f[i].c \in Nat
      BY <1>4
    <3> HIDE DEF I
    <3> QED
      BY <1>4, <3>1, SortedIs
  <2>2. /\ w \in Seq(Measurable(x)) /\ Len(w) \in Nat
        /\ \A k \in 1..Len(w): w[k] \in Measurable(x) /\ w[k].c = base
    <3>1. /\ w \in Seq({f[i]: i \in I}) /\ Len(w) \in Nat /\ DOMAIN w = 1..Len(w)
          /\ \A k \in 1..Len(w): \E i \in I: w[k] = f[i]
      BY <2>1 DEF Sorts
    <3>2. \A i \in I: f[i] \in Measurable(x) /\ f[i].c = base
      BY <1>4
    <3> HIDE DEF w, I
    <3>3. \A k \in 1..Len(w): w[k] \in Measurable(x) /\ w[k].c = base
      BY <3>1, <3>2
    <3> QED
      BY <3>1, <3>3
  <2> HIDE DEF w, I
  <2>3. base * Growth \in Nat \ {0} /\ base * Growth = 2 * base
    BY DEF Growth
  <2>4. PICK n \in 0..11: /\ Grown(base, x) \in Seq(Nat \ {0}) /\ Len(Grown(base, x)) = n
                          /\ \A k \in 1..n: Grown(base, x)[k] = base * Powers[k]
                          /\ \A k \in 1..11: base * Powers[k] <= Upper(x) <=> k \in 1..n
    BY GrownIs
  <2>5. PICK m \in 0..11: /\ p \in Seq(Nat \ {0}) /\ Len(p) = m
                          /\ \A k \in 1..m: p[k] = (base * Growth) * Powers[k]
                          /\ \A k \in 1..11: (base * Growth) * Powers[k] <= Upper(x) <=> k \in 1..m
    BY <2>3, GrownIs
  <2> HIDE DEF p
  <2> DEFINE u == Grown(base, x)
  <2>6. /\ n \in Nat /\ Len(u) = n /\ \A k \in 1..n: u[k] \in Nat \ {0} /\ u[k] = base * Powers[k]
        /\ \A j, k \in 1..n: j < k => u[j] < u[k]
        /\ grid = {u[k]: k \in 1..n}
    <3>1. \A k \in 1..n: k \in 1..11
      BY <2>4
    <3>2. \A j, k \in 1..n: j < k => base * Powers[j] < base * Powers[k]
      <4> SUFFICES ASSUME NEW j \in 1..n, NEW k \in 1..n, j < k
                   PROVE  base * Powers[j] < base * Powers[k]
        OBVIOUS
      <4>1. Powers[j] \in Nat /\ Powers[k] \in Nat /\ Powers[j] < Powers[k]
        BY <3>1, PowersAre
      <4>2. PICK a \in Nat, b \in Nat: a = Powers[j] /\ b = Powers[k] /\ a < b
        BY <4>1
      <4>3. base * a < base * b
        BY <4>2
      <4> QED
        BY <4>2, <4>3
    <3>3. n \in Nat
      OBVIOUS
    <3>4. /\ u \in Seq(Nat \ {0}) /\ Len(u) = n /\ DOMAIN u = 1..n
          /\ \A k \in 1..n: u[k] = base * Powers[k]
      BY <2>4, <3>3
    <3>5. grid = {u[k]: k \in 1..n}
      BY <3>4 DEF ToSet
    <3> HIDE DEF u, grid
    <3>6. \A k \in 1..n: u[k] \in Nat \ {0}
      BY <3>4
    <3>7. \A j, k \in 1..n: j < k => u[j] < u[k]
      BY <3>2, <3>4
    <3> QED
      BY <3>3, <3>4, <3>5, <3>6, <3>7
  <2>7. \A k \in 1..m: k + 1 \in 1..n /\ p[k] = u[k + 1] /\ p[k] \in Nat \ {0} /\ base < p[k]
    <3> SUFFICES ASSUME NEW k \in 1..m
                 PROVE  k + 1 \in 1..n /\ p[k] = u[k + 1] /\ p[k] \in Nat \ {0} /\ base < p[k]
      OBVIOUS
    <3>1. k \in 1..11 /\ p[k] = (base * Growth) * Powers[k] /\ p[k] <= Upper(x)
      <4>1. k \in 1..11
        BY <2>5
      <4>2. p[k] = (base * Growth) * Powers[k] /\ (base * Growth) * Powers[k] <= Upper(x)
        BY <2>5, <4>1
      <4> QED
        BY <4>1, <4>2
    <3>2. Upper(x) \in 1..1024 /\ Powers[k] \in Nat \ {0}
      BY <3>1, UpperIs, PowersAre
    <3>3. k \in 1..10
      <4> SUFFICES ASSUME k = 11
                   PROVE  FALSE
        BY <3>1
      <4>1. Powers[11] = 1024
        BY DEF Powers
      <4> QED
        BY <3>1, <3>2, <4>1 DEF Growth
    <3>4. Powers[k + 1] = Powers[k] * 2 /\ k + 1 \in 1..11
      BY <3>3, PowersAre
    <3>5. PICK a \in Nat \ {0}: a = Powers[k]
      BY <3>2
    <3>6. (base * 2) * a = base * (a * 2) /\ base < (base * 2) * a
      OBVIOUS
    <3>7. p[k] = base * Powers[k + 1] /\ base < p[k]
      BY <3>1, <3>4, <3>5, <3>6 DEF Growth
    <3>8. k + 1 \in 1..n
      BY <2>4, <3>1, <3>4, <3>7
    <3> QED
      BY <2>6, <3>7, <3>8
  <2>8. \A k \in 2..n: k - 1 \in 1..m
    <3> SUFFICES ASSUME NEW k \in 2..n
                 PROVE  k - 1 \in 1..m
      OBVIOUS
    <3>1. k - 1 \in 1..10 /\ k - 1 \in 1..11 /\ k \in 1..11 /\ k \in 1..n /\ (k - 1) + 1 = k
      <4>1. n \in 0..11 /\ k \in 2..n
        OBVIOUS
      <4> QED
        BY <4>1
    <3>2. Powers[k] = Powers[k - 1] * 2 /\ Powers[k - 1] \in Nat
      BY <3>1, PowersAre
    <3>3. PICK a \in Nat: a = Powers[k - 1]
      BY <3>2
    <3>4. (base * 2) * a = base * (a * 2)
      OBVIOUS
    <3>5. (base * Growth) * Powers[k - 1] <= Upper(x)
      BY <2>4, <3>1, <3>2, <3>3, <3>4 DEF Growth
    <3> QED
      BY <2>5, <3>1, <3>5
  <2> HIDE DEF u
  <2>9. m \in Nat /\ Len(p) = m /\ CanSweep(x, f, w, p)
    <3>1. m \in Nat /\ Len(p) = m
      BY <2>5
    <3> QED
      BY <1>4, <2>2, <2>7, <3>1 DEF CanSweep
  <2>10. Continues(x, g, f, Nat)
    <3>1. \A k \in 1..m: p[k] \in Nat
      BY <2>7
    <3>2. ASSUME NEW gaps \in BOOLEAN
          PROVE  Continues(x, SweepOver(x, f, w, p, gaps), f, Nat)
      BY <1>4, <2>2, <2>7, <2>9, <3>1, SweepAdds
    <3> QED
      BY <1>3, <1>6, <3>2
  <2> HIDE DEF g, grid
  <2>11. History(x, g) /\ Len(g) \in Nat /\ Len(f) <= Len(g) /\ \A i \in 1..Len(f): g[i] = f[i]
    BY <2>10 DEF Continues, History
  <2>12. ASSUME NEW c \in grid, GainingIn(x, {d \in grid: d <= c})
         PROVE  \E i \in 1..Len(g): g[i].c = c
    <3> DEFINE C == {d \in grid: d <= c}
    <3>1. PICK k \in 1..n: u[k] = c
      BY <2>6
    <3>2. \A j \in 1..k: u[j] \in C
      <4> SUFFICES ASSUME NEW j \in 1..k
                   PROVE  u[j] \in C
        OBVIOUS
      <4>1. j \in 1..n /\ (j = k \/ j < k)
        BY <2>6
      <4>2. u[j] \in Nat /\ u[k] \in Nat /\ (j < k => u[j] < u[k])
        BY <2>6, <4>1
      <4> QED
        BY <2>6, <3>1, <4>1, <4>2
    <3>3. ASSUME NEW d \in C
          PROVE  \E j \in 1..k: u[j] = d
      <4>1. PICK j \in 1..n: u[j] = d
        BY <2>6
      <4>2. ~(k < j)
        <5> SUFFICES ASSUME k < j
                     PROVE  FALSE
          OBVIOUS
        <5>1. u[k] < u[j] /\ u[k] \in Nat /\ u[j] \in Nat
          BY <2>6
        <5> QED
          BY <3>1, <4>1, <5>1
      <4>3. j \in 1..k
        BY <2>6, <4>2
      <4> QED
        BY <4>1, <4>3
    <3> HIDE DEF C
    <3>4. GainingIn(x, C)
      BY <2>12 DEF C
    <3>5. Climbs(x, u, k)
      <4>1. n \in Nat /\ (\A j \in 1..n: u[j] \in Nat) /\ (\A j, l \in 1..n: j < l => u[j] < u[l])
        BY <2>6
      <4> QED
        BY <3>2, <3>3, <3>4, <4>1, GainingClimbs
    <3>6. u[1] = base /\ 1 \in 1..k
      <4>1. 1 \in 1..n /\ 1 \in 1..k
        BY <2>6
      <4>2. u[1] = base * Powers[1] /\ Powers[1] = 1
        BY <2>6, <4>1, PowersAre
      <4> QED
        BY <4>1, <4>2
    <3>7. CASE k = 1
      <4>1. Measured(x, base, "B") # None
        BY <3>5, <3>6 DEF Climbs
      <4>2. PICK i \in 1..Len(f): f[i].c = base
        BY <1>2, <4>1
      <4>3. i \in 1..Len(g) /\ g[i] = f[i]
        BY <1>4, <2>11
      <4> QED
        BY <3>1, <3>6, <3>7, <4>2, <4>3
    <3>8. CASE k # 1
      <4>1. k - 1 \in 1..m /\ k \in 2..n /\ (k - 1) + 1 = k
        BY <2>8, <3>8
      <4>2. Climbs(x, p, k - 1)
        <5>1. \A j \in 1..k - 1: j \in 1..m /\ j + 1 \in 1..k /\ p[j] = u[j + 1]
          BY <2>7, <4>1
        <5>2. \A j \in 1..(k - 1) - 1: /\ j \in 1..k - 1 /\ j + 1 \in 1..k - 1
                                       /\ j + 1 \in 1..k - 1
          BY <4>1
        <5>3. \A j \in 1..k - 1: /\ Measured(x, p[j], "B") # None
                                 /\ EligibleResult(Measured(x, p[j], "B"), x.slo)
          BY <3>5, <5>1 DEF Climbs
        <5>4. ASSUME NEW j \in 1..(k - 1) - 1
              PROVE  ~SmallGain(Measured(x, p[j], "B"), Measured(x, p[j + 1], "B"))
          <6>1. p[j] = u[j + 1] /\ p[j + 1] = u[(j + 1) + 1]
            BY <5>1, <5>2
          <6> QED
            BY <3>5, <5>2, <6>1 DEF Climbs
        <5> QED
          BY <5>3, <5>4 DEF Climbs
      <4>3. ~SmallGain(Measured(x, base, "B"), Measured(x, p[1], "B"))
        <5>1. 1 \in 1..(k - 1) /\ 1 \in 1..m /\ p[1] = u[1 + 1]
          BY <2>7, <4>1
        <5> QED
          BY <3>5, <3>6, <5>1 DEF Climbs
      <4>4. Ahead(x, f, w, p)
        <5>1. \A j, l \in 1..m: j < l => p[j] < p[l]
          <6> SUFFICES ASSUME NEW j \in 1..m, NEW l \in 1..m, j < l
                       PROVE  p[j] < p[l]
            OBVIOUS
          <6>1. p[j] = u[j + 1] /\ p[l] = u[l + 1] /\ j + 1 \in 1..n /\ l + 1 \in 1..n
            BY <2>7
          <6>2. j + 1 < l + 1
            BY <2>9
          <6> QED
            BY <2>6, <6>1, <6>2
        <5>2. \A i \in 1..Len(f): f[i].label = "B" => \A l \in 1..m: f[i].c # p[l]
          BY <1>4, <2>7
        <5>3. \A i \in 1..Len(w): ~SmallGain(w[i], Measured(x, p[1], "B"))
          <6> SUFFICES ASSUME NEW i \in 1..Len(w)
                       PROVE  ~SmallGain(w[i], Measured(x, p[1], "B"))
            OBVIOUS
          <6>1. w[i].tps = Measured(x, base, "B").tps
            BY <2>2, SameMeasured
          <6> QED
            BY <4>3, <6>1 DEF SmallGain
        <5> QED
          BY <2>9, <5>1, <5>2, <5>3 DEF Ahead
      <4>5. \A j \in 1..k - 1: \E i \in 1..Len(g): g[i].c = p[j]
        <5>1. k - 1 \in 1..Len(p)
          BY <2>9, <4>1
        <5>2. ASSUME NEW gaps \in BOOLEAN
              PROVE  LET t == SweepOver(x, f, w, p, gaps) IN
                     \A j \in 1..k - 1: \E i \in 1..Len(t): t[i].c = p[j]
          BY <2>9, <4>2, <4>4, <5>1, ClimbMeasured
        <5> QED
          BY <1>3, <1>6, <5>2 DEF g
      <4>6. PICK i \in 1..Len(g): g[i].c = p[k - 1]
        BY <4>1, <4>5
      <4>7. p[k - 1] = u[k]
        BY <2>7, <4>1
      <4> QED
        BY <3>1, <4>6, <4>7
    <3> QED
      BY <3>7, <3>8
  <2> QED
    BY <2>11, <2>12 DEF g, grid
<1> QED
  BY <1>5, <1>6

----------------------------------------------------------------------------
(* Machines and clusters                                                   *)

\* The pairs of numbers.
LEMMA PairsAre ==
    ASSUME NEW S \in SUBSET Nat, IsFiniteSet(S)
    PROVE  /\ \A a, b \in S: a < b => /\ {a, b} \in kSubset(2, S) /\ {b, a} \in kSubset(2, S)
                                      /\ Min({a, b}) = a /\ Max({a, b}) = b
           /\ \A p \in kSubset(2, S): \E a, b \in S: a < b /\ p = {a, b}
<1>1. ASSUME NEW a \in S, NEW b \in S, a < b
      PROVE  /\ {a, b} \in kSubset(2, S) /\ {b, a} \in kSubset(2, S)
             /\ Min({a, b}) = a /\ Max({a, b}) = b
  <2>1. a \in Int /\ b \in Int /\ ~(a >= b) /\ a <= b /\ a # b
    BY <1>1
  <2>2. Min({a, b}) = a /\ Max({a, b}) = b
    BY <2>1, MaxOf
  <2>3. IsFiniteSet({a}) /\ Cardinality({a}) = 1 /\ b \notin {a} /\ {a} \cup {b} = {a, b}
    BY <2>1, FS_Singleton
  <2>4. Cardinality({a, b}) = 2
    <3>1. Cardinality({a} \cup {b}) = Cardinality({a}) + 1
      BY <2>3, FS_AddElement
    <3> QED
      BY <2>3, <3>1
  <2>5. {b, a} = {a, b}
    OBVIOUS
  <2> QED
    BY <2>2, <2>4, <2>5 DEF kSubset
<1>2. ASSUME NEW p \in kSubset(2, S)
      PROVE  \E a, b \in S: a < b /\ p = {a, b}
  <2>1. p \in SUBSET S /\ Cardinality(p) = 2
    BY DEF kSubset
  <2>2. IsFiniteSet(p)
    BY <2>1, FS_Subset
  <2>3. PICK a \in p: TRUE
    <3>1. p # {}
      BY <2>1, FS_EmptySet
    <3> QED
      BY <3>1
  <2>4. IsFiniteSet(p \ {a}) /\ Cardinality(p \ {a}) = 1
    BY <2>1, <2>2, <2>3, FS_RemoveElement
  <2>5. PICK b: p \ {a} = {b}
    BY <2>4, FS_Singleton
  <2>6. p = {a, b} /\ a # b /\ a \in S /\ b \in S
    BY <2>1, <2>3, <2>5
  <2>7. a < b \/ b < a
    BY <2>6
  <2> QED
    BY <2>6, <2>7
<1> QED
  BY <1>1, <1>2

\* How many links there are between i and j, over a switch or direct.
TrueLinks(w, i, j) == Max({w.direct[{i, j}], Min({w.switch[i], w.switch[j]})})

\* What is counted is there; and what is there is counted, if the driver answers.
LEMMA EndsCounted ==
    ASSUME NEW m, NEW w, NEW clear, MachineTyped(m, w, TRUE, clear), m.count # None,
           NEW i \in 1..m.count, NEW j \in 1..m.count, i # j
    PROVE  /\ LinkEnds(m, i, j) \in Nat /\ LinkEnds(m, i, j) <= w.direct[{i, j}]
           /\ SwitchLinks(m, i) \in Nat /\ SwitchLinks(m, i) <= w.switch[i]
           /\ clear => LinkEnds(m, i, j) = w.direct[{i, j}] /\ SwitchLinks(m, i) = w.switch[i]
           /\ w.direct[{i, j}] \in Nat /\ w.switch[i] \in Nat
<1> DEFINE D == DOMAIN m.nvlink[i]
<1> DEFINE L(k) == m.nvlink[i][k]
<1>1. /\ IsFiniteSet(D) /\ w.switch[i] \in Nat /\ m.count \in Nat
      /\ \A k \in D: ~L(k).switch => \E h \in 1..m.count: L(k).remote = m.device[h].bus
      /\ \A h \in 1..m.count: m.device[h].bus # None
      /\ Cardinality(LinksOver(m, i)) <= w.switch[i]
      /\ Cardinality(LinksAt(m, i, j)) <= w.direct[{i, j}]
  <2>1. WiresOf(m, w) /\ EndsNamed(m, w)
    BY DEF MachineTyped
  <2>2. m.count \in Nat /\ IsFiniteSet(D) /\ w.switch[i] \in Nat
    BY <2>1 DEF WiresOf
  <2>3. /\ \A h \in 1..m.count: m.device[h].bus # None
        /\ Cardinality(LinksOver(m, i)) <= w.switch[i]
        /\ Cardinality(LinksAt(m, i, j)) <= w.direct[{i, j}]
    BY <2>1 DEF EndsNamed
  <2>4. D = LinksOver(m, i) \cup UNION {LinksAt(m, i, h): h \in (1..m.count) \ {i}}
    BY <2>1 DEF EndsNamed
  <2>5. \A k \in D: ~L(k).switch => \E h \in 1..m.count: L(k).remote = m.device[h].bus
    BY <2>4 DEF LinksOver, LinksAt
  <2> QED
    BY <2>2, <2>3, <2>5
<1>2. clear => /\ \A k \in D: L(k).active
               /\ Cardinality(LinksOver(m, i)) = w.switch[i]
               /\ Cardinality(LinksAt(m, i, j)) = w.direct[{i, j}]
  BY DEF MachineTyped, LinksListed
<1>3. w.direct[{i, j}] \in Nat
  <2>1. \A p \in GpuPairs(m): w.direct[p] \in Nat
    BY DEF MachineTyped, WiresOf
  <2>2. {i, j} \in GpuPairs(m)
    <3>1. 1..m.count \in SUBSET Nat /\ IsFiniteSet(1..m.count)
      <4>1. 1 \in Int /\ m.count \in Int
        BY <1>1
      <4>2. IsFiniteSet(1..m.count)
        BY <4>1, FS_Interval
      <4> QED
        BY <4>1, <4>2
    <3>2. i < j \/ j < i
      OBVIOUS
    <3> QED
      BY <3>1, <3>2, PairsAre DEF GpuPairs
  <2> QED
    BY <2>1, <2>2
<1>4. \A k \in D: ToSwitch(m, L(k)) <=> L(k).switch
  BY <1>1 DEF ToSwitch
<1> DEFINE A == {k \in D: L(k).active}
<1> DEFINE E == {k \in A: ~ToSwitch(m, L(k)) /\ L(k).remote = m.device[j].bus}
<1> DEFINE W == {k \in A: ToSwitch(m, L(k))}
<1>5. LinkEnds(m, i, j) = Cardinality(E) /\ SwitchLinks(m, i) = Cardinality(W)
  BY DEF LinkEnds, SwitchLinks, ActiveLinks
<1>6. E \subseteq LinksAt(m, i, j) /\ W \subseteq LinksOver(m, i)
  BY <1>4 DEF LinksAt, LinksOver
<1>7. clear => E = LinksAt(m, i, j) /\ W = LinksOver(m, i)
  BY <1>2, <1>4 DEF LinksAt, LinksOver
<1>8. LinksAt(m, i, j) \subseteq D /\ LinksOver(m, i) \subseteq D
  BY DEF LinksAt, LinksOver
<1> HIDE DEF E, W, D
<1>9. IsFiniteSet(LinksAt(m, i, j)) /\ IsFiniteSet(LinksOver(m, i))
  BY <1>1, <1>8, FS_Subset
<1>10. /\ Cardinality(LinksAt(m, i, j)) \in Nat /\ Cardinality(LinksOver(m, i)) \in Nat
       /\ Cardinality(E) \in Nat /\ Cardinality(E) <= Cardinality(LinksAt(m, i, j))
       /\ Cardinality(W) \in Nat /\ Cardinality(W) <= Cardinality(LinksOver(m, i))
  BY <1>6, <1>9, FS_Subset, FS_CardinalityType
<1> QED
  BY <1>1, <1>2, <1>3, <1>5, <1>7, <1>10

\* The score of an edge: links come before PCIe.
LEMMA EdgeIs ==
    ASSUME NEW m, NEW w, NEW clear, MachineTyped(m, w, TRUE, clear), m.count # None,
           NEW i \in 1..m.count, NEW j \in 1..m.count, i # j
    PROVE  LET t == TrueLinks(w, i, j) IN
           /\ t \in Nat /\ EdgeScore(m, i, j) \in Nat
           /\ EdgeScore(m, i, j) <= 100 + t
           /\ t = 0 => EdgeScore(m, i, j) <= 40
           /\ clear /\ t # 0 => EdgeScore(m, i, j) = 100 + t
<1>0. \A x, y \in 1..m.count: x # y =>
         /\ LinkEnds(m, x, y) \in Nat /\ LinkEnds(m, x, y) <= w.direct[{x, y}]
         /\ SwitchLinks(m, x) \in Nat /\ SwitchLinks(m, x) <= w.switch[x]
         /\ clear => LinkEnds(m, x, y) = w.direct[{x, y}] /\ SwitchLinks(m, x) = w.switch[x]
         /\ w.direct[{x, y}] \in Nat /\ w.switch[x] \in Nat
  BY EndsCounted
<1> DEFINE a == LinkEnds(m, i, j)
<1> DEFINE b == LinkEnds(m, j, i)
<1> DEFINE d == w.direct[{i, j}]
<1> DEFINE si == SwitchLinks(m, i)
<1> DEFINE sj == SwitchLinks(m, j)
<1> DEFINE ti == w.switch[i]
<1> DEFINE tj == w.switch[j]
<1> DEFINE l == Links(m, i, j)
<1> DEFINE t == TrueLinks(w, i, j)
<1> DEFINE direct == DirectLinks(m, i, j)
<1>1. /\ a \in Nat /\ a <= d /\ si \in Nat /\ si <= ti /\ d \in Nat /\ ti \in Nat
      /\ clear => a = d /\ si = ti
  BY <1>0
<1>2. /\ b \in Nat /\ b <= d /\ sj \in Nat /\ sj <= tj /\ tj \in Nat
      /\ clear => b = d /\ sj = tj
  <2>1. {j, i} = {i, j}
    OBVIOUS
  <2> QED
    BY <1>0, <2>1
<1>3. direct = IF a + b = 0 THEN 0 ELSE Max({1, (a + b) \div 2})
  BY DEF DirectLinks
<1>4. l = Max({direct, Min({si, sj})}) /\ t = Max({d, Min({ti, tj})})
  BY DEF Links, TrueLinks
<1>5. EdgeScore(m, i, j) = IF l > 0 THEN 100 + l ELSE PcieScore(m.ancestor[{i, j}])
  BY DEF EdgeScore
<1>6. PcieScore(m.ancestor[{i, j}]) \in {40, 30, 20, 10, 5, 1}
  BY DEF PcieScore
<1> HIDE DEF a, b, d, si, sj, ti, tj, l, t, direct
<1>7. direct \in Nat /\ direct <= d /\ (clear => direct = d)
  <2> DEFINE h == (a + b) \div 2
  <2>1. h \in Int /\ 2 * h <= a + b /\ a + b < 2 * h + 2
    BY <1>1, <1>2
  <2> HIDE DEF h
  <2>2. Max({1, h}) = IF 1 >= h THEN 1 ELSE h
    BY <2>1, MaxOf
  <2>3. direct = IF a + b = 0 THEN 0 ELSE IF 1 >= h THEN 1 ELSE h
    BY <1>3, <2>2 DEF h
  <2> QED
    BY <1>1, <1>2, <2>1, <2>3
<1>8. /\ Min({si, sj}) = IF si <= sj THEN si ELSE sj
      /\ Min({ti, tj}) = IF ti <= tj THEN ti ELSE tj
  BY <1>1, <1>2, MaxOf
<1> DEFINE s == Min({si, sj})
<1> DEFINE u == Min({ti, tj})
<1>9. s \in Nat /\ u \in Nat /\ s <= u /\ (clear => s = u)
  BY <1>1, <1>2, <1>8
<1> HIDE DEF s, u
<1>10. l = IF direct >= s THEN direct ELSE s
  <2>1. l = Max({direct, s})
    BY <1>4 DEF s
  <2> QED
    BY <2>1, <1>7, <1>9, MaxOf
<1>11. t = IF d >= u THEN d ELSE u
  <2>1. t = Max({d, u})
    BY <1>4 DEF u
  <2> QED
    BY <2>1, <1>1, <1>9, MaxOf
<1>12. t \in Nat /\ l \in Nat /\ l <= t /\ (clear => l = t)
  BY <1>1, <1>7, <1>9, <1>10, <1>11
<1> QED
  BY <1>5, <1>6, <1>12 DEF t

\* hw is true of the machines M[a] at the addresses a: a GPU is that of its machine
\* which hw says, in the order of the machine, and their edges are those there.
Shows(M, hw) ==
    /\ IsFiniteSet(hw.gpus) /\ hw.gpus \subseteq Nat
    /\ \A i \in hw.gpus:
         /\ hw.node[i] \in DOMAIN M /\ M[hw.node[i]].count \in Nat
         /\ hw.local[i] \in 1..M[hw.node[i]].count
         /\ hw.free[i] = M[hw.node[i]].device[hw.local[i]].free
    /\ \A p \in DOMAIN hw.link: p \subseteq hw.gpus
    /\ \A i, j \in hw.gpus: i < j /\ hw.node[i] = hw.node[j] =>
         /\ hw.local[i] < hw.local[j]
         /\ hw.known => /\ {i, j} \in DOMAIN hw.link
                        /\ hw.link[{i, j}] = EdgeScore(M[hw.node[i]], hw.local[i], hw.local[j])

\* What one machine is read as.
LEMMA SnapshotIs ==
    ASSUME NEW m, Snapshot(m) # HardwareError, m.count # None => m.count \in Nat
    PROVE  LET s == Snapshot(m) IN
           /\ m.count \in Nat /\ s.gpus = 1..m.count
           /\ \A i \in s.gpus: s.node[i] = 1 /\ s.local[i] = i /\ s.free[i] = m.device[i].free
           /\ \A p \in DOMAIN s.link: p \subseteq s.gpus
           /\ \A i, j \in s.gpus: i < j /\ s.known => /\ {i, j} \in DOMAIN s.link
                                                      /\ s.link[{i, j}] = EdgeScore(m, i, j)
<1> DEFINE known == m.count <= 1 \/ Answers(m)
<1> DEFINE link == [p \in IF known THEN GpuPairs(m) ELSE {} |-> EdgeScore(m, Min(p), Max(p))]
<1> DEFINE s == Snapshot(m)
<1>1. m.count # None /\ m.count \in Nat /\ ~(\E i \in 1..m.count: ~m.device[i].ok)
  BY DEF Snapshot
<1>2. /\ s.gpus = 1..m.count /\ s.link = link /\ s.known = known
      /\ s.node = [i \in 1..m.count |-> 1] /\ s.local = [i \in 1..m.count |-> i]
      /\ s.free = [i \in 1..m.count |-> m.device[i].free]
  BY <1>1 DEF Snapshot
<1>3. \A p \in DOMAIN link: p \subseteq 1..m.count
  BY DEF GpuPairs, kSubset
<1>4. \A i, j \in 1..m.count: i < j => /\ {i, j} \in GpuPairs(m)
                                       /\ Min({i, j}) = i /\ Max({i, j}) = j
  <2>1. 1 \in Int /\ m.count \in Int
    BY <1>1
  <2>2. IsFiniteSet(1..m.count)
    BY <2>1, FS_Interval
  <2>3. 1..m.count \in SUBSET Nat
    BY <2>1
  <2> DEFINE S == 1..m.count
  <2>4. GpuPairs(m) = kSubset(2, S)
    BY DEF GpuPairs
  <2>5. S \in SUBSET Nat /\ IsFiniteSet(S)
    BY <2>2, <2>3
  <2> HIDE DEF S
  <2>6. \A i, j \in S: i < j => {i, j} \in kSubset(2, S) /\ Min({i, j}) = i /\ Max({i, j}) = j
    BY <2>5, PairsAre
  <2> QED
    BY <2>4, <2>6 DEF S
<1>5. ASSUME NEW i \in 1..m.count, NEW j \in 1..m.count, i < j, known
      PROVE  {i, j} \in DOMAIN link /\ link[{i, j}] = EdgeScore(m, i, j)
  <2> DEFINE p == {i, j}
  <2>1. p \in GpuPairs(m) /\ Min(p) = i /\ Max(p) = j
    BY <1>4, <1>5
  <2> HIDE DEF p
  <2>2. DOMAIN link = GpuPairs(m)
    BY <1>5
  <2>3. link[p] = EdgeScore(m, Min(p), Max(p))
    BY <2>1, <1>5
  <2> QED
    BY <2>1, <2>2, <2>3 DEF p
<1> HIDE DEF s, link, known
<1>6. \A i \in s.gpus: s.node[i] = 1 /\ s.local[i] = i /\ s.free[i] = m.device[i].free
  BY <1>2
<1>7. \A p \in DOMAIN s.link: p \subseteq s.gpus
  BY <1>2, <1>3
<1>8. \A i, j \in s.gpus: i < j /\ s.known => /\ {i, j} \in DOMAIN s.link
                                           /\ s.link[{i, j}] = EdgeScore(m, i, j)
  BY <1>2, <1>5
<1>9. m.count \in Nat /\ s.gpus = 1..m.count
  BY <1>1, <1>2
<1> QED
  BY <1>6, <1>7, <1>8, <1>9 DEF s

\* A machine alone.
LEMMA SnapshotShows ==
    ASSUME NEW m, Snapshot(m) # HardwareError, m.count # None => m.count \in Nat
    PROVE  Shows([a \in {1} |-> m], Snapshot(m))
<1> DEFINE M == [a \in {1} |-> m]
<1> DEFINE s == Snapshot(m)
<1>1. /\ m.count \in Nat /\ s.gpus = 1..m.count
      /\ \A i \in s.gpus: s.node[i] = 1 /\ s.local[i] = i /\ s.free[i] = m.device[i].free
      /\ \A p \in DOMAIN s.link: p \subseteq s.gpus
      /\ \A i, j \in s.gpus: i < j /\ s.known => /\ {i, j} \in DOMAIN s.link
                                                 /\ s.link[{i, j}] = EdgeScore(m, i, j)
  BY SnapshotIs
<1>2. 1 \in DOMAIN M /\ M[1] = m
  OBVIOUS
<1>3. IsFiniteSet(s.gpus) /\ s.gpus \subseteq Nat
  <2>1. 1 \in Int /\ m.count \in Int
    BY <1>1
  <2>2. IsFiniteSet(1..m.count)
    BY <2>1, FS_Interval
  <2> QED
    BY <1>1, <2>1, <2>2
<1> HIDE DEF s, M
<1>4. \A i \in s.gpus:
        /\ s.node[i] \in DOMAIN M /\ M[s.node[i]].count \in Nat
        /\ s.local[i] \in 1..M[s.node[i]].count
        /\ s.free[i] = M[s.node[i]].device[s.local[i]].free
  BY <1>1, <1>2
<1>5. ASSUME NEW i \in s.gpus, NEW j \in s.gpus, i < j
      PROVE  /\ s.local[i] < s.local[j]
             /\ s.known => /\ {i, j} \in DOMAIN s.link
                           /\ s.link[{i, j}] = EdgeScore(M[s.node[i]], s.local[i], s.local[j])
  <2>1. s.node[i] = 1 /\ s.local[i] = i /\ s.local[j] = j
    BY <1>1
  <2>2. s.known => {i, j} \in DOMAIN s.link /\ s.link[{i, j}] = EdgeScore(m, i, j)
    BY <1>1, <1>5
  <2>3. EdgeScore(M[s.node[i]], s.local[i], s.local[j]) = EdgeScore(m, i, j)
    BY <1>2, <2>1
  <2> QED
    BY <1>5, <2>1, <2>2, <2>3
<1>6. Shows(M, s)
  BY <1>1, <1>3, <1>4, <1>5 DEF Shows
<1> QED
  BY <1>6 DEF M, s

\* Fewer of the same GPUs.
LEMMA RestrictedShows ==
    ASSUME NEW M, NEW hw, Shows(M, hw), NEW m, NEW visible
    PROVE  Shows(M, Restricted(hw, m, visible))
<1>1. CASE hw = HardwareError \/ visible = None
  BY <1>1 DEF Restricted
<1>2. CASE ~(hw = HardwareError \/ visible = None)
  <2> DEFINE still == {i \in hw.gpus: \/ [index |-> i] \in visible
                                     \/ [uuid |-> m.device[i].uuid] \in visible}
  <2> DEFINE r == Restricted(hw, m, visible)
  <2> DEFINE D == {x \in DOMAIN hw.link: x \subseteq still}
  <2>1. /\ r.gpus = still /\ r.known = hw.known
        /\ r.node = [i \in still |-> hw.node[i]] /\ r.local = [i \in still |-> hw.local[i]]
        /\ r.free = [i \in still |-> hw.free[i]] /\ r.link = [p \in D |-> hw.link[p]]
    BY <1>2 DEF Restricted
  <2>2. still \subseteq hw.gpus /\ \A p \in D: p \subseteq still /\ p \in DOMAIN hw.link
    OBVIOUS
  <2>3. \A i, j \in still: {i, j} \in DOMAIN hw.link => {i, j} \in D
    OBVIOUS
  <2>4. IsFiniteSet(still)
    BY <2>2, FS_Subset DEF Shows
  <2> HIDE DEF still, D, r
  <2>5. \A i \in still: r.node[i] = hw.node[i] /\ r.local[i] = hw.local[i] /\ r.free[i] = hw.free[i]
    BY <2>1
  <2>6. DOMAIN r.link = D /\ \A p \in D: r.link[p] = hw.link[p]
    BY <2>1
  <2>7. /\ IsFiniteSet(r.gpus) /\ r.gpus \subseteq Nat
        /\ \A p \in DOMAIN r.link: p \subseteq r.gpus
    BY <2>1, <2>2, <2>4, <2>6 DEF Shows
  <2>8. \A i \in r.gpus:
          /\ r.node[i] \in DOMAIN M /\ M[r.node[i]].count \in Nat
          /\ r.local[i] \in 1..M[r.node[i]].count
          /\ r.free[i] = M[r.node[i]].device[r.local[i]].free
    BY <2>1, <2>2, <2>5 DEF Shows
  <2>9. ASSUME NEW i \in r.gpus, NEW j \in r.gpus, i < j, r.node[i] = r.node[j]
        PROVE  /\ r.local[i] < r.local[j]
               /\ r.known => /\ {i, j} \in DOMAIN r.link
                             /\ r.link[{i, j}] = EdgeScore(M[r.node[i]], r.local[i], r.local[j])
    <3>1. i \in still /\ j \in still /\ i \in hw.gpus /\ j \in hw.gpus /\ hw.node[i] = hw.node[j]
      BY <2>1, <2>2, <2>5, <2>9
    <3>2. /\ hw.local[i] < hw.local[j]
          /\ hw.known => /\ {i, j} \in DOMAIN hw.link
                         /\ hw.link[{i, j}] = EdgeScore(M[hw.node[i]], hw.local[i], hw.local[j])
      BY <2>9, <3>1 DEF Shows
    <3> QED
      BY <2>1, <2>3, <2>5, <2>6, <3>1, <3>2
  <2>10. Shows(M, r)
    BY <2>7, <2>8, <2>9 DEF Shows
  <2> QED
    BY <2>10 DEF r
<1> QED
  BY <1>1, <1>2

\* hw has the GPUs 1 to b, of machines at the addresses A.
Numbered(hw, A) ==
    /\ \E b \in Nat: hw.gpus = 1..b
    /\ \A i \in hw.gpus: hw.node[i] \in A

\* Nothing is seen at first.
LEMMA NoneShown == ASSUME NEW M PROVE Shows(M, NoGpus) /\ Numbered(NoGpus, {})
<1>1. NoGpus.gpus = {} /\ NoGpus.link = <<>> /\ IsFiniteSet({})
  BY FS_EmptySet DEF NoGpus
<1>2. DOMAIN NoGpus.link = {}
  BY <1>1
<1>3. 0 \in Nat /\ {} = 1..0
  OBVIOUS
<1> QED
  BY <1>1, <1>2, <1>3 DEF Shows, Numbered

\* One more machine: its GPUs get the next indices.
LEMMA JoinedShows ==
    ASSUME NEW M, NEW all, Shows(M, all), NEW A, Numbered(all, A),
           NEW id \in DOMAIN M, id \notin A,
           Snapshot(M[id]) # HardwareError, M[id].count # None => M[id].count \in Nat
    PROVE  LET hw == Joined(all, id, Snapshot(M[id])) IN
           Shows(M, hw) /\ Numbered(hw, A \cup {id})
<1> DEFINE m == M[id]
<1> DEFINE s == Snapshot(m)
<1> DEFINE hw == Joined(all, id, s)
<1>1. PICK b \in Nat: all.gpus = 1..b
  BY DEF Numbered
<1>2. Cardinality(all.gpus) = b
  <2>1. 1 \in Int /\ b \in Int
    OBVIOUS
  <2>2. Cardinality(1..b) = IF 1 > b THEN 0 ELSE b - 1 + 1
    BY <2>1, FS_Interval
  <2> QED
    BY <1>1, <2>2
<1> DEFINE c == m.count
<1>3. /\ c \in Nat /\ s.gpus = 1..c
      /\ \A i \in s.gpus: s.node[i] = 1 /\ s.local[i] = i /\ s.free[i] = m.device[i].free
      /\ \A p \in DOMAIN s.link: p \subseteq s.gpus
      /\ \A i, j \in s.gpus: i < j /\ s.known => /\ {i, j} \in DOMAIN s.link
                                                 /\ s.link[{i, j}] = EdgeScore(m, i, j)
  BY SnapshotIs
<1> HIDE DEF s, c, m
<1>4. Cardinality(s.gpus) = c
  <2>1. 1 \in Int /\ c \in Int
    BY <1>3
  <2>2. Cardinality(1..c) = IF 1 > c THEN 0 ELSE c - 1 + 1
    BY <2>1, FS_Interval
  <2> QED
    BY <1>3, <2>2
<1> DEFINE gpus == 1..(b + c)
<1> DEFINE Both(f, g) == [i \in gpus |-> IF i <= b THEN f[i] ELSE g[i - b]]
<1> DEFINE ids == [i \in s.gpus |-> id]
<1> DEFINE Here(p) == {i - b: i \in p}
<1> DEFINE own == {{i + b: i \in p}: p \in DOMAIN s.link}
<1> DEFINE net == {{i, j}: i \in 1..b, j \in gpus \ 1..b}
<1> DEFINE D == DOMAIN all.link \cup own \cup net
<1> DEFINE Edge(p) == CASE p \in DOMAIN all.link -> all.link[p]
                        [] p \in own -> s.link[Here(p)]
                        [] p \in net -> NetworkScore
<1>5. /\ hw.gpus = gpus /\ hw.known = (all.known /\ s.known)
      /\ hw.node = Both(all.node, ids) /\ hw.local = Both(all.local, s.local)
      /\ hw.free = Both(all.free, s.free) /\ hw.link = [p \in D |-> Edge(p)]
  BY <1>2, <1>4 DEF Joined
<1> HIDE DEF hw
<1>6. \A i \in gpus: /\ i \in Nat
                     /\ i <= b => i \in all.gpus
                     /\ ~(i <= b) => i - b \in s.gpus /\ i - b \in Nat
  BY <1>1, <1>3
<1>7. \A i \in gpus: /\ hw.node[i] = IF i <= b THEN all.node[i] ELSE id
                     /\ hw.local[i] = IF i <= b THEN all.local[i] ELSE i - b
                     /\ hw.free[i] = IF i <= b THEN all.free[i] ELSE m.device[i - b].free
  <2> SUFFICES ASSUME NEW i \in gpus
               PROVE  /\ hw.node[i] = IF i <= b THEN all.node[i] ELSE id
                      /\ hw.local[i] = IF i <= b THEN all.local[i] ELSE i - b
                      /\ hw.free[i] = IF i <= b THEN all.free[i] ELSE m.device[i - b].free
    OBVIOUS
  <2> DEFINE x == i - b
  <2>1. ~(i <= b) => x \in s.gpus
    BY <1>6
  <2> HIDE DEF gpus, x
  <2>2. hw.node[i] = IF i <= b THEN all.node[i] ELSE ids[x]
    BY <1>5 DEF x
  <2>3. hw.local[i] = IF i <= b THEN all.local[i] ELSE s.local[x]
    BY <1>5 DEF x
  <2>4. hw.free[i] = IF i <= b THEN all.free[i] ELSE s.free[x]
    BY <1>5 DEF x
  <2>5. ~(i <= b) => ids[x] = id /\ s.local[x] = x /\ s.free[x] = m.device[x].free
    BY <1>3, <2>1
  <2> QED
    BY <2>2, <2>3, <2>4, <2>5 DEF x
<1>8. DOMAIN hw.link = D /\ \A p \in D: hw.link[p] = Edge(p)
  <2> HIDE DEF D, own, net, Here
  <2> QED
    BY <1>5
<1>9. \A p \in D: p \subseteq gpus
  <2>1. \A p \in DOMAIN all.link: p \subseteq gpus
    <3>1. 1..b \subseteq gpus
      BY <1>3
    <3> HIDE DEF gpus
    <3> QED
      BY <1>1, <3>1 DEF Shows
  <2>2. ASSUME NEW p \in DOMAIN s.link, NEW i \in p
        PROVE  i + b \in gpus
    <3>1. i \in 1..c
      BY <1>3
    <3> QED
      BY <1>3, <3>1
  <2>3. \A p \in own: p \subseteq gpus
    <3> HIDE DEF gpus
    <3> QED
      BY <2>2
  <2>4. \A p \in net: p \subseteq gpus
    BY <1>3
  <2> HIDE DEF own, net, gpus
  <2> QED
    BY <2>1, <2>3, <2>4
<1>10. IsFiniteSet(gpus) /\ gpus \subseteq Nat /\ b + c \in Nat
  <2>1. 1 \in Int /\ b + c \in Int /\ b + c \in Nat
    BY <1>3
  <2>2. IsFiniteSet(1..(b + c))
    BY <2>1, FS_Interval
  <2> QED
    BY <2>1, <2>2
<1>11. ASSUME NEW i \in gpus, NEW j \in gpus, i < j, hw.node[i] = hw.node[j]
       PROVE  /\ hw.local[i] < hw.local[j]
              /\ hw.known => /\ {i, j} \in D
                             /\ Edge({i, j}) = EdgeScore(M[hw.node[i]], hw.local[i], hw.local[j])
  <2>1. i \in Nat /\ j \in Nat /\ (j <= b => i <= b)
    BY <1>6, <1>11
  <2>2. CASE j <= b
    <3>1. /\ i \in all.gpus /\ j \in all.gpus /\ hw.node[i] = all.node[i] /\ hw.node[j] = all.node[j]
          /\ hw.local[i] = all.local[i] /\ hw.local[j] = all.local[j]
      BY <1>6, <1>7, <2>1, <2>2
    <3>2. /\ all.local[i] < all.local[j]
          /\ all.known => /\ {i, j} \in DOMAIN all.link
                          /\ all.link[{i, j}] = EdgeScore(M[all.node[i]], all.local[i], all.local[j])
      <4>1. i \in all.gpus /\ j \in all.gpus /\ i < j /\ all.node[i] = all.node[j]
        BY <1>11, <3>1
      <4> HIDE DEF D, own, net, gpus
      <4> QED
        BY <4>1 DEF Shows
    <3>3. {i, j} \in DOMAIN all.link => {i, j} \in D /\ Edge({i, j}) = all.link[{i, j}]
      <4> DEFINE p == {i, j}
      <4> HIDE DEF p, own, net, Here
      <4>1. p \in DOMAIN all.link => p \in D
        OBVIOUS
      <4>2. p \notin own /\ p \notin net
        <5>1. i \in p /\ j \in p /\ i <= b /\ j <= b /\ \A h \in p: h <= b
          BY <2>1, <2>2 DEF p
        <5>2. \A x \in own: \A h \in x: ~(h <= b)
          <6> SUFFICES ASSUME NEW x \in DOMAIN s.link, NEW k \in x
                       PROVE  ~(k + b <= b)
            BY DEF own
          <6>1. k \in 1..c
            BY <1>3
          <6> QED
            BY <1>3, <6>1
        <5>3. \A x \in net: \E h \in x: ~(h <= b)
          BY <1>6 DEF net
        <5> QED
          BY <5>1, <5>2, <5>3
      <4>3. p \in DOMAIN all.link => Edge(p) = all.link[p]
        BY <4>2
      <4> QED
        BY <4>1, <4>3 DEF p
    <3> HIDE DEF D, Edge
    <3>4. hw.known => all.known
      BY <1>5
    <3>5. EdgeScore(M[hw.node[i]], hw.local[i], hw.local[j])
            = EdgeScore(M[all.node[i]], all.local[i], all.local[j])
      BY <3>1
    <3>6. hw.local[i] < hw.local[j]
      BY <3>1, <3>2
    <3> QED
      BY <3>2, <3>3, <3>4, <3>5, <3>6
  <2>3. CASE ~(j <= b)
    <3>1. ~(i <= b)
      <4> SUFFICES ASSUME i <= b
                   PROVE  FALSE
        OBVIOUS
      <4>1. hw.node[i] = all.node[i] /\ hw.node[j] = id /\ all.node[i] \in A
        BY <1>6, <1>7, <2>3 DEF Numbered
      <4> QED
        BY <1>11, <4>1
    <3>2. /\ hw.node[i] = id /\ hw.local[i] = i - b /\ hw.local[j] = j - b
          /\ i - b \in s.gpus /\ j - b \in s.gpus /\ i - b < j - b
      BY <1>6, <1>7, <1>11, <2>1, <2>3, <3>1
    <3> DEFINE x == i - b
    <3> DEFINE y == j - b
    <3> DEFINE p == {i, j}
    <3>3. Here(p) = {x, y} /\ p = {h + b: h \in {x, y}}
      <4>1. x + b = i /\ y + b = j
        BY <2>1
      <4> QED
        BY <4>1
    <3>4. p \notin DOMAIN all.link
      <4>1. j \notin 1..b
        BY <2>3
      <4> QED
        BY <1>1, <4>1 DEF Shows
    <3>5. s.known => {x, y} \in DOMAIN s.link /\ s.link[{x, y}] = EdgeScore(m, x, y)
      BY <1>3, <3>2
    <3>6. {x, y} \in DOMAIN s.link => p \in own
      BY <3>3
    <3>7. p \in own => p \in D /\ Edge(p) = s.link[Here(p)]
      <4> HIDE DEF p, own, net, Here
      <4> SUFFICES ASSUME p \in own
                   PROVE  p \in D /\ Edge(p) = s.link[Here(p)]
        OBVIOUS
      <4>1. p \in D
        OBVIOUS
      <4>3. p \notin net
        BY <2>3, <3>1 DEF p, net
      <4>2. Edge(p) = s.link[Here(p)]
        BY <3>4, <4>3
      <4> QED
        BY <4>1, <4>2
    <3>8. EdgeScore(M[hw.node[i]], hw.local[i], hw.local[j]) = EdgeScore(m, x, y)
      BY <3>2 DEF m
    <3>9. hw.known => p \in D /\ Edge(p) = EdgeScore(m, x, y)
      <4> HIDE DEF D, Edge, Here, own, p, x, y
      <4>1. hw.known => s.known
        BY <1>5
      <4>2. s.known => s.link[Here(p)] = EdgeScore(m, x, y) /\ p \in own
        BY <3>3, <3>5, <3>6
      <4> QED
        BY <4>1, <4>2, <3>7
    <3> HIDE DEF D, Edge, Here, own
    <3>10. hw.local[i] < hw.local[j]
      BY <3>2
    <3> QED
      BY <3>8, <3>9, <3>10
  <2> HIDE DEF D, Edge
  <2> QED
    BY <2>2, <2>3
<1> HIDE DEF D, Edge
<1>12. \A i \in gpus:
         /\ hw.node[i] \in DOMAIN M /\ M[hw.node[i]].count \in Nat
         /\ hw.local[i] \in 1..M[hw.node[i]].count
         /\ hw.free[i] = M[hw.node[i]].device[hw.local[i]].free
         /\ hw.node[i] \in A \cup {id}
  <2> SUFFICES ASSUME NEW i \in gpus
               PROVE  /\ hw.node[i] \in DOMAIN M /\ M[hw.node[i]].count \in Nat
                      /\ hw.local[i] \in 1..M[hw.node[i]].count
                      /\ hw.free[i] = M[hw.node[i]].device[hw.local[i]].free
                      /\ hw.node[i] \in A \cup {id}
    OBVIOUS
  <2>1. CASE i <= b
    <3>1. /\ i \in all.gpus /\ hw.node[i] = all.node[i] /\ hw.local[i] = all.local[i]
          /\ hw.free[i] = all.free[i]
      BY <1>6, <1>7, <2>1
    <3> QED
      BY <3>1 DEF Shows, Numbered
  <2>2. CASE ~(i <= b)
    <3>1. /\ i - b \in 1..c /\ hw.node[i] = id /\ hw.local[i] = i - b
          /\ hw.free[i] = m.device[i - b].free
      BY <1>3, <1>6, <1>7, <2>2
    <3> QED
      BY <1>3, <3>1 DEF m, c
  <2> QED
    BY <2>1, <2>2
<1> HIDE DEF gpus
<1>13. Shows(M, hw)
  <2>1. IsFiniteSet(hw.gpus) /\ hw.gpus \subseteq Nat /\ \A p \in DOMAIN hw.link: p \subseteq hw.gpus
    BY <1>5, <1>8, <1>9, <1>10
  <2>2. \A i \in hw.gpus:
          /\ hw.node[i] \in DOMAIN M /\ M[hw.node[i]].count \in Nat
          /\ hw.local[i] \in 1..M[hw.node[i]].count
          /\ hw.free[i] = M[hw.node[i]].device[hw.local[i]].free
    BY <1>5, <1>12
  <2>3. ASSUME NEW i \in hw.gpus, NEW j \in hw.gpus, i < j, hw.node[i] = hw.node[j]
        PROVE  /\ hw.local[i] < hw.local[j]
               /\ hw.known => /\ {i, j} \in DOMAIN hw.link
                              /\ hw.link[{i, j}] = EdgeScore(M[hw.node[i]], hw.local[i], hw.local[j])
    <3>1. i \in gpus /\ j \in gpus
      BY <1>5
    <3> QED
      BY <1>8, <1>11, <2>3, <3>1
  <2> QED
    BY <2>1, <2>2, <2>3 DEF Shows
<1>14. Numbered(hw, A \cup {id})
  <2>1. hw.gpus = 1..(b + c) /\ b + c \in Nat
    BY <1>5, <1>10 DEF gpus
  <2>2. \E x \in Nat: hw.gpus = 1..x
    BY <2>1
  <2>3. \A i \in hw.gpus: hw.node[i] \in A \cup {id}
    BY <1>5, <1>12
  <2> QED
    BY <2>2, <2>3 DEF Numbered
<1> QED
  BY <1>13, <1>14 DEF hw, s, m

\* f has what the first k nodes of s are read as together.
JoinsUp(s, k, f) ==
    f = [j \in 0..k |-> IF j = 0 THEN NoGpus
                        ELSE Joined(f[j - 1], s[j].address, Snapshot(s[j].nvml))]

\* There is such an f, by induction on the number of nodes.
LEMMA JoinsExist ==
    ASSUME NEW s, NEW n \in Nat
    PROVE  \E f: JoinsUp(s, n, f)
<1> DEFINE Next1(h, j) == Joined(h, s[j].address, Snapshot(s[j].nvml))
<1> DEFINE Good(f, k) == f = [j \in 0..k |-> IF j = 0 THEN NoGpus ELSE Next1(f[j - 1], j)]
<1> DEFINE A == {k \in 0..n: \E f: Good(f, k)}
<1>0. \A f: Good(f, n) => JoinsUp(s, n, f)
  BY DEF JoinsUp
<1> HIDE DEF Next1
<1>1. 0 \in A
  <2>1. \A j \in 0..0: j = 0
    OBVIOUS
  <2>2. Good([j \in 0..0 |-> NoGpus], 0)
    BY <2>1
  <2>3. \E f: Good(f, 0)
    BY <2>2
  <2> HIDE DEF Good
  <2> QED
    BY <2>3
<1>2. \A k \in 0..n: k + 1 \in 0..n /\ k \in A => k + 1 \in A
  <2> SUFFICES ASSUME NEW k \in 0..n, k + 1 \in 0..n, k \in A
               PROVE  k + 1 \in A
    OBVIOUS
  <2>1. PICK f: Good(f, k)
    OBVIOUS
  <2> DEFINE g == [j \in 0..k + 1 |-> IF j \in 0..k THEN f[j] ELSE Next1(f[k], j)]
  <2>2. ASSUME NEW j \in 0..k + 1
        PROVE  g[j] = IF j = 0 THEN NoGpus ELSE Next1(g[j - 1], j)
    <3>1. CASE j = 0
      BY <2>1, <3>1
    <3>2. CASE j \in 0..k /\ j # 0
      <4>1. j - 1 \in 0..k /\ j - 1 \in 0..k + 1
        BY <3>2
      <4>2. g[j] = f[j] /\ g[j - 1] = f[j - 1]
        BY <3>2, <4>1
      <4>3. f[j] = Next1(f[j - 1], j)
        BY <2>1, <3>2
      <4> QED
        BY <3>2, <4>2, <4>3
    <3>3. CASE j = k + 1
      <4>1. j - 1 = k /\ j # 0 /\ ~(j \in 0..k) /\ k \in 0..k /\ k \in 0..k + 1
        BY <3>3
      <4> QED
        BY <4>1
    <3> QED
      BY <3>1, <3>2, <3>3
  <2>3. Good(g, k + 1)
    BY <2>2
  <2> QED
    BY <2>3
<1> HIDE DEF A
<1>3. n \in A
  <2>1. 0..n \subseteq A
    BY <1>1, <1>2, UpToN
  <2> QED
    BY <2>1
<1>4. \E f: Good(f, n)
  <2> HIDE DEF Good
  <2> QED
    BY <1>3 DEF A
<1> HIDE DEF Good
<1> QED
  BY <1>0, <1>4

\* The nodes that are read have addresses of their own, at which M has their machines.
ReadNodes(M, s) ==
    /\ Len(s) \in Nat
    /\ \A k \in 1..Len(s):
         /\ s[k].address \in DOMAIN M /\ s[k].nvml = M[s[k].address]
         /\ Snapshot(s[k].nvml) # HardwareError
         /\ s[k].nvml.count # None => s[k].nvml.count \in Nat
    /\ \A i, j \in 1..Len(s): i # j => s[i].address # s[j].address

\* They are read as they are, one after the other.
LEMMA AllShown ==
    ASSUME NEW M, NEW s, ReadNodes(M, s)
    PROVE  Shows(M, AllJoined(s))
<1> DEFINE n == Len(s)
<1> DEFINE After == CHOOSE f: JoinsUp(s, n, f)
<1>1. n \in Nat
  BY DEF ReadNodes
<1>2. JoinsUp(s, n, After)
  BY <1>1, JoinsExist
<1>3. AllJoined(s) = After[n]
  BY DEF AllJoined, JoinsUp
<1> HIDE DEF After
<1>4. /\ After[0] = NoGpus
      /\ \A k \in 1..n: After[k] = Joined(After[k - 1], s[k].address, Snapshot(s[k].nvml))
  <2>1. \A j \in 0..n: After[j] = IF j = 0 THEN NoGpus
                                  ELSE Joined(After[j - 1], s[j].address, Snapshot(s[j].nvml))
    BY <1>2 DEF JoinsUp
  <2>2. 0 \in 0..n /\ \A k \in 1..n: k \in 0..n /\ k # 0
    BY <1>1
  <2> QED
    BY <2>1, <2>2
<1> DEFINE SeenTo(k) == {s[h].address: h \in 1..k}
<1> DEFINE A == {k \in 0..n: Shows(M, After[k]) /\ Numbered(After[k], SeenTo(k))}
<1>5. 0 \in A
  <2>1. SeenTo(0) = {} /\ 0 \in 0..n
    BY <1>1
  <2>2. Shows(M, After[0]) /\ Numbered(After[0], {})
    BY <1>4, NoneShown
  <2> QED
    BY <2>1, <2>2
<1>6. \A k \in 0..n: k + 1 \in 0..n /\ k \in A => k + 1 \in A
  <2> SUFFICES ASSUME NEW k \in 0..n, k + 1 \in 0..n, k \in A
               PROVE  k + 1 \in A
    OBVIOUS
  <2> DEFINE id == s[k + 1].address
  <2>1. k + 1 \in 1..n /\ (k + 1) - 1 = k /\ \A h \in 1..k: h \in 1..n /\ h # k + 1
    OBVIOUS
  <2>2. /\ id \in DOMAIN M /\ s[k + 1].nvml = M[id] /\ Snapshot(M[id]) # HardwareError
        /\ M[id].count # None => M[id].count \in Nat
    BY <2>1 DEF ReadNodes
  <2>3. id \notin SeenTo(k)
    BY <2>1 DEF ReadNodes
  <2>4. SeenTo(k + 1) = SeenTo(k) \cup {id}
    <3>1. 1..(k + 1) = (1..k) \cup {k + 1}
      OBVIOUS
    <3> QED
      BY <3>1
  <2>5. After[k + 1] = Joined(After[k], id, Snapshot(M[id]))
    BY <1>4, <2>1, <2>2
  <2> HIDE DEF id, SeenTo
  <2>6. Shows(M, After[k]) /\ Numbered(After[k], SeenTo(k))
    OBVIOUS
  <2>7. Shows(M, After[k + 1]) /\ Numbered(After[k + 1], SeenTo(k) \cup {id})
    BY <2>2, <2>3, <2>5, <2>6, JoinedShows
  <2> QED
    BY <2>4, <2>7
<1> HIDE DEF SeenTo
<1>7. 0..n \subseteq A
  <2> HIDE DEF A
  <2> QED
    BY <1>1, <1>5, <1>6, UpToN
<1>8. n \in 0..n
  BY <1>1
<1> QED
  BY <1>3, <1>7, <1>8

\* What is known of the machine at address a of site x.
MachineAt(x, m, a) == MachineTyped(m, x.wires[a], x.named, x.clear)

\* The machines of a site are read as they are.
LEMMA SiteShown ==
    ASSUME NEW x, SiteTyped(x), HardwareOf(x) # HardwareError
    PROVE  \E M: Shows(M, HardwareOf(x)) /\ \A a \in DOMAIN M: MachineAt(x, M[a], a)
<1>1. CASE x.cluster = None
  <2> DEFINE m == x.nvml
  <2> DEFINE M == [a \in {1} |-> m]
  <2>1. HardwareOf(x) = Restricted(Snapshot(m), m, x.visible)
    BY <1>1 DEF HardwareOf
  <2>2. MachineTyped(m, x.wires[1], x.named, x.clear)
    BY <1>1 DEF SiteTyped
  <2>3. m.count # None => m.count \in Nat
    BY <2>2 DEF MachineTyped, WiresOf
  <2>4. Snapshot(m) # HardwareError
    BY <2>1 DEF Restricted
  <2>5. Shows(M, Snapshot(m))
    BY <2>3, <2>4, SnapshotShows
  <2> HIDE DEF M
  <2>6. Shows(M, HardwareOf(x))
    BY <2>1, <2>5, RestrictedShows
  <2>7. \A a \in DOMAIN M: MachineAt(x, M[a], a)
    BY <2>2 DEF M, MachineAt
  <2> QED
    BY <2>6, <2>7
<1>2. CASE x.cluster # None
  <2> DEFINE nodes == {n \in x.cluster: n.alive /\ n.gpus > 0}
  <2> DEFINE before == {p \in nodes \X nodes:
                          \/ p[1].head /\ ~p[2].head
                          \/ p[1].head = p[2].head /\ p[1].address < p[2].address}
  <2> DEFINE s == GpuNodes(x.cluster)
  <2> DEFINE addresses == {n.address: n \in nodes}
  <2> DEFINE M == [a \in addresses |-> (CHOOSE n \in nodes: n.address = a).nvml]
  <2>1. /\ IsFiniteSet(nodes)
        /\ \A n \in nodes: n.head \in BOOLEAN /\ n.address \in Nat /\ MachineAt(x, n.nvml, n.address)
        /\ \A n, o \in nodes: n # o => n.address # o.address
    <3>1. IsFiniteSet(x.cluster) /\ nodes \subseteq x.cluster
      BY <1>2 DEF SiteTyped
    <3>2. IsFiniteSet(nodes)
      BY <3>1, FS_Subset
    <3> QED
      BY <1>2, <3>2 DEF SiteTyped, MachineAt
  <2>2. \A n \in nodes: n.address \in addresses /\ M[n.address] = n.nvml
    <3> HIDE DEF nodes
    <3> SUFFICES ASSUME NEW n \in nodes
                 PROVE  n.address \in addresses /\ M[n.address] = n.nvml
      OBVIOUS
    <3>1. (CHOOSE o \in nodes: o.address = n.address) = n
      BY <2>1
    <3> QED
      BY <3>1
  <2>3. s = InOrder(nodes, before)
    BY DEF GpuNodes
  <2>4. TotalOrder(before, nodes)
    <3> HIDE DEF nodes
    <3> DEFINE Back(n) == IF n.head THEN 1 ELSE 0
    <3> DEFINE After(n, o) == Back(n) > Back(o) \/ (Back(n) = Back(o) /\ n.address < o.address)
    <3> DEFINE R(u, v) == (u.head /\ ~v.head) \/ (u.head = v.head /\ u.address < v.address)
    <3>1. \A n, o \in nodes: <<n, o>> \in before <=> After(n, o)
      <4> SUFFICES ASSUME NEW n \in nodes, NEW o \in nodes
                   PROVE  <<n, o>> \in before <=> After(n, o)
        OBVIOUS
      <4>1. <<n, o>> \in before <=> R(n, o)
        <5>1. <<n, o>>[1] = n /\ <<n, o>>[2] = o /\ <<n, o>> \in nodes \X nodes
          OBVIOUS
        <5>2. \A p: p \in before <=> p \in nodes \X nodes /\ R(p[1], p[2])
          OBVIOUS
        <5>3. R(<<n, o>>[1], <<n, o>>[2]) <=> R(n, o)
          BY <5>1
        <5> HIDE DEF before, R
        <5> QED
          BY <5>1, <5>2, <5>3
      <4>2. (n.head = TRUE \/ n.head = FALSE) /\ (o.head = TRUE \/ o.head = FALSE)
        BY <2>1
      <4>3. 1 > 0 /\ ~(0 > 1) /\ ~(0 > 0) /\ ~(1 > 1) /\ 1 # 0
        OBVIOUS
      <4> HIDE DEF before
      <4> QED
        BY <4>1, <4>2, <4>3
    <3>2. \A n \in nodes: Back(n) \in 0..1 /\ n.address \in Nat
      BY <2>1
    <3> HIDE DEF before, Back, R
    <3>3. \A n \in nodes: <<n, n>> \notin before
      BY <3>1, <3>2
    <3>4. \A n, o \in nodes: n = o \/ <<n, o>> \in before \/ <<o, n>> \in before
      <4> SUFFICES ASSUME NEW n \in nodes, NEW o \in nodes, n # o
                   PROVE  <<n, o>> \in before \/ <<o, n>> \in before
        OBVIOUS
      <4>1. n.address # o.address
        BY <2>1
      <4>2. Back(n) \in 0..1 /\ Back(o) \in 0..1 /\ n.address \in Nat /\ o.address \in Nat
        BY <3>2
      <4>3. After(n, o) \/ After(o, n)
        BY <4>1, <4>2
      <4> QED
        BY <3>1, <4>3
    <3>5. \A n, o, r \in nodes: <<n, o>> \in before /\ <<o, r>> \in before => <<n, r>> \in before
      <4> SUFFICES ASSUME NEW n \in nodes, NEW o \in nodes, NEW r \in nodes,
                          <<n, o>> \in before, <<o, r>> \in before
                   PROVE  <<n, r>> \in before
        OBVIOUS
      <4> QED
        BY <3>1, <3>2
    <3> QED
      BY <3>3, <3>4, <3>5 DEF TotalOrder
  <2> HIDE DEF nodes, before, M, addresses, s
  <2>5. s \in Seq(nodes) /\ \A i, j \in 1..Len(s): i # j => s[i] # s[j]
    BY <2>1, <2>3, <2>4, InOrderIs
  <2>6. Len(s) \in Nat /\ DOMAIN s = 1..Len(s) /\ \A k \in 1..Len(s): s[k] \in nodes
    BY <2>5
  <2>7. /\ HardwareOf(x) = AllJoined(s)
        /\ \A k \in DOMAIN s: Snapshot(s[k].nvml) # HardwareError
    <3>1. HardwareOf(x) = ClusterSnapshot(x.cluster)
      BY <1>2 DEF HardwareOf
    <3> QED
      BY <3>1 DEF ClusterSnapshot, s
  <2>8. \A n \in nodes: n.nvml.count # None => n.nvml.count \in Nat
    BY <2>1 DEF MachineAt, MachineTyped, WiresOf
  <2>9. DOMAIN M = addresses
    BY DEF M
  <2>10. ReadNodes(M, s)
    BY <2>1, <2>2, <2>5, <2>6, <2>7, <2>8, <2>9 DEF ReadNodes
  <2>11. Shows(M, HardwareOf(x))
    BY <2>7, <2>10, AllShown
  <2>12. \A a \in DOMAIN M: MachineAt(x, M[a], a)
    <3> SUFFICES ASSUME NEW a \in addresses
                 PROVE  MachineAt(x, M[a], a)
      BY <2>9
    <3>1. PICK n \in nodes: n.address = a
      BY DEF addresses
    <3> QED
      BY <2>1, <2>2, <3>1
  <2> QED
    BY <2>11, <2>12
<1> QED
  BY <1>1, <1>2

\* What a pair of GPUs of one node scores, and what links it.
LEMMA PairRead ==
    ASSUME NEW M, NEW hw, Shows(M, hw), hw.known,
           NEW a \in hw.gpus, NEW b \in hw.gpus, a < b, hw.node[a] = hw.node[b]
    PROVE  LET m == M[hw.node[a]] IN
           /\ m.count \in Nat /\ hw.local[a] \in 1..m.count /\ hw.local[b] \in 1..m.count
           /\ hw.local[a] # hw.local[b]
           /\ PairScore(hw, a, b) = EdgeScore(m, hw.local[a], hw.local[b])
<1> DEFINE m == M[hw.node[a]]
<1>1. /\ m.count \in Nat /\ hw.local[a] \in 1..m.count /\ hw.local[b] \in 1..m.count
      /\ hw.local[a] < hw.local[b]
      /\ {a, b} \in DOMAIN hw.link /\ hw.link[{a, b}] = EdgeScore(m, hw.local[a], hw.local[b])
  BY DEF Shows
<1>2. PairScore(hw, a, b) = hw.link[{a, b}]
  BY <1>1 DEF PairScore
<1>3. hw.local[a] # hw.local[b]
  BY <1>1
<1> QED
  BY <1>1, <1>2, <1>3

----------------------------------------------------------------------------
(* Repositories                                                            *)

\* The files chosen hold weights, in one format.
LEMMA SelectedAre ==
    ASSUME NEW F, Selected(F) # {}
    PROVE  \E fmt: fmt # "other" /\ Selected(F) = {f \in F: f.fmt = fmt /\ ~f.excluded}
<1> DEFINE formats == <<"safetensors", "torch", "gguf">>
<1> DEFINE Held == {i \in 1..3: OfFormat(F, formats[i]) # {}}
<1>1. Selected(F) = IF Held = {} THEN {} ELSE OfFormat(F, formats[Min(Held)])
  BY DEF Selected
<1>2. Held # {} /\ Selected(F) = OfFormat(F, formats[Min(Held)])
  BY <1>1
<1>3. Min(Held) \in 1..3
  <2>1. Held \in SUBSET Nat /\ Held \subseteq 1..3
    OBVIOUS
  <2> HIDE DEF Held
  <2> QED
    BY <1>2, <2>1, LeastOf
<1> DEFINE fmt == formats[Min(Held)]
<1>4. fmt # "other"
  <2> HIDE DEF Held
  <2> QED
    BY <1>3
<1>5. Selected(F) = OfFormat(F, fmt)
  BY <1>2
<1> HIDE DEF fmt
<1> QED
  BY <1>4, <1>5 DEF OfFormat

\* What is measured is the one copy of the format chosen.
LEMMA MeasuredWhole ==
    ASSUME NEW x, RepositoryTyped(x), NEW from \in SUBSET x.files,
           \A f \in from, g \in x.files: g.sub = f.sub => g \in from,
           Selected(from) # {}, \A f \in Selected(from): f.size # None
    PROVE  \/ Bytes(Selected(from)) = x.real
           \/ \E f, g \in x.files: f.fmt = g.fmt /\ f.copy # g.copy /\ ~f.excluded /\ ~g.excluded
<1> SUFFICES ASSUME \A f, g \in x.files:
                      f.fmt = g.fmt /\ ~f.excluded /\ ~g.excluded => f.copy = g.copy
             PROVE  Bytes(Selected(from)) = x.real
  OBVIOUS
<1> DEFINE F == Selected(from)
<1>1. PICK fmt: fmt # "other" /\ F = {f \in from: f.fmt = fmt /\ ~f.excluded}
  BY SelectedAre
<1>2. PICK f \in x.files: f \in F
  BY <1>1
<1> DEFINE Whole == {g \in x.files: g.fmt = f.fmt /\ g.copy = f.copy /\ ~g.excluded}
<1>3. /\ \A g \in Whole: g.sub = f.sub
      /\ (\A g \in Whole: g.size # None) => Bytes(Whole) = x.real
  BY <1>1, <1>2 DEF RepositoryTyped
<1>4. F = Whole
  <2>1. \A g \in F: g \in Whole
    BY <1>1, <1>2
  <2>2. \A g \in Whole: g \in F
    BY <1>1, <1>2, <1>3
  <2>3. F \subseteq x.files /\ Whole \subseteq x.files
    BY <1>1
  <2> HIDE DEF F, Whole
  <2> QED
    BY <2>1, <2>2
<1> QED
  BY <1>3, <1>4

----------------------------------------------------------------------------
(* The answers                                                             *)

\* An answer is the code's for the question asked: the inductive invariant.
AnswersTrue ==
    /\ asked = "hardware" => q \in Sites /\ answer = HardwareOf(q)
    /\ asked = "model" => q \in Repositories /\ answer = Inspect(q)
    /\ asked = "options" => q \in Commands /\ answer = Understood(q)
    /\ asked = "groups" =>
         q \in Groupings /\ answer = PlanGroups(q.hw, q.tp, q.n, q.hw.gpus)
    /\ asked = "plan" => q \in Queries /\ answer = Candidates(q)
    /\ asked = "contest" =>
         q \in Contests /\ answer = Selectable(q.rs, q.objective, q.slo)
    /\ asked = "sweep" => q \in Sweeps /\ answer = Choose(q.h, q.objective, q.slo)
    /\ asked = "search" => q \in Searches /\ answer = Measurements(q, StageA(q))

LEMMA AnswersInv ==
    PlanningSpec => []AnswersTrue
<1>1. PlanningInit => AnswersTrue
  BY PlanningNoneAssumption DEF PlanningInit, AnswersTrue
<1>2. AnswersTrue /\ [PlanningNext]_planningVars => AnswersTrue'
  <2> SUFFICES ASSUME AnswersTrue, [PlanningNext]_planningVars
               PROVE  AnswersTrue'
    OBVIOUS
  <2>1. CASE Looked
    BY <2>1 DEF Looked, Ask, AnswersTrue
  <2>2. CASE Read
    BY <2>2 DEF Read, Ask, AnswersTrue
  <2>3. CASE Model
    BY <2>3 DEF Model, Ask, AnswersTrue
  <2>4. CASE Grouping
    BY <2>4 DEF Grouping, Ask, AnswersTrue
  <2>5. CASE Planned
    BY <2>5 DEF Planned, Ask, AnswersTrue
  <2>6. CASE Contest
    BY <2>6 DEF Contest, Ask, AnswersTrue
  <2>7. CASE SweptOut
    BY <2>7 DEF SweptOut, Ask, AnswersTrue
  <2>8. CASE Searched
    BY <2>8 DEF Searched, Ask, AnswersTrue
  <2>9. CASE Answered
    BY <2>9, PlanningNoneAssumption DEF Answered, AnswersTrue
  <2>10. CASE UNCHANGED planningVars
    BY <2>10 DEF planningVars, AnswersTrue
  <2> QED
    BY <2>1, <2>2, <2>3, <2>4, <2>5, <2>6, <2>7, <2>8, <2>9, <2>10 DEF PlanningNext
<1> QED
  BY <1>1, <1>2, PTL DEF PlanningSpec

\* The parts of InputsTrue that are about what is read, each from the answer being
\* the code's.
LEMMA WiringStep ==
    ASSUME AnswersTrue
    PROVE  WiringTrue
<1> SUFFICES ASSUME asked = "hardware", answer # HardwareError
             PROVE  /\ \A i \in answer.gpus:
                         answer.free[i] = q.wires[answer.node[i]].free[answer.local[i]]
                    /\ \A p \in kSubset(2, answer.gpus) \ OneNode(answer): PairScored(answer, p) = 0
                    /\ answer.known /\ q.named =>
                         \A p \in OneNode(answer):
                            /\ PairScored(answer, p) <= 100 + Wired(answer, p)
                            /\ Wired(answer, p) = 0 => PairScored(answer, p) <= 40
                    /\ answer.known /\ q.clear =>
                         \A p, r \in OneNode(answer):
                            Wired(answer, p) > Wired(answer, r)
                              => PairScored(answer, p) > PairScored(answer, r)
  BY DEF WiringTrue
<1>1. SiteTyped(q) /\ answer = HardwareOf(q)
  BY QuestionsAssumption DEF AnswersTrue
<1>2. PICK M: Shows(M, answer) /\ \A a \in DOMAIN M: MachineAt(q, M[a], a)
  BY <1>1, SiteShown
<1> DEFINE S == answer.gpus
<1> DEFINE At(i) == answer.node[i]
<1>3. /\ S \in SUBSET Nat /\ IsFiniteSet(S)
      /\ \A i \in S: At(i) \in DOMAIN M /\ M[At(i)].count # None
  BY <1>2, PlanningNoneAssumption DEF Shows
<1>4. ASSUME NEW i \in S
      PROVE  /\ answer.free[i] = q.wires[At(i)].free[answer.local[i]]
             /\ q.named => MachineTyped(M[At(i)], q.wires[At(i)], TRUE, FALSE)
             /\ q.clear => MachineTyped(M[At(i)], q.wires[At(i)], TRUE, TRUE)
  <2>1. MachineTyped(M[At(i)], q.wires[At(i)], q.named, q.clear)
    BY <1>2, <1>3 DEF MachineAt
  <2>2. WiresOf(M[At(i)], q.wires[At(i)])
    BY <1>3, <2>1 DEF MachineTyped
  <2>3. answer.local[i] \in 1..M[At(i)].count
        /\ answer.free[i] = M[At(i)].device[answer.local[i]].free
    BY <1>2 DEF Shows
  <2>4. answer.free[i] = q.wires[At(i)].free[answer.local[i]]
    BY <2>2, <2>3 DEF WiresOf
  <2> QED
    BY <2>1, <2>4 DEF MachineTyped
<1>5. \A p \in kSubset(2, S): \E a, b \in S: a < b /\ p = {a, b} /\ Min(p) = a /\ Max(p) = b
  <2> HIDE DEF S
  <2> QED
    BY <1>3, PairsAre
<1>6. \A p \in kSubset(2, S) \ OneNode(answer): PairScored(answer, p) = 0
  BY DEF OneNode, PairScored, PairScore
<1> DEFINE IsPair(p, i, j, w, m) ==
             /\ m.count # None /\ i \in 1..m.count /\ j \in 1..m.count /\ i # j
             /\ PairScored(answer, p) = EdgeScore(m, i, j)
             /\ Wired(answer, p) = TrueLinks(w, i, j)
             /\ q.named => MachineTyped(m, w, TRUE, FALSE)
             /\ q.clear => MachineTyped(m, w, TRUE, TRUE)
<1>7. ASSUME answer.known, NEW p \in OneNode(answer)
      PROVE  \E i, j, w, m: IsPair(p, i, j, w, m)
  <2>1. p \in kSubset(2, S) /\ At(Min(p)) = At(Max(p))
    BY DEF OneNode
  <2>2. PICK a \in S, b \in S: a < b /\ p = {a, b} /\ Min(p) = a /\ Max(p) = b
    BY <1>5, <2>1
  <2> DEFINE i == answer.local[a]
  <2> DEFINE j == answer.local[b]
  <2> DEFINE m == M[At(a)]
  <2> DEFINE w == q.wires[At(a)]
  <2>3. /\ m.count # None /\ i \in 1..m.count /\ j \in 1..m.count /\ i # j
        /\ PairScored(answer, p) = EdgeScore(m, i, j)
    BY <1>2, <1>3, <1>7, <2>1, <2>2, PairRead DEF PairScored
  <2>4. LocalIds(answer, p) = {i, j}
    BY <2>2 DEF LocalIds
  <2>5. {w.switch[h]: h \in LocalIds(answer, p)} = {w.switch[i], w.switch[j]}
    BY <2>4
  <2>6. Wired(answer, p) = TrueLinks(w, i, j)
    <3> DEFINE L == LocalIds(answer, p)
    <3>1. q.wires[answer.node[Min(p)]] = w
      BY <2>2
    <3> HIDE DEF w, i, j
    <3>2. Wired(answer, p) = Max({w.direct[L], Min({w.switch[h]: h \in L})})
      BY <3>1, Zenon DEF Wired
    <3>3. Max({w.direct[L], Min({w.switch[h]: h \in L})})
            = Max({w.direct[{i, j}], Min({w.switch[i], w.switch[j]})})
      BY <2>4, <2>5, Zenon
    <3> QED
      BY <3>2, <3>3 DEF TrueLinks
  <2>7. /\ q.named => MachineTyped(m, w, TRUE, FALSE)
        /\ q.clear => MachineTyped(m, w, TRUE, TRUE)
    BY <1>4
  <2>8. IsPair(p, i, j, w, m)
    BY <2>3, <2>6, <2>7
  <2> HIDE DEF IsPair, i, j, m, w
  <2> QED
    BY <2>8
<1>8. ASSUME answer.known, q.named, NEW p \in OneNode(answer)
      PROVE  /\ PairScored(answer, p) <= 100 + Wired(answer, p)
             /\ Wired(answer, p) = 0 => PairScored(answer, p) <= 40
  <2>1. PICK i, j, w, m: IsPair(p, i, j, w, m)
    <3> HIDE DEF IsPair
    <3> QED
      BY <1>7, <1>8
  <2> DEFINE t == TrueLinks(w, i, j)
  <2>2. /\ t \in Nat /\ EdgeScore(m, i, j) \in Nat /\ EdgeScore(m, i, j) <= 100 + t
        /\ t = 0 => EdgeScore(m, i, j) <= 40
    <3>1. /\ MachineTyped(m, w, TRUE, FALSE) /\ m.count # None
          /\ i \in 1..m.count /\ j \in 1..m.count /\ i # j
      BY <1>8, <2>1
    <3> HIDE DEF IsPair
    <3> QED
      BY <3>1, EdgeIs
  <2> HIDE DEF t
  <2>3. PairScored(answer, p) = EdgeScore(m, i, j) /\ Wired(answer, p) = t
    BY <2>1 DEF t
  <2> QED
    BY <2>2, <2>3
<1>9. ASSUME answer.known, q.clear, NEW p \in OneNode(answer)
      PROVE  /\ Wired(answer, p) \in Nat /\ PairScored(answer, p) \in Nat
             /\ Wired(answer, p) = 0 => PairScored(answer, p) <= 40
             /\ Wired(answer, p) # 0 => PairScored(answer, p) = 100 + Wired(answer, p)
  <2>1. PICK i, j, w, m: IsPair(p, i, j, w, m)
    <3> HIDE DEF IsPair
    <3> QED
      BY <1>7, <1>9
  <2> DEFINE t == TrueLinks(w, i, j)
  <2>2. /\ t \in Nat /\ EdgeScore(m, i, j) \in Nat /\ EdgeScore(m, i, j) <= 100 + t
        /\ t = 0 => EdgeScore(m, i, j) <= 40
        /\ t # 0 => EdgeScore(m, i, j) = 100 + t
    <3>1. /\ MachineTyped(m, w, TRUE, TRUE) /\ m.count # None
          /\ i \in 1..m.count /\ j \in 1..m.count /\ i # j
      BY <1>9, <2>1
    <3> HIDE DEF IsPair
    <3> QED
      BY <3>1, EdgeIs
  <2> HIDE DEF t
  <2>3. PairScored(answer, p) = EdgeScore(m, i, j) /\ Wired(answer, p) = t
    BY <2>1 DEF t
  <2> QED
    BY <2>2, <2>3
<1>10. ASSUME answer.known, q.clear, NEW p \in OneNode(answer), NEW r \in OneNode(answer),
              Wired(answer, p) > Wired(answer, r)
       PROVE  PairScored(answer, p) > PairScored(answer, r)
  <2>1. /\ Wired(answer, p) \in Nat
        /\ Wired(answer, p) # 0 => PairScored(answer, p) = 100 + Wired(answer, p)
        /\ Wired(answer, r) \in Nat /\ PairScored(answer, r) \in Nat
        /\ Wired(answer, r) = 0 => PairScored(answer, r) <= 40
        /\ Wired(answer, r) # 0 => PairScored(answer, r) = 100 + Wired(answer, r)
    BY <1>9, <1>10
  <2> QED
    BY <1>10, <2>1
<1> QED
  BY <1>4, <1>6, <1>8, <1>10

LEMMA MeasuredStep ==
    ASSUME AnswersTrue
    PROVE  MeasuredIsTrue
<1> SUFFICES ASSUME asked = "model", answer # NotInspected, Exact(answer)
             PROVE  \/ answer.weight = q.real
                    \/ \E f, g \in q.files:
                         f.fmt = g.fmt /\ f.copy # g.copy /\ ~f.excluded /\ ~g.excluded
  BY DEF MeasuredIsTrue
<1>1. RepositoryTyped(q) /\ answer = Inspect(q)
  BY QuestionsAssumption DEF AnswersTrue
<1> DEFINE p == Profile(q.config, TextConfig(q.config))
<1> DEFINE w == Measure(q)
<1>2. answer = Sized(p, w, q.kvDtype)
  BY <1>1 DEF Inspect
<1> HIDE DEF p, w
<1>3. answer.weight = Applied(p, w).bytes /\ answer.source = Applied(p, w).source
  BY <1>2 DEF Sized, Inspected
<1>4. w.bytes # None /\ Applied(p, w) = w
  <2>1. EstimatedWeight(p, Parameters(p)).source \in {"unknown", "estimated"}
    BY DEF EstimatedWeight, UnknownWeight, Weight
  <2>2. Applied(p, w).source \in {"local_files", "huggingface_metadata"}
    BY <1>3 DEF Exact
  <2> QED
    BY <2>1, <2>2 DEF Applied
<1>5. answer.weight = w.bytes /\ w.source \in {"local_files", "huggingface_metadata"}
  BY <1>3, <1>4 DEF Exact
<1>6. CASE q.place = "dir"
  <2> DEFINE own == {f \in q.files: ~f.sub}
  <2>1. w = MeasuredLocally(Selected(own))
    BY <1>6 DEF w, Measure
  <2>2. Selected(own) # {} /\ w.bytes = Bytes(Selected(own))
    BY <1>4, <2>1 DEF MeasuredLocally, UnknownWeight, Weight
  <2>3. \A f \in Selected(own): f.size # None
    <3>1. \A f \in Selected(own): f \in own /\ ~f.excluded /\ f.fmt # "other"
      <4> HIDE DEF own
      <4> QED
        BY <2>2, SelectedAre
    <3> QED
      BY <1>1, <1>6, <3>1 DEF RepositoryTyped
  <2>4. own \in SUBSET q.files /\ \A f \in own, g \in q.files: g.sub = f.sub => g \in own
    OBVIOUS
  <2> HIDE DEF own
  <2> QED
    BY <1>1, <1>5, <2>2, <2>3, <2>4, MeasuredWhole
<1>7. CASE q.place # "dir"
  <2> DEFINE F == Selected(q.files)
  <2>1. w = MeasuredOnHub(F)
    <3>1. w = IF MeasuredOnHub(F).bytes # None \/ q.counts = None THEN MeasuredOnHub(F)
              ELSE FromCounts(q.counts)
      BY <1>7 DEF w, Measure
    <3>2. FromCounts(q.counts).source \in {"unknown", "safetensors_metadata"}
      BY DEF FromCounts, UnknownWeight, Weight
    <3> QED
      BY <1>5, <3>1, <3>2
  <2>2. F # {} /\ (\A f \in F: f.size # None) /\ w.bytes = Bytes(F)
    BY <1>4, <2>1 DEF MeasuredOnHub, UnknownWeight, Weight
  <2> QED
    BY <1>1, <1>5, <2>2, MeasuredWhole
<1> QED
  BY <1>6, <1>7

\* The parts of WorkloadFits, each from the answer being the code's.
LEMMA LengthsStep ==
    ASSUME AnswersTrue
    PROVE  LengthsAgree
<1> SUFFICES ASSUME asked = "options"
             PROVE  /\ ~Refused(q) /\ q.file.context = None =>
                         answer.work.p95 <= (IF answer.cons.context = None THEN answer.work.context
                                             ELSE answer.cons.context)
                    /\ Refused(q) =>
                         \/ ~OnlyTypical(q)
                         \/ Merged(q.file, q.flags).model = None
                         \/ \E k \in {"expected", "lat", "ttft"}: ~AtLeast(Merged(q.file, q.flags), k, 1)
                         \/ \E k \in {"in50", "out50"}: q.flags[k] # None /\ q.flags[k] < 1
                         \/ ~ConfigValid(q.file) \/ ~ConfigValid(Merged(q.file, q.flags))
  BY DEF LengthsAgree
<1>1. CommandTyped(q) /\ answer = Understood(q)
  BY QuestionsAssumption DEF AnswersTrue
<1>2. ~Refused(q) /\ q.file.context = None =>
        answer.work.p95 <= (IF answer.cons.context = None THEN answer.work.context
                            ELSE answer.cons.context)
  BY <1>1, UnderstoodFits
<1>3. ASSUME Refused(q), OnlyTypical(q),
             Merged(q.file, q.flags).model # None,
             \A k \in {"expected", "lat", "ttft"}: AtLeast(Merged(q.file, q.flags), k, 1),
             \A k \in {"in50", "out50"}: q.flags[k] # None => ~(q.flags[k] < 1),
             ConfigValid(q.file), ConfigValid(Merged(q.file, q.flags))
      PROVE  FALSE
  <2>1. \A k \in {"in50", "out50"}: q.flags[k] # None => q.flags[k] >= 1
    BY <1>1, <1>3 DEF CommandTyped, Numbers, Lengths
  <2>2. WorkloadValid(Merged(q.file, q.flags), Values(Merged(q.file, q.flags)))
    BY <1>1, <1>3, <2>1, OnlyTypicalUnderstood
  <2> QED
    BY <1>3, <2>2 DEF Refused
<1> QED
  BY <1>2, <1>3

LEMMA FitsStep ==
    ASSUME AnswersTrue, LayoutFits
    PROVE  FitsEveryGpu
<1> SUFFICES ASSUME asked = "plan", NEW p \in answer, NEW g \in Used(p), ~p.unknown
             PROVE  LET budget == (p.fraction * q.hw.total[g]) \div 100
                        kv == KvPerRank(q.model, p.tp)
                        reserve == IF q.cons.fraction = None THEN SafetyReserve(q.hw.total[g])
                                   ELSE 0
                    IN /\ budget + reserve <= q.hw.free[g]
                       /\ ShardedWeight(q.model.weight, p.tp * p.pp)
                            + Dynamic(q.hw.total[g], p.tp)
                            + (IF kv = None THEN UnknownKvSpare
                               ELSE ((kv \div p.pp) * p.context) \div 1024)
                            <= budget
  BY DEF FitsEveryGpu
<1>1. QueryTyped(q) /\ p \in Candidates(q)
  BY QuestionsAssumption DEF AnswersTrue
<1>2. Used(p) \subseteq Ids(q)
  BY DEF LayoutFits
<1> DEFINE budget == Percent(p.fraction, p.total)
<1>3. /\ q.hw.total[g] = p.total
      /\ budget + (IF q.cons.fraction = None THEN SafetyReserve(p.total) ELSE 0) <= q.hw.free[g]
      /\ ShardedWeight(q.model.weight, p.tp * p.pp) + Dynamic(p.total, p.tp)
           + Need(q.model, p.tp, p.pp, p.context) <= budget
  BY <1>1, <1>2, CandidateFits
<1> QED
  BY <1>3 DEF Need, Percent

LEMMA SglangStep ==
    ASSUME AnswersTrue, LayoutFits
    PROVE  SglangWithinBudget
<1> SUFFICES ASSUME asked = "plan", NEW p \in answer, NEW i \in DOMAIN p.groups,
                    p.engine.name = "sglang",
                    Args(p.engine, q.model, p, LocalIds(q.hw, p.groups[i])).fraction > 30
             PROVE  LET a == Args(p.engine, q.model, p, LocalIds(q.hw, p.groups[i]))
                        kv == KvPerRank(q.model, p.tp)
                        holds == ShardedWeight(q.model.weight, p.tp)
                                   + (IF kv = None THEN UnknownKvSpare
                                      ELSE (kv * p.context) \div 1024)
                    IN /\ 2 * a.fraction * p.total + 200 * p.dynamic
                            <= (2 * p.fraction + 1) * p.total
                       /\ ~p.unknown => 200 * holds <= (2 * a.fraction + 1) * p.total
  BY DEF SglangWithinBudget
<1> DEFINE a == Args(p.engine, q.model, p, LocalIds(q.hw, p.groups[i]))
<1>1. QueryTyped(q) /\ p \in Candidates(q)
  BY QuestionsAssumption DEF AnswersTrue
<1>2. Used(p) \subseteq Ids(q)
  BY DEF LayoutFits
<1>3. a.fraction = StaticFraction(p)
  BY DEF Args, SglangArgs
<1>4. p.pp = 1 /\ p.backend = None
  BY <1>1, <1>2, CandidateFits
<1>5. Used(p) # {}
  <2>1. Cardinality({q.hw.node[g]: g \in p.groups[i]}) = 1
    BY <1>4 DEF LayoutFits
  <2>2. p.groups[i] # {}
    <3>1. CASE p.groups[i] = {}
      <4>1. {q.hw.node[g]: g \in p.groups[i]} = {}
        BY <3>1
      <4>2. Cardinality({}) = 0
        BY FS_EmptySet
      <4> QED
        BY <2>1, <4>1, <4>2
    <3> QED
      BY <3>1
  <2>3. p.groups[i] \in ToSet(p.groups)
    BY DEF ToSet
  <2> QED
    BY <2>2, <2>3 DEF Used
<1>6. /\ p.total \in Nat \ {0} /\ p.dynamic = Dynamic(p.total, p.tp) /\ p.tp \in Nat \ {0}
      /\ p.fraction \in Nat /\ p.context = Context(q)
      /\ ~p.unknown =>
           /\ q.model.weight \in Nat
           /\ ShardedWeight(q.model.weight, p.tp * p.pp) + p.dynamic
                + Need(q.model, p.tp, p.pp, p.context) <= Percent(p.fraction, p.total)
  BY <1>1, <1>2, <1>5, CandidateFits
<1>7. p.dynamic \in Nat
  BY <1>6, DynamicTyped
<1>8. /\ 2 * a.fraction * p.total + 200 * p.dynamic <= (2 * p.fraction + 1) * p.total
      /\ \A holds \in Nat:
           holds + p.dynamic <= Percent(p.fraction, p.total) =>
             200 * holds <= (2 * a.fraction + 1) * p.total
  BY <1>3, <1>6, <1>7, StaticPart
<1>9. ASSUME ~p.unknown
      PROVE  200 * (ShardedWeight(q.model.weight, p.tp)
                     + (IF KvPerRank(q.model, p.tp) = None THEN UnknownKvSpare
                        ELSE (KvPerRank(q.model, p.tp) * p.context) \div 1024))
               <= (2 * a.fraction + 1) * p.total
  <2> DEFINE kv == KvPerRank(q.model, p.tp)
  <2> DEFINE need == IF kv = None THEN UnknownKvSpare ELSE (kv * p.context) \div 1024
  <2> DEFINE w == ShardedWeight(q.model.weight, p.tp)
  <2>1. ModelTyped(q.model) /\ None \notin Int
    BY <1>1, PlanningNoneAssumption DEF QueryTyped, ModelTyped
  <2>2. p.context \in Nat
    <3>1. Admitted(q)
      BY <1>1, AdmittedOnly DEF Candidates
    <3> QED
      BY <1>1, <1>6, <3>1, ContextChosen
  <2>3. kv \in Nat \cup {None}
    BY <1>6, <2>1, PerRank
  <2>4. w \in Nat
    BY <1>6, <1>9, Sharded
  <2>5. p.tp * p.pp = p.tp
    BY <1>4, <1>6
  <2>6. Need(q.model, p.tp, p.pp, p.context) = need /\ need \in Nat
    <3>1. CASE kv = None
      BY <3>1 DEF Need, UnknownKvSpare, GiB
    <3>2. CASE kv # None
      <4>1. kv \in Nat /\ kv \div p.pp = kv
        BY <1>4, <2>3, <3>2
      <4> HIDE DEF kv
      <4>2. kv * p.context \in Nat
        BY <2>2, <4>1
      <4>3. need \in Nat
        BY <3>2, <4>2
      <4>4. Need(q.model, p.tp, p.pp, p.context) = (kv * p.context) \div 1024
        BY <3>2, <4>1 DEF Need, kv
      <4> QED
        BY <3>2, <4>3, <4>4
    <3> QED
      BY <3>1, <3>2
  <2> HIDE DEF need, w
  <2>7. w + need \in Nat /\ (w + need) + p.dynamic <= Percent(p.fraction, p.total)
    <3>1. w + p.dynamic + need <= Percent(p.fraction, p.total)
      BY <1>6, <1>9, <2>5, <2>6 DEF w
    <3>2. w + p.dynamic + need = (w + need) + p.dynamic
      BY <1>7, <2>4, <2>6
    <3> QED
      BY <2>4, <2>6, <3>1, <3>2
  <2>8. 200 * (w + need) <= (2 * a.fraction + 1) * p.total
    BY <1>8, <2>7
  <2> QED
    BY <2>8 DEF w, need
<1> QED
  BY <1>8, <1>9

LEMMA ContextStep ==
    ASSUME AnswersTrue
    PROVE  ContextServes
<1> SUFFICES ASSUME asked = "plan", NEW p \in answer
             PROVE  /\ q.model.limit # None /\ p.context > q.model.limit
                         => q.cons.override /\ q.cons.context # None
                    /\ q.cons.context = None => q.work.p95 <= p.context
  BY DEF ContextServes
<1>1. QueryTyped(q) /\ p \in Candidates(q)
  BY QuestionsAssumption DEF AnswersTrue
<1>2. Admitted(q) /\ p \in PlansOf(q)
  BY <1>1, AdmittedOnly DEF Candidates
<1>3. p.context = Context(q)
  <2>1. PICK e, tp, pp, groups, v, backend: MadeOf(q, p, e, tp, pp, groups, v, backend)
    BY <1>1, <1>2, CandidateMade
  <2> QED
    BY <2>1 DEF MadeOf, MakePlan
<1> QED
  BY <1>1, <1>2, <1>3, ContextChosen

\* The parts of PlansSound, each from the answer being the code's.
LEMMA ApartStep ==
    ASSUME AnswersTrue
    PROVE  GroupsApart
<1> SUFFICES ASSUME asked = "groups", answer # Failed
             PROVE  /\ Len(answer) = q.n
                    /\ \A i \in DOMAIN answer:
                         /\ answer[i] \subseteq q.hw.gpus /\ Cardinality(answer[i]) = q.tp
                         /\ Cardinality({q.hw.node[g]: g \in answer[i]}) = 1
                         /\ \A j \in DOMAIN answer: i # j => answer[i] \cap answer[j] = {}
  BY DEF GroupsApart
<1>1. /\ HwTyped(q.hw) /\ q.tp \in Nat \ {0} /\ q.n \in Nat
      /\ answer = PlanGroups(q.hw, q.tp, q.n, q.hw.gpus)
  BY QuestionsAssumption DEF AnswersTrue, GroupingTyped
<1>2. Placed(q.hw, q.tp, q.n, q.hw.gpus, answer)
  <2>1. q.hw.gpus \in SUBSET q.hw.gpus
    OBVIOUS
  <2>2. answer = Failed \/ Placed(q.hw, q.tp, q.n, q.hw.gpus, answer)
    BY <1>1, <2>1, PlanGroupsIs
  <2> QED
    BY <2>2
<1>3. Len(answer) = q.n
  BY <1>2 DEF Placed
<1>4. EachApart(q.hw, q.tp, q.hw.gpus, answer)
  BY <1>1, <1>2, EachPlaced
<1> QED
  BY <1>3, <1>4 DEF EachApart, NodesOf

\* Of the layouts of one machine it is the best connected one.
LEMMA ConnectedStep ==
    ASSUME AnswersTrue
    PROVE  BestConnected
<1> SUFFICES ASSUME asked = "groups", q.tp > 1, Cardinality(q.hw.gpus) <= ExhaustiveMax,
                    Cardinality({q.hw.node[i]: i \in q.hw.gpus}) = 1,
                    q.tp * q.n <= Cardinality(q.hw.gpus), NEW S \in Layouts(q)
             PROVE  PartitionScore(q.hw, S) <= PartitionScore(q.hw, ToSet(answer))
  BY DEF BestConnected
<1>1. /\ HwTyped(q.hw) /\ q.tp \in Nat \ {0} /\ q.n \in Nat
      /\ answer = PlanGroups(q.hw, q.tp, q.n, q.hw.gpus)
  BY QuestionsAssumption DEF AnswersTrue, GroupingTyped
<1>2. Cardinality(NodesOf(q.hw, q.hw.gpus)) = 1
  BY DEF NodesOf
<1>3. Optimal(q.hw, q.tp, q.hw.gpus, q.n, ToSet(answer))
  BY <1>1, <1>2, PlanGroupsIs
<1>4. IsLayout(q.tp, q.hw.gpus, S) /\ Cardinality(S) = q.n
  BY DEF Layouts, kSubset, IsLayout
<1> QED
  BY <1>3, <1>4 DEF Optimal

\* The layout of a candidate belongs to it, in each state.
LEMMA LayoutStep ==
    ASSUME AnswersTrue
    PROVE  LayoutFits
<1> SUFFICES ASSUME asked = "plan", NEW p \in answer
             PROVE  /\ Used(p) \subseteq Ids(q)
                    /\ Cardinality(Used(p)) = Len(p.groups) * p.tp * p.pp
                    /\ p.backend = None =>
                         /\ \A i \in DOMAIN p.groups:
                              Cardinality({q.hw.node[g]: g \in p.groups[i]}) = 1
                         /\ q.cons.replicas = None =>
                              \A n \in Nodes(q): Cardinality(OnNode(q, n) \ Used(p)) < p.tp
  BY DEF LayoutFits
<1>1. QueryTyped(q) /\ PlanError(q) = None /\ p \in PlansOf(q)
  BY QuestionsAssumption DEF AnswersTrue, Candidates
<1>2. Admitted(q)
  BY <1>1, AdmittedOnly
<1>3. LaidOut(q, p)
  BY <1>1, <1>2, WithinOrAcross, WithinLaidOut, AcrossLaidOut
<1>4. p.backend = None =>
        \A i \in DOMAIN p.groups: Cardinality({q.hw.node[g]: g \in p.groups[i]}) = 1
  BY <1>3 DEF LaidOut, EachApart, NodesOf
<1>5. p.backend = None /\ q.cons.replicas = None =>
        \A n \in Nodes(q): Cardinality(OnNode(q, n) \ Used(p)) < p.tp
  BY <1>3 DEF LaidOut, Filled, NodesOf, Nodes, OnNode, On, Used
<1> QED
  BY <1>3, <1>4, <1>5 DEF LaidOut

\* A constraint is kept, in each state.
LEMMA ForcedStep ==
    ASSUME AnswersTrue
    PROVE  ForcedIsKept
<1> SUFFICES ASSUME asked = "plan", NEW p \in answer
             PROVE  /\ q.cons.engine \in {None, p.engine.name}
                    /\ q.cons.tp \in {None, p.tp}
                    /\ q.cons.replicas \in {None, Len(p.groups)}
  BY DEF ForcedIsKept
<1>1. QueryTyped(q) /\ PlanError(q) = None /\ p \in PlansOf(q)
  BY QuestionsAssumption DEF AnswersTrue, Candidates
<1>2. Admitted(q)
  BY <1>1, AdmittedOnly
<1>3. ASSUME NEW e, NEW tp, NEW v, NEW est, Within(q, p, e, tp, v, est)
      PROVE  /\ q.cons.engine \in {None, p.engine.name}
             /\ q.cons.tp \in {None, p.tp}
             /\ q.cons.replicas \in {None, Len(p.groups)}
  <2>1. /\ p.tp = tp /\ p.engine = e /\ Placed(q.hw, tp, Wanted(q, tp), Ids(q), p.groups)
        /\ q.cons.replicas # None => Wanted(q, tp) = q.cons.replicas
    BY <1>1, <1>3, WithinPlaced
  <2>2. q.cons.replicas \in {None, Len(p.groups)}
    BY <2>1 DEF Placed
  <2>3. q.cons.tp \in {None, tp}
    BY <1>3 DEF Within, TpValues
  <2>4. q.cons.engine \in {None, e.name}
    BY <1>3 DEF Within, EngineChoice
  <2> QED
    BY <2>1, <2>2, <2>3, <2>4
<1>4. ASSUME NEW e, NEW s, NEW est, Across(q, p, e, s, est)
      PROVE  /\ q.cons.engine \in {None, p.engine.name}
             /\ q.cons.tp \in {None, p.tp}
             /\ q.cons.replicas \in {None, Len(p.groups)}
  <2>1. p.groups = <<Evenly(q)>> /\ p.engine = e /\ p.tp = s[1]
    BY <1>1, <1>2, <1>4, AcrossLaid, ZenonT(30)
  <2>2. q.cons.replicas \in {None, 1} /\ q.cons.tp \in {None, s[1]}
        /\ q.cons.engine \in {None, e.name}
    BY <1>4 DEF Across, EngineChoice
  <2>3. Len(p.groups) = 1
    BY <2>1
  <2> QED
    BY <2>1, <2>2, <2>3
<1> QED
  BY <1>1, <1>3, <1>4, WithinOrAcross

\* An engine makes one process for each GPU, in each state.
LEMMA RankStep ==
    ASSUME AnswersTrue
    PROVE  RankPerGpu
<1> SUFFICES ASSUME asked = "plan", NEW p \in answer, NEW i \in DOMAIN p.groups
             PROVE  Ranked(q, p, p.groups[i],
                           Args(p.engine, q.model, p, LocalIds(q.hw, p.groups[i])))
  BY DEF RankPerGpu, Ranked
<1>1. QueryTyped(q) /\ PlanError(q) = None /\ p \in PlansOf(q)
  BY QuestionsAssumption DEF AnswersTrue, Candidates
<1>2. Admitted(q)
  BY <1>1, AdmittedOnly
<1>3. HwTyped(q.hw) /\ Ids(q) \in SUBSET q.hw.gpus
  BY <1>1, <1>2 DEF QueryTyped, Admitted
<1>4. PICK g: g = p.groups[i]
  OBVIOUS
<1>5. g \in ToSet(p.groups)
  BY <1>4 DEF ToSet
<1>6. ASSUME g # {}
      PROVE  p.seqs \in Nat
  <2>1. Used(p) # {}
    BY <1>5, <1>6 DEF Used
  <2>2. Used(p) \subseteq Ids(q)
    BY LayoutStep DEF LayoutFits
  <2> QED
    BY <1>1, <1>2, <2>1, <2>2, SeqsTyped
<1> DEFINE a == Args(p.engine, q.model, p, LocalIds(q.hw, g))
<1>7. ASSUME NEW e, NEW tp, NEW v, NEW est, Within(q, p, e, tp, v, est)
      PROVE  Ranked(q, p, g, a)
  <2>1. p.tp = tp /\ tp \in Nat \ {0} /\ Placed(q.hw, tp, Wanted(q, tp), Ids(q), p.groups)
    BY <1>1, <1>7, WithinPlaced
  <2>2. EachApart(q.hw, tp, Ids(q), p.groups)
    BY <2>1, EachPlaced
  <2>3. g # {} /\ Cardinality(g) = tp
    BY <1>4, <2>2 DEF EachApart
  <2>4. PICK n \in NodesOf(q.hw, Ids(q)): g \subseteq On(q.hw, Ids(q), n)
    BY <1>4, <2>1 DEF Placed
  <2>5. g = {j \in q.hw.gpus: q.hw.node[j] = n /\ q.hw.local[j] \in LocalIds(q.hw, g)}
    BY <1>3, <2>4, GroupSeen
  <2>6. /\ Ranks(p.engine, a) = tp /\ a.visible = LocalIds(q.hw, g)
        /\ a.seqs * (tp \div a.tp) >= p.seqs
    BY <1>1, <1>6, <1>7, <2>3, ArgsWithin
  <2>7. n \in Nodes(q)
    BY <2>4 DEF Nodes, NodesOf
  <2> HIDE DEF a
  <2>8. \E m \in Nodes(q):
          g = {j \in q.hw.gpus: q.hw.node[j] = m /\ q.hw.local[j] \in a.visible}
    BY <2>5, <2>6, <2>7
  <2> QED
    BY <2>1, <2>3, <2>6, <2>8 DEF Ranked
<1>8. ASSUME NEW e, NEW s, NEW est, Across(q, p, e, s, est)
      PROVE  Ranked(q, p, g, a)
  <2>1. /\ p.groups = <<Evenly(q)>> /\ p.backend = "ray"
        /\ p.tp \in Nat \ {0} /\ p.pp \in Nat \ {0}
        /\ Cardinality(Evenly(q)) = p.tp * p.pp
    BY <1>1, <1>2, <1>8, AcrossLaid
  <2>2. g = Evenly(q)
    BY <1>4, <2>1
  <2>3. Cardinality(g) = p.tp * p.pp
    BY <2>1, <2>2, Zenon
  <2>4. g # {}
    <3>1. PICK n: n = p.tp * p.pp
      OBVIOUS
    <3>2. n \in Nat \ {0} /\ Cardinality(g) = n
      BY <2>1, <2>3, <3>1
    <3> QED
      BY <3>2, FS_EmptySet
  <2>5. /\ Ranks(p.engine, a) = p.tp * p.pp /\ a.visible = {}
        /\ a.seqs * (p.tp \div a.tp) >= p.seqs
    BY <1>1, <1>2, <1>6, <1>8, <2>4, ArgsAcross
  <2> HIDE DEF a
  <2> QED
    BY <2>1, <2>3, <2>5 DEF Ranked
<1> QED
  BY <1>1, <1>4, <1>7, <1>8, WithinOrAcross

\* Machines are spanned only when none of them can hold a replica.
LEMMA SpansLast ==
    ASSUME AnswersTrue
    PROVE  SpansAsLastResort
<1>1. ASSUME NEW x, NEW p \in WithinNodes(x)
      PROVE  p.backend = None
  <2>1. PICK tp, groups: p \in Grouped(x, tp, groups)
    BY <1>1 DEF WithinNodes, OfSize
  <2>2. PICK e, est, v: p = MakePlan(x, e, tp, 1, groups, v, est, None)
    BY <2>1 DEF Grouped, Estimated
  <2> QED
    BY <2>2 DEF MakePlan
<1>2. ASSUME NEW x, NEW p \in AcrossNodes(x)
      PROVE  p.backend = "ray" /\ Len(p.groups) = 1
  <2>1. PICK e, all, s, est: p \in Spanning(x, e, all, s, est)
    BY <1>2 DEF AcrossNodes
  <2>2. p = MakePlan(x, e, s[1], s[2], <<all>>, "", est, "ray")
    BY <2>1 DEF Spanning
  <2> QED
    BY <2>2 DEF MakePlan
<1> QED
  BY <1>1, <1>2 DEF AnswersTrue, SpansAsLastResort, Candidates, PlansOf, OrAcross

\* Plans are sound for all hardware, models and requests: no GPU is in two groups and
\* no partition of a machine that is searched is better connected; replicas are laid out
\* where the selected GPUs have room, as the constraints demand; and the engines'
\* processes are on just those GPUs.
THEOREM PlansAlwaysSound == PlanningSpec => []PlansSound
<1>1. AnswersTrue => PlansSound
  BY ApartStep, ConnectedStep, LayoutStep, ForcedStep, SpansLast, RankStep DEF PlansSound
<1> QED
  BY <1>1, AnswersInv, PTL

\* The workload fits into the context that is served, and one sequence of that
\* context, beside the weights, into what is free on each GPU: for all hardware,
\* models and requests.
THEOREM WorkloadsFit == PlanningSpec => []WorkloadFits
<1>1. AnswersTrue => WorkloadFits
  BY LayoutStep, LengthsStep, ContextStep, FitsStep, SglangStep DEF WorkloadFits
<1> QED
  BY <1>1, AnswersInv, PTL

\* The lengths that a command asks for fit into the context that it asks for.
THEOREM LengthsAlwaysAgree == PlanningSpec => []LengthsAgree
<1>1. AnswersTrue => LengthsAgree
  BY LengthsStep
<1> QED
  BY <1>1, AnswersInv, PTL

\* The parts of ChoicesSound.
LEMMA UnbeatenStep ==
    ASSUME AnswersTrue
    PROVE  WinnerUnbeaten
<1> SUFFICES ASSUME asked = "contest", NEW w \in answer, NEW o \in q.rs,
                    EligibleResult(o, q.slo) \/ (Valid(o) /\ ~EligibleResult(w, q.slo)),
                    o.tps > w.tps, o.lat < w.lat, o.err <= w.err,
                    \/ o.ttft = None /\ w.ttft = None
                    \/ o.ttft # None /\ w.ttft # None /\ o.ttft <= w.ttft
             PROVE  FALSE
  BY DEF WinnerUnbeaten
<1>1. ContestTyped(q) /\ answer = Selectable(q.rs, q.objective, q.slo)
  BY QuestionsAssumption DEF AnswersTrue
<1>2. Beaten(q, w, o)
  BY <1>1 DEF Beaten
<1>3. q.objective \in {"throughput", "latency", "balanced"}
  BY <1>1 DEF ContestTyped, Objectives
<1> QED
  BY <1>1, <1>2, <1>3, ThroughputWins, BalancedWins, LatencyWins

LEMMA ChoiceStep ==
    ASSUME AnswersTrue
    PROVE  ChoiceKeepsSlo /\ ChoiceNearBest
<1> SUFFICES ASSUME asked = "sweep"
             PROVE  ChoiceKeepsSlo /\ ChoiceNearBest
  BY DEF ChoiceKeepsSlo, ChoiceNearBest
<1>1. SweepTyped(q) /\ answer = Choose(q.h, q.objective, q.slo)
  BY QuestionsAssumption DEF AnswersTrue
<1>2. ASSUME \E r \in ToSet(q.h): EligibleResult(r, q.slo)
      PROVE  /\ EligibleResult(answer, q.slo)
             /\ q.objective = "latency" /\ HasSlo(q.slo) =>
                  \A r \in ToSet(q.h): EligibleResult(r, q.slo) => r.c <= answer.c
             /\ q.objective # "latency" =>
                  \A r \in ToSet(q.h): EligibleResult(r, q.slo) => Near(answer, r)
  BY <1>1, <1>2, ChoiceIs
<1>3. ChoiceKeepsSlo
  BY <1>2 DEF ChoiceKeepsSlo
<1>4. ChoiceNearBest
  BY <1>2 DEF ChoiceNearBest, Near
<1> QED
  BY <1>3, <1>4

LEMMA GoesOnStep ==
    ASSUME AnswersTrue
    PROVE  ImprovingSweepGoesOn
<1> SUFFICES ASSUME asked = "sweep", Len(q.h) > 1,
                    EligibleResult(q.h[Len(q.h)], q.slo),
                    \A i \in 1..(Len(q.h) - 1): ~SmallGain(q.h[i], q.h[Len(q.h)])
             PROVE  GoesOn(q.h, q.slo)
  BY DEF ImprovingSweepGoesOn
<1>1. SweepTyped(q)
  BY QuestionsAssumption DEF AnswersTrue
<1> DEFINE h == q.h
<1> DEFINE n == Len(h)
<1>2. n \in Nat \ {0} /\ DOMAIN h = 1..n /\ \A i \in 1..n: h[i].tps \in Nat
  BY <1>1 DEF SweepTyped, ResultTyped
<1>3. EligibleResult(h[n], q.slo) /\ \A i \in 1..(n - 1): ~SmallGain(h[i], h[n])
  OBVIOUS
<1>4. Len(h) = n
  OBVIOUS
<1> HIDE DEF n, h
<1>5. GoesOn(h, q.slo)
  BY <1>2, <1>3, <1>4, GainingGoesOn
<1> QED
  BY <1>5 DEF h

LEMMA SkippedStep ==
    ASSUME AnswersTrue
    PROVE  NothingSkipped
<1> SUFFICES ASSUME asked = "search", answer # <<>>
             PROVE  /\ (q.objective = "latency" => HasSlo(q.slo)) =>
                         \A c \in Grid: Gaining({d \in Grid: d <= c}) =>
                             \E i \in DOMAIN answer: answer[i].c = c
                    /\ \A i, j \in DOMAIN answer: i < j =>
                         answer[j].label = "B" /\ (answer[i].label = "B" => answer[i].c # answer[j].c)
                    /\ q.objective # "latency" =>
                         \A i \in DOMAIN answer: answer[i].c <= Max({Upper(q), StageAConcurrency(q)})
  BY DEF NothingSkipped
<1> DEFINE h == StageA(q)
<1>1. SearchTyped(q) /\ answer = Measurements(q, h)
  BY QuestionsAssumption DEF AnswersTrue
<1>2. h # <<>>
  BY <1>1 DEF Measurements
<1>3. \A C: Gaining(C) <=> GainingIn(q, C)
  BY DEF Gaining, GainingIn
<1>4. ASSUME History(q, answer)
      PROVE  /\ DOMAIN answer = 1..Len(answer)
             /\ \A i, j \in DOMAIN answer: i < j =>
                  answer[j].label = "B" /\ (answer[i].label = "B" => answer[i].c # answer[j].c)
  BY <1>4 DEF History
<1>5. CASE q.objective # "latency"
  <2>1. answer = SweepThroughput(q, h)
    BY <1>1, <1>2, <1>5 DEF Measurements
  <2>2. Grid = ToSet(Grown(SweepStart, q)) \cup {Upper(q)}
    BY <1>5 DEF Grid
  <2>3. /\ History(q, answer)
        /\ \A i \in 1..Len(answer): answer[i].c <= Max({Upper(q), StageAConcurrency(q)})
        /\ FindsGaining(q, Grid, answer)
    BY <1>1, <2>1, <2>2, ThroughputSearched
  <2> QED
    BY <1>3, <1>4, <1>5, <2>3 DEF FindsGaining
<1>6. CASE q.objective = "latency"
  <2> DEFINE base == IF q.expected = None THEN LatencyConcurrency ELSE q.expected
  <2>1. answer = SweepLatency(q, h, base)
    BY <1>1, <1>2, <1>6 DEF Measurements
  <2>2. Grid = ToSet(Grown(base, q))
    BY <1>6 DEF Grid
  <2>3. base \in Nat \ {0}
    BY <1>1 DEF SearchTyped, LatencyConcurrency
  <2> HIDE DEF base
  <2>4. /\ History(q, answer)
        /\ HasSlo(q.slo) => \A c \in Grid: GainingIn(q, {d \in Grid: d <= c}) =>
             \E i \in 1..Len(answer): answer[i].c = c
    BY <1>1, <2>1, <2>2, <2>3, LatencySearched
  <2> QED
    BY <1>3, <1>4, <1>6, <2>4
<1> QED
  BY <1>5, <1>6

\* Each result off the Pareto front is dominated by one on it, for all results.
THEOREM FrontAlwaysCovers == PlanningSpec => []FrontCovers
<1>1. AnswersTrue => FrontCovers
  BY FrontReached, QuestionsAssumption DEF AnswersTrue, FrontCovers
<1> QED
  BY <1>1, AnswersInv, PTL

\* A sweep whose last result gains on all that came before goes on, for all sweeps.
THEOREM ImprovingSweepsGoOn == PlanningSpec => []ImprovingSweepGoesOn
  BY GoesOnStep, AnswersInv, PTL

\* No rule that compares results loses the best one, for all results, sweeps and engines:
\* a winner is not beaten in every respect, by any of the objectives; each point off the
\* Pareto front is dominated by one on it; the chosen concurrency keeps the limits and is
\* near the best; and a sweep goes on while it improves and measures each concurrency up
\* to which it does, none twice and none too high.
THEOREM ChoicesAlwaysSound == PlanningSpec => []ChoicesSound
<1>1. AnswersTrue => FrontCovers
  BY FrontReached, QuestionsAssumption DEF AnswersTrue, FrontCovers
<1>2. AnswersTrue => ChoicesSound
  BY <1>1, UnbeatenStep, ChoiceStep, GoesOnStep, SkippedStep DEF ChoicesSound
<1> QED
  BY <1>2, AnswersInv, PTL

\* What a machine is said to be is so, for all machines and clusters whose driver
\* says what is true of their wires: under the indices of a cluster or of the GPUs
\* that are visible, a GPU is the one whose memory and links were read, the pair
\* with more links scores more, and machines never count as linked (WiringTrue, the
\* part of InputsTrue about hardware/topology.py and cluster/ray_provider.py).
THEOREM WiringAlwaysTrue == PlanningSpec => []WiringTrue
<1>1. AnswersTrue => WiringTrue
  BY WiringStep
<1> QED
  BY AnswersInv, <1>1, PTL

\* The size that inspection calls exact is the model's, for all repositories: one
\* whole copy in one format is summed, never two and never half of one, unless two
\* copies of a format cannot be told apart (MeasuredIsTrue, the part of InputsTrue
\* about the weight in models/inspector.py).
THEOREM MeasuredAlwaysTrue == PlanningSpec => []MeasuredIsTrue
<1>1. AnswersTrue => MeasuredIsTrue
  BY MeasuredStep
<1> QED
  BY AnswersInv, <1>1, PTL

=============================================================================

