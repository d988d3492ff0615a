-------------------------- MODULE BenchmarkProofs --------------------------
(***************************************************************************)
(* Proofs about Benchmark for any number of requests and any concurrency:  *)
(* no request is lost or counted twice, a success was generated to the     *)
(* end, a run leaves nothing behind and keeps to its concurrency.          *)
(***************************************************************************)
EXTENDS Benchmark, TLAPS, FiniteSetTheorems

(***************************************************************************)
(* The inductive invariant                                                 *)
(***************************************************************************)

\* Only a finished run has an outcome, only a running one a sampler, and requests
\* arrive over time in the open loop only.
Phases ==
    /\ outcome # None <=> pc = "ended"
    /\ sampling => pc \in {"arrive", "measure", "stop"}
    /\ pc = "arrive" => mode = "open"
    /\ pc = "start" => \A r \in All: at[r] = "queued"

\* A request is recorded when it is done, and while no Ctrl-C ended the run it is done
\* only by being recorded.
Recorded ==
    /\ \A r \in All: at[r] # "done" => times[r] = 0
    /\ pc \in {"start", "warmup", "arrive", "measure", "stop"} \/ outcome = "result"
         => \A r \in Measured: at[r] = "done" => times[r] = 1

\* When the loop has ended every request is done.
Drained ==
    /\ pc = "stop" \/ outcome = "result"
         => \A r \in Measured: at[r] = "done"
    /\ pc = "stop" \/ outcome \in {"result", "BenchmarkError"}
                   \/ (pc = "ended" /\ mode = "closed")
         => \A r \in All: at[r] \notin {"line", "sent"}

\* What the client saw of an answer agrees with what the engine did.
AnswerSound ==
    /\ \A r \in All: /\ answer[r].text => answer[r].gen
                     /\ answer[r].usage = 1 => answer[r].gen
                     /\ answer[r].fin => answer[r].ended
    /\ \A r \in ok: at[r] = "done" /\ answer[r].gen /\ answer[r].ended

IInv == TypeOK /\ Phases /\ Recorded /\ Drained /\ AnswerSound

LEMMA Sets == Measured \subseteq All /\ WarmUps \subseteq All
BY BenchmarkAssumption, SMT DEF Measured, WarmUps, All

LEMMA InitInv == Init => IInv
<1> SUFFICES ASSUME Init PROVE IInv
  OBVIOUS
<1> USE BenchmarkAssumption, Sets
<1>1. Unanswered \in Answers /\ ~Unanswered.text /\ Unanswered.usage = None /\ ~Unanswered.fin
  BY DEF Unanswered, Kept, Answers
<1>2. answer = [r \in All |-> Unanswered]
  BY DEF Init
<1>3. TypeOK
  BY <1>1 DEF Init, TypeOK
<1>4. Phases /\ Recorded /\ Drained
  BY DEF Init, Phases, Recorded, Drained
<1>5. AnswerSound
  BY <1>1, <1>2 DEF Init, AnswerSound
<1> QED BY <1>3, <1>4, <1>5 DEF IInv

\* Judging a request that is in flight keeps the invariant, when a success was
\* generated to the end.
LEMMA RecordStep ==
    ASSUME IInv, NEW r \in All, NEW a \in Answers, NEW success \in BOOLEAN,
           InFlight(r), success => a.gen /\ a.ended,
           Record(r, a, success)
    PROVE  IInv'
<1> USE BenchmarkAssumption, Sets DEF options
<1>1. pc \in {"warmup", "arrive", "measure"} /\ at[r] = "sent" /\ times[r] = 0 /\ r \notin ok
  BY DEF InFlight, IInv, Recorded, AnswerSound
<1>2. /\ at' = [at EXCEPT ![r] = "done"] /\ times' = [times EXCEPT ![r] = 1]
      /\ pc' = pc /\ outcome' = outcome /\ mode' = mode /\ sampling' = sampling
      /\ asked' = asked /\ stream' = stream /\ warm' = warm
  BY <1>1 DEF Record, IInv, TypeOK
<1>3. \E b \in Answers:
         /\ answer' = [answer EXCEPT ![r] = b]
         /\ ~b.text /\ b.usage = None /\ ~b.fin
         /\ success => b.gen /\ b.ended
  <2> DEFINE b == Kept(success /\ a.gen, success /\ a.ended)
  <2>1. b \in Answers /\ ~b.text /\ b.usage = None /\ ~b.fin
        /\ b.gen = (success /\ a.gen) /\ b.ended = (success /\ a.ended)
    BY DEF Answers, Kept
  <2>2. answer' = [answer EXCEPT ![r] = b]
    BY DEF Record
  <2> QED BY <2>1, <2>2
<1>4. ok' = IF success THEN ok \cup {r} ELSE ok
  BY DEF Record
<1>5. TypeOK'
  BY <1>1, <1>2, <1>3, <1>4 DEF IInv, TypeOK
<1>6. Phases'
  BY <1>1, <1>2 DEF IInv, TypeOK, Phases
<1>7. Recorded'
  BY <1>1, <1>2 DEF IInv, TypeOK, Recorded, Phases
<1>8. Drained'
  BY <1>1, <1>2 DEF IInv, TypeOK, Drained, Phases
<1>9. AnswerSound'
  BY <1>1, <1>2, <1>3, <1>4 DEF IInv, TypeOK, AnswerSound
<1> QED BY <1>5, <1>6, <1>7, <1>8, <1>9 DEF IInv

LEMMA AnswerTyped ==
    ASSUME IInv, NEW r \in All
    PROVE  /\ answer[r] \in Answers
           /\ HasTokens(answer[r]) => answer[r].gen
           /\ answer[r].fin => answer[r].ended
<1>1. answer[r] \in Answers
  BY DEF IInv, TypeOK
<1>2. answer[r].usage \in {None, 0, 1}
  BY <1>1 DEF Answers
<1> QED BY <1>1, <1>2, BenchmarkAssumption DEF HasTokens, IInv, AnswerSound

LEMMA AnsweredStep == ASSUME IInv, NEW r \in All, Answered(r) PROVE IInv'
<1> DEFINE a == answer[r]
<1>1. a \in Answers /\ (HasTokens(a) => a.gen) /\ (a.fin => a.ended)
  BY AnswerTyped
<1>2. HasTokens(a) \in BOOLEAN /\ a.fin \in BOOLEAN
  <2>1. a.text \in BOOLEAN /\ a.fin \in BOOLEAN
    BY <1>1 DEF Answers
  <2>2. CASE a.usage # None
    BY <2>1, <2>2 DEF HasTokens
  <2>3. CASE a.usage = None
    BY <2>1, <2>3 DEF HasTokens
  <2> QED BY <2>2, <2>3, <2>1
<1>3. CASE Closes(r)
  BY <1>1, <1>2, <1>3, RecordStep DEF Closes
<1>4. CASE Done(r)
  <2>1. [a EXCEPT !.ended = TRUE] \in Answers /\ [a EXCEPT !.ended = TRUE].ended
        /\ [a EXCEPT !.ended = TRUE].gen = a.gen
    BY <1>1 DEF Answers
  <2> QED BY <1>1, <1>2, <1>4, <2>1, RecordStep DEF Done
<1>5. CASE Reply(r)
  <2>1. PICK b \in Reports(a): b.ended /\ b.fin /\ Record(r, b, HasTokens(b))
    BY <1>5 DEF Reply
  <2>2. b \in Answers /\ (HasTokens(b) => b.gen) /\ HasTokens(b) \in BOOLEAN
    BY BenchmarkAssumption DEF Reports, HasTokens, Answers
  <2> QED BY <2>1, <2>2, <1>5, RecordStep DEF Reply
<1>6. CASE Fails(r)
  BY <1>1, <1>6, RecordStep DEF Fails
<1> QED BY <1>3, <1>4, <1>5, <1>6 DEF Answered

LEMMA ChunkStep == ASSUME IInv, NEW r \in All, Chunk(r) PROVE IInv'
<1> USE BenchmarkAssumption, Sets DEF options
<1>1. pc \in {"warmup", "arrive", "measure"} /\ at[r] = "sent" /\ r \notin ok
  BY DEF Chunk, InFlight, IInv, AnswerSound
<1>2. answer[r] \in Answers /\ (answer[r].text => answer[r].gen)
      /\ (answer[r].usage = 1 => answer[r].gen) /\ (answer[r].fin => answer[r].ended)
  BY DEF IInv, TypeOK, AnswerSound
<1>3. \E a \in Answers:
         /\ answer' = [answer EXCEPT ![r] = a]
         /\ a.text => a.gen
         /\ a.usage = 1 => a.gen
         /\ a.fin => a.ended
  <2>1. PICK a \in Answers:
          /\ answer' = [answer EXCEPT ![r] = a]
          /\ \/ a = [answer[r] EXCEPT !.gen = TRUE, !.text = TRUE]
             \/ \E gen \in {answer[r].gen, TRUE}:
                  a = [answer[r] EXCEPT !.gen = gen, !.ended = TRUE, !.fin = TRUE]
             \/ a = [answer[r] EXCEPT !.usage = IF answer[r].gen THEN 1 ELSE 0]
    BY DEF Chunk
  <2> SUFFICES /\ a.text => a.gen
               /\ a.usage = 1 => a.gen
               /\ a.fin => a.ended
    BY <2>1, Zenon
  <2>2. CASE a = [answer[r] EXCEPT !.gen = TRUE, !.text = TRUE]
    <3>1. a.gen /\ a.usage = answer[r].usage /\ a.fin = answer[r].fin /\ a.ended = answer[r].ended
      BY <1>2, <2>2 DEF Answers
    <3> QED BY <1>2, <2>1, <3>1
  <2>3. CASE \E gen \in {answer[r].gen, TRUE}:
                a = [answer[r] EXCEPT !.gen = gen, !.ended = TRUE, !.fin = TRUE]
    <3>1. /\ a.gen \/ a.gen = answer[r].gen
          /\ a.ended /\ a.text = answer[r].text /\ a.usage = answer[r].usage
      BY <1>2, <2>3 DEF Answers
    <3> QED BY <1>2, <2>1, <3>1
  <2>4. CASE a = [answer[r] EXCEPT !.usage = IF answer[r].gen THEN 1 ELSE 0]
    <3>1. /\ a.gen = answer[r].gen /\ a.text = answer[r].text
          /\ a.fin = answer[r].fin /\ a.ended = answer[r].ended
          /\ a.usage = IF answer[r].gen THEN 1 ELSE 0
      BY <1>2, <2>4 DEF Answers
    <3> QED BY <1>2, <2>1, <3>1
  <2> QED BY <2>1, <2>2, <2>3, <2>4
<1>4. TypeOK'
  BY <1>3 DEF Chunk, IInv, TypeOK
<1>5. Phases' /\ Recorded' /\ Drained'
  BY DEF Chunk, IInv, Phases, Recorded, Drained
<1>6. AnswerSound'
  BY <1>1, <1>3 DEF Chunk, IInv, TypeOK, AnswerSound
<1> QED BY <1>4, <1>5, <1>6 DEF IInv

LEMMA StepInv == IInv /\ [Next]_vars => IInv'
<1> SUFFICES ASSUME IInv, [Next]_vars PROVE IInv'
  OBVIOUS
<1> USE BenchmarkAssumption, Sets DEF options
<1>1. CASE Begin
  <2>1. TypeOK'
    BY <1>1 DEF Begin, StartsMeasuring, IInv, TypeOK
  <2>2. Phases'
    BY <1>1 DEF Begin, StartsMeasuring, IInv, TypeOK, Phases
  <2>3. Recorded' /\ Drained' /\ AnswerSound'
    BY <1>1 DEF Begin, StartsMeasuring, IInv, TypeOK, Phases, Recorded, Drained, AnswerSound
  <2> QED BY <2>1, <2>2, <2>3 DEF IInv
<1>2. CASE WarmupEnds
  <2>1. \/ /\ pc' \in {"arrive", "measure"} /\ (pc' = "arrive" => mode = "open")
           /\ sampling' = TRUE /\ outcome' = outcome
        \/ pc' = "ended" /\ outcome' = "BenchmarkError" /\ sampling' = sampling
    BY <1>2 DEF WarmupEnds, StartsMeasuring
  <2>3. TypeOK'
    BY <1>2, <2>1 DEF WarmupEnds, IInv, TypeOK
  <2>4. Phases'
    BY <1>2, <2>1 DEF WarmupEnds, IInv, TypeOK, Phases
  <2>2. Recorded' /\ Drained' /\ AnswerSound'
    BY <1>2 DEF WarmupEnds, StartsMeasuring, IInv, TypeOK, Phases, Recorded, Drained,
                AnswerSound, In
  <2> QED BY <2>2, <2>3, <2>4 DEF IInv
<1>3. CASE AllArrived
  BY <1>3 DEF AllArrived, IInv, TypeOK, Phases, Recorded, Drained, AnswerSound
<1>4. CASE LoopEnds
  <2>1. \A r \in Measured: at[r] = "done"
    BY <1>4 DEF LoopEnds, In, IInv, TypeOK
  <2>2. \A r \in All: at[r] \notin {"line", "sent"}
    BY <1>4 DEF LoopEnds, In, IInv, TypeOK
  <2> QED BY <1>4, <2>1, <2>2
          DEF LoopEnds, IInv, TypeOK, Phases, Recorded, Drained, AnswerSound
<1>5. CASE Leave
  BY <1>5 DEF Leave, IInv, TypeOK, Phases, Recorded, Drained, AnswerSound
<1>6. CASE LoopCloses
  <2>1. \A r \in All: at'[r] \in {at[r], "done"} /\ (at[r] = "done" => at'[r] = "done")
    BY <1>6 DEF LoopCloses, IInv, TypeOK
  <2>2. TypeOK' /\ Phases' /\ AnswerSound' /\ Drained'
    BY <1>6, <2>1 DEF LoopCloses, IInv, TypeOK, Phases, Drained, AnswerSound
  <2>3. Recorded'
    BY <1>6, <2>1 DEF LoopCloses, IInv, TypeOK, Recorded, Drained, Phases
  <2> QED BY <2>2, <2>3 DEF IInv
<1>7. CASE Interrupt
  <2>1. /\ \A r \in All: at'[r] \in {at[r], "done"}
        /\ at' \in [All -> {"queued", "line", "sent", "done"}]
    BY <1>7 DEF Interrupt, IInv, TypeOK
  <2>2. TypeOK' /\ Phases'
    BY <1>7, <2>1 DEF Interrupt, IInv, TypeOK, Phases
  <2>3. Recorded' /\ AnswerSound'
    BY <1>7, <2>1 DEF Interrupt, IInv, TypeOK, Phases, Recorded, AnswerSound
  <2>4. Drained'
    BY <1>7 DEF Interrupt, IInv, TypeOK, Phases, Drained
  <2> QED BY <2>2, <2>3, <2>4 DEF IInv
<1>8. CASE \E r \in All: Arrive(r) \/ Take(r) \/ Admit(r)
  <2>1. PICK r \in All: Arrive(r) \/ Take(r) \/ Admit(r)
    BY <1>8
  <2>2. /\ pc \in {"warmup", "arrive", "measure"} /\ at[r] # "done"
        /\ \E place \in {"line", "sent"}: at' = [at EXCEPT ![r] = place]
        /\ UNCHANGED <<options, pc, answer, ok, times, sampling, asked, outcome>>
    BY <2>1 DEF Arrive, Take, Admit, IsNext
  <2> QED BY <2>2 DEF IInv, TypeOK, Phases, Recorded, Drained, AnswerSound
<1>9. CASE \E r \in All: Chunk(r) \/ Answered(r)
  BY <1>9, ChunkStep, AnsweredStep
<1>10. CASE UNCHANGED vars
  BY <1>10 DEF vars, IInv, TypeOK, Phases, Recorded, Drained, AnswerSound
<1> QED BY <1>1, <1>2, <1>3, <1>4, <1>5, <1>6, <1>7, <1>8, <1>9, <1>10
        DEF Next, Run, Terminated

LEMMA Invariant == Spec => []IInv
BY InitInv, StepInv, PTL DEF Spec

(***************************************************************************)
(* The concurrency of a run                                                *)
(***************************************************************************)

LEMMA SlotsNat == Slots \in Nat
BY BenchmarkAssumption DEF Slots, Least2

LEMMA SentFinite == IsFiniteSet(In("sent")) /\ Cardinality(In("sent")) \in Nat
<1>1. IsFiniteSet(All)
  BY FS_Interval, BenchmarkAssumption DEF All
<1>2. In("sent") \subseteq All
  BY DEF In
<1> QED BY <1>1, <1>2, FS_Subset, FS_CardinalityType

\* With no more in flight than before, in a place with as many slots.
LEMMA NoMoreSent ==
    ASSUME SlotsBounded, pc # "ended", In("sent")' \subseteq In("sent"), Slots' = Slots
    PROVE  SlotsBounded'
BY SentFinite, FS_Subset, FS_CardinalityType, SlotsNat, SMT DEF SlotsBounded

LEMMA NoneSent == ASSUME In("sent")' = {} PROVE SlotsBounded'
<1>1. Slots' \in Nat
  BY BenchmarkAssumption DEF Slots, Least2
<1> QED BY <1>1, FS_EmptySet DEF SlotsBounded

LEMMA OneMore ==
    ASSUME NEW S, IsFiniteSet(S), NEW x, NEW n \in Nat, Cardinality(S) < n
    PROVE  Cardinality(S \cup {x}) <= n
<1>1. Cardinality(S) \in Nat
  BY FS_CardinalityType
<1>2. Cardinality(S \cup {x}) = IF x \in S THEN Cardinality(S) ELSE Cardinality(S) + 1
  BY FS_AddElement
<1> QED BY <1>1, <1>2

LEMMA AdmitStep ==
    ASSUME IInv, SlotsBounded, NEW r \in All, Take(r) \/ Admit(r)
    PROVE  SlotsBounded'
<1>1. /\ FreeSlot /\ at' = [at EXCEPT ![r] = "sent"]
      /\ pc' = pc /\ mode' = mode
  BY DEF Take, Admit, options
<1>2. In("sent")' = In("sent") \cup {r}
  BY <1>1 DEF In, IInv, TypeOK
<1>3. Cardinality(In("sent")) < Slots
  BY <1>1 DEF FreeSlot
<1>4. Cardinality(In("sent") \cup {r}) <= Slots
  BY <1>3, SentFinite, SlotsNat, OneMore
<1>5. Slots' = Slots
  BY <1>1 DEF Slots
<1> QED BY <1>2, <1>4, <1>5 DEF SlotsBounded

LEMMA SlotsStep == IInv /\ SlotsBounded /\ [Next]_vars => SlotsBounded'
<1> SUFFICES ASSUME IInv, SlotsBounded, [Next]_vars PROVE SlotsBounded'
  OBVIOUS
<1> USE DEF options
<1>1. CASE Begin
  <2>1. In("sent")' = {}
    BY <1>1 DEF Begin, In, IInv, TypeOK, Phases
  <2> QED BY <2>1, NoneSent
<1>2. CASE WarmupEnds \/ LoopEnds
  <2>1. In("sent")' = {}
    BY <1>2 DEF WarmupEnds, LoopEnds, In
  <2> QED BY <2>1, NoneSent
<1>3. CASE AllArrived
  <2>1. In("sent")' = In("sent") /\ Slots' = Slots /\ pc # "ended"
    BY <1>3 DEF AllArrived, In, Slots, IInv, Phases
  <2> QED BY <2>1, NoMoreSent
<1>4. CASE Leave \/ LoopCloses
  <2>1. pc' = "ended"
    BY <1>4 DEF Leave, LoopCloses
  <2> QED BY <2>1 DEF SlotsBounded
<1>5. CASE Interrupt
  <2>1. CASE pc = "stop"
    <3>1. In("sent")' = In("sent") /\ Slots' = Slots
      BY <1>5, <2>1 DEF Interrupt, In, Slots
    <3> QED BY <2>1, <3>1, NoMoreSent
  <2>2. CASE pc # "stop"
    BY <1>5, <2>2 DEF Interrupt, SlotsBounded
  <2> QED BY <2>1, <2>2
<1>6. ASSUME NEW r \in All, Arrive(r) \/ Chunk(r) \/ Answered(r) PROVE SlotsBounded'
  <2>1. pc # "ended" /\ pc' = pc /\ mode' = mode
    BY <1>6 DEF Arrive, Chunk, Answered, Closes, Done, Reply, Fails, InFlight, Record
  <2>2. /\ pc' = pc /\ mode' = mode
        /\ \/ at' = at
           \/ \E place \in {"line", "done"}: at' = [at EXCEPT ![r] = place]
    BY <1>6 DEF Arrive, Chunk, Answered, Closes, Done, Reply, Fails, Record
  <2>3. In("sent")' \subseteq In("sent")
    BY <2>2 DEF In, IInv, TypeOK
  <2>4. Slots' = Slots
    BY <2>1 DEF Slots
  <2> QED BY <2>1, <2>3, <2>4, NoMoreSent
<1>7. ASSUME NEW r \in All, Take(r) \/ Admit(r) PROVE SlotsBounded'
  BY <1>7, AdmitStep
<1>8. CASE UNCHANGED vars
  BY <1>8 DEF vars, SlotsBounded, Slots, In
<1> QED BY <1>1, <1>2, <1>3, <1>4, <1>5, <1>6, <1>7, <1>8 DEF Next, Run, Terminated

(***************************************************************************)
(* The theorems                                                            *)
(***************************************************************************)

\* Every reachable state of a benchmark run is well typed; no request is recorded
\* more than once.
THEOREM TypeCorrect == Spec => []TypeOK
<1>1. IInv => TypeOK
  BY DEF IInv
<1> QED BY <1>1, Invariant, PTL

\* A result of a run, from BenchmarkRunner.run, has exactly one record of each request.
THEOREM Counted == Spec => []EveryRequestCounted
<1>1. IInv => EveryRequestCounted
  BY DEF IInv, Recorded, Drained, EveryRequestCounted
<1> QED BY <1>1, Invariant, PTL

\* A request that BenchmarkClient counts as a success was generated to the end.
THEOREM SuccessSound == Spec => []SuccessMeansGenerated
<1>1. IInv => SuccessMeansGenerated
  BY DEF IInv, AnswerSound, SuccessMeansGenerated
<1> QED BY <1>1, Invariant, PTL

\* A run that ended, however it did, has no sampler, and nothing in flight unless it
\* was interrupted in an open loop.
THEOREM NothingLeft == Spec => []RunLeavesNothing
<1>1. IInv => RunLeavesNothing
  BY DEF IInv, TypeOK, Phases, Drained, RunLeavesNothing, In
<1> QED BY <1>1, Invariant, PTL

\* Never more requests are in flight than the workers or the semaphore allow.
THEOREM Bounded == Spec => []SlotsBounded
<1>1. Init => SlotsBounded
  <2> SUFFICES ASSUME Init PROVE SlotsBounded
    OBVIOUS
  <2>1. In("sent") = {}
    BY DEF Init, In
  <2> QED BY <2>1, FS_EmptySet, SlotsNat DEF SlotsBounded
<1> QED BY <1>1, Invariant, SlotsStep, PTL DEF Spec

\* Both together: the load of a run is bounded, and nothing of it remains.
THEOREM LoadBounded == Spec => []LoadAsAsked
<1>1. SlotsBounded /\ RunLeavesNothing => LoadAsAsked
  BY DEF LoadAsAsked
<1> QED BY <1>1, Bounded, NothingLeft, PTL
=============================================================================
