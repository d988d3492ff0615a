----------------------------- MODULE Benchmark -----------------------------
(***************************************************************************)
(* One benchmark run: benchmark/runner.py sends warm-up requests, then the *)
(* measured ones with workers over a queue (closed) or as tasks that       *)
(* arrive over time and wait for a semaphore (open); benchmark/client.py   *)
(* judges the answers and benchmark/gpu_sampler.py samples meanwhile.      *)
(*                                                                         *)
(* Requests are numbered, the measured ones first.  Of an answer the model *)
(* keeps what the engine did (gen: it generated a token, ended: it went on *)
(* to the end) apart from what the client saw of it (text, usage, fin).    *)
(***************************************************************************)
EXTENDS Naturals, FiniteSets

CONSTANTS N,           \* measured requests, spec.num_requests
          W,           \* warm-up requests
          Concurrency, \* spec.concurrency
          None

ASSUME BenchmarkAssumption ==
    /\ N \in Nat \ {0} /\ W \in Nat /\ Concurrency \in Nat \ {0}
    /\ None \notin Nat /\ None \notin {"result", "BenchmarkError", "cancelled"}

VARIABLES mode,     \* "closed" or "open"
          stream,   \* does the client ask for a stream?
          warm,     \* is there a warm-up?
          pc,       \* where BenchmarkRunner.run is
          at,       \* where each request is
          answer,   \* the answer to each request so far
          ok,       \* the requests whose result is a success
          times,    \* results recorded for each request
          sampling, \* does the task of GPUSampler run?
          asked,    \* was the run cancelled?
          outcome

vars == <<mode, stream, warm, pc, at, answer, ok, times, sampling, asked, outcome>>
options == <<mode, stream, warm>>

Measured == 1..N
WarmUps == (N + 1)..(N + W)
All == 1..(N + W)

Kept(gen, ended) ==
    [gen |-> gen, ended |-> ended, text |-> FALSE, usage |-> None, fin |-> FALSE]
Unanswered == Kept(FALSE, FALSE)
Answers == [gen: BOOLEAN, ended: BOOLEAN, text: BOOLEAN, usage: {None, 0, 1}, fin: BOOLEAN]

In(place) == {r \in All: at[r] = place}

TypeOK ==
    /\ mode \in {"closed", "open"} /\ stream \in BOOLEAN /\ warm \in BOOLEAN
    /\ pc \in {"start", "warmup", "arrive", "measure", "stop", "ended"}
    /\ at \in [All -> {"queued", "line", "sent", "done"}]
    /\ answer \in [All -> Answers]
    /\ ok \in SUBSET All /\ times \in [All -> {0, 1}]
    /\ sampling \in BOOLEAN /\ asked \in BOOLEAN
    /\ outcome \in {None, "result", "BenchmarkError", "cancelled"}

Init ==
    /\ mode \in {"closed", "open"} /\ stream \in BOOLEAN /\ warm \in BOOLEAN
    /\ pc = "start" /\ outcome = None
    /\ at = [r \in All |-> "queued"] /\ answer = [r \in All |-> Unanswered]
    /\ ok = {} /\ times = [r \in All |-> 0]
    /\ sampling = FALSE /\ asked = FALSE

----------------------------------------------------------------------------
(* The run                                                                 *)

Least2(a, b) == IF a < b THEN a ELSE b

\* How many requests may be in flight: workers, or what a semaphore admits.
Slots == CASE pc = "warmup" -> IF W = 0 THEN 1 ELSE Least2(Concurrency, W)
           [] pc # "warmup" /\ mode = "closed" -> Least2(Concurrency, N)
           [] OTHER -> Concurrency

\* The sampler is entered and the loop of the mode begins.
StartsMeasuring ==
    /\ pc' = IF mode = "open" THEN "arrive" ELSE "measure"
    /\ sampling' = TRUE

Begin ==
    /\ pc = "start"
    /\ IF warm /\ W > 0
       THEN /\ at' = [r \in All |-> IF r \in WarmUps THEN "line" ELSE at[r]]
            /\ pc' = "warmup" /\ UNCHANGED sampling
       ELSE StartsMeasuring /\ UNCHANGED at
    /\ UNCHANGED <<options, answer, ok, times, asked, outcome>>

\* At least one of the warm-up requests must succeed.
WarmupEnds ==
    /\ pc = "warmup" /\ In("line") = {} /\ In("sent") = {}
    /\ \/ ok \cap WarmUps # {} /\ StartsMeasuring /\ UNCHANGED outcome
       \/ /\ ok \cap WarmUps = {}
          /\ pc' = "ended" /\ outcome' = "BenchmarkError" /\ UNCHANGED sampling
    /\ UNCHANGED <<options, at, answer, ok, times, asked>>

IsNext(r) == /\ r \in Measured /\ at[r] = "queued"
             /\ \A s \in Measured: s < r => at[s] # "queued"

\* A task for the next request is created, after a random pause.
Arrive(r) ==
    /\ pc = "arrive" /\ IsNext(r)
    /\ at' = [at EXCEPT ![r] = "line"]
    /\ UNCHANGED <<options, pc, answer, ok, times, sampling, asked, outcome>>

AllArrived ==
    /\ pc = "arrive" /\ In("queued") \cap Measured = {}
    /\ pc' = "measure"
    /\ UNCHANGED <<options, at, answer, ok, times, sampling, asked, outcome>>

FreeSlot == Cardinality(In("sent")) < Slots

\* A worker that is free takes the next request from the queue.
Take(r) ==
    /\ pc = "measure" /\ mode = "closed" /\ IsNext(r) /\ FreeSlot
    /\ at' = [at EXCEPT ![r] = "sent"]
    /\ UNCHANGED <<options, pc, answer, ok, times, sampling, asked, outcome>>

\* The semaphore admits a waiting task.
Admit(r) ==
    /\ pc \in {"warmup", "arrive", "measure"} /\ at[r] = "line" /\ FreeSlot
    /\ at' = [at EXCEPT ![r] = "sent"]
    /\ UNCHANGED <<options, pc, answer, ok, times, sampling, asked, outcome>>

\* Mutant of LoopEnds: the open loop returns when all have arrived.
LoopEnds_Early ==
    /\ pc \in {"arrive", "measure"} /\ In("queued") \cap Measured = {}
    /\ pc' = "stop"
    /\ UNCHANGED <<options, at, answer, ok, times, sampling, asked, outcome>>

LoopEnds ==
    /\ pc = "measure" /\ In("queued") \cap Measured = {} /\ In("line") = {} /\ In("sent") = {}
    /\ pc' = "stop"
    /\ UNCHANGED <<options, at, answer, ok, times, sampling, asked, outcome>>

\* GPUSampler.__aexit__ has cancelled its task and awaited it; aggregate.
Leave ==
    /\ pc = "stop"
    /\ pc' = "ended" /\ outcome' = "result" /\ sampling' = FALSE
    /\ UNCHANGED <<options, at, answer, ok, times, asked>>

----------------------------------------------------------------------------
(* Answers                                                                 *)

InFlight(r) == pc \in {"warmup", "arrive", "measure"} /\ at[r] = "sent"

\* The client has judged the answer; of one that counts the model keeps what
\* the engine did.
Record(r, a, success) ==
    /\ at' = [at EXCEPT ![r] = "done"]
    /\ answer' = [answer EXCEPT ![r] = Kept(success /\ a.gen, success /\ a.ended)]
    /\ ok' = IF success THEN ok \cup {r} ELSE ok
    /\ times' = [times EXCEPT ![r] = @ + 1]
    /\ UNCHANGED <<options, pc, sampling, asked, outcome>>

\* The usage of the answer counts, without it the tokens of its text.
HasTokens(a) == IF a.usage # None THEN a.usage > 0 ELSE a.text

\* What an engine may report of a token it generated or not: not every token
\* has a text, and not every engine reports its usage.
Reports(a) == {b \in Answers: /\ b.text => b.gen
                              /\ b.usage \in {None, IF b.gen THEN 1 ELSE 0}
                              /\ a.gen => b.gen
                              /\ b.gen => b.usage # None \/ b.text}

\* A chunk of a stream: text, a finish reason, or the usage after that.
Chunk(r) ==
    /\ InFlight(r) /\ stream
    /\ \E a \in Answers:
         /\ \/ /\ ~answer[r].ended
               /\ a = [answer[r] EXCEPT !.gen = TRUE, !.text = TRUE]
            \/ /\ ~answer[r].ended
               /\ \E gen \in {answer[r].gen, TRUE}:
                    a = [answer[r] EXCEPT !.gen = gen, !.ended = TRUE, !.fin = TRUE]
            \/ /\ answer[r].ended
               /\ a = [answer[r] EXCEPT !.usage = IF answer[r].gen THEN 1 ELSE 0]
         /\ answer' = [answer EXCEPT ![r] = a]
    /\ UNCHANGED <<options, pc, at, ok, times, sampling, asked, outcome>>

\* Mutant of Closes: whatever text arrived makes a success.
Closes_AnyText(r) ==
    /\ InFlight(r) /\ stream
    /\ Record(r, answer[r], HasTokens(answer[r]))

\* The connection ends without [DONE]: a success needs a finish reason.
Closes(r) ==
    /\ InFlight(r) /\ stream
    /\ Record(r, answer[r], answer[r].fin /\ HasTokens(answer[r]))

\* [DONE]; an engine that sent no finish reason has ended with it.
Done(r) ==
    /\ InFlight(r) /\ stream
    /\ Record(r, [answer[r] EXCEPT !.ended = TRUE], HasTokens(answer[r]))

\* The one answer of a request that does not stream.
Reply(r) ==
    /\ InFlight(r) /\ ~stream
    /\ \E a \in Reports(answer[r]):
         a.ended /\ a.fin /\ Record(r, a, HasTokens(a))

\* Mutant of Fails: a failed request goes back into the queue.
Fails_Requeued(r) ==
    /\ InFlight(r)
    /\ at' = [at EXCEPT ![r] = IF r \in Measured /\ mode = "closed" THEN "queued" ELSE "done"]
    /\ answer' = [answer EXCEPT ![r] = Unanswered]
    /\ times' = [times EXCEPT ![r] = IF at'[r] = "done" THEN @ + 1 ELSE @]
    /\ UNCHANGED <<options, pc, ok, sampling, asked, outcome>>

\* An HTTP status, a transport error, a read timeout, an error chunk or JSON of
\* another shape, at any time.
Fails(r) == InFlight(r) /\ Record(r, answer[r], FALSE)

----------------------------------------------------------------------------
(* Ctrl-C                                                                  *)

\* Mutant of Interrupt: the tasks of a gather are not cancelled with it.
Interrupt_Detached ==
    /\ pc \in {"start", "warmup", "arrive", "measure"} /\ ~asked
    /\ asked' = TRUE /\ pc' = "ended" /\ outcome' = "cancelled" /\ sampling' = FALSE
    /\ UNCHANGED <<options, at, answer, ok, times>>

\* gather cancels its tasks and ends after them; the tasks of an open loop are
\* not in a gather before all have arrived, and go on.  A cancellation that
\* comes while the sampler is awaited is taken for that of the sampler.
Interrupt ==
    /\ pc \in {"start", "warmup", "arrive", "measure", "stop"} /\ ~asked
    /\ asked' = TRUE
    /\ IF pc = "stop" THEN UNCHANGED <<pc, outcome, sampling>>
       ELSE pc' = "ended" /\ outcome' = "cancelled" /\ sampling' = FALSE
    /\ at' = IF pc \in {"warmup", "measure"}
             THEN [r \in All |-> IF at[r] \in {"line", "sent"} THEN "done" ELSE at[r]]
             ELSE at
    /\ UNCHANGED <<options, answer, ok, times>>

\* The event loop cancels what an interrupted open loop left.
LoopCloses ==
    /\ pc = "ended" /\ In("line") \cup In("sent") # {}
    /\ at' = [r \in All |-> IF at[r] \in {"line", "sent"} THEN "done" ELSE at[r]]
    /\ UNCHANGED <<options, pc, answer, ok, times, sampling, asked, outcome>>

Terminated == pc = "ended" /\ In("line") \cup In("sent") = {} /\ UNCHANGED vars

Answered(r) == Closes(r) \/ Done(r) \/ Reply(r) \/ Fails(r)
Run == Begin \/ WarmupEnds \/ AllArrived \/ LoopEnds \/ Leave \/ LoopCloses

Next ==
    \/ Run \/ Interrupt \/ Terminated
    \/ \E r \in All: Arrive(r) \/ Take(r) \/ Admit(r) \/ Chunk(r) \/ Answered(r)

Spec == Init /\ [][Next]_vars

\* The event loop goes on, and each request ends: its tokens are limited and
\* each read has a timeout.
FairSpec ==
    /\ Spec /\ WF_vars(Run)
    /\ \A r \in All: WF_vars(Arrive(r)) /\ WF_vars(Take(r))
                     /\ WF_vars(Admit(r)) /\ WF_vars(Answered(r))

----------------------------------------------------------------------------
(* Properties                                                              *)

\* Never more requests are in flight than the run was asked to measure with,
\* in the warm-up and in either loop.
SlotsBounded == pc # "ended" => Cardinality(In("sent")) <= Slots

\* A result has exactly one record of each request and none of them runs on,
\* also when Ctrl-C came too late to end the run.
EveryRequestCounted ==
    outcome = "result" => \A r \in Measured: at[r] = "done" /\ times[r] = 1

\* A request counted as a success was answered to the end by an engine that
\* generated at least one token.
SuccessMeansGenerated == \A r \in ok: answer[r].gen /\ answer[r].ended

\* A run leaves no request and no sampler behind, unless it is interrupted
\* while requests arrive.
RunLeavesNothing ==
    /\ pc = "ended" => ~sampling
    /\ pc = "ended" /\ (outcome # "cancelled" \/ mode = "closed")
         => In("line") \cup In("sent") = {}

\* The load on the engines is what the run was asked for while it lasts, and no
\* load when it is over.
LoadAsAsked == SlotsBounded /\ RunLeavesNothing

\* Each run ends and leaves nothing in flight.
RunEnds == <>[](pc = "ended" /\ In("line") \cup In("sent") = {})

=============================================================================
