------------------------------- MODULE Router -------------------------------
(***************************************************************************)
(* The request path of the ServePilot endpoint: ReplicaRouter              *)
(* (runtime/router.py) with its counting semaphore, and proxy_generation   *)
(* (api/proxy.py), one asyncio task per request.  A task runs alone until  *)
(* its next await, so every action below is the code between two awaits.   *)
(*                                                                         *)
(* A replica restart replaces the router's ReplicaState object, while the  *)
(* leases of running requests keep the old object: an object is a pair     *)
(* <<replica id, incarnation>>.                                            *)
(***************************************************************************)
EXTENDS Integers, Sequences, FiniteSets, SequencesExt

CONSTANTS
    Requests,         \* the requests that may arrive
    Replicas,         \* replica ids
    MaxConcurrency,   \* slots of the semaphore, 0: max_concurrency is None
    MaxQueueDepth,    \* requests that may wait for a slot
    MaxIncarnation,   \* bound: restarts of one replica
    None              \* "no lease"

ASSUME FiniteAssumption == IsFiniteSet(Requests) /\ IsFiniteSet(Replicas)
ASSUME LimitAssumption ==
    MaxConcurrency \in Nat /\ MaxQueueDepth \in Nat /\ MaxIncarnation \in Nat
ASSUME NoneAssumption == None \notin Replicas \X (0 .. MaxIncarnation)

VARIABLES
    \* proxy_generation, per request
    phase,          \* where the task is
    lease,          \* the ReplicaState object the request runs on
    excluded,       \* RouteLease.excluded: replica ids already tried
    attempts,       \* local of _send_with_retry
    error,          \* "error is not None" of proxy_generation
    \* ReplicaRouter
    value,          \* Semaphore._value
    waiters,        \* Semaphore._waiters, first in line first
    waiting,        \* ReplicaRouter._waiting
    totalErrors,    \* ReplicaRouter.total_errors
    inflight,       \* ReplicaState.inflight_requests, per object
    failures,       \* ReplicaState.failures, per object
    \* the routing table, written by ReplicaSet and HealthChecker
    status,         \* "absent", "down" (any status but HEALTHY) or "healthy"
    gen,            \* incarnation of the current entry
    \* the rest of the process
    gauge,          \* metrics.requests_inflight
    stopping,        \* the HTTP server is shutting down
    blamed          \* history: objects seen to fail the request

proxyVars == <<phase, lease, excluded, attempts, error>>
semVars   == <<value, waiters, waiting>>
bookVars  == <<totalErrors, inflight, failures>>
tableVars == <<status, gen>>
vars == <<proxyVars, semVars, bookVars, tableVars, gauge, stopping, blamed>>

Objects == Replicas \X (0 .. MaxIncarnation)
Current(i) == <<i, gen[i]>>

InLine   == {"queued", "woken", "cancelled"}
Served   == {"sending", "closing", "streaming", "draining"}
Terminal == {"answered", "overloaded", "unavailable", "bad_gateway",
             "dropped", "aborted"}
Phases   == {"new"} \cup InLine \cup Served \cup Terminal

Init ==
    /\ phase = [r \in Requests |-> "new"]
    /\ lease = [r \in Requests |-> None]
    /\ excluded = [r \in Requests |-> {}]
    /\ attempts = [r \in Requests |-> 0]
    /\ error = [r \in Requests |-> FALSE]
    /\ value = MaxConcurrency
    /\ waiters = <<>>
    /\ waiting = 0
    /\ totalErrors = 0
    /\ inflight = [o \in Objects |-> 0]
    /\ failures = [o \in Objects |-> 0]
    /\ status = [i \in Replicas |-> "healthy"]
    /\ gen = [i \in Replicas |-> 0]
    /\ gauge = 0
    /\ stopping = FALSE
    /\ blamed = [r \in Requests |-> {}]

-----------------------------------------------------------------------------
(* asyncio.Semaphore (CPython; 3.11 wakes one waiter where 3.12 loops).    *)

Gated == MaxConcurrency > 0

Locked ==
    value = 0 \/ \E i \in DOMAIN waiters : phase[waiters[i]] # "cancelled"

Before(q, r) ==
    \E i, j \in DOMAIN waiters : i < j /\ waiters[i] = q /\ waiters[j] = r

\* Mutant of Wake: any waiter may be woken, not the first.
WakeAnyone(ph, v, n) ==
    LET pending == {r \in Requests : ph[r] = "queued"}
    IN \E woken \in SUBSET pending :
          /\ Cardinality(woken) =
                IF n < Cardinality(pending) THEN n ELSE Cardinality(pending)
          /\ value' = v - Cardinality(woken)
          /\ phase' = [r \in Requests |-> IF r \in woken THEN "woken" ELSE ph[r]]

\* _wake_up_next, n times, with v free slots and the tasks in phases ph:
\* each call gives a slot to the first waiter whose future is still pending.
Wake(ph, v, n) ==
    LET pending == {r \in Requests : ph[r] = "queued"}
    IN \E woken \in SUBSET pending :
          /\ Cardinality(woken) =
                IF n < Cardinality(pending) THEN n ELSE Cardinality(pending)
          /\ \A q \in woken, r \in pending \ woken : Before(q, r)
          /\ value' = v - Cardinality(woken)
          /\ phase' = [r \in Requests |-> IF r \in woken THEN "woken" ELSE ph[r]]

\* Mutant of ReleaseSlot: the slot is freed and nobody is told.
ReleaseSlotSilently(ph) ==
    phase' = ph /\ value' = IF Gated THEN value + 1 ELSE value

\* Semaphore.release, as the last thing a task does to its slot
ReleaseSlot(ph) ==
    IF Gated THEN Wake(ph, value + 1, 1) ELSE phase' = ph /\ UNCHANGED value

\* how often acquire calls _wake_up_next when v slots are free
WakeCalls(v) == IF v > 0 THEN {1, v} ELSE {0}

LeaveLine(r) ==
    /\ \E i \in DOMAIN waiters :
          waiters[i] = r /\ waiters' = RemoveAt(waiters, i)
    /\ waiting' = waiting - 1

-----------------------------------------------------------------------------
(* ReplicaRouter                                                           *)

Drop(n) == IF n > 0 THEN n - 1 ELSE 0          \* max(0, n - 1)

\* select: healthy replicas that are not excluded
Candidates(ids) == {i \in Replicas \ ids : status[i] = "healthy"}

\* LeastInflightRoutingPolicy; which of several ties is left open
LeastLoaded(c) ==
    {i \in c : \A j \in c : inflight[Current(i)] <= inflight[Current(j)]}

\* the end of acquire: pick a replica and count the request on it
TakeLease(r) ==
    \E i \in LeastLoaded(Candidates({})) :
        /\ lease' = [lease EXCEPT ![r] = Current(i)]
        /\ excluded' = [excluded EXCEPT ![r] = {i}]
        /\ inflight' = [inflight EXCEPT ![Current(i)] = @ + 1]

\* Mutant of ReleaseLease: the replica is looked up again by its id.
ReleaseLeaseById(r, failed) ==
    LET o == Current(lease[r][1])
    IN /\ inflight' = [inflight EXCEPT ![o] = Drop(@)]
       /\ failures' = [failures EXCEPT ![o] = IF failed THEN @ + 1 ELSE @]
       /\ totalErrors' = IF failed THEN totalErrors + 1 ELSE totalErrors

\* release(lease, failed=...)
ReleaseLease(r, failed) ==
    /\ inflight' = [inflight EXCEPT ![lease[r]] = Drop(@)]
    /\ failures' = [failures EXCEPT ![lease[r]] = IF failed THEN @ + 1 ELSE @]
    /\ totalErrors' = IF failed THEN totalErrors + 1 ELSE totalErrors

\* Mutant of Reroute: select forgets the replicas already tried.
RerouteAnywhere(r) ==
    \E i \in LeastLoaded(Candidates({})) :
        /\ inflight' = [[inflight EXCEPT ![lease[r]] = Drop(@)]
                          EXCEPT ![Current(i)] = @ + 1]
        /\ failures' = [failures EXCEPT ![lease[r]] = @ + 1]
        /\ lease' = [lease EXCEPT ![r] = Current(i)]
        /\ excluded' = [excluded EXCEPT ![r] = @ \cup {i}]

\* reroute(lease): move the request to a replica it has not tried
Reroute(r) ==
    \E i \in LeastLoaded(Candidates(excluded[r])) :
        /\ inflight' = [[inflight EXCEPT ![lease[r]] = Drop(@)]
                          EXCEPT ![Current(i)] = @ + 1]
        /\ failures' = [failures EXCEPT ![lease[r]] = @ + 1]
        /\ lease' = [lease EXCEPT ![r] = Current(i)]
        /\ excluded' = [excluded EXCEPT ![r] = @ \cup {i}]

-----------------------------------------------------------------------------
(* The request task                                                        *)

\* cleanup with a lease: the slot, the replica's count and the gauge go back
Settle(r, outcome, failed) ==
    /\ ReleaseLease(r, failed)
    /\ ReleaseSlot([phase EXCEPT ![r] = outcome])
    /\ gauge' = gauge - 1
    /\ UNCHANGED <<lease, excluded, attempts, waiters, waiting>>

\* The wait queue is full: 503, and the gauge goes up and down again.
ArriveOverloaded(r) ==
    /\ phase[r] = "new" /\ ~stopping
    /\ Gated /\ Locked /\ waiting >= MaxQueueDepth
    /\ phase' = [phase EXCEPT ![r] = "overloaded"]
    /\ UNCHANGED <<lease, excluded, attempts, error, semVars, bookVars,
                   tableVars, gauge, stopping, blamed>>

ArriveQueued(r) ==
    /\ phase[r] = "new" /\ ~stopping
    /\ Gated /\ Locked /\ waiting < MaxQueueDepth
    /\ phase' = [phase EXCEPT ![r] = "queued"]
    /\ waiters' = Append(waiters, r)
    /\ waiting' = waiting + 1
    /\ gauge' = gauge + 1
    /\ UNCHANGED <<lease, excluded, attempts, error, value, bookVars,
                   tableVars, stopping, blamed>>

\* A slot is free: acquire does not suspend.
ArriveServed(r) ==
    /\ phase[r] = "new" /\ ~stopping
    /\ Gated => ~Locked
    /\ TakeLease(r)
    /\ value' = IF Gated THEN value - 1 ELSE value
    /\ phase' = [phase EXCEPT ![r] = "sending"]
    /\ gauge' = gauge + 1
    /\ UNCHANGED <<attempts, error, waiters, waiting, totalErrors, failures,
                   tableVars, stopping, blamed>>

\* A slot is free but no replica is healthy: 503, and the slot goes back.
ArriveUnavailable(r) ==
    /\ phase[r] = "new" /\ ~stopping
    /\ Gated => ~Locked
    /\ Candidates({}) = {}
    /\ IF Gated THEN Wake([phase EXCEPT ![r] = "unavailable"], value, 1)
                ELSE phase' = [phase EXCEPT ![r] = "unavailable"] /\ UNCHANGED value
    /\ UNCHANGED <<lease, excluded, attempts, error, waiters, waiting, bookVars,
                   tableVars, gauge, stopping, blamed>>

\* A task whose future was given a slot runs on.
ResumeServed(r) ==
    /\ phase[r] = "woken"
    /\ LeaveLine(r)
    /\ TakeLease(r)
    /\ \E n \in WakeCalls(value) : Wake([phase EXCEPT ![r] = "sending"], value, n)
    /\ UNCHANGED <<attempts, error, totalErrors, failures, tableVars, gauge,
                   stopping, blamed>>

\* Mutant of ResumeUnavailable: the slot is not released with the 503.
ResumeUnavailableKeepingSlot(r) ==
    /\ phase[r] = "woken"
    /\ Candidates({}) = {}
    /\ LeaveLine(r)
    /\ \E n \in WakeCalls(value) :
          Wake([phase EXCEPT ![r] = "unavailable"], value, n)
    /\ gauge' = gauge - 1
    /\ UNCHANGED <<lease, excluded, attempts, error, bookVars, tableVars,
                   stopping, blamed>>

\* ... and finds no healthy replica: the slot is released again.
ResumeUnavailable(r) ==
    /\ phase[r] = "woken"
    /\ Candidates({}) = {}
    /\ LeaveLine(r)
    /\ \E n \in WakeCalls(value) :
          Wake([phase EXCEPT ![r] = "unavailable"], value + 1, n + 1)
    /\ gauge' = gauge - 1
    /\ UNCHANGED <<lease, excluded, attempts, error, bookVars, tableVars,
                   stopping, blamed>>

\* The server's grace period ends and it cancels every request task.  A task
\* that waits in line has its future cancelled and leaves the line when it runs.
CancelQueued(r) ==
    /\ stopping /\ phase[r] = "queued"
    /\ phase' = [phase EXCEPT ![r] = "cancelled"]
    /\ UNCHANGED <<lease, excluded, attempts, error, semVars, bookVars,
                   tableVars, gauge, stopping, blamed>>

\* Mutant of RunCancelled: _waiting is decremented only after a slot was won.
RunCancelledStillCounted(r) ==
    /\ phase[r] = "cancelled"
    /\ \E i \in DOMAIN waiters :
          waiters[i] = r /\ waiters' = RemoveAt(waiters, i)
    /\ \E n \in {0, value} : Wake([phase EXCEPT ![r] = "aborted"], value, n)
    /\ gauge' = gauge - 1
    /\ UNCHANGED <<lease, excluded, attempts, error, waiting, bookVars,
                   tableVars, stopping, blamed>>

RunCancelled(r) ==
    /\ phase[r] = "cancelled"
    /\ LeaveLine(r)
    /\ \E n \in {0, value} : Wake([phase EXCEPT ![r] = "aborted"], value, n)
    /\ gauge' = gauge - 1
    /\ UNCHANGED <<lease, excluded, attempts, error, bookVars, tableVars,
                   stopping, blamed>>

\* Cancelled after it was given a slot and before it ran: the slot goes on.
CancelWoken(r) ==
    /\ stopping /\ phase[r] = "woken"
    /\ LeaveLine(r)
    /\ \E n \in WakeCalls(value + 1) :
          Wake([phase EXCEPT ![r] = "aborted"], value + 1, n)
    /\ gauge' = gauge - 1
    /\ UNCHANGED <<lease, excluded, attempts, error, bookVars, tableVars,
                   stopping, blamed>>

\* The backend answers below 500: the response is handed to the client.
Respond(r) ==
    /\ phase[r] = "sending"
    /\ phase' = [phase EXCEPT ![r] = "streaming"]
    /\ UNCHANGED <<lease, excluded, attempts, error, semVars, bookVars,
                   tableVars, gauge, stopping, blamed>>

\* The backend answers 5xx: its response is closed (an await) before the retry.
RespondServerError(r) ==
    /\ phase[r] = "sending"
    /\ phase' = [phase EXCEPT ![r] = "closing"]
    /\ blamed' = [blamed EXCEPT ![r] = @ \cup {lease[r]}]
    /\ UNCHANGED <<lease, excluded, attempts, error, semVars, bookVars,
                   tableVars, gauge, stopping>>

\* Mutant of Retry: attempts is never compared.
RetryForever(r) ==
    /\ Reroute(r)
    /\ attempts' = [attempts EXCEPT ![r] = @ + 1]
    /\ phase' = [phase EXCEPT ![r] = "sending"]
    /\ UNCHANGED <<error, semVars, totalErrors, tableVars, gauge, stopping>>

\* What follows a failed attempt: one retry on another replica, or 502.
Retry(r) ==
    /\ attempts[r] < 1
    /\ Reroute(r)
    /\ attempts' = [attempts EXCEPT ![r] = @ + 1]
    /\ phase' = [phase EXCEPT ![r] = "sending"]
    /\ UNCHANGED <<error, semVars, totalErrors, tableVars, gauge, stopping>>

\* Mutant of GiveUp: reroute charges the replica before it finds no other one.
GiveUpChargedTwice(r) ==
    /\ attempts[r] >= 1 \/ Candidates(excluded[r]) = {}
    /\ error' = [error EXCEPT ![r] = TRUE]
    /\ inflight' = [inflight EXCEPT ![lease[r]] = Drop(@)]
    /\ failures' = [failures EXCEPT ![lease[r]] = IF attempts[r] < 1 THEN @ + 2 ELSE @ + 1]
    /\ totalErrors' = totalErrors + 1
    /\ ReleaseSlot([phase EXCEPT ![r] = "bad_gateway"])
    /\ gauge' = gauge - 1
    /\ UNCHANGED <<lease, excluded, attempts, waiters, waiting, tableVars, stopping>>

GiveUp(r) ==
    /\ attempts[r] >= 1 \/ Candidates(excluded[r]) = {}
    /\ error' = [error EXCEPT ![r] = TRUE]
    /\ Settle(r, "bad_gateway", TRUE)
    /\ UNCHANGED <<tableVars, stopping>>

\* http.send raises an httpx.HTTPError (refused, reset, timed out).
SendError(r) ==
    /\ phase[r] = "sending"
    /\ blamed' = [blamed EXCEPT ![r] = @ \cup {lease[r]}]
    /\ Retry(r) \/ GiveUp(r)

CloseDone(r) ==
    /\ phase[r] = "closing"
    /\ Retry(r) \/ GiveUp(r)
    /\ UNCHANGED blamed

\* An exception leaves _send_with_retry: the task is cancelled, or closing the
\* 5xx response raises.  No error was recorded, so nothing is charged.
Abort(r) ==
    /\ \/ stopping /\ phase[r] = "sending"
       \/ phase[r] = "closing"
    /\ Settle(r, "aborted", FALSE)
    /\ UNCHANGED <<error, tableVars, stopping, blamed>>

\* The stream ends, the client goes away or the task is cancelled.
StreamEnd(r) ==
    /\ phase[r] = "streaming"
    /\ phase' = [phase EXCEPT ![r] = "draining"]
    /\ UNCHANGED <<lease, excluded, attempts, error, semVars, bookVars,
                   tableVars, gauge, stopping, blamed>>

\* The backend drops the connection in mid-stream: recorded, never retried.
BackendDrop(r) ==
    /\ phase[r] = "streaming"
    /\ phase' = [phase EXCEPT ![r] = "draining"]
    /\ error' = [error EXCEPT ![r] = TRUE]
    /\ blamed' = [blamed EXCEPT ![r] = @ \cup {lease[r]}]
    /\ UNCHANGED <<lease, excluded, attempts, semVars, bookVars, tableVars,
                   gauge, stopping>>

\* upstream.aclose() returns, raises or is cancelled: the books balance anyway.
Finish(r) ==
    /\ phase[r] = "draining"
    /\ Settle(r, IF error[r] THEN "dropped" ELSE "answered", error[r])
    /\ UNCHANGED <<error, tableVars, stopping, blamed>>

-----------------------------------------------------------------------------
(* What the rest of the process does to the router.                        *)

SetStatus(i) ==
    /\ status[i] # "absent"
    /\ status' = [status EXCEPT ![i] = IF @ = "healthy" THEN "down" ELSE "healthy"]
    /\ UNCHANGED <<proxyVars, semVars, bookVars, gen, gauge, stopping, blamed>>

RemoveReplica(i) ==
    /\ status[i] # "absent"
    /\ status' = [status EXCEPT ![i] = "absent"]
    /\ UNCHANGED <<proxyVars, semVars, bookVars, gen, gauge, stopping, blamed>>

\* A restart puts a fresh ReplicaState under the same id.
AddReplica(i) ==
    /\ status[i] = "absent" /\ gen[i] < MaxIncarnation
    /\ gen' = [gen EXCEPT ![i] = @ + 1]
    /\ status' = [status EXCEPT ![i] = "down"]
    /\ UNCHANGED <<proxyVars, semVars, bookVars, gauge, stopping, blamed>>

\* uvicorn stops accepting connections and, after its grace period, cancels.
BeginShutdown ==
    /\ ~stopping
    /\ stopping' = TRUE
    /\ UNCHANGED <<proxyVars, semVars, bookVars, tableVars, gauge, blamed>>

\* what the event loop, the backends and their timeouts bring about by themselves
Progress(r) ==
    \/ ResumeServed(r) \/ ResumeUnavailable(r) \/ RunCancelled(r)
    \/ Respond(r) \/ SendError(r) \/ CloseDone(r)
    \/ StreamEnd(r) \/ Finish(r)

Next ==
    \/ \E r \in Requests :
          \/ ArriveOverloaded(r) \/ ArriveQueued(r)
          \/ ArriveServed(r) \/ ArriveUnavailable(r)
          \/ Progress(r)
          \/ CancelQueued(r) \/ CancelWoken(r) \/ Abort(r)
          \/ RespondServerError(r) \/ BackendDrop(r)
    \/ \E i \in Replicas : SetStatus(i) \/ RemoveReplica(i) \/ AddReplica(i)
    \/ BeginShutdown

Spec == Init /\ [][Next]_vars
FairSpec == Spec /\ \A r \in Requests : WF_vars(Progress(r))

-----------------------------------------------------------------------------
(* Properties                                                              *)

ProxyTypeOK ==
    /\ phase \in [Requests -> Phases]
    /\ lease \in [Requests -> Objects \cup {None}]
    /\ \A r \in Requests : phase[r] \in Served => lease[r] \in Objects
    /\ excluded \in [Requests -> SUBSET Replicas]
    /\ attempts \in [Requests -> 0 .. 1]
    /\ error \in [Requests -> BOOLEAN]

RouterTypeOK ==
    /\ value \in Int
    /\ waiters \in Seq(Requests)
    /\ waiting \in Int
    /\ totalErrors \in Nat
    /\ inflight \in [Objects -> Nat]
    /\ failures \in [Objects -> Nat]
    /\ status \in [Replicas -> {"absent", "down", "healthy"}]
    /\ gen \in [Replicas -> 0 .. MaxIncarnation]
    /\ gauge \in Int
    /\ stopping \in BOOLEAN
    /\ blamed \in [Requests -> SUBSET Objects]

\* Types of the proxy's and the router's state; a served request has a lease.
TypeOK == ProxyTypeOK /\ RouterTypeOK

\* the requests that own a slot: served, or woken and not yet run
Holders == {r \in Requests : phase[r] \in Served \cup {"woken"}}

\* No path through the proxy (answers, retries, 503s after a wait, cancels at
\* any await) loses a slot of the semaphore or gives one back twice.
SlotConservation ==
    Gated => value >= 0 /\ value + Cardinality(Holders) = MaxConcurrency

\* A free slot and a request that waits for one are never left to each other: a
\* waiter that has been woken, and wakes the next one, is still to run.
NoLostWakeup ==
    Gated /\ value > 0 /\ (\E r \in Requests : phase[r] = "queued")
        => \E r \in Requests : phase[r] = "woken"

\* Neither a slot nor the news of it gets lost, whichever CPython wakes the
\* waiters and whichever of them are cancelled, before or after they were woken.
SlotsReachWaiters == SlotConservation /\ NoLostWakeup

\* ReplicaState.inflight_requests is the number of leases on that very object,
\* restarts in between included: max(0, ...) never hides a wrong decrement.
InflightMatchesLeases ==
    \A o \in Objects :
        inflight[o] = Cardinality({r \in Requests :
                                      phase[r] \in Served /\ lease[r] = o})

\* ReplicaRouter._waiting counts the tasks in the semaphore's line, each once,
\* so the queue's limit is the real one and a cancelled waiter leaves no trace.
LineMatchesWaiting ==
    /\ waiting = Len(waiters) /\ waiting <= MaxQueueDepth
    /\ IsInjective(waiters)
    /\ Range(waiters) = {r \in Requests : phase[r] \in InLine}

\* metrics.requests_inflight is the number of requests between their arrival
\* and the end of their cleanup.
GaugeBalanced ==
    gauge = Cardinality({r \in Requests : phase[r] \in InLine \cup Served})

\* Both counters the proxy reports, and the one its queue limit is checked
\* against, follow the requests wherever one of them is cancelled.
CountersBalanced == LineMatchesWaiting /\ GaugeBalanced

\* the failed attempts on o that the request still has to answer for
Uncharged(o) == {r \in Requests : phase[r] \in {"closing", "draining", "aborted"}
                                  /\ lease[r] = o /\ o \in blamed[r]}

\* Every failed attempt is charged once, to the object it ran on (an aborted
\* request excepted), and total_errors counts the requests that ended failed.
EachFailureChargedOnce ==
    /\ \A o \in Objects :
          failures[o] = Cardinality({r \in Requests : o \in blamed[r]} \ Uncharged(o))
    /\ totalErrors =
          Cardinality({r \in Requests : phase[r] \in {"bad_gateway", "dropped"}})

\* A request is tried on at most two replicas, which have different ids even if
\* one restarted in between: a retry never goes back to the replica that failed.
RetriesElsewhere ==
    \A r \in Requests :
        LET tried == blamed[r] \cup ({lease[r]} \ {None})
        IN Cardinality(tried) <= 2
           /\ \A o, p \in tried : o[1] = p[1] => o = p

\* the requests whose futures are pending, and who of them came first
Queued == {r \in Requests : phase[r] = "queued"}
QueuedAhead == {p \in Queued \X Queued : Before(p[1], p[2])}

Gate == INSTANCE Admission WITH
            inside <- Holders, line <- Queued, ahead <- QueuedAhead

\* The semaphore, its counter and the proxy's cleanup paths implement the gate:
\* bounded inside, bounded line, first come first served.
ImplementsAdmission == Gate!Spec

\* Every request that arrives is answered, rejected or torn down.
EveryRequestEnds ==
    \A r \in Requests : phase[r] # "new" ~> phase[r] \in Terminal

=============================================================================
