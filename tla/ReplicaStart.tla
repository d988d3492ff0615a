---------------------------- MODULE ReplicaStart ----------------------------
(***************************************************************************)
(* ReplicaSet.start and stop (runtime/replicas.py), the readiness poll     *)
(* (engines/base.py) and the port allocator (runtime/ports.py), in several *)
(* ServePilot processes on one machine.  Each process has an allocator of  *)
(* its own and starts one replica set after the other: a tuner its         *)
(* candidates, `serve` the winner.                                         *)
(*                                                                         *)
(* start and the launch tasks it creates are asyncio tasks: each action is *)
(* the code between two awaits.  Engines bind their port by themselves,    *)
(* long after it was allocated.  What callers do about engines that start  *)
(* leaves (launcher.shutdown_all, the atexit hook) is not modelled here.   *)
(***************************************************************************)
EXTENDS Integers, FiniteSets

CONSTANTS
    Pilots,               \* the ServePilot processes
    Count,                \* plan.replica_count
    FirstPort, LastPort,  \* the range of every allocator
    MaxStarts,            \* bound: replica sets started by a process
    Interruptible,        \* the processes in which Ctrl-C cancels start
    None                  \* no port

ASSUME CountAssumption == Count \in Nat \ {0}
ASSUME RangeAssumption == FirstPort \in Nat /\ LastPort \in Nat /\ FirstPort <= LastPort
ASSUME PilotAssumption == Interruptible \subseteq Pilots /\ MaxStarts \in Nat
ASSUME NonePort == None \notin FirstPort .. LastPort

VARIABLES
    \* PortAllocator
    reserved,     \* _reserved
    cursor,       \* _cursor
    foreign,      \* ports that other programs of the machine listen on
    \* ReplicaSet
    phase,        \* where start or stop is
    next,         \* the index start launches next
    listed,       \* replicas
    allocated,    \* _allocated_ports
    starts,       \* sets started so far
    interrupted,  \* processes whose start was cancelled
    \* the launch task, the port and the engine of each replica
    task,
    port,
    engine

allocatorVars == <<reserved, cursor, foreign>>
setVars == <<phase, next, listed, allocated, starts, interrupted>>
vars == <<allocatorVars, setVars, task, port, engine>>

Ports == FirstPort .. LastPort
Span == LastPort - FirstPort + 1
Replicas == Pilots \X (0 .. Count - 1)
Of(p) == {r \in Replicas : r[1] = p}

Awaiting == {"launching", "readying", "asking", "discarding"}
Tasks == {"none", "ready", "failed", "cancelled"} \cup Awaiting
Phases == {"off", "new", "first", "staggering", "gathering", "stopping", "up"}
Alive(r) == engine[r] \in {"loading", "listening"}

Init ==
    /\ reserved = [p \in Pilots |-> {}]
    /\ cursor = [p \in Pilots |-> FirstPort]
    /\ foreign \in SUBSET Ports
    /\ phase = [p \in Pilots |-> "off"]
    /\ next = [p \in Pilots |-> 0]
    /\ listed = [p \in Pilots |-> {}]
    /\ allocated = [p \in Pilots |-> {}]
    /\ starts = [p \in Pilots |-> 0]
    /\ interrupted = {}
    /\ task = [r \in Replicas |-> "none"]
    /\ port = [r \in Replicas |-> None]
    /\ engine = [r \in Replicas |-> "none"]

GoTo(p, where) == phase' = [phase EXCEPT ![p] = where]
Becomes(r, where) == task' = [task EXCEPT ![r] = where]

-----------------------------------------------------------------------------
(* The port allocator                                                      *)

Listeners(q) == {r \in Replicas : engine[r] = "listening" /\ port[r] = q}

\* Mutant of Free: reservations are not looked at.
FreeNow(p, q) == Listeners(q) = {} /\ q \notin foreign

\* not reserved here, and nobody listens on it (port_is_free)
Free(p, q) == q \notin reserved[p] /\ Listeners(q) = {} /\ q \notin foreign

After(q) == IF q >= LastPort THEN FirstPort ELSE q + 1

\* how far the scan of allocate gets before it looks at q
Distance(p, q) == (q - cursor[p]) % Span

\* Mutant of Allocate: the port is handed out and not remembered.
AllocateUnreserved(p, q) ==
    /\ Free(p, q)
    /\ \A other \in Ports : Free(p, other) => Distance(p, q) <= Distance(p, other)
    /\ cursor' = [cursor EXCEPT ![p] = After(q)]
    /\ UNCHANGED <<reserved, foreign>>

\* allocate returns q, the first free port from the cursor on
Allocate(p, q) ==
    /\ Free(p, q)
    /\ \A other \in Ports : Free(p, other) => Distance(p, q) <= Distance(p, other)
    /\ cursor' = [cursor EXCEPT ![p] = After(q)]
    /\ reserved' = [reserved EXCEPT ![p] = @ \cup {q}]
    /\ UNCHANGED foreign

NoPortFree(p) == \A q \in Ports : ~Free(p, q)

-----------------------------------------------------------------------------
(* _launch_one                                                             *)

\* up to the launch: allocate either gives a port or raises
BeginLaunch(r) ==
    \/ \E q \in Ports :
          /\ Allocate(r[1], q)
          /\ allocated' = [allocated EXCEPT ![r[1]] = @ \cup {q}]
          /\ port' = [port EXCEPT ![r] = q]
          /\ Becomes(r, "launching")
    \/ /\ NoPortFree(r[1])
       /\ Becomes(r, "failed")
       /\ UNCHANGED <<allocatorVars, allocated, port>>

Launched(r) ==
    /\ task[r] = "launching"
    /\ engine' = [engine EXCEPT ![r] = "loading"]
    /\ Becomes(r, "readying")
    /\ UNCHANGED <<allocatorVars, setVars, port>>

LaunchFails(r) ==
    /\ task[r] = "launching"
    /\ Becomes(r, "failed")
    /\ UNCHANGED <<allocatorVars, setVars, port, engine>>

\* wait_until_ready: is_running, then GET readiness_path
Poll(r) ==
    /\ task[r] = "readying"
    /\ Becomes(r, IF Alive(r) THEN "asking" ELSE "discarding")
    /\ UNCHANGED <<allocatorVars, setVars, port, engine>>

\* Whoever listens on the port answers with a status below 500.
Answered(r) ==
    /\ task[r] = "asking" /\ Listeners(port[r]) # {}
    /\ Becomes(r, "ready")
    /\ UNCHANGED <<allocatorVars, setVars, port, engine>>

NotAnswered(r) ==
    /\ task[r] = "asking"
    /\ Becomes(r, "readying")
    /\ UNCHANGED <<allocatorVars, setVars, port, engine>>

\* No good answer, and startup_timeout is over.
TimedOut(r) ==
    /\ task[r] = "asking"
    /\ Becomes(r, "discarding")
    /\ UNCHANGED <<allocatorVars, setVars, port, engine>>

\* The engine that did not become ready is terminated; ReplicaLaunchError.
Discarded(r) ==
    /\ task[r] = "discarding"
    /\ engine' = [engine EXCEPT ![r] = "gone"]
    /\ Becomes(r, "failed")
    /\ UNCHANGED <<allocatorVars, setVars, port>>

-----------------------------------------------------------------------------
(* start and stop                                                          *)

\* A new ReplicaSet; the last one has been stopped.
Create(p) ==
    /\ phase[p] = "off" /\ p \notin interrupted
    /\ starts[p] < MaxStarts
    /\ starts' = [starts EXCEPT ![p] = @ + 1]
    /\ listed' = [listed EXCEPT ![p] = {}]
    /\ allocated' = [allocated EXCEPT ![p] = {}]
    /\ next' = [next EXCEPT ![p] = 1]
    /\ task' = [r \in Replicas |-> IF r \in Of(p) THEN "none" ELSE task[r]]
    /\ port' = [r \in Replicas |-> IF r \in Of(p) THEN None ELSE port[r]]
    /\ GoTo(p, "new")
    /\ UNCHANGED <<allocatorVars, interrupted, engine>>

StartFirst(p) ==
    /\ phase[p] = "new"
    /\ BeginLaunch(<<p, 0>>)
    /\ GoTo(p, "first")
    /\ UNCHANGED <<next, listed, starts, interrupted, engine>>

FirstFails(p) ==
    /\ phase[p] = "first" /\ task[<<p, 0>>] = "failed"
    /\ GoTo(p, "stopping")
    /\ UNCHANGED <<allocatorVars, next, listed, allocated, starts, interrupted, task, port, engine>>

FirstReady(p) ==
    /\ phase[p] = "first" /\ task[<<p, 0>>] = "ready"
    /\ listed' = [listed EXCEPT ![p] = @ \cup {<<p, 0>>}]
    /\ GoTo(p, IF Count = 1 THEN "up" ELSE "staggering")
    /\ UNCHANGED <<allocatorVars, next, allocated, starts, interrupted, task, port, engine>>

\* create_task after the stagger sleep; the new task runs to its launch before
\* anything else that waits.  The last one is followed by the gather.
Spawn(p) ==
    /\ phase[p] = "staggering"
    /\ BeginLaunch(<<p, next[p]>>)
    /\ next' = [next EXCEPT ![p] = @ + 1]
    /\ GoTo(p, IF next[p] = Count - 1 THEN "gathering" ELSE "staggering")
    /\ UNCHANGED <<listed, starts, interrupted, engine>>

Later(p) == Of(p) \ {<<p, 0>>}
GoodOnes(p) == {r \in Later(p) : task[r] = "ready"}

\* Mutant of Gathered: an error is raised before the others are listed.
GatheredRaisesFirst(p) ==
    /\ phase[p] = "gathering"
    /\ \A r \in Later(p) : task[r] \in {"ready", "failed"}
    /\ IF GoodOnes(p) = Later(p)
       THEN listed' = [listed EXCEPT ![p] = @ \cup GoodOnes(p)] /\ GoTo(p, "up")
       ELSE UNCHANGED listed /\ GoTo(p, "stopping")
    /\ UNCHANGED <<allocatorVars, next, allocated, starts, interrupted, task, port, engine>>

\* Mutant of Gathered: only launches that succeed are waited for.
GatheredIfAllGood(p) ==
    /\ phase[p] = "gathering"
    /\ \A r \in Later(p) : task[r] = "ready"
    /\ listed' = [listed EXCEPT ![p] = @ \cup GoodOnes(p)]
    /\ GoTo(p, "up")
    /\ UNCHANGED <<allocatorVars, next, allocated, starts, interrupted, task, port, engine>>

\* gather(return_exceptions=True) waits for all, whatever becomes of them.
Gathered(p) ==
    /\ phase[p] = "gathering"
    /\ \A r \in Later(p) : task[r] \in {"ready", "failed"}
    /\ listed' = [listed EXCEPT ![p] = @ \cup GoodOnes(p)]
    /\ GoTo(p, IF GoodOnes(p) = Later(p) THEN "up" ELSE "stopping")
    /\ UNCHANGED <<allocatorVars, next, allocated, starts, interrupted, task, port, engine>>

\* The candidate's session is closed, or the deployment shut down.
Close(p) ==
    /\ phase[p] = "up"
    /\ GoTo(p, "stopping")
    /\ UNCHANGED <<allocatorVars, next, listed, allocated, starts, interrupted, task, port, engine>>

\* stop terminates the engines in `replicas` and gives back every port.
Stopped(p) ==
    /\ phase[p] = "stopping"
    /\ engine' = [r \in Replicas |-> IF r \in listed[p] THEN "gone" ELSE engine[r]]
    /\ reserved' = [reserved EXCEPT ![p] = @ \ allocated[p]]
    /\ allocated' = [allocated EXCEPT ![p] = {}]
    /\ GoTo(p, "off")
    /\ UNCHANGED <<cursor, foreign, next, listed, starts, interrupted, task, port>>

\* Ctrl-C cancels start.  The await it is suspended at decides what follows:
\* the inline launch and the gathered tasks are cancelled with it, tasks it
\* created before a stagger sleep go on, and a stop is cut off.
Interrupt(p) ==
    /\ p \in Interruptible \ interrupted
    /\ \/ phase[p] = "first" /\ task[<<p, 0>>] \in Awaiting
       \/ phase[p] = "staggering" /\ next[p] > 1
       \/ phase[p] \in {"gathering", "stopping"}
    /\ interrupted' = interrupted \cup {p}
    /\ task' = [r \in Replicas |->
          IF r \in Of(p) /\ task[r] \in Awaiting /\ phase[p] # "staggering"
          THEN "cancelled" ELSE task[r]]
    /\ GoTo(p, IF phase[p] = "stopping" THEN "off" ELSE "stopping")
    /\ UNCHANGED <<allocatorVars, next, listed, allocated, starts, port, engine>>

-----------------------------------------------------------------------------
(* The engines                                                             *)

Binds(r) ==
    /\ engine[r] = "loading"
    /\ engine' = [engine EXCEPT ![r] = IF Listeners(port[r]) = {} THEN "listening" ELSE "gone"]
    /\ UNCHANGED <<allocatorVars, setVars, task, port>>

Dies(r) ==
    /\ Alive(r)
    /\ engine' = [engine EXCEPT ![r] = "gone"]
    /\ UNCHANGED <<allocatorVars, setVars, task, port>>

-----------------------------------------------------------------------------
LaunchStep(r) == Launched(r) \/ LaunchFails(r) \/ Poll(r) \/ Answered(r) \/ Discarded(r)

StartStep(p) ==
    StartFirst(p) \/ FirstFails(p) \/ FirstReady(p) \/ Spawn(p) \/ Gathered(p) \/ Stopped(p)

Next ==
    \/ \E p \in Pilots : Create(p) \/ StartStep(p) \/ Close(p) \/ Interrupt(p)
    \/ \E r \in Replicas :
          LaunchStep(r) \/ NotAnswered(r) \/ TimedOut(r) \/ Binds(r) \/ Dies(r)

Spec == Init /\ [][Next]_vars

\* Launches and terminations end, a request to the engine has a timeout, and so
\* has the wait for readiness.  An engine need never bind, answer or die.
FairSpec ==
    /\ Spec
    /\ \A p \in Pilots : WF_vars(StartStep(p))
    /\ \A r \in Replicas :
          WF_vars(LaunchStep(r)) /\ WF_vars(NotAnswered(r)) /\ SF_vars(TimedOut(r))

-----------------------------------------------------------------------------
(* Properties                                                              *)

\* Types; the cursor never leaves the range.
TypeOK ==
    /\ reserved \in [Pilots -> SUBSET Ports]
    /\ cursor \in [Pilots -> Ports]
    /\ phase \in [Pilots -> Phases]
    /\ next \in [Pilots -> 0 .. Count]
    /\ listed \in [Pilots -> SUBSET Replicas]
    /\ allocated \in [Pilots -> SUBSET Ports]
    /\ starts \in [Pilots -> 0 .. MaxStarts]
    /\ interrupted \in SUBSET Interruptible
    /\ task \in [Replicas -> Tasks]
    /\ port \in [Replicas -> Ports \cup {None}]
    /\ engine \in [Replicas -> {"none", "loading", "listening", "gone"}]

\* The allocator's promise: replicas of one process that are launched side by
\* side never have the same port, not even in a set that follows a failed one.
PortsApart ==
    \A p \in Pilots : \A r, s \in Of(p) :
        r # s /\ Alive(r) /\ Alive(s) => port[r] # port[s]

\* All: a start that succeeds has every replica listed after it was ready.
UpIsComplete ==
    \A p \in Pilots : phase[p] = "up" =>
        listed[p] = Of(p) /\ \A r \in Of(p) : task[r] = "ready"

\* Nothing: a start that failed, in whichever launch and however many others
\* were under way, leaves no engine and no reserved port to the next one.
NothingLeft ==
    \A p \in Pilots : phase[p] = "off" /\ p \notin interrupted =>
        reserved[p] = {} /\ \A r \in Of(p) : ~Alive(r)

\* start is all or nothing, unless Ctrl-C interrupts it.
AllOrNothing == UpIsComplete /\ NothingLeft

\* A replica taken for ready is one whose own engine listens.
ReadyIsOwn == \A r \in Replicas : task[r] = "ready" => engine[r] # "loading"

\* start returns or raises in the end, though an engine may hang forever.
StartEnds == \A p \in Pilots : phase[p] = "new" ~> phase[p] \in {"up", "off"}

=============================================================================
