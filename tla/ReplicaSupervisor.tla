-------------------------- MODULE ReplicaSupervisor --------------------------
(***************************************************************************)
(* A serving deployment's engines: HealthChecker (runtime/health.py) with  *)
(* its restart tasks, ReplicaSet.restart_replica and stop                  *)
(* (runtime/replicas.py), ManagedProcess.terminate and the launcher's      *)
(* tracking (engines/process.py), up to the end of Deployment.shutdown.    *)
(*                                                                         *)
(* The checker loop, one restart task per replica and the shutdown are     *)
(* asyncio tasks: each action is the code between two awaits.  Engine n of *)
(* replica i is the process tree started by the n-th restart of i, engine  *)
(* 0 the one the deployment started with.                                  *)
(***************************************************************************)
EXTENDS Integers, Sequences, FiniteSets

CONSTANTS
    Indices,          \* the replicas of the plan
    UnhealthyAfter,   \* failed probes before a replica is taken out
    MaxRestarts,      \* restarts of a replica per window
    Window,           \* the rolling window
    RestartEnabled,   \* HealthChecker(restart_enabled=...)
    MaxLaunches,      \* bound: restarts of one replica
    MaxTime           \* bound: the clock

ASSUME IndicesAssumption == IsFiniteSet(Indices)
ASSUME BudgetAssumption ==
    /\ UnhealthyAfter \in Nat \ {0} /\ MaxRestarts \in Nat /\ Window \in Nat
    /\ RestartEnabled \in BOOLEAN
    /\ MaxLaunches \in Nat /\ MaxTime \in Nat

VARIABLES
    \* the operating system
    engine,      \* the process group of engine n of replica i
    now,         \* time.monotonic()
    \* ReplicaSet and the launcher
    listed,      \* the engine of the Replica in ReplicaSet.replicas
    tracked,     \* LocalLauncher._processes
    \* the router's entry
    status,      \* ReplicaState.status, "absent": no entry
    entryOf,     \* the engine the entry was made for
    fails,       \* ReplicaState.consecutive_health_failures
    \* HealthChecker
    checker,     \* the loop: "idle", "probing" or "off"
    live,        \* the replicas being probed
    restarting,  \* _restarting
    times,       \* _restart_times
    task,        \* where the restart task of a replica is
    cancelled,   \* restart tasks with a cancellation on its way
    \* Deployment.shutdown
    stage,
    scheduled    \* history: when each restart was scheduled

setVars     == <<listed, tracked>>
entryVars   == <<status, entryOf, fails>>
checkerVars == <<checker, live, restarting, times, scheduled>>
taskVars    == <<task, cancelled>>
vars == <<engine, now, setVars, entryVars, checkerVars, taskVars, stage>>

Engines == 0 .. MaxLaunches

\* A group may outlive its main process: the workers it forked.
Alive == {"running", "workers"}
TaskPhases == {"none", "sleeping", "terminating", "draining", "launching",
               "readying", "discarding"}
Stages == {"serving", "stop_checker", "await_restarts", "stop_set",
           "shutdown_all", "done"}

Init ==
    /\ engine = [i \in Indices |->
                    [n \in Engines |-> IF n = 0 THEN "running" ELSE "none"]]
    /\ now = 0
    /\ listed = [i \in Indices |-> 0]
    /\ tracked = Indices \X {0}
    /\ status = [i \in Indices |-> "healthy"]
    /\ entryOf = [i \in Indices |-> 0]
    /\ fails = [i \in Indices |-> 0]
    /\ checker = "idle" /\ live = {}
    /\ restarting = {}
    /\ times = [i \in Indices |-> <<>>]
    /\ task = [i \in Indices |-> "none"]
    /\ cancelled = {}
    /\ stage = "serving"
    /\ scheduled = [i \in Indices |-> <<>>]

-----------------------------------------------------------------------------
(* The engines and the clock                                               *)

\* The main process of an engine exits, alone or with its whole group.
EngineExits(i, n) ==
    /\ engine[i][n] = "running"
    /\ \E s \in {"workers", "gone"} :
          engine' = [engine EXCEPT ![i] = [@ EXCEPT ![n] = s]]
    /\ UNCHANGED <<now, setVars, entryVars, checkerVars, taskVars, stage>>

Tick ==
    /\ now < MaxTime
    /\ now' = now + 1
    /\ UNCHANGED <<engine, setVars, entryVars, checkerVars, taskVars, stage>>

-----------------------------------------------------------------------------
(* The checker loop                                                        *)

\* Mutant of Watched: a replica given up on is looked at like any other.
WatchedForever(i) == i \notin restarting /\ status[i] # "absent"

\* check_once looks at a replica unless it restarts or has no usable entry
Watched(i) == i \notin restarting /\ status[i] \notin {"absent", "stopped"}

Dead(i)  == Watched(i) /\ engine[i][listed[i]] # "running"

\* popleft, as long as the first restart is older than the width
Expired(i, width) ==
    CHOOSE n \in 0 .. Len(times[i]) :
        /\ \A j \in 1 .. n : now - times[i][j] > width
        /\ n < Len(times[i]) => now - times[i][n + 1] <= width

Unexpired(i, width) == SubSeq(times[i], Expired(i, width) + 1, Len(times[i]))

\* Mutant of Recent: a restart as old as the window no longer counts.
RecentTooShort(i) == Unexpired(i, Window - 1)

\* the restarts that still count: those older than the window are dropped
Recent(i) == Unexpired(i, Window)

\* _handle_dead finds the budget used up, or may not restart at all
GivesUp(i) == ~RestartEnabled \/ Len(Recent(i)) >= MaxRestarts

\* The first half of check_once runs without an await: every dead replica is
\* handled (_handle_dead), the others are about to be probed.
Scan ==
    /\ stage = "serving" /\ checker = "idle"
    /\ LET dead == {i \in Indices : Dead(i)}
           again == {i \in dead : ~GivesUp(i)}
       IN /\ \A i \in again : Len(scheduled[i]) < MaxLaunches
          /\ live' = {i \in Indices : Watched(i)} \ dead
          /\ status' = [i \in Indices |->
                IF i \in again THEN "unhealthy"
                ELSE IF i \in dead THEN "stopped" ELSE status[i]]
          /\ times' = [i \in Indices |->
                IF i \in again THEN Append(Recent(i), now)
                ELSE IF i \in dead /\ RestartEnabled THEN Recent(i) ELSE times[i]]
          /\ scheduled' = [i \in Indices |->
                IF i \in again THEN Append(scheduled[i], now) ELSE scheduled[i]]
          /\ restarting' = restarting \cup again
          /\ task' = [i \in Indices |-> IF i \in again THEN "sleeping" ELSE task[i]]
    /\ checker' = "probing"
    /\ UNCHANGED <<engine, now, setVars, entryOf, fails, cancelled, stage>>

\* All probes are back; a live engine may fail to answer and a dead one may
\* have answered before it died.
Apply ==
    /\ checker = "probing"
    /\ \E ok \in SUBSET live :
          LET missed == {i \in live \ ok : status[i] # "absent"}
              failing == {i \in missed : fails[i] + 1 >= UnhealthyAfter}
              found == {i \in ok : status[i] # "absent"}
          IN /\ fails' = [i \in Indices |->
                    IF i \in found THEN 0
                    ELSE IF i \in missed \ failing THEN fails[i] + 1
                    ELSE IF i \in missed THEN UnhealthyAfter ELSE fails[i]]
             /\ status' = [i \in Indices |->
                    IF i \in found THEN "healthy"
                    ELSE IF i \in failing /\ status[i] = "healthy" THEN "unhealthy"
                    ELSE status[i]]
    /\ checker' = "idle" /\ live' = {}
    /\ UNCHANGED <<engine, now, setVars, entryOf, restarting, times, scheduled,
                   taskVars, stage>>

-----------------------------------------------------------------------------
(* A restart task: _restart and restart_replica.  A task whose             *)
(* cancellation is on its way does nothing else first.                     *)

\* the engine the running restart of i launches
Fresh(i) == Len(scheduled[i])

At(i, phase) == task[i] = phase /\ i \notin cancelled

GoTo(i, phase) == task' = [task EXCEPT ![i] = phase]

\* Mutant of EndTask: the index is not discarded from _restarting.
EndTaskStillRestarting(i) == GoTo(i, "none") /\ UNCHANGED restarting

\* the task is over and its finally clause has run
EndTask(i) ==
    /\ GoTo(i, "none")
    /\ restarting' = restarting \ {i}

KillGroup(i, n) == engine' = [engine EXCEPT ![i] = [@ EXCEPT ![n] = "gone"]]

\* a new ReplicaState for the engine just launched, or just not launched
NewEntry(i, s) ==
    /\ status' = [status EXCEPT ![i] = s]
    /\ entryOf' = [entryOf EXCEPT ![i] = Fresh(i)]
    /\ fails' = [fails EXCEPT ![i] = 0]

\* the old engine is out of the way: its entry goes, the launch begins
BeginLaunch(i) ==
    /\ status' = [status EXCEPT ![i] = "absent"]
    /\ GoTo(i, "launching")

BackoffOver(i) ==
    /\ At(i, "sleeping")
    /\ GoTo(i, "terminating")
    /\ UNCHANGED <<engine, now, setVars, entryVars, checkerVars, cancelled, stage>>

\* Mutant of Terminated: nothing is done for a main process that has exited.
TerminatedMainOnly(i) ==
    /\ At(i, "terminating")
    /\ IF engine[i][listed[i]] = "running" THEN KillGroup(i, listed[i])
                                          ELSE UNCHANGED engine
    /\ BeginLaunch(i)
    /\ UNCHANGED <<now, setVars, entryOf, fails, checkerVars, cancelled, stage>>

\* terminate: the group is scanned in a thread and its members are killed.
\* Workers have kept the pipes open: their readers are cancelled, and awaited.
Terminated(i) ==
    /\ At(i, "terminating")
    /\ KillGroup(i, listed[i])
    /\ \/ BeginLaunch(i)
       \/ engine[i][listed[i]] = "workers" /\ GoTo(i, "draining") /\ UNCHANGED status
    /\ UNCHANGED <<now, setVars, entryOf, fails, checkerVars, cancelled, stage>>

Drained(i) ==
    /\ At(i, "draining")
    /\ BeginLaunch(i)
    /\ UNCHANGED <<engine, now, setVars, entryOf, fails, checkerVars, cancelled, stage>>

Launched(i) ==
    /\ At(i, "launching")
    /\ engine' = [engine EXCEPT ![i] = [@ EXCEPT ![Fresh(i)] = "running"]]
    /\ tracked' = tracked \cup {<<i, Fresh(i)>>}
    /\ NewEntry(i, "starting")
    /\ GoTo(i, "readying")
    /\ UNCHANGED <<now, listed, checkerVars, cancelled, stage>>

\* Mutant of LaunchFails: the exception leaves before the entry is added.
LaunchFailsUnlisted(i) ==
    /\ At(i, "launching")
    /\ EndTask(i)
    /\ UNCHANGED <<engine, now, setVars, entryVars, checker, live, times,
                   scheduled, cancelled, stage>>

\* The launcher raises LaunchError: an entry is added all the same.
LaunchFails(i) ==
    /\ At(i, "launching")
    /\ NewEntry(i, "unhealthy")
    /\ EndTask(i)
    /\ UNCHANGED <<engine, now, setVars, checker, live, times, scheduled,
                   cancelled, stage>>

Ready(i) ==
    /\ At(i, "readying") /\ engine[i][Fresh(i)] = "running"
    /\ status' = [status EXCEPT ![i] = "healthy"]
    /\ listed' = [listed EXCEPT ![i] = Fresh(i)]
    /\ EndTask(i)
    /\ UNCHANGED <<engine, now, tracked, entryOf, fails, checker, live, times,
                   scheduled, cancelled, stage>>

\* The fresh engine exits or does not answer within the startup timeout.
NotReady(i) ==
    /\ At(i, "readying")
    /\ GoTo(i, "discarding")
    /\ UNCHANGED <<engine, now, setVars, entryVars, checkerVars, cancelled, stage>>

\* Mutant of Discarded: the engine that never became ready is left running.
DiscardedRunning(i) ==
    /\ At(i, "discarding")
    /\ status' = [status EXCEPT ![i] = "unhealthy"]
    /\ EndTask(i)
    /\ UNCHANGED <<engine, now, setVars, entryOf, fails, checker, live, times,
                   scheduled, cancelled, stage>>

\* It is terminated and the old Replica stays in the list.
Discarded(i) ==
    /\ At(i, "discarding")
    /\ KillGroup(i, Fresh(i))
    /\ status' = [status EXCEPT ![i] = "unhealthy"]
    /\ EndTask(i)
    /\ UNCHANGED <<now, setVars, entryOf, fails, checker, live, times, scheduled,
                   cancelled, stage>>

\* CancelledError at the task's await ends it there and then: nothing is
\* killed, no entry is put back.  A task that had not run yet skips its finally.
CancelEnds(i) ==
    /\ i \in cancelled /\ task[i] # "draining"
    /\ cancelled' = cancelled \ {i}
    /\ GoTo(i, "none")
    /\ \/ restarting' = restarting \ {i}
       \/ task[i] = "sleeping" /\ UNCHANGED restarting
    /\ UNCHANGED <<engine, now, setVars, entryVars, checker, live, times,
                   scheduled, stage>>

\* ... except at "await task" of a reader, under suppress(CancelledError).
CancelSwallowed(i) ==
    /\ i \in cancelled /\ task[i] = "draining"
    /\ cancelled' = cancelled \ {i}
    /\ BeginLaunch(i)
    /\ UNCHANGED <<engine, now, setVars, entryOf, fails, checkerVars, stage>>

-----------------------------------------------------------------------------
(* Deployment.shutdown                                                     *)

\* health.stop cancels the loop, which sleeps or probes, and waits for its end.
RequestShutdown ==
    /\ stage = "serving"
    /\ stage' = "stop_checker"
    /\ checker' = "off" /\ live' = {}
    /\ UNCHANGED <<engine, now, setVars, entryVars, restarting, times, scheduled,
                   taskVars>>

\* ... then cancels every restart task
CancelRestarts ==
    /\ stage = "stop_checker"
    /\ stage' = "await_restarts"
    /\ cancelled' = {i \in Indices : task[i] # "none"}
    /\ UNCHANGED <<engine, now, setVars, entryVars, checkerVars, task>>

\* ... and waits for the tasks to end.
RestartsOver ==
    /\ stage = "await_restarts"
    /\ \A i \in Indices : task[i] = "none"
    /\ stage' = "stop_set"
    /\ restarting' = {}
    /\ UNCHANGED <<engine, now, setVars, entryVars, checker, live, times,
                   scheduled, taskVars>>

\* ReplicaSet.stop terminates the listed engines and empties the router.
StopSet ==
    /\ stage = "stop_set"
    /\ engine' = [i \in Indices |-> [engine[i] EXCEPT ![listed[i]] = "gone"]]
    /\ status' = [i \in Indices |-> "absent"]
    /\ stage' = "shutdown_all"
    /\ UNCHANGED <<now, setVars, entryOf, fails, checkerVars, taskVars>>

\* Mutant of ShutdownAll: only engines whose main process runs are terminated.
ShutdownAllRunning ==
    /\ stage = "shutdown_all"
    /\ engine' = [i \in Indices |-> [n \in Engines |->
                     IF <<i, n>> \in tracked /\ engine[i][n] = "running"
                     THEN "gone" ELSE engine[i][n]]]
    /\ tracked' = {}
    /\ stage' = "done"
    /\ UNCHANGED <<now, listed, entryVars, checkerVars, taskVars>>

\* launcher.shutdown_all terminates whatever it ever launched.
ShutdownAll ==
    /\ stage = "shutdown_all"
    /\ engine' = [i \in Indices |-> [n \in Engines |->
                     IF <<i, n>> \in tracked THEN "gone" ELSE engine[i][n]]]
    /\ tracked' = {}
    /\ stage' = "done"
    /\ UNCHANGED <<now, listed, entryVars, checkerVars, taskVars>>

-----------------------------------------------------------------------------
\* what a restart task does by itself, no answer of the engine needed
RestartStep(i) ==
    \/ BackoffOver(i) \/ Terminated(i) \/ Drained(i)
    \/ Launched(i) \/ LaunchFails(i)
    \/ NotReady(i) \/ Discarded(i)
    \/ CancelEnds(i) \/ CancelSwallowed(i)

ShutdownStep == CancelRestarts \/ RestartsOver \/ StopSet \/ ShutdownAll

Next ==
    \/ \E i \in Indices, n \in Engines : EngineExits(i, n)
    \/ Tick
    \/ Scan \/ Apply
    \/ \E i \in Indices : RestartStep(i) \/ Ready(i)
    \/ RequestShutdown \/ ShutdownStep

Spec == Init /\ [][Next]_vars

\* The event loop runs what is ready; sleeps, probes, scans and startup waits
\* have timeouts.
FairSpec ==
    /\ Spec
    /\ WF_vars(Scan \/ Apply)
    /\ \A i \in Indices : WF_vars(RestartStep(i))
    /\ WF_vars(ShutdownStep)

-----------------------------------------------------------------------------
(* Properties                                                              *)

\* Types; the remembered restarts never exceed the budget.
TypeOK ==
    /\ engine \in [Indices -> [Engines -> {"none", "gone"} \cup Alive]]
    /\ now \in 0 .. MaxTime
    /\ listed \in [Indices -> Engines]
    /\ tracked \subseteq Indices \X Engines
    /\ status \in [Indices -> {"absent", "starting", "healthy", "unhealthy", "stopped"}]
    /\ entryOf \in [Indices -> Engines]
    /\ fails \in [Indices -> 0 .. UnhealthyAfter]
    /\ checker \in {"idle", "probing", "off"} /\ live \subseteq Indices
    /\ restarting \subseteq Indices /\ cancelled \subseteq Indices
    /\ task \in [Indices -> TaskPhases]
    /\ stage \in Stages
    /\ \A i \in Indices :
          /\ scheduled[i] \in Seq(0 .. MaxTime) /\ Len(scheduled[i]) <= MaxLaunches
          /\ times[i] \in Seq(0 .. MaxTime) /\ Len(times[i]) <= MaxRestarts

LiveEngines(i) == {n \in Engines : engine[i][n] \in Alive}

\* The GPUs and the port of a replica are never held by two engines, whichever
\* of main process and workers is left of the old one, and whatever fails or is
\* cancelled between the death of one and the launch of the next.
OneEnginePerGroup == \A i \in Indices : Cardinality(LiveEngines(i)) <= 1

\* An engine that lives has an owner: the list, the restart task that launched
\* it, or, once restarts are cancelled, the launcher's own list.
NoUnownedEngine ==
    \A i \in Indices : \A n \in LiveEngines(i) :
        \/ n = listed[i]
        \/ n = Fresh(i) /\ task[i] \in {"readying", "discarding"}
        \/ <<i, n>> \in tracked /\ stage \notin {"serving", "stop_checker"}

\* The checker skips a replica without a router entry and never adds one: while
\* it serves, every replica that is not being restarted has an entry.
NoReplicaForgotten ==
    stage = "serving" =>
        \A i \in Indices \ restarting : status[i] \notin {"absent", "starting"}

\* Requests go to "healthy" entries: such an entry is the one of the listed
\* engine, and that engine is not being replaced.
RoutedIsListed ==
    \A i \in Indices : status[i] = "healthy" =>
        entryOf[i] = listed[i] /\ task[i] = "none"

\* The two tables a restart writes at different moments agree: router.replicas
\* loses no replica for good and lets none be routed to that the set does not list.
TablesAgree == NoReplicaForgotten /\ RoutedIsListed

\* "exceeded restarts; giving up" is final: only the shutdown touches such a
\* replica again, even when its restarts have left the window.
StoppedIsFinal ==
    [][\A i \in Indices : status[i] = "stopped" =>
            task'[i] = "none" /\ (status'[i] = "stopped" \/ stage = "stop_set")]_vars

\* Any MaxRestarts + 1 consecutive restarts of a replica take longer than the
\* window, however restarts, failures and pruning interleave.
RestartBudget ==
    \A i \in Indices : \A j \in 1 .. Len(scheduled[i]) - MaxRestarts :
        scheduled[i][j + MaxRestarts] - scheduled[i][j] > Window

\* After shutdown no engine lives, wherever the cancellation met the restarts.
ShutdownLeavesNothing ==
    stage = "done" => \A i \in Indices : LiveEngines(i) = {}

\* A listed engine that dies is restarted or given up, unless shutdown begins.
DeathIsAnswered ==
    \A i \in Indices :
        engine[i][listed[i]] # "running" ~>
            task[i] # "none" \/ status[i] = "stopped" \/ stage # "serving"

\* Shutdown ends, wherever the restarts are and whatever the engines do.
ShutdownEnds == stage # "serving" ~> stage = "done"

\* What the loop and its restart tasks owe: neither a dead engine nor a shutdown
\* is left waiting for a task that never ends.
RestartsAndShutdownEnd == DeathIsAnswered /\ ShutdownEnds

=============================================================================
