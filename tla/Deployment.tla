----------------------------- MODULE Deployment -----------------------------
(***************************************************************************)
(* `servepilot serve` processes, the runtime state file they share and     *)
(* `servepilot stop` (runtime/supervisor.py, runtime/server.py,            *)
(* runtime/state.py, cli/app.py).  A process can be killed at any moment;  *)
(* its engines run in process groups of their own and survive it.          *)
(*                                                                         *)
(* One replica stands for the replica set: its engine 0 is launched by     *)
(* ReplicaSet.start, engine k by the k-th restart (ReplicaSupervisor has   *)
(* the restarts in detail).  SIGKILL to a process group takes effect.      *)
(***************************************************************************)
EXTENDS Integers, FiniteSets

CONSTANTS
    Deployments,   \* the serve processes, one per invocation
    SharedPort,    \* do they want the same public port
    MaxRestarts,   \* bound: restarts of the engine
    MaxKills,      \* bound: serve processes killed from outside
    None           \* no file, no record

ASSUME DeploymentsAssumption == IsFiniteSet(Deployments) /\ SharedPort \in BOOLEAN
ASSUME BoundAssumption == MaxRestarts \in Nat /\ MaxKills \in Nat
ASSUME NoneAssumption ==
    /\ None \notin [owner : Deployments, children : SUBSET Nat]
    /\ None \notin {"none", "stopped", "failed"}

VARIABLES
    serve,     \* where each serve process is
    asked,     \* its _stop_event is set
    engines,   \* its engines that are alive
    current,   \* the engine it lists
    file,      \* runtime.json
    cli,       \* where `servepilot stop` is
    rt,        \* the RuntimeState it read
    verdict,   \* what it reported
    kills      \* processes killed from outside

serveVars == <<serve, asked>>
engineVars == <<engines, current>>
cliVars == <<cli, rt, verdict>>
vars == <<serveVars, engineVars, file, cliVars, kills>>

Engines == 0 .. MaxRestarts
Starting == {"launching", "readying", "binding", "recording"}
Stopping == {"closing", "terminating", "clearing"}
Live == Starting \cup {"serving"} \cup Stopping \cup {"atexit"}
Records == [owner : Deployments, children : SUBSET Engines]

Init ==
    /\ serve = [d \in Deployments |-> "new"]
    /\ asked = [d \in Deployments |-> FALSE]
    /\ engines = [d \in Deployments |-> {}]
    /\ current = [d \in Deployments |-> 0]
    /\ file = None
    /\ cli = "idle" /\ rt = None /\ verdict = None
    /\ kills = 0

\* is_live: the recorded process exists (pid and creation time match)
IsLive(record) == serve[record.owner] \in Live

\* live_children
LiveChildren(record) == engines[record.owner] \cap record.children

GoTo(d, phase) == serve' = [serve EXCEPT ![d] = phase]

-----------------------------------------------------------------------------
(* serve: _refuse_if_deployment_live, then Deployment.run                  *)

Refuse(d) ==
    /\ serve[d] = "new"
    /\ file # None /\ IsLive(file)
    /\ GoTo(d, "exited")
    /\ UNCHANGED <<asked, engineVars, file, cliVars, kills>>

\* No live deployment is recorded; a stale file is left where it is.
Proceed(d) ==
    /\ serve[d] = "new"
    /\ file # None => ~IsLive(file)
    /\ GoTo(d, "launching")
    /\ UNCHANGED <<asked, engineVars, file, cliVars, kills>>

Launch(d) ==
    /\ serve[d] = "launching"
    /\ engines' = [engines EXCEPT ![d] = {0}]
    /\ GoTo(d, "readying")
    /\ UNCHANGED <<asked, current, file, cliVars, kills>>

\* Start raises before any engine is launched, the HTTP server does not come up
\* in time or the record cannot be written; run's finally shuts down.
StartFails(d) ==
    /\ serve[d] \in {"launching", "binding", "recording"}
    /\ GoTo(d, "closing")
    /\ UNCHANGED <<asked, engineVars, file, cliVars, kills>>

EngineReady(d) ==
    /\ serve[d] = "readying" /\ engines[d] # {}
    /\ GoTo(d, "binding")
    /\ UNCHANGED <<asked, engineVars, file, cliVars, kills>>

\* The engine is terminated and start raises.
EngineNotReady(d) ==
    /\ serve[d] = "readying"
    /\ engines' = [engines EXCEPT ![d] = {}]
    /\ GoTo(d, "closing")
    /\ UNCHANGED <<asked, current, file, cliVars, kills>>

\* the processes sure to listen on d's public port (a closing one may)
Listening(d) ==
    {e \in Deployments \ {d} : SharedPort /\ serve[e] \in {"recording", "serving"}}

Bind(d) ==
    /\ serve[d] = "binding" /\ Listening(d) = {}
    /\ GoTo(d, "recording")
    /\ UNCHANGED <<asked, engineVars, file, cliVars, kills>>

\* Some process, not necessarily a serve, has the port.  uvicorn answers with
\* sys.exit in its task; the SystemExit stops the event loop, is raised again by
\* server.stop, where suppress(Exception) lets it pass, and cuts shutdown short.
PortTaken(d) ==
    /\ serve[d] = "binding"
    /\ GoTo(d, "atexit")
    /\ UNCHANGED <<asked, engineVars, file, cliVars, kills>>

\* The atexit hook kills the process groups that are left.
EmergencyCleanup(d) ==
    /\ serve[d] = "atexit"
    /\ engines' = [engines EXCEPT ![d] = {}]
    /\ GoTo(d, "exited")
    /\ UNCHANGED <<asked, current, file, cliVars, kills>>

\* Mutant of WriteState: becoming ready clears the stop event.
WriteStateAndForget(d) ==
    /\ serve[d] = "recording"
    /\ file' = [owner |-> d, children |-> {current[d]}]
    /\ GoTo(d, "serving")
    /\ asked' = [asked EXCEPT ![d] = FALSE]
    /\ UNCHANGED <<engineVars, cliVars, kills>>

\* Mutant of WriteState: the record is made before the engines are listed.
WriteStateEarly(d) ==
    /\ serve[d] = "recording"
    /\ file' = [owner |-> d, children |-> {}]
    /\ GoTo(d, "serving")
    /\ UNCHANGED <<asked, engineVars, cliVars, kills>>

\* _write_state, the last act of start; the checker already runs.
WriteState(d) ==
    /\ serve[d] = "recording"
    /\ file' = [owner |-> d, children |-> {current[d]}]
    /\ GoTo(d, "serving")
    /\ UNCHANGED <<asked, engineVars, cliVars, kills>>

\* A restart puts a new engine in the place of a dead one.  The file stays.
RestartEngine(d) ==
    /\ serve[d] = "serving"
    /\ engines[d] = {} /\ current[d] < MaxRestarts
    /\ current' = [current EXCEPT ![d] = @ + 1]
    /\ engines' = [engines EXCEPT ![d] = {current[d] + 1}]
    /\ UNCHANGED <<serveVars, file, cliVars, kills>>

\* SIGINT or SIGTERM only sets the event, which start does not look at.
AskToStop(d) ==
    /\ serve[d] \in Live \ {"atexit"}
    /\ asked' = [asked EXCEPT ![d] = TRUE]
    /\ UNCHANGED <<serve, engineVars, file, cliVars, kills>>

BeginShutdown(d) ==
    /\ serve[d] = "serving" /\ asked[d]
    /\ GoTo(d, "closing")
    /\ UNCHANGED <<asked, engineVars, file, cliVars, kills>>

\* shutdown: health.stop and server.stop are over
Closed(d) ==
    /\ serve[d] = "closing"
    /\ GoTo(d, "terminating")
    /\ UNCHANGED <<asked, engineVars, file, cliVars, kills>>

\* Mutant of Terminated: an engine launched by a restart is not terminated.
TerminatedFirstOnly(d) ==
    /\ serve[d] = "terminating"
    /\ engines' = [engines EXCEPT ![d] = @ \ {0}]
    /\ GoTo(d, "clearing")
    /\ UNCHANGED <<asked, current, file, cliVars, kills>>

\* ... replica_set.stop and launcher.shutdown_all, their results ignored
Terminated(d) ==
    /\ serve[d] = "terminating"
    /\ engines' = [engines EXCEPT ![d] = {}]
    /\ GoTo(d, "clearing")
    /\ UNCHANGED <<asked, current, file, cliVars, kills>>

\* ... state_store.clear: whoever wrote the file
ClearState(d) ==
    /\ serve[d] = "clearing"
    /\ file' = None
    /\ GoTo(d, "exited")
    /\ UNCHANGED <<asked, engineVars, cliVars, kills>>

-----------------------------------------------------------------------------
(* The outside world                                                       *)

EngineDies(d) ==
    /\ engines[d] # {}
    /\ engines' = [engines EXCEPT ![d] = {}]
    /\ UNCHANGED <<serveVars, current, file, cliVars, kills>>

\* SIGKILL or the OOM killer, or SIGTERM once the closed loop has taken its
\* handlers back: no atexit hook runs, or not to its end.
Kill(d) ==
    /\ serve[d] \in Live /\ kills < MaxKills
    /\ kills' = kills + 1
    /\ GoTo(d, "killed")
    /\ UNCHANGED <<asked, engineVars, file, cliVars>>

-----------------------------------------------------------------------------
(* stop: RuntimeStateStore.read and stop                                   *)

NothingRecorded ==
    /\ cli = "idle" /\ file = None
    /\ cli' = "done" /\ verdict' = "none"
    /\ UNCHANGED <<serveVars, engineVars, file, rt, kills>>

\* SIGTERM to the recorded process if it lives, and wait for its end.
SignalOwner ==
    /\ cli = "idle" /\ file # None
    /\ rt' = file
    /\ IF IsLive(file)
       THEN asked' = [asked EXCEPT ![file.owner] = TRUE] /\ cli' = "waiting"
       ELSE cli' = "sweeping" /\ UNCHANGED asked
    /\ UNCHANGED <<serve, engineVars, file, verdict, kills>>

OwnerGone ==
    /\ cli = "waiting" /\ ~IsLive(rt)
    /\ cli' = "sweeping"
    /\ UNCHANGED <<serveVars, engineVars, file, rt, verdict, kills>>

\* The grace period ends first: SIGKILL, even in the middle of its shutdown.
KillOwner ==
    /\ cli = "waiting" /\ IsLive(rt)
    /\ GoTo(rt.owner, "killed")
    /\ cli' = "sweeping"
    /\ UNCHANGED <<asked, engineVars, file, rt, verdict, kills>>

\* the recorded children that still live: SIGTERM, then SIGKILL
Sweep ==
    /\ cli = "sweeping"
    /\ engines' = [engines EXCEPT ![rt.owner] = @ \ rt.children]
    /\ cli' = "deciding"
    /\ UNCHANGED <<serveVars, current, file, rt, verdict, kills>>

Decide ==
    /\ cli = "deciding"
    /\ LET stopped == ~IsLive(rt) /\ LiveChildren(rt) = {}
       IN /\ verdict' = IF stopped THEN "stopped" ELSE "failed"
          /\ file' = IF stopped THEN None ELSE file
    /\ cli' = "done"
    /\ UNCHANGED <<serveVars, engineVars, rt, kills>>

-----------------------------------------------------------------------------
ServeStep(d) ==
    \/ Launch(d) \/ EngineReady(d) \/ EngineNotReady(d) \/ StartFails(d)
    \/ Bind(d) \/ PortTaken(d) \/ EmergencyCleanup(d)
    \/ WriteState(d) \/ BeginShutdown(d) \/ Closed(d) \/ Terminated(d) \/ ClearState(d)

StopStep ==
    NothingRecorded \/ SignalOwner \/ OwnerGone \/ KillOwner \/ Sweep \/ Decide

Next ==
    \/ \E d \in Deployments :
          \/ Refuse(d) \/ Proceed(d) \/ ServeStep(d) \/ RestartEngine(d)
          \/ AskToStop(d) \/ EngineDies(d) \/ Kill(d)
    \/ StopStep

Spec == Init /\ [][Next]_vars

\* Startup, shutdown and `stop` run on by themselves; every wait has a timeout.
FairSpec == Spec /\ \A d \in Deployments : WF_vars(ServeStep(d))

-----------------------------------------------------------------------------
(* Properties                                                              *)

\* Types; the one replica has one engine at a time.
TypeOK ==
    /\ serve \in [Deployments -> {"new", "exited", "killed"} \cup Live]
    /\ asked \in [Deployments -> BOOLEAN]
    /\ engines \in [Deployments -> SUBSET Engines]
    /\ \A d \in Deployments : Cardinality(engines[d]) <= 1
    /\ current \in [Deployments -> Engines]
    /\ file \in Records \cup {None}
    /\ cli \in {"idle", "waiting", "sweeping", "deciding", "done"}
    /\ rt \in Records \cup {None}
    /\ verdict \in {None, "none", "stopped", "failed"}
    /\ kills \in 0 .. MaxKills

\* A serve process that exits by itself, whether it was refused, failed at any
\* step of its start or was asked to stop, leaves no engine behind.
NothingOutlivesExit ==
    \A d \in Deployments : serve[d] = "exited" => engines[d] = {}

\* `status` calls a file stale only after a deployment was killed: one that
\* exits never leaves its record, not even one written next to another's.
StaleOnlyAfterKill == file # None => serve[file.owner] # "exited"

\* What a deployment that exits by itself leaves behind: no engine and no record.
ExitLeavesNothing == TypeOK /\ NothingOutlivesExit /\ StaleOnlyAfterKill

\* As long as SIGKILL works `stop` never has to report failure: no process it
\* has recorded survives it, and nobody is left who would restart one.
StopSucceeds == verdict # "failed"

\* When `stop` reports success, a deployment that has not replaced an engine leaves
\* none behind, wherever in start, service or shutdown the SIGKILL caught it.  Of a
\* restarted engine nothing can be said: the file names the first one only.
StopEndsUnrestarted ==
    verdict = "stopped" /\ current[rt.owner] = 0 => engines[rt.owner] = {}

\* `stop` always succeeds and, but for restarted engines, its success is real.
StopKeepsItsWord == StopSucceeds /\ StopEndsUnrestarted

\* A stop request is never lost, not even one that arrives in mid-start.
AskedEnds == \A d \in Deployments : asked[d] ~> serve[d] \notin Live

=============================================================================
