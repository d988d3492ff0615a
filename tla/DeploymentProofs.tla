-------------------------- MODULE DeploymentProofs --------------------------
(***************************************************************************)
(* Theorems about Deployment, for any number of serve processes, restarts  *)
(* and kills: what a process that exits leaves behind, and what `stop` may *)
(* say.                                                                    *)
(***************************************************************************)
EXTENDS Deployment, FiniteSetTheorems, TLAPS

-----------------------------------------------------------------------------
(* The inductive invariant                                                 *)

\* TypeOK, but for the number of engines.
Types ==
    /\ serve \in [Deployments -> {"new", "exited", "killed"} \cup Live]
    /\ asked \in [Deployments -> BOOLEAN]
    /\ engines \in [Deployments -> SUBSET Engines]
    /\ current \in [Deployments -> Engines]
    /\ file \in Records \cup {None}
    /\ cli \in {"idle", "waiting", "sweeping", "deciding", "done"}
    /\ rt \in Records \cup {None}
    /\ verdict \in {None, "none", "stopped", "failed"}
    /\ kills \in 0 .. MaxKills

\* before a process has recorded itself
Early == {"new"} \cup Starting

\* A process has at most its current engine, none before it launches one and none
\* once it has terminated it.
ServeOK(d) ==
    /\ engines[d] \subseteq {current[d]}
    /\ serve[d] \in Early => current[d] = 0
    /\ serve[d] \in {"new", "clearing", "exited"} => engines[d] = {}

\* A record names the first engine of a process that came to serve.
RecordOK(record) ==
    record # None => /\ record.children = {0}
                     /\ serve[record.owner] \notin Early \cup {"atexit"}

\* Whoever exits clears the file.
FileOK == RecordOK(file) /\ (file # None => serve[file.owner] # "exited")

Over(phase) == phase \in {"exited", "killed"}

\* `stop` sweeps the engines when their process is over, and decides when the
\* recorded one is dead.
StopOK ==
    /\ RecordOK(rt)
    /\ cli \in {"waiting", "sweeping", "deciding"} \/ verdict = "stopped" => rt # None
    /\ cli \in {"sweeping", "deciding"} \/ verdict = "stopped" => Over(serve[rt.owner])
    /\ cli = "deciding" \/ verdict = "stopped" => 0 \notin engines[rt.owner]
    /\ cli # "done" => verdict # "stopped"
    /\ verdict # "failed"

DeploymentInv ==
    /\ Types
    /\ \A d \in Deployments : ServeOK(d)
    /\ FileOK
    /\ StopOK

USE DEF serveVars, engineVars, cliVars, GoTo, Live, Starting, Stopping, Early, Over

-----------------------------------------------------------------------------
(* The steps                                                               *)

\* What a step can do to a process: it may be over, but is never revived, and
\* never goes back to its start.
LEMMA Lives ==
    ASSUME Types, [Next]_vars, NEW d \in Deployments
    PROVE  /\ Over(serve[d]) => serve'[d] = serve[d] /\ engines'[d] \subseteq engines[d]
                                /\ current'[d] = current[d]
           /\ serve[d] \notin Early \cup {"atexit"} => serve'[d] \notin Early \cup {"atexit"}
<1> USE DEF Types
<1>1. CASE UNCHANGED vars
    BY <1>1 DEF vars
<1>2. ASSUME NEW e \in Deployments,
             Refuse(e) \/ Proceed(e) \/ ServeStep(e) \/ RestartEngine(e)
                \/ AskToStop(e) \/ EngineDies(e) \/ Kill(e)
      PROVE  /\ Over(serve[d]) => serve'[d] = serve[d] /\ engines'[d] \subseteq engines[d]
                                  /\ current'[d] = current[d]
             /\ serve[d] \notin Early \cup {"atexit"} => serve'[d] \notin Early \cup {"atexit"}
    BY <1>2 DEF Refuse, Proceed, ServeStep, Launch, StartFails, EngineReady, EngineNotReady,
                Bind, PortTaken, EmergencyCleanup, WriteState, RestartEngine, AskToStop,
                BeginShutdown, Closed, Terminated, ClearState, EngineDies, Kill
<1>3. CASE StopStep
    BY <1>3 DEF StopStep, NothingRecorded, SignalOwner, OwnerGone, KillOwner, Sweep, Decide, IsLive
<1> QED BY <1>1, <1>2, <1>3 DEF Next

LEMMA TypesStep == ASSUME Types, FileOK, StopOK, [Next]_vars PROVE Types'
<1> USE DEF Types
<1>1. CASE UNCHANGED vars
    BY <1>1 DEF vars
<1>2. ASSUME NEW d \in Deployments,
             Refuse(d) \/ Proceed(d) \/ AskToStop(d) \/ EngineDies(d) \/ Kill(d)
      PROVE  Types'
  <2>1. CASE Refuse(d) \/ Proceed(d)
      BY <2>1 DEF Refuse, Proceed
  <2>2. CASE AskToStop(d) \/ EngineDies(d)
      BY <2>2 DEF AskToStop, EngineDies
  <2>3. CASE Kill(d)
      BY <2>3, BoundAssumption DEF Kill
  <2> QED BY <1>2, <2>1, <2>2, <2>3
<1>3. ASSUME NEW d \in Deployments, ServeStep(d), ~WriteState(d) PROVE Types'
    BY <1>3, BoundAssumption
    DEF ServeStep, Launch, StartFails, EngineReady, EngineNotReady, Bind, PortTaken,
        EmergencyCleanup, BeginShutdown, Closed, Terminated, ClearState, Engines
<1>4. ASSUME NEW d \in Deployments, WriteState(d) PROVE Types'
  <2>1. file' \in Records
      BY <1>4 DEF WriteState, Records
  <2> QED BY <1>4, <2>1 DEF WriteState
<1>5. ASSUME NEW d \in Deployments, RestartEngine(d) PROVE Types'
  <2>1. current[d] + 1 \in Engines
      BY <1>5, BoundAssumption DEF RestartEngine, Engines
  <2> QED BY <1>5, <2>1 DEF RestartEngine
<1>6. CASE StopStep
  <2>1. cli \in {"waiting", "sweeping", "deciding"} => rt.owner \in Deployments
      BY DEF StopOK, Records
  <2>2. file # None => file.owner \in Deployments
      BY DEF Records
  <2>3. CASE NothingRecorded \/ SignalOwner
      BY <2>2, <2>3 DEF NothingRecorded, SignalOwner
  <2>4. CASE OwnerGone \/ KillOwner
      BY <2>1, <2>4 DEF OwnerGone, KillOwner
  <2>5. CASE Sweep
      BY <2>1, <2>5 DEF Sweep
  <2>6. CASE Decide
      BY <2>6 DEF Decide
  <2> QED BY <1>6, <2>3, <2>4, <2>5, <2>6 DEF StopStep
<1> QED BY <1>1, <1>2, <1>3, <1>4, <1>5, <1>6 DEF Next

LEMMA ServeStepOK ==
    ASSUME DeploymentInv, [Next]_vars, NEW d \in Deployments PROVE ServeOK(d)'
<1> USE DEF DeploymentInv, Types, ServeOK
<1>1. CASE UNCHANGED vars
    BY <1>1 DEF vars
<1>2. ASSUME NEW e \in Deployments,
             Refuse(e) \/ Proceed(e) \/ AskToStop(e) \/ EngineDies(e) \/ Kill(e)
                \/ RestartEngine(e)
      PROVE  ServeOK(d)'
    BY <1>2 DEF Refuse, Proceed, AskToStop, EngineDies, Kill, RestartEngine
<1>3. ASSUME NEW e \in Deployments, ServeStep(e) PROVE ServeOK(d)'
    BY <1>3 DEF ServeStep, Launch, StartFails, EngineReady, EngineNotReady, Bind, PortTaken,
                EmergencyCleanup, WriteState, BeginShutdown, Closed, Terminated, ClearState
<1>4. CASE StopStep
  <2>1. cli \in {"waiting", "sweeping", "deciding"} =>
            rt.owner \in Deployments /\ serve[rt.owner] \notin Early
      BY DEF StopOK, RecordOK, Records
  <2>2. CASE NothingRecorded \/ SignalOwner \/ OwnerGone \/ Decide
      BY <2>2 DEF NothingRecorded, SignalOwner, OwnerGone, Decide
  <2>3. CASE KillOwner
      BY <2>1, <2>3 DEF KillOwner
  <2>4. CASE Sweep
      BY <2>4 DEF Sweep
  <2> QED BY <1>4, <2>2, <2>3, <2>4 DEF StopStep
<1> QED BY <1>1, <1>2, <1>3, <1>4 DEF Next

\* A record stays right: its process does not go back.
LEMMA RecordStep ==
    ASSUME Types, [Next]_vars, NEW record \in Records \cup {None}, RecordOK(record)
    PROVE  RecordOK(record)'
BY Lives DEF RecordOK, Records

LEMMA FileStep == ASSUME DeploymentInv, [Next]_vars PROVE FileOK'
<1>1. Types /\ FileOK /\ StopOK /\ file \in Records \cup {None}
    BY DEF DeploymentInv, Types
<1>2. CASE file' = None
    BY <1>2 DEF FileOK, RecordOK
<1>3. ASSUME NEW d \in Deployments, WriteState(d) PROVE FileOK'
  <2>1. file'.owner = d /\ file'.children = {0} /\ serve'[d] = "serving"
      BY <1>1, <1>3 DEF WriteState, DeploymentInv, ServeOK, Types
  <2> QED BY <2>1 DEF FileOK, RecordOK
<1>4. CASE file' = file /\ file # None
  <2>1. RecordOK(file)'
      BY <1>1, <1>4, RecordStep DEF FileOK, RecordOK
  <2>2. file.owner \in Deployments /\ serve[file.owner] # "exited"
        /\ serve[file.owner] \notin Early \cup {"atexit"}
      BY <1>1, <1>4 DEF FileOK, RecordOK, Records
  <2>3. serve'[file.owner] # "exited"
    <3> DEFINE o == file.owner
    <3>1. ASSUME NEW d \in Deployments,
                 Refuse(d) \/ Proceed(d) \/ ServeStep(d) \/ RestartEngine(d)
                    \/ AskToStop(d) \/ EngineDies(d) \/ Kill(d)
          PROVE  serve'[o] # "exited"
        BY <1>1, <1>4, <2>2, <3>1
        DEF Types, Refuse, Proceed, ServeStep, Launch, StartFails, EngineReady, EngineNotReady,
            Bind, PortTaken, EmergencyCleanup, WriteState, RestartEngine, AskToStop,
            BeginShutdown, Closed, Terminated, ClearState, EngineDies, Kill
    <3>2. ASSUME StopStep \/ UNCHANGED vars PROVE serve'[o] # "exited"
        BY <1>1, <2>2, <3>2
        DEF Types, vars, StopStep, NothingRecorded, SignalOwner, OwnerGone, KillOwner, Sweep, Decide
    <3> QED BY <3>1, <3>2 DEF Next
  <2> QED BY <1>4, <2>1, <2>3 DEF FileOK, RecordOK
<1>5. file' = None \/ (\E d \in Deployments : WriteState(d)) \/ file' = file
    BY DEF Next, vars, Refuse, Proceed, ServeStep, Launch, StartFails, EngineReady,
           EngineNotReady, Bind, PortTaken, EmergencyCleanup, RestartEngine, AskToStop,
           BeginShutdown, Closed, Terminated, ClearState, EngineDies, Kill,
           StopStep, NothingRecorded, SignalOwner, OwnerGone, KillOwner, Sweep, Decide
<1> QED BY <1>2, <1>3, <1>4, <1>5

LEMMA StopStepOK == ASSUME DeploymentInv, [Next]_vars PROVE StopOK'
<1>1. Types /\ FileOK /\ StopOK
    BY DEF DeploymentInv
\* Processes that are over leave what `stop` found untouched.
<1>2. CASE UNCHANGED cliVars
  <2>1. RecordOK(rt)'
      BY <1>1, <1>2, RecordStep DEF StopOK, Types, RecordOK
  <2>2. rt # None => rt.owner \in Deployments
      BY <1>1 DEF Types, Records
  <2> QED BY <1>1, <1>2, <2>1, <2>2, Lives DEF StopOK
<1>i. cli \in {"idle", "waiting"} => verdict # "stopped"
    BY <1>1 DEF StopOK
<1>3. CASE NothingRecorded
    BY <1>1, <1>3 DEF NothingRecorded, StopOK, RecordOK
<1>4. CASE SignalOwner
  <2>1. /\ file # None /\ rt' = file /\ UNCHANGED <<serve, engines, verdict>>
        /\ cli' = IF serve[file.owner] \in Live THEN "waiting" ELSE "sweeping"
        /\ cli = "idle"
      BY <1>4 DEF SignalOwner, IsLive
  <2>2. RecordOK(rt)'
      BY <1>1, <2>1 DEF FileOK, RecordOK
  <2>3. file.owner \in Deployments /\ serve[file.owner] # "new"
      BY <1>1, <2>1 DEF FileOK, RecordOK, Types, Records
  <2>4. serve[file.owner] \notin Live => Over(serve[file.owner])
      BY <1>1, <2>3 DEF Types
  <2>5. verdict # "stopped"
      BY <2>1, <1>i
  <2> QED BY <1>1, <2>1, <2>2, <2>4, <2>5 DEF StopOK
<1>5. CASE OwnerGone \/ KillOwner
  <2>1. /\ cli = "waiting" /\ cli' = "sweeping" /\ rt # None /\ rt' = rt
        /\ rt.owner \in Deployments /\ UNCHANGED <<engines, verdict>>
      BY <1>1, <1>5 DEF OwnerGone, KillOwner, StopOK, Types, Records
  <2>2. Over(serve'[rt.owner])
      BY <1>1, <1>5, <2>1 DEF OwnerGone, KillOwner, IsLive, StopOK, RecordOK, Types
  <2>3. verdict # "stopped"
      BY <1>i, <2>1
  <2>4. RecordOK(rt)'
      BY <1>1, <2>1, RecordStep DEF StopOK, Types, RecordOK
  <2> QED BY <1>1, <2>1, <2>2, <2>3, <2>4 DEF StopOK
<1>6. CASE Sweep
  <2>1. /\ cli = "sweeping" /\ cli' = "deciding" /\ rt # None /\ rt' = rt
        /\ rt.owner \in Deployments /\ rt.children = {0} /\ UNCHANGED <<serve, verdict>>
        /\ engines' = [engines EXCEPT ![rt.owner] = @ \ {0}]
      BY <1>1, <1>6 DEF Sweep, StopOK, RecordOK, Types, Records
  <2>2. 0 \notin engines'[rt.owner]
      BY <1>1, <2>1 DEF Types
  <2>3. RecordOK(rt)'
      BY <1>1, <2>1 DEF StopOK, RecordOK
  <2> QED BY <1>1, <2>1, <2>2, <2>3 DEF StopOK
<1>7. CASE Decide
  <2>1. /\ cli = "deciding" /\ cli' = "done" /\ rt # None /\ rt' = rt
        /\ rt.children = {0} /\ Over(serve[rt.owner]) /\ 0 \notin engines[rt.owner]
        /\ UNCHANGED <<serve, engines>>
      BY <1>1, <1>7 DEF Decide, StopOK, RecordOK
  <2>2. verdict' = "stopped"
    <3>1. ~IsLive(rt) /\ LiveChildren(rt) = {}
        BY <2>1 DEF IsLive, LiveChildren
    <3> QED BY <1>7, <3>1 DEF Decide
  <2>3. RecordOK(rt)'
      BY <1>1, <2>1 DEF StopOK, RecordOK
  <2> QED BY <1>1, <2>1, <2>2, <2>3 DEF StopOK
<1>8. ASSUME NEW d \in Deployments,
             Refuse(d) \/ Proceed(d) \/ ServeStep(d) \/ RestartEngine(d)
                \/ AskToStop(d) \/ EngineDies(d) \/ Kill(d)
      PROVE  UNCHANGED cliVars
    BY <1>8
    DEF Refuse, Proceed, ServeStep, Launch, StartFails, EngineReady, EngineNotReady,
        Bind, PortTaken, EmergencyCleanup, WriteState, RestartEngine, AskToStop,
        BeginShutdown, Closed, Terminated, ClearState, EngineDies, Kill
<1>9. UNCHANGED vars => UNCHANGED cliVars
    BY DEF vars
<1> QED BY <1>2, <1>3, <1>4, <1>5, <1>6, <1>7, <1>8, <1>9 DEF Next, StopStep

LEMMA DeploymentInit == Init => DeploymentInv
<1> SUFFICES ASSUME Init PROVE DeploymentInv
    OBVIOUS
<1>1. Types
    BY BoundAssumption DEF Init, Types, Engines
<1>2. \A d \in Deployments : ServeOK(d)
    BY DEF Init, ServeOK
<1>3. FileOK /\ StopOK
    BY NoneAssumption DEF Init, FileOK, StopOK, RecordOK
<1> QED BY <1>1, <1>2, <1>3 DEF DeploymentInv

LEMMA DeploymentStep == DeploymentInv /\ [Next]_vars => DeploymentInv'
BY TypesStep, ServeStepOK, FileStep, StopStepOK DEF DeploymentInv

\* What holds throughout.
THEOREM DeploymentInvariant == Spec => []DeploymentInv
BY DeploymentInit, DeploymentStep, PTL DEF Spec

-----------------------------------------------------------------------------
(* What follows                                                            *)

\* A serve process that exits by itself, refused, failed or asked to stop, leaves
\* neither an engine nor its record.
THEOREM ExitIsClean == Spec => []ExitLeavesNothing
<1>1. ASSUME DeploymentInv, NEW d \in Deployments PROVE Cardinality(engines[d]) <= 1
  <2>1. engines[d] \subseteq {current[d]}
      BY <1>1 DEF DeploymentInv, ServeOK
  <2>2. IsFiniteSet({current[d]}) /\ Cardinality({current[d]}) = 1
      BY FS_Singleton
  <2>3. Cardinality(engines[d]) \in Nat /\ Cardinality(engines[d]) <= Cardinality({current[d]})
      BY <2>1, <2>2, FS_Subset, FS_CardinalityType
  <2> QED BY <2>2, <2>3
<1>2. DeploymentInv => TypeOK
    BY <1>1 DEF DeploymentInv, Types, TypeOK
<1>3. DeploymentInv => NothingOutlivesExit /\ StaleOnlyAfterKill
    BY DEF DeploymentInv, ServeOK, FileOK, NothingOutlivesExit, StaleOnlyAfterKill
<1>4. DeploymentInv => ExitLeavesNothing
    BY <1>2, <1>3 DEF ExitLeavesNothing
<1> QED BY <1>4, DeploymentInvariant, PTL

\* `stop` never reports failure, and its success is real for a deployment that has
\* not replaced an engine.
THEOREM StopIsTrue == Spec => []StopKeepsItsWord
<1>1. ASSUME DeploymentInv, verdict = "stopped", current[rt.owner] = 0
      PROVE  engines[rt.owner] = {}
  <2>1. rt.owner \in Deployments /\ 0 \notin engines[rt.owner]
      BY <1>1 DEF DeploymentInv, StopOK, Types, Records
  <2>2. engines[rt.owner] \subseteq {0}
      BY <1>1, <2>1 DEF DeploymentInv, ServeOK
  <2> QED BY <2>1, <2>2
<1>2. DeploymentInv => StopKeepsItsWord
    BY <1>1 DEF DeploymentInv, StopOK, StopKeepsItsWord, StopSucceeds, StopEndsUnrestarted
<1> QED BY <1>2, DeploymentInvariant, PTL

=============================================================================
