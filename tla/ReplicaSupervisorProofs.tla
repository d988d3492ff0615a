----------------------- MODULE ReplicaSupervisorProofs -----------------------
(***************************************************************************)
(* Theorems about ReplicaSupervisor, for any number of replicas, any       *)
(* budget and any number of restarts: the GPUs of a replica never have two *)
(* engines, a finished shutdown leaves none, and the router's entries      *)
(* agree with the list of engines.                                         *)
(***************************************************************************)
EXTENDS ReplicaSupervisor, FiniteSetTheorems, SequenceTheorems,
        WellFoundedInduction, TLAPS

-----------------------------------------------------------------------------
(* The inductive invariant.                                                *)

\* The types the argument needs; counters and clocks play no part in it.
EngineTypeOK ==
    /\ engine \in [Indices -> [Engines -> {"none", "gone"} \cup Alive]]
    /\ listed \in [Indices -> Engines]
    /\ tracked \subseteq Indices \X Engines
    /\ restarting \subseteq Indices
    /\ cancelled \subseteq Indices
    /\ task \in [Indices -> TaskPhases]
    /\ stage \in Stages
    /\ now \in 0 .. MaxTime
    /\ scheduled \in [Indices -> Seq(0 .. MaxTime)]
    /\ \A i \in Indices : Len(scheduled[i]) \in Engines

\* An engine that lives is the listed one or the latest, and never both.
LivesOK(i) ==
    /\ listed[i] <= Fresh(i)
    /\ \A n \in LiveEngines(i) : n = listed[i] \/ n = Fresh(i)
    /\ Fresh(i) \in LiveEngines(i) /\ listed[i] \in LiveEngines(i) => Fresh(i) = listed[i]

\* What a restart task has done so far.
TaskOK(i) ==
    /\ task[i] \in {"sleeping", "terminating", "draining", "launching"} =>
          listed[i] < Fresh(i) /\ Fresh(i) \notin LiveEngines(i)
    /\ task[i] \in {"draining", "launching", "readying", "discarding"} =>
          listed[i] \notin LiveEngines(i)

\* As long as no restart was cancelled, an engine nobody restarts is listed.
OwnedOK(i) ==
    stage \in {"serving", "stop_checker"} =>
        /\ i \notin cancelled
        /\ task[i] # "none" => i \in restarting
        /\ task[i] = "none" => \A n \in LiveEngines(i) : n = listed[i]

\* The launcher knows every live engine until it has terminated them all, and
\* by then no restart is left.
TrackedOK(i) ==
    /\ \A n \in LiveEngines(i) : <<i, n>> \in tracked
    /\ stage \in {"stop_set", "shutdown_all", "done"} => task[i] = "none"
    /\ stage = "done" => LiveEngines(i) = {}

ReplicaOK(i) == LivesOK(i) /\ TaskOK(i) /\ OwnedOK(i) /\ TrackedOK(i)

EngineInv ==
    /\ EngineTypeOK
    /\ \A i \in Indices : ReplicaOK(i)

-----------------------------------------------------------------------------
(* A step that does not concern a replica leaves its part alone.           *)

LEMMA Frame ==
    ASSUME NEW i \in Indices, ReplicaOK(i),
           engine'[i] = engine[i], listed'[i] = listed[i],
           scheduled'[i] = scheduled[i], task'[i] = task[i],
           i \in restarting <=> i \in restarting',
           i \in cancelled' => i \in cancelled,
           tracked \subseteq tracked', stage' = stage
    PROVE  ReplicaOK(i)'
<1>1. LivesOK(i)'
    BY DEF ReplicaOK, LivesOK, LiveEngines, Fresh
<1>2. TaskOK(i)'
    BY DEF ReplicaOK, TaskOK, LiveEngines, Fresh
<1>3. OwnedOK(i)'
    BY DEF ReplicaOK, OwnedOK, LiveEngines
<1>4. TrackedOK(i)'
    BY DEF ReplicaOK, TrackedOK, LiveEngines
<1> QED BY <1>1, <1>2, <1>3, <1>4 DEF ReplicaOK

LEMMA EngineInit == Init => EngineInv
<1> SUFFICES ASSUME Init PROVE EngineInv
    OBVIOUS
<1>1. EngineTypeOK
    BY BudgetAssumption DEF Init, EngineTypeOK, Engines, Alive, TaskPhases, Stages
<1>2. ASSUME NEW i \in Indices PROVE ReplicaOK(i)
    BY BudgetAssumption
    DEF Init, ReplicaOK, LivesOK, TaskOK, OwnedOK, TrackedOK, LiveEngines, Fresh,
        Engines, Alive
<1> QED BY <1>1, <1>2 DEF EngineInv

-----------------------------------------------------------------------------
(* The checker schedules restarts; nothing else changes for the engines.   *)

LEMMA ScanStep == EngineInv /\ Scan => EngineInv'
<1> SUFFICES ASSUME EngineInv, Scan PROVE EngineInv'
    OBVIOUS
<1> DEFINE dead == {i \in Indices : Dead(i)}
           again == {i \in dead : ~GivesUp(i)}
<1>1. /\ \A i \in again : Len(scheduled[i]) < MaxLaunches
      /\ scheduled' = [i \in Indices |->
            IF i \in again THEN Append(scheduled[i], now) ELSE scheduled[i]]
      /\ restarting' = restarting \cup again
      /\ task' = [i \in Indices |-> IF i \in again THEN "sleeping" ELSE task[i]]
      /\ UNCHANGED <<engine, now, listed, tracked, cancelled, stage>>
    BY DEF Scan, setVars
<1> HIDE DEF dead, again
<1>2. ASSUME NEW i \in again
      PROVE  /\ i \in Indices /\ i \notin restarting /\ stage = "serving"
             /\ scheduled'[i] = Append(scheduled[i], now) /\ task'[i] = "sleeping"
             /\ Len(scheduled'[i]) = Len(scheduled[i]) + 1
             /\ Len(scheduled'[i]) \in Engines
  <2>1. i \in Indices /\ i \notin restarting /\ stage = "serving"
      BY DEF again, dead, Dead, Watched, Scan
  <2>2. Len(scheduled[i]) \in Engines /\ scheduled[i] \in Seq(0 .. MaxTime)
        /\ now \in 0 .. MaxTime
      BY <2>1 DEF EngineInv, EngineTypeOK
  <2>3. scheduled'[i] = Append(scheduled[i], now) /\ task'[i] = "sleeping"
      BY <1>1, <2>1
  <2>4. Len(scheduled'[i]) = Len(scheduled[i]) + 1
      BY <2>2, <2>3
  <2> QED BY <1>1, <2>1, <2>2, <2>3, <2>4, BudgetAssumption DEF Engines
<1>3. EngineTypeOK'
  <2>1. again \subseteq Indices
      BY DEF again, dead
  <2>2. scheduled' \in [Indices -> Seq(0 .. MaxTime)]
    <3>1. ASSUME NEW i \in Indices
          PROVE  (IF i \in again THEN Append(scheduled[i], now) ELSE scheduled[i])
                    \in Seq(0 .. MaxTime)
      <4>1. scheduled[i] \in Seq(0 .. MaxTime) /\ now \in 0 .. MaxTime
          BY DEF EngineInv, EngineTypeOK
      <4>2. Append(scheduled[i], now) \in Seq(0 .. MaxTime)
          BY <4>1
      <4> QED BY <4>1, <4>2
    <3> QED BY <1>1, <3>1
  <2>3. \A i \in Indices : Len(scheduled'[i]) \in Engines
      BY <1>1, <1>2 DEF EngineInv, EngineTypeOK
  <2>4. task' \in [Indices -> TaskPhases]
      BY <1>1 DEF EngineInv, EngineTypeOK, TaskPhases
  <2>5. now' \in 0 .. MaxTime
      BY DEF Scan, EngineInv, EngineTypeOK
  <2> QED BY <1>1, <2>1, <2>2, <2>3, <2>4, <2>5 DEF EngineInv, EngineTypeOK
<1>4. ASSUME NEW i \in Indices PROVE ReplicaOK(i)'
  <2>1. ReplicaOK(i) /\ listed[i] \in Engines /\ Len(scheduled[i]) \in Engines
      BY DEF EngineInv, EngineTypeOK
  <2>2. CASE i \notin again
      BY <1>1, <2>1, <2>2, Frame
  <2>3. CASE i \in again
    <3>1. task[i] = "none" /\ \A n \in LiveEngines(i) : n = listed[i]
        BY <1>2, <2>1, <2>3 DEF ReplicaOK, OwnedOK
    <3>2. LiveEngines(i)' = LiveEngines(i)
        BY <1>1 DEF LiveEngines
    <3>3. listed'[i] = listed[i] /\ listed[i] < Fresh(i)'
        BY <1>1, <1>2, <2>1, <2>3 DEF ReplicaOK, LivesOK, Fresh, Engines
    <3>4. Fresh(i)' \notin LiveEngines(i)'
        BY <3>1, <3>2, <3>3, <2>1 DEF Engines
    <3>5. LivesOK(i)'
        BY <3>1, <3>2, <3>3, <3>4, <1>2, <2>1, <2>3 DEF LivesOK, Fresh, Engines
    <3>6. TaskOK(i)'
        BY <1>2, <2>3, <3>3, <3>4 DEF TaskOK
    <3>7. OwnedOK(i)'
        BY <1>1, <1>2, <2>1, <2>3 DEF ReplicaOK, OwnedOK
    <3>8. TrackedOK(i)'
        BY <1>1, <1>2, <2>1, <2>3, <3>2 DEF ReplicaOK, TrackedOK
    <3> QED BY <3>5, <3>6, <3>7, <3>8 DEF ReplicaOK
  <2> QED BY <2>2, <2>3
<1> QED BY <1>3, <1>4 DEF EngineInv

-----------------------------------------------------------------------------
(* Steps of one replica: its restart task, or the death of an engine.      *)

LEMMA OneReplica ==
    ASSUME EngineInv, NEW i \in Indices, EngineTypeOK', ReplicaOK(i)',
           \A k \in Indices \ {i} :
              /\ engine'[k] = engine[k] /\ listed'[k] = listed[k]
              /\ scheduled'[k] = scheduled[k] /\ task'[k] = task[k],
           restarting \ {i} = restarting' \ {i},
           cancelled' \subseteq cancelled,
           tracked \subseteq tracked', stage' = stage
    PROVE  EngineInv'
<1>1. ASSUME NEW k \in Indices \ {i} PROVE ReplicaOK(k)'
  <2>1. k \in restarting <=> k \in restarting'
      OBVIOUS
  <2>2. ReplicaOK(k) /\ k \in Indices
      BY DEF EngineInv
  <2> QED BY <2>1, <2>2, Frame
<1> QED BY <1>1 DEF EngineInv

\* What the invariant says of one replica, in the terms of a step of its task.
LEMMA Known ==
    ASSUME EngineInv, NEW i \in Indices
    PROVE  /\ ReplicaOK(i)
           /\ listed[i] \in Engines /\ Fresh(i) \in Engines /\ Engines \subseteq Int
           /\ engine[i] \in [Engines -> {"none", "gone"} \cup Alive]
BY BudgetAssumption DEF EngineInv, EngineTypeOK, Fresh, Engines

\* After KillGroup the engine is dead and the others are what they were.
LEMMA Killed ==
    ASSUME EngineInv, NEW i \in Indices, NEW n \in Engines, KillGroup(i, n)
    PROVE  /\ engine' \in [Indices -> [Engines -> {"none", "gone"} \cup Alive]]
           /\ LiveEngines(i)' = LiveEngines(i) \ {n}
           /\ \A k \in Indices \ {i} : engine'[k] = engine[k]
<1>1. engine \in [Indices -> [Engines -> {"none", "gone"} \cup Alive]]
    BY DEF EngineInv, EngineTypeOK
<1>2. engine'[i] = [engine[i] EXCEPT ![n] = "gone"]
    BY <1>1 DEF KillGroup
<1>3. LiveEngines(i)' = LiveEngines(i) \ {n}
    BY <1>1, <1>2 DEF LiveEngines, Alive
<1> QED BY <1>1, <1>3 DEF KillGroup

LEMMA EngineExitsStep ==
    ASSUME EngineInv, NEW i \in Indices, NEW n \in Engines, EngineExits(i, n)
    PROVE  EngineInv'
<1>1. PICK st \in {"workers", "gone"} :
          engine' = [engine EXCEPT ![i] = [@ EXCEPT ![n] = st]]
    BY DEF EngineExits
<1>2. UNCHANGED <<now, listed, tracked, scheduled, restarting, task, cancelled, stage>>
    BY DEF EngineExits, setVars, checkerVars, taskVars
<1>3. engine \in [Indices -> [Engines -> {"none", "gone"} \cup Alive]]
      /\ engine[i][n] = "running"
    BY DEF EngineInv, EngineTypeOK, EngineExits
<1>4. EngineTypeOK'
    BY <1>1, <1>2, <1>3 DEF EngineInv, EngineTypeOK, Alive
<1>5. LiveEngines(i)' \subseteq LiveEngines(i)
    BY <1>1, <1>3 DEF LiveEngines, Alive
<1>6. ReplicaOK(i)'
    BY <1>2, <1>5, Known DEF ReplicaOK, LivesOK, TaskOK, OwnedOK, TrackedOK, Fresh
<1> QED BY <1>1, <1>2, <1>3, <1>4, <1>6, OneReplica

LEMMA BackoffOverStep ==
    ASSUME EngineInv, NEW i \in Indices, BackoffOver(i) PROVE EngineInv'
<1>1. task[i] = "sleeping" /\ task' = [task EXCEPT ![i] = "terminating"]
      /\ UNCHANGED <<engine, now, listed, tracked, scheduled, restarting, cancelled, stage>>
    BY DEF BackoffOver, At, GoTo, setVars, checkerVars
<1>2. EngineTypeOK'
    BY <1>1 DEF EngineInv, EngineTypeOK, TaskPhases
<1>3. ReplicaOK(i)'
  <2>1. task'[i] = "terminating" /\ LiveEngines(i)' = LiveEngines(i)
        /\ Fresh(i)' = Fresh(i)
      BY <1>1 DEF EngineInv, EngineTypeOK, LiveEngines, Fresh
  <2> QED BY <1>1, <2>1, Known
          DEF ReplicaOK, LivesOK, TaskOK, OwnedOK, TrackedOK
<1> QED BY <1>1, <1>2, <1>3, OneReplica DEF EngineInv, EngineTypeOK

LEMMA TerminatedStep ==
    ASSUME EngineInv, NEW i \in Indices, Terminated(i) PROVE EngineInv'
<1>1. PICK phase \in {"launching", "draining"} : task' = [task EXCEPT ![i] = phase]
    BY DEF Terminated, BeginLaunch, GoTo
<1>2. task[i] = "terminating" /\ KillGroup(i, listed[i])
      /\ UNCHANGED <<now, listed, tracked, scheduled, restarting, cancelled, stage>>
    BY DEF Terminated, At, setVars, checkerVars
<1>3. /\ engine' \in [Indices -> [Engines -> {"none", "gone"} \cup Alive]]
      /\ LiveEngines(i)' = LiveEngines(i) \ {listed[i]}
      /\ \A k \in Indices \ {i} : engine'[k] = engine[k]
    BY <1>2, Killed, Known
<1>4. EngineTypeOK'
    BY <1>1, <1>2, <1>3 DEF EngineInv, EngineTypeOK, TaskPhases
<1>5. ReplicaOK(i)'
  <2>1. task'[i] = phase /\ Fresh(i)' = Fresh(i)
      BY <1>1, <1>2 DEF EngineInv, EngineTypeOK, Fresh
  <2> QED BY <1>2, <1>3, <2>1, Known
          DEF ReplicaOK, LivesOK, TaskOK, OwnedOK, TrackedOK
<1> QED BY <1>1, <1>2, <1>3, <1>4, <1>5, OneReplica DEF EngineInv, EngineTypeOK

LEMMA DrainedStep ==
    ASSUME EngineInv, NEW i \in Indices, task[i] = "draining", BeginLaunch(i),
           UNCHANGED <<engine, now, listed, tracked, scheduled, restarting, stage>>,
           cancelled' \subseteq cancelled
    PROVE  EngineInv'
<1>1. task' = [task EXCEPT ![i] = "launching"]
    BY DEF BeginLaunch, GoTo
<1>2. EngineTypeOK'
    BY <1>1 DEF EngineInv, EngineTypeOK, TaskPhases
<1>3. ReplicaOK(i)'
  <2>1. task'[i] = "launching" /\ LiveEngines(i)' = LiveEngines(i)
        /\ Fresh(i)' = Fresh(i)
      BY <1>1 DEF EngineInv, EngineTypeOK, LiveEngines, Fresh
  <2> QED BY <1>1, <2>1, Known
          DEF ReplicaOK, LivesOK, TaskOK, OwnedOK, TrackedOK
<1> QED BY <1>1, <1>2, <1>3, OneReplica DEF EngineInv, EngineTypeOK

LEMMA LaunchedStep ==
    ASSUME EngineInv, NEW i \in Indices, Launched(i) PROVE EngineInv'
<1> DEFINE f == Fresh(i)
<1>1. /\ task[i] = "launching" /\ task' = [task EXCEPT ![i] = "readying"]
      /\ engine' = [engine EXCEPT ![i] = [@ EXCEPT ![f] = "running"]]
      /\ tracked' = tracked \cup {<<i, f>>}
      /\ UNCHANGED <<now, listed, scheduled, restarting, cancelled, stage>>
    BY DEF Launched, At, GoTo, checkerVars
<1>2. f \in Engines /\ Fresh(i)' = f
    BY <1>1, Known DEF Fresh
<1> HIDE DEF f
<1>3. engine \in [Indices -> [Engines -> {"none", "gone"} \cup Alive]]
      /\ task \in [Indices -> TaskPhases]
    BY DEF EngineInv, EngineTypeOK
<1>4. engine'[i] = [engine[i] EXCEPT ![f] = "running"] /\ task'[i] = "readying"
    BY <1>1, <1>3
<1>5. LiveEngines(i)' = LiveEngines(i) \cup {f}
    BY <1>2, <1>3, <1>4 DEF LiveEngines, Alive
<1>6. EngineTypeOK'
  <2>1. engine' \in [Indices -> [Engines -> {"none", "gone"} \cup Alive]]
      BY <1>1, <1>2, <1>3 DEF Alive
  <2>2. tracked' \subseteq Indices \X Engines
      BY <1>1, <1>2 DEF EngineInv, EngineTypeOK
  <2> QED BY <1>1, <2>1, <2>2 DEF EngineInv, EngineTypeOK, TaskPhases
<1>7. ReplicaOK(i)'
  <2>1. listed[i] \notin LiveEngines(i) /\ listed[i] < f /\ ReplicaOK(i)
      BY <1>1, Known DEF ReplicaOK, TaskOK, f
  <2>2. LivesOK(i)'
      BY <1>1, <1>2, <1>5, <2>1, Known DEF ReplicaOK, LivesOK, f
  <2>3. TaskOK(i)'
      BY <1>1, <1>4, <1>5, <2>1, <1>2, Known DEF TaskOK
  <2>4. OwnedOK(i)' /\ TrackedOK(i)'
      BY <1>1, <1>4, <1>5, <2>1 DEF ReplicaOK, OwnedOK, TrackedOK
  <2> QED BY <2>2, <2>3, <2>4 DEF ReplicaOK
<1> QED BY <1>1, <1>3, <1>6, <1>7, OneReplica

\* The end of a task that leaves no live engine but the listed one.
LEMMA EndedOK ==
    ASSUME EngineInv, NEW i \in Indices, EndTask(i),
           \A n \in LiveEngines(i)' : n = listed'[i],
           LiveEngines(i)' \subseteq LiveEngines(i),
           listed'[i] <= Fresh(i), listed'[i] \in Engines,
           scheduled' = scheduled, cancelled' = cancelled, stage' = stage,
           tracked' = tracked
    PROVE  ReplicaOK(i)'
<1>1. task'[i] = "none" /\ Fresh(i)' = Fresh(i)
    BY DEF EndTask, GoTo, EngineInv, EngineTypeOK, Fresh
<1> QED BY <1>1, Known DEF ReplicaOK, LivesOK, TaskOK, OwnedOK, TrackedOK

LEMMA LaunchFailsStep ==
    ASSUME EngineInv, NEW i \in Indices, LaunchFails(i) PROVE EngineInv'
<1>1. /\ task[i] = "launching" /\ EndTask(i)
      /\ UNCHANGED <<engine, now, listed, tracked, scheduled, cancelled, stage>>
    BY DEF LaunchFails, At, setVars
<1>2. task' = [task EXCEPT ![i] = "none"] /\ restarting' = restarting \ {i}
    BY <1>1 DEF EndTask, GoTo
<1>3. EngineTypeOK'
    BY <1>1, <1>2 DEF EngineInv, EngineTypeOK, TaskPhases
<1>4. LiveEngines(i)' = LiveEngines(i)
    BY <1>1 DEF LiveEngines
<1>5. ReplicaOK(i)'
  <2>1. LiveEngines(i) = {}
      BY <1>1, Known DEF ReplicaOK, LivesOK, TaskOK
  <2> QED BY <1>1, <1>4, <2>1, Known, EndedOK DEF ReplicaOK, LivesOK
<1> QED BY <1>1, <1>2, <1>3, <1>5, OneReplica DEF EngineInv, EngineTypeOK

LEMMA ReadyStep ==
    ASSUME EngineInv, NEW i \in Indices, Ready(i) PROVE EngineInv'
<1>1. /\ task[i] = "readying" /\ EndTask(i)
      /\ listed' = [listed EXCEPT ![i] = Fresh(i)]
      /\ UNCHANGED <<engine, now, tracked, scheduled, cancelled, stage>>
    BY DEF Ready, At
<1>2. task' = [task EXCEPT ![i] = "none"] /\ restarting' = restarting \ {i}
    BY <1>1 DEF EndTask, GoTo
<1>3. listed'[i] = Fresh(i) /\ listed' \in [Indices -> Engines]
    BY <1>1, Known DEF EngineInv, EngineTypeOK
<1>4. EngineTypeOK'
    BY <1>1, <1>2, <1>3 DEF EngineInv, EngineTypeOK, TaskPhases
<1>5. LiveEngines(i)' = LiveEngines(i)
    BY <1>1 DEF LiveEngines
<1>6. ReplicaOK(i)'
  <2>1. \A n \in LiveEngines(i) : n = Fresh(i)
      BY <1>1, Known DEF ReplicaOK, LivesOK, TaskOK
  <2>2. listed'[i] <= Fresh(i) /\ listed'[i] \in Engines
      BY <1>3, Known
  <2> QED BY <1>1, <1>3, <1>5, <2>1, <2>2, EndedOK
<1> QED BY <1>1, <1>2, <1>4, <1>6, OneReplica DEF EngineInv, EngineTypeOK

LEMMA NotReadyStep ==
    ASSUME EngineInv, NEW i \in Indices, NotReady(i) PROVE EngineInv'
<1>1. task[i] = "readying" /\ task' = [task EXCEPT ![i] = "discarding"]
      /\ UNCHANGED <<engine, now, listed, tracked, scheduled, restarting, cancelled, stage>>
    BY DEF NotReady, At, GoTo, setVars, checkerVars
<1>2. EngineTypeOK'
    BY <1>1 DEF EngineInv, EngineTypeOK, TaskPhases
<1>3. ReplicaOK(i)'
  <2>1. task'[i] = "discarding" /\ LiveEngines(i)' = LiveEngines(i)
        /\ Fresh(i)' = Fresh(i)
      BY <1>1 DEF EngineInv, EngineTypeOK, LiveEngines, Fresh
  <2> QED BY <1>1, <2>1, Known
          DEF ReplicaOK, LivesOK, TaskOK, OwnedOK, TrackedOK
<1> QED BY <1>1, <1>2, <1>3, OneReplica DEF EngineInv, EngineTypeOK

LEMMA DiscardedStep ==
    ASSUME EngineInv, NEW i \in Indices, Discarded(i) PROVE EngineInv'
<1>1. /\ task[i] = "discarding" /\ EndTask(i) /\ KillGroup(i, Fresh(i))
      /\ UNCHANGED <<now, listed, tracked, scheduled, cancelled, stage>>
    BY DEF Discarded, At, setVars
<1>2. task' = [task EXCEPT ![i] = "none"] /\ restarting' = restarting \ {i}
    BY <1>1 DEF EndTask, GoTo
<1>3. /\ engine' \in [Indices -> [Engines -> {"none", "gone"} \cup Alive]]
      /\ LiveEngines(i)' = LiveEngines(i) \ {Fresh(i)}
      /\ \A k \in Indices \ {i} : engine'[k] = engine[k]
    BY <1>1, Killed, Known
<1>4. EngineTypeOK'
    BY <1>1, <1>2, <1>3 DEF EngineInv, EngineTypeOK, TaskPhases
<1>5. ReplicaOK(i)'
  <2>1. LiveEngines(i)' = {}
      BY <1>1, <1>3, Known DEF ReplicaOK, LivesOK, TaskOK
  <2> QED BY <1>1, <2>1, Known, EndedOK DEF ReplicaOK, LivesOK
<1> QED BY <1>1, <1>2, <1>3, <1>4, <1>5, OneReplica DEF EngineInv, EngineTypeOK

\* A cancelled task leaves behind whatever it had launched: from now on only
\* the launcher knows it, and no restart will follow.
LEMMA CancelEndsStep ==
    ASSUME EngineInv, NEW i \in Indices, CancelEnds(i) PROVE EngineInv'
<1>1. /\ i \in cancelled /\ cancelled' = cancelled \ {i}
      /\ task' = [task EXCEPT ![i] = "none"]
      /\ restarting' \in {restarting, restarting \ {i}}
      /\ UNCHANGED <<engine, now, listed, tracked, scheduled, stage>>
    BY DEF CancelEnds, GoTo, setVars
<1>2. EngineTypeOK'
    BY <1>1 DEF EngineInv, EngineTypeOK, TaskPhases
<1>3. ReplicaOK(i)'
  <2>1. task'[i] = "none" /\ LiveEngines(i)' = LiveEngines(i)
        /\ Fresh(i)' = Fresh(i)
      BY <1>1 DEF EngineInv, EngineTypeOK, LiveEngines, Fresh
  <2>2. stage \notin {"serving", "stop_checker"}
      BY <1>1, Known DEF ReplicaOK, OwnedOK
  <2> QED BY <1>1, <2>1, <2>2, Known
          DEF ReplicaOK, LivesOK, TaskOK, OwnedOK, TrackedOK
<1> QED BY <1>1, <1>2, <1>3, OneReplica DEF EngineInv, EngineTypeOK

-----------------------------------------------------------------------------
(* Steps of the shutdown.                                                  *)

LEMMA ShutdownSteps ==
    ASSUME EngineInv, RequestShutdown \/ CancelRestarts \/ RestartsOver
    PROVE  EngineInv'
<1>1. UNCHANGED <<engine, now, listed, tracked, scheduled, task>>
    BY DEF RequestShutdown, CancelRestarts, RestartsOver, setVars, checkerVars, taskVars
<1>2. /\ stage' \in Stages
      /\ restarting' \subseteq Indices /\ cancelled' \subseteq Indices
      /\ stage' \in {"serving", "stop_checker"} =>
            stage = "serving" /\ UNCHANGED <<restarting, cancelled>>
      /\ stage' # "done"
      /\ stage' \in {"stop_set", "shutdown_all"} => \A i \in Indices : task[i] = "none"
    BY DEF RequestShutdown, CancelRestarts, RestartsOver, setVars, checkerVars,
           taskVars, EngineInv, EngineTypeOK, Stages
<1>3. EngineTypeOK'
    BY <1>1, <1>2 DEF EngineInv, EngineTypeOK
<1>4. ASSUME NEW i \in Indices PROVE ReplicaOK(i)'
  <2>1. LiveEngines(i)' = LiveEngines(i) /\ Fresh(i)' = Fresh(i)
      BY <1>1 DEF LiveEngines, Fresh
  <2> QED BY <1>1, <1>2, <2>1, Known
          DEF ReplicaOK, LivesOK, TaskOK, OwnedOK, TrackedOK
<1> QED BY <1>3, <1>4 DEF EngineInv

LEMMA StopSetStep == EngineInv /\ StopSet => EngineInv'
<1> SUFFICES ASSUME EngineInv, StopSet PROVE EngineInv'
    OBVIOUS
<1>1. /\ stage = "stop_set" /\ stage' = "shutdown_all"
      /\ engine' = [i \in Indices |-> [engine[i] EXCEPT ![listed[i]] = "gone"]]
      /\ UNCHANGED <<now, listed, tracked, scheduled, restarting, task, cancelled>>
    BY DEF StopSet, setVars, checkerVars, taskVars
<1>2. EngineTypeOK'
  <2>1. engine' \in [Indices -> [Engines -> {"none", "gone"} \cup Alive]]
      BY <1>1 DEF EngineInv, EngineTypeOK
  <2> QED BY <1>1, <2>1 DEF EngineInv, EngineTypeOK, Stages
<1>3. ASSUME NEW i \in Indices PROVE ReplicaOK(i)'
  <2>1. LiveEngines(i)' = LiveEngines(i) \ {listed[i]} /\ Fresh(i)' = Fresh(i)
      BY <1>1, Known DEF LiveEngines, Fresh, Alive
  <2> QED BY <1>1, <2>1, Known
          DEF ReplicaOK, LivesOK, TaskOK, OwnedOK, TrackedOK
<1> QED BY <1>2, <1>3 DEF EngineInv

LEMMA ShutdownAllStep == EngineInv /\ ShutdownAll => EngineInv'
<1> SUFFICES ASSUME EngineInv, ShutdownAll PROVE EngineInv'
    OBVIOUS
<1>1. /\ stage = "shutdown_all" /\ stage' = "done" /\ tracked' = {}
      /\ engine' = [i \in Indices |-> [n \in Engines |->
                       IF <<i, n>> \in tracked THEN "gone" ELSE engine[i][n]]]
      /\ UNCHANGED <<now, listed, scheduled, restarting, task, cancelled>>
    BY DEF ShutdownAll, checkerVars, taskVars
<1>2. EngineTypeOK'
  <2>1. engine' \in [Indices -> [Engines -> {"none", "gone"} \cup Alive]]
      BY <1>1 DEF EngineInv, EngineTypeOK
  <2> QED BY <1>1, <2>1 DEF EngineInv, EngineTypeOK, Stages
<1>3. ASSUME NEW i \in Indices PROVE ReplicaOK(i)'
  <2>1. \A n \in LiveEngines(i) : <<i, n>> \in tracked
      BY Known DEF ReplicaOK, TrackedOK
  <2>2. LiveEngines(i)' = {} /\ Fresh(i)' = Fresh(i)
      BY <1>1, <2>1 DEF LiveEngines, Fresh, Alive
  <2> QED BY <1>1, <2>2, Known
          DEF ReplicaOK, LivesOK, TaskOK, OwnedOK, TrackedOK
<1> QED BY <1>2, <1>3 DEF EngineInv

\* Probes, the clock and the backoff do not touch the engines.
LEMMA QuietStep ==
    ASSUME EngineInv, now' \in 0 .. MaxTime,
           UNCHANGED <<engine, listed, tracked, scheduled, restarting, task,
                       cancelled, stage>>
    PROVE  EngineInv'
<1>1. EngineTypeOK'
    BY DEF EngineInv, EngineTypeOK
<1>2. ASSUME NEW i \in Indices PROVE ReplicaOK(i)'
    BY Known, Frame
<1> QED BY <1>1, <1>2 DEF EngineInv

LEMMA EngineStep == EngineInv /\ [Next]_vars => EngineInv'
<1> SUFFICES ASSUME EngineInv, [Next]_vars PROVE EngineInv'
    OBVIOUS
<1>1. now \in 0 .. MaxTime
    BY DEF EngineInv, EngineTypeOK
<1>2. ASSUME NEW i \in Indices, RestartStep(i) \/ Ready(i) PROVE EngineInv'
  <2>1. CASE BackoffOver(i)
      BY <2>1, BackoffOverStep
  <2>2. CASE Terminated(i)
      BY <2>2, TerminatedStep
  <2>3. CASE Drained(i)
      BY <2>3, DrainedStep DEF Drained, At, setVars, checkerVars
  <2>4. CASE Launched(i)
      BY <2>4, LaunchedStep
  <2>5. CASE LaunchFails(i)
      BY <2>5, LaunchFailsStep
  <2>6. CASE Ready(i)
      BY <2>6, ReadyStep
  <2>7. CASE NotReady(i)
      BY <2>7, NotReadyStep
  <2>8. CASE Discarded(i)
      BY <2>8, DiscardedStep
  <2>9. CASE CancelEnds(i)
      BY <2>9, CancelEndsStep
  <2>10. CASE CancelSwallowed(i)
      BY <2>10, DrainedStep DEF CancelSwallowed, setVars, checkerVars
  <2> QED BY <1>2, <2>1, <2>2, <2>3, <2>4, <2>5, <2>6, <2>7, <2>8, <2>9, <2>10
          DEF RestartStep
<1>3. CASE Tick
    BY <1>1, <1>3, QuietStep, BudgetAssumption DEF Tick, setVars, checkerVars, taskVars
<1>4. CASE Apply
    BY <1>1, <1>4, QuietStep DEF Apply, setVars, taskVars
<1>5. CASE RequestShutdown \/ ShutdownStep
    BY <1>5, ShutdownSteps, StopSetStep, ShutdownAllStep DEF ShutdownStep
<1>6. CASE UNCHANGED vars
    BY <1>1, <1>6, QuietStep DEF vars, setVars, checkerVars, taskVars
<1> QED BY <1>2, <1>3, <1>4, <1>5, <1>6, ScanStep, EngineExitsStep DEF Next

\* The inductive invariant: which engines live, whose they are and who tracks them.
THEOREM EnginesInv == Spec => []EngineInv
<1> QED BY EngineInit, EngineStep, PTL DEF Spec

-----------------------------------------------------------------------------
(* What follows from it.                                                   *)

\* The GPUs and the port of a replica never have two engines: terminate ends
\* the whole group, workers included, before a replacement is launched.
THEOREM OneEngine == Spec => []OneEnginePerGroup
<1>1. ASSUME EngineInv, NEW i \in Indices
      PROVE  Cardinality(LiveEngines(i)) <= 1
  <2>1. PICK n \in Engines : LiveEngines(i) \subseteq {n}
    <3>1. LivesOK(i) /\ listed[i] \in Engines /\ Fresh(i) \in Engines
        BY <1>1, Known DEF ReplicaOK
    <3> QED BY <3>1 DEF LivesOK
  <2>2. IsFiniteSet({n}) /\ Cardinality({n}) = 1
      BY FS_Singleton
  <2>3. Cardinality(LiveEngines(i)) <= Cardinality({n})
      BY <2>1, <2>2, FS_Subset
  <2>4. Cardinality(LiveEngines(i)) \in Nat
      BY <2>1, <2>2, FS_Subset, FS_CardinalityType
  <2> QED BY <2>2, <2>3, <2>4
<1>2. EngineInv => OneEnginePerGroup
    BY <1>1 DEF OneEnginePerGroup
<1> QED BY <1>2, EnginesInv, PTL

\* Every live engine is listed, or held by the restart that launched it, or,
\* once restarts are cancelled, at least known to the launcher.
THEOREM EnginesOwned == Spec => []NoUnownedEngine
<1>1. ASSUME EngineInv, NEW i \in Indices, NEW n \in LiveEngines(i), n # listed[i]
      PROVE  \/ n = Fresh(i) /\ task[i] \in {"readying", "discarding"}
             \/ <<i, n>> \in tracked /\ stage \notin {"serving", "stop_checker"}
  <2>1. ReplicaOK(i) /\ task[i] \in TaskPhases
      BY <1>1, Known DEF EngineInv, EngineTypeOK
  <2>2. n = Fresh(i) /\ task[i] \in {"none", "readying", "discarding"}
      BY <1>1, <2>1 DEF ReplicaOK, LivesOK, TaskOK, TaskPhases
  <2> QED BY <1>1, <2>1, <2>2 DEF ReplicaOK, OwnedOK, TrackedOK
<1>2. EngineInv => NoUnownedEngine
    BY <1>1 DEF NoUnownedEngine
<1> QED BY <1>2, EnginesInv, PTL

\* When Deployment.shutdown is over no engine lives, wherever the cancellation
\* met the restarts and whatever they had launched.
THEOREM ShutdownComplete == Spec => []ShutdownLeavesNothing
<1>1. EngineInv => ShutdownLeavesNothing
    BY DEF EngineInv, ReplicaOK, TrackedOK, ShutdownLeavesNothing
<1> QED BY <1>1, EnginesInv, PTL

-----------------------------------------------------------------------------
(* The router's entries agree with the list.                               *)

EntryTypeOK ==
    /\ status \in [Indices -> {"absent", "starting", "healthy", "unhealthy", "stopped"}]
    /\ entryOf \in [Indices -> Engines]
    /\ live \subseteq Indices

\* An entry that is not the listed engine's belongs to an engine that replaces a
\* dead one; requests go to the listed engine, and only while nobody restarts it.
EntryOK(i) ==
    /\ entryOf[i] = listed[i] \/ listed[i] \notin LiveEngines(i)
    /\ task[i] = "readying" => entryOf[i] = Fresh(i)
    /\ status[i] = "healthy" => entryOf[i] = listed[i] /\ task[i] = "none"
    /\ status[i] = "stopped" => task[i] = "none"

\* The loop probes replicas that nobody restarts, and no replica given up on.
ProbedOK(i) ==
    i \in live => /\ stage = "serving" /\ checker = "probing"
                  /\ task[i] = "none" /\ entryOf[i] = listed[i] /\ status[i] # "stopped"

\* While the checker serves, a replica lacks an entry only inside a restart.
PresentOK(i) ==
    stage = "serving" /\ i \notin restarting => status[i] \notin {"absent", "starting"}

EntryInv ==
    /\ EntryTypeOK
    /\ \A i \in Indices : EntryOK(i) /\ ProbedOK(i) /\ PresentOK(i)

\* A step that leaves a replica alone leaves its entry alone.
LEMMA EntryFrame ==
    ASSUME NEW i \in Indices, EntryOK(i), ProbedOK(i), PresentOK(i),
           status'[i] = status[i], entryOf'[i] = entryOf[i], listed'[i] = listed[i],
           scheduled'[i] = scheduled[i], task'[i] = task[i],
           LiveEngines(i)' \subseteq LiveEngines(i),
           i \in live' => i \in live /\ stage' = stage /\ checker' = checker,
           stage' = "serving" =>
              stage = "serving" /\ (i \in restarting => i \in restarting')
    PROVE  EntryOK(i)' /\ ProbedOK(i)' /\ PresentOK(i)'
<1>1. EntryOK(i)'
    BY DEF EntryOK, Fresh
<1>2. ProbedOK(i)'
    BY DEF ProbedOK
<1>3. PresentOK(i)'
    BY DEF PresentOK
<1> QED BY <1>1, <1>2, <1>3

\* A step of one restart task: the loop's probes are not about its replica.
LEMMA EntryOne ==
    ASSUME EngineInv, EntryInv, NEW i \in Indices, EntryTypeOK', EntryOK(i)',
           i \in restarting' \/ stage # "serving"
              \/ status'[i] \notin {"absent", "starting"},
           task[i] # "none" \/ stage # "serving",
           \A k \in Indices \ {i} :
              /\ engine'[k] = engine[k] /\ listed'[k] = listed[k]
              /\ status'[k] = status[k] /\ entryOf'[k] = entryOf[k]
              /\ scheduled'[k] = scheduled[k] /\ task'[k] = task[k],
           restarting \ {i} \subseteq restarting',
           live' = live, checker' = checker, stage' = stage
    PROVE  EntryInv'
<1>1. i \notin live
    BY DEF EntryInv, ProbedOK
<1>2. ProbedOK(i)' /\ PresentOK(i)'
    BY <1>1 DEF ProbedOK, PresentOK
<1>3. ASSUME NEW k \in Indices \ {i}
      PROVE  EntryOK(k)' /\ ProbedOK(k)' /\ PresentOK(k)'
  <2>1. LiveEngines(k)' = LiveEngines(k)
      BY DEF LiveEngines
  <2>2. EntryOK(k) /\ ProbedOK(k) /\ PresentOK(k)
      BY DEF EntryInv
  <2> QED BY <2>1, <2>2, EntryFrame
<1> QED BY <1>2, <1>3 DEF EntryInv

LEMMA EntryInit == Init => EntryInv
<1> SUFFICES ASSUME Init PROVE EntryInv
    OBVIOUS
<1> QED BY BudgetAssumption
        DEF Init, EntryInv, EntryTypeOK, EntryOK, ProbedOK, PresentOK, Engines, Fresh

\* The checker finds dead engines: their entries are no longer routed to, and the
\* others are probed.
LEMMA EntryScan ==
    ASSUME EngineInv, EntryInv, Scan PROVE EntryInv'
<1> DEFINE dead == {i \in Indices : Dead(i)}
           again == {i \in dead : ~GivesUp(i)}
<1>1. /\ stage = "serving" /\ checker = "idle" /\ checker' = "probing"
      /\ live' = {i \in Indices : Watched(i)} \ dead
      /\ status' = [i \in Indices |-> IF i \in again THEN "unhealthy"
                                     ELSE IF i \in dead THEN "stopped" ELSE status[i]]
      /\ restarting' = restarting \cup again
      /\ task' = [i \in Indices |-> IF i \in again THEN "sleeping" ELSE task[i]]
      /\ UNCHANGED <<engine, listed, entryOf, stage>>
    BY DEF Scan, setVars
<1>2. again \subseteq dead /\ dead \subseteq Indices
    OBVIOUS
<1>3. \A i \in dead : i \notin restarting /\ status[i] \notin {"absent", "stopped"}
    BY DEF Dead, Watched
<1>4. \A i \in live' : /\ i \in Indices /\ i \notin dead /\ i \notin restarting
                       /\ status[i] \notin {"absent", "stopped"}
                       /\ engine[i][listed[i]] = "running"
    BY <1>1 DEF Dead, Watched
<1> HIDE DEF dead, again
<1>5. EntryTypeOK'
    BY <1>1 DEF EntryInv, EntryTypeOK
<1>6. ASSUME NEW i \in Indices PROVE EntryOK(i)' /\ ProbedOK(i)' /\ PresentOK(i)'
  <2>1. EntryOK(i) /\ PresentOK(i) /\ ReplicaOK(i)
      BY Known DEF EntryInv
  <2>2. i \notin restarting => task[i] = "none"
      BY <1>1, <2>1 DEF ReplicaOK, OwnedOK
  <2>3. LiveEngines(i)' = LiveEngines(i)
      BY <1>1 DEF LiveEngines
  <2>4. /\ task'[i] = IF i \in again THEN "sleeping" ELSE task[i]
        /\ status'[i] = IF i \in again THEN "unhealthy"
                        ELSE IF i \in dead THEN "stopped" ELSE status[i]
        /\ entryOf'[i] = entryOf[i] /\ listed'[i] = listed[i]
      BY <1>1
  <2>5. task'[i] = "readying" => i \notin again /\ task[i] = "readying"
      BY <2>4
  <2>6. i \notin again => scheduled'[i] = scheduled[i]
      BY DEF Scan, again, dead
  <2>7. EntryOK(i)'
      BY <1>2, <1>3, <2>1, <2>2, <2>3, <2>4, <2>5, <2>6 DEF EntryOK, Fresh
  <2>8. ProbedOK(i)'
    <3>1. ASSUME i \in live'
          PROVE  i \notin again /\ task[i] = "none" /\ listed[i] \in LiveEngines(i)
        BY <1>2, <1>4, <2>2, <3>1, Known DEF LiveEngines, Alive
    <3> QED BY <1>1, <1>4, <2>1, <2>4, <3>1 DEF ProbedOK, EntryOK
  <2>9. PresentOK(i)'
      BY <1>1, <2>1, <2>4 DEF PresentOK
  <2> QED BY <2>7, <2>8, <2>9
<1> QED BY <1>5, <1>6 DEF EntryInv

\* The answers of the probes are applied to replicas that were not restarted.
LEMMA EntryApply ==
    ASSUME EngineInv, EntryInv, Apply PROVE EntryInv'
<1>1. /\ live' = {}
      /\ UNCHANGED <<engine, listed, entryOf, restarting, scheduled, task, stage>>
      /\ status' \in [Indices -> {"absent", "starting", "healthy", "unhealthy", "stopped"}]
      /\ \A i \in Indices :
            \/ status'[i] = status[i]
            \/ i \in live /\ status[i] # "absent" /\ status'[i] \in {"healthy", "unhealthy"}
    BY DEF Apply, setVars, taskVars, EntryInv, EntryTypeOK
<1>2. EntryTypeOK'
    BY <1>1 DEF EntryInv, EntryTypeOK
<1>3. ASSUME NEW i \in Indices PROVE EntryOK(i)' /\ ProbedOK(i)' /\ PresentOK(i)'
  <2>1. EntryOK(i) /\ ProbedOK(i) /\ PresentOK(i) /\ LiveEngines(i)' = LiveEngines(i)
      BY <1>1 DEF EntryInv, LiveEngines
  <2>2. EntryOK(i)'
      BY <1>1, <2>1 DEF EntryOK, ProbedOK, Fresh
  <2> QED BY <1>1, <2>1, <2>2 DEF ProbedOK, PresentOK
<1> QED BY <1>2, <1>3 DEF EntryInv

\* What a restart task's steps start from.
LEMMA EntryKnown ==
    ASSUME EngineInv, EntryInv, NEW i \in Indices
    PROVE  /\ EntryOK(i) /\ ReplicaOK(i) /\ PresentOK(i)
           /\ task[i] # "none" => i \in restarting \/ stage # "serving"
           /\ status \in [Indices -> {"absent", "starting", "healthy", "unhealthy", "stopped"}]
           /\ entryOf \in [Indices -> Engines] /\ task \in [Indices -> TaskPhases]
           /\ live \subseteq Indices /\ Fresh(i) \in Engines
BY Known DEF EntryInv, EntryTypeOK, EngineInv, EngineTypeOK, ReplicaOK, OwnedOK

\* Waiting, terminating and draining end with no entry or leave it as it is.
LEMMA EntryTask ==
    ASSUME EngineInv, EntryInv, NEW i \in Indices, NEW p \in TaskPhases \ {"none", "readying"},
           task[i] # "none", GoTo(i, p),
           LiveEngines(i)' \subseteq LiveEngines(i),
           \A k \in Indices \ {i} : engine'[k] = engine[k],
           status' = status \/ status' = [status EXCEPT ![i] = "absent"],
           UNCHANGED <<entryOf, listed, scheduled, restarting, live, checker, stage>>
    PROVE  EntryInv'
<1>1. task'[i] = p /\ status'[i] \in {status[i], "absent"}
    BY EntryKnown DEF GoTo
<1>2. EntryTypeOK'
    BY EntryKnown DEF EntryTypeOK
<1>3. EntryOK(i)'
    BY <1>1, EntryKnown DEF EntryOK
<1> QED BY <1>2, <1>3, EntryKnown, EntryOne DEF GoTo

\* A task that ends leaves an entry that is neither absent nor starting, which is
\* healthy only for the engine that is now listed.
LEMMA EntryEnd ==
    ASSUME EngineInv, EntryInv, NEW i \in Indices, NEW s \in {"unhealthy", "healthy"},
           task[i] # "none", EndTask(i), status' = [status EXCEPT ![i] = s],
           entryOf' \in [Indices -> Engines],
           entryOf'[i] = listed'[i] \/ (s = "unhealthy" /\ listed'[i] \notin LiveEngines(i)'),
           \A k \in Indices \ {i} : /\ engine'[k] = engine[k] /\ listed'[k] = listed[k]
                                    /\ entryOf'[k] = entryOf[k],
           UNCHANGED <<scheduled, live, checker, stage>>
    PROVE  EntryInv'
<1>1. task'[i] = "none" /\ status'[i] = s
    BY EntryKnown DEF EndTask, GoTo
<1>2. EntryTypeOK'
    BY EntryKnown DEF EntryTypeOK
<1>3. EntryOK(i)'
    BY <1>1 DEF EntryOK
<1> QED BY <1>1, <1>2, <1>3, EntryKnown, EntryOne DEF EndTask, GoTo

LEMMA EntryTerminated ==
    ASSUME EngineInv, EntryInv, NEW i \in Indices, Terminated(i) PROVE EntryInv'
<1>1. /\ task[i] = "terminating" /\ KillGroup(i, listed[i])
      /\ UNCHANGED <<entryOf, listed, scheduled, restarting, live, checker, stage>>
    BY DEF Terminated, At, setVars, checkerVars
<1>2. /\ LiveEngines(i)' \subseteq LiveEngines(i)
      /\ \A k \in Indices \ {i} : engine'[k] = engine[k]
    BY <1>1, Killed, Known
<1>3. PICK p \in {"launching", "draining"} :
          GoTo(i, p) /\ (status' = status \/ status' = [status EXCEPT ![i] = "absent"])
    BY DEF Terminated, BeginLaunch
<1> QED BY <1>1, <1>2, <1>3, EntryTask DEF TaskPhases

\* The fresh engine gets an entry of its own, which is not routed to yet.
LEMMA EntryLaunched ==
    ASSUME EngineInv, EntryInv, NEW i \in Indices, Launched(i) PROVE EntryInv'
<1>1. /\ task[i] = "launching" /\ task' = [task EXCEPT ![i] = "readying"]
      /\ engine' = [engine EXCEPT ![i] = [@ EXCEPT ![Fresh(i)] = "running"]]
      /\ status' = [status EXCEPT ![i] = "starting"]
      /\ entryOf' = [entryOf EXCEPT ![i] = Fresh(i)]
      /\ UNCHANGED <<listed, scheduled, restarting, live, checker, stage>>
    BY DEF Launched, NewEntry, At, GoTo, checkerVars
<1>2. EntryTypeOK'
    BY <1>1, EntryKnown DEF EntryTypeOK
<1>3. listed[i] < Fresh(i) /\ listed[i] \notin LiveEngines(i)
    BY <1>1, EntryKnown DEF ReplicaOK, TaskOK
<1>4. listed'[i] \notin LiveEngines(i)'
  <2>1. engine'[i][listed[i]] = engine[i][listed[i]]
      BY <1>1, <1>3, Known DEF EngineInv, EngineTypeOK
  <2> QED BY <1>1, <1>3, <2>1 DEF LiveEngines
<1>5. EntryOK(i)'
  <2>1. task'[i] = "readying" /\ status'[i] = "starting"
        /\ entryOf'[i] = Fresh(i) /\ Fresh(i)' = Fresh(i)
      BY <1>1, EntryKnown DEF Fresh
  <2> QED BY <1>4, <2>1 DEF EntryOK
<1> QED BY <1>1, <1>2, <1>5, EntryKnown, EntryOne

LEMMA EntryEnds ==
    ASSUME EngineInv, EntryInv, NEW i \in Indices,
           LaunchFails(i) \/ Ready(i) \/ Discarded(i)
    PROVE  EntryInv'
<1>1. CASE LaunchFails(i)
  <2>1. /\ task[i] = "launching" /\ EndTask(i)
        /\ status' = [status EXCEPT ![i] = "unhealthy"]
        /\ entryOf' = [entryOf EXCEPT ![i] = Fresh(i)]
        /\ UNCHANGED <<engine, listed, scheduled, live, checker, stage>>
      BY <1>1 DEF LaunchFails, NewEntry, At, setVars
  <2>2. listed'[i] \notin LiveEngines(i)'
      BY <2>1, EntryKnown DEF ReplicaOK, TaskOK, LiveEngines
  <2> QED BY <2>1, <2>2, EntryKnown, EntryEnd
<1>2. CASE Ready(i)
  <2>1. /\ task[i] = "readying" /\ EndTask(i)
        /\ status' = [status EXCEPT ![i] = "healthy"]
        /\ listed' = [listed EXCEPT ![i] = Fresh(i)]
        /\ UNCHANGED <<engine, entryOf, scheduled, live, checker, stage>>
      BY <1>2 DEF Ready, At
  <2>2. entryOf'[i] = listed'[i]
    <3>1. listed \in [Indices -> Engines]
        BY DEF EngineInv, EngineTypeOK
    <3> QED BY <2>1, <3>1, EntryKnown DEF EntryOK
  <2>3. entryOf' \in [Indices -> Engines]
      BY <2>1, EntryKnown
  <2>4. \A k \in Indices \ {i} : /\ engine'[k] = engine[k] /\ listed'[k] = listed[k]
                                 /\ entryOf'[k] = entryOf[k]
      BY <2>1
  <2> QED BY <2>1, <2>2, <2>3, <2>4, EntryEnd
<1>3. CASE Discarded(i)
  <2>1. /\ task[i] = "discarding" /\ EndTask(i) /\ KillGroup(i, Fresh(i))
        /\ status' = [status EXCEPT ![i] = "unhealthy"]
        /\ UNCHANGED <<listed, entryOf, scheduled, live, checker, stage>>
      BY <1>3 DEF Discarded, At, setVars
  <2>2. /\ LiveEngines(i)' \subseteq LiveEngines(i)
        /\ \A k \in Indices \ {i} : engine'[k] = engine[k]
      BY <2>1, Killed, EntryKnown
  <2>3. listed'[i] \notin LiveEngines(i)'
      BY <2>1, <2>2, EntryKnown DEF ReplicaOK, TaskOK
  <2> QED BY <2>1, <2>2, <2>3, EntryKnown, EntryEnd
<1> QED BY <1>1, <1>2, <1>3

\* A cancelled task puts no entry back, but then the checker no longer serves.
LEMMA EntryCancelEnds ==
    ASSUME EngineInv, EntryInv, NEW i \in Indices, CancelEnds(i) PROVE EntryInv'
<1>1. /\ i \in cancelled /\ task' = [task EXCEPT ![i] = "none"]
      /\ restarting \ {i} \subseteq restarting'
      /\ UNCHANGED <<engine, listed, status, entryOf, scheduled, live, checker, stage>>
    BY DEF CancelEnds, GoTo, setVars, entryVars
<1>2. stage # "serving"
    BY <1>1, EntryKnown DEF ReplicaOK, OwnedOK
<1>3. EntryTypeOK'
    BY <1>1, EntryKnown DEF EntryTypeOK
<1>4. EntryOK(i)'
  <2>1. task'[i] = "none" /\ LiveEngines(i)' = LiveEngines(i)
      BY <1>1, EntryKnown DEF LiveEngines
  <2> QED BY <1>1, <2>1, EntryKnown DEF EntryOK
<1> QED BY <1>1, <1>2, <1>3, <1>4, EntryOne

\* The other steps touch no entry, or empty the router when nothing serves.
LEMMA EntryQuiet ==
    ASSUME EngineInv, EntryInv, EntryTypeOK',
           UNCHANGED <<listed, entryOf, scheduled, task>>,
           \A i \in Indices : LiveEngines(i)' \subseteq LiveEngines(i),
           \A i \in Indices : status'[i] = status[i]
                                 \/ (stage' # "serving" /\ status'[i] = "absent"),
           \A i \in Indices : i \in live' => i \in live /\ UNCHANGED <<stage, checker>>,
           stage' = "serving" => stage = "serving" /\ restarting' = restarting
    PROVE  EntryInv'
<1>1. ASSUME NEW i \in Indices PROVE EntryOK(i)' /\ ProbedOK(i)' /\ PresentOK(i)'
  <2>1. EntryOK(i) /\ ProbedOK(i) /\ PresentOK(i)
      BY DEF EntryInv
  <2>2. CASE status'[i] = status[i]
      BY <2>1, <2>2, EntryFrame
  <2>3. CASE stage' # "serving" /\ status'[i] = "absent"
    <3>1. EntryOK(i)' /\ PresentOK(i)'
        BY <2>1, <2>3 DEF EntryOK, PresentOK, Fresh
    <3>2. ProbedOK(i)'
        BY <2>1, <2>3 DEF ProbedOK
    <3> QED BY <3>1, <3>2
  <2> QED BY <2>2, <2>3
<1> QED BY <1>1 DEF EntryInv

\* Nothing is probed once the checker is off.
LEMMA ServingProbes ==
    ASSUME EntryInv, stage # "serving" PROVE live = {}
BY DEF EntryInv, EntryTypeOK, ProbedOK

LEMMA EntryStopped ==
    ASSUME EngineInv, EntryInv, StopSet \/ ShutdownAll PROVE EntryInv'
<1>1. /\ stage # "serving" /\ stage' # "serving"
      /\ UNCHANGED <<listed, entryOf, scheduled, task, live>>
      /\ EntryTypeOK'
      /\ \A i \in Indices : status'[i] = status[i] \/ status'[i] = "absent"
    BY DEF StopSet, ShutdownAll, setVars, entryVars, checkerVars, taskVars,
           EntryInv, EntryTypeOK
<1>2. live = {}
    BY <1>1, ServingProbes
<1>3. ASSUME NEW i \in Indices PROVE LiveEngines(i)' \subseteq LiveEngines(i)
  <2>1. engine \in [Indices -> [Engines -> {"none", "gone"} \cup Alive]]
      BY DEF EngineInv, EngineTypeOK
  <2>2. CASE StopSet
      BY <2>1, <2>2 DEF StopSet, LiveEngines, Alive
  <2>3. CASE ShutdownAll
      BY <2>1, <2>3 DEF ShutdownAll, LiveEngines, Alive
  <2> QED BY <2>2, <2>3
<1> QED BY <1>1, <1>2, <1>3, EntryQuiet

LEMMA EntryStep == EngineInv /\ EntryInv /\ [Next]_vars => EntryInv'
<1> SUFFICES ASSUME EngineInv, EntryInv, [Next]_vars PROVE EntryInv'
    OBVIOUS
<1> USE DEF setVars, entryVars, checkerVars, taskVars
<1>q. UNCHANGED <<status, entryOf, live>> => EntryTypeOK'
    BY DEF EntryInv, EntryTypeOK
<1>1. ASSUME NEW i \in Indices, RestartStep(i) \/ Ready(i) PROVE EntryInv'
  <2>1. CASE BackoffOver(i)
      BY <2>1, EntryTask DEF BackoffOver, At, LiveEngines, TaskPhases
  <2>2. CASE Terminated(i)
      BY <2>2, EntryTerminated
  <2>3. CASE Drained(i)
      BY <2>3, EntryTask DEF Drained, BeginLaunch, At, LiveEngines, TaskPhases
  <2>4. CASE Launched(i)
      BY <2>4, EntryLaunched
  <2>5. CASE LaunchFails(i) \/ Ready(i) \/ Discarded(i)
      BY <2>5, EntryEnds
  <2>6. CASE NotReady(i)
      BY <2>6, EntryTask DEF NotReady, At, LiveEngines, TaskPhases
  <2>7. CASE CancelEnds(i)
      BY <2>7, EntryCancelEnds
  <2>8. CASE CancelSwallowed(i)
      BY <2>8, EntryTask DEF CancelSwallowed, BeginLaunch, LiveEngines, TaskPhases
  <2> QED BY <1>1, <2>1, <2>2, <2>3, <2>4, <2>5, <2>6, <2>7, <2>8 DEF RestartStep
<1>2. ASSUME NEW i \in Indices, NEW n \in Engines, EngineExits(i, n) PROVE EntryInv'
  <2>1. \A k \in Indices : LiveEngines(k)' \subseteq LiveEngines(k)
    <3>1. PICK st \in {"workers", "gone"} :
              engine' = [engine EXCEPT ![i] = [@ EXCEPT ![n] = st]]
        BY <1>2 DEF EngineExits
    <3>2. engine \in [Indices -> [Engines -> {"none", "gone"} \cup Alive]]
          /\ engine[i][n] = "running"
        BY <1>2 DEF EngineExits, EngineInv, EngineTypeOK
    <3> QED BY <3>1, <3>2 DEF LiveEngines, Alive
  <2> QED BY <1>2, <2>1, <1>q, EntryQuiet DEF EngineExits
<1>3. CASE Tick
    BY <1>3, <1>q, EntryQuiet DEF Tick, LiveEngines
<1>4. CASE RequestShutdown \/ CancelRestarts \/ RestartsOver
  <2>1. live' = {} /\ stage' # "serving"
      BY <1>4, ServingProbes DEF RequestShutdown, CancelRestarts, RestartsOver
  <2>2. UNCHANGED <<engine, listed, status, entryOf, scheduled, task>>
      BY <1>4 DEF RequestShutdown, CancelRestarts, RestartsOver
  <2>3. EntryTypeOK'
      BY <2>1, <2>2 DEF EntryInv, EntryTypeOK
  <2>4. \A i \in Indices : LiveEngines(i)' = LiveEngines(i)
      BY <2>2 DEF LiveEngines
  <2> QED BY <2>1, <2>2, <2>3, <2>4, EntryQuiet
<1>5. CASE UNCHANGED vars
    BY <1>5, <1>q, EntryQuiet DEF vars, LiveEngines
<1> QED BY <1>1, <1>2, <1>3, <1>4, <1>5, EntryScan, EntryApply, EntryStopped
        DEF Next, ShutdownStep

\* The second one, on top: the router's entries against the set's list.
THEOREM EntriesInv == Spec => []EntryInv
<1> QED BY EngineInit, EngineStep, EntryInit, EntryStep, PTL DEF Spec

\* router.replicas and the set's list agree: a replica that is not being restarted
\* has its entry, and only the entry of a listed engine is routed to.
THEOREM TablesAlwaysAgree == Spec => []TablesAgree
<1>1. EntryInv => TablesAgree
    BY DEF EntryInv, EntryOK, PresentOK, TablesAgree, NoReplicaForgotten, RoutedIsListed
<1> QED BY <1>1, EntriesInv, PTL

\* A replica given up on is not touched again before the shutdown, although its
\* restarts leave the window one by one.
THEOREM GivingUpIsFinal == Spec => StoppedIsFinal
<1> DEFINE Final == \A i \in Indices : status[i] = "stopped" =>
                       task'[i] = "none" /\ (status'[i] = "stopped" \/ stage = "stop_set")
<1>1. ASSUME EngineInv, EntryInv, [Next]_vars, NEW i \in Indices, status[i] = "stopped"
      PROVE  task'[i] = "none" /\ (status'[i] = "stopped" \/ stage = "stop_set")
  <2>1. task[i] = "none" /\ i \notin live
      BY <1>1 DEF EntryInv, EntryOK, ProbedOK
  <2>2. /\ task \in [Indices -> TaskPhases] /\ DOMAIN status = Indices
      BY <1>1 DEF EntryInv, EntryTypeOK, EngineInv, EngineTypeOK
  <2> USE DEF setVars, entryVars, checkerVars, taskVars
  <2>3. ASSUME NEW k \in Indices, RestartStep(k) \/ Ready(k)
        PROVE  task'[i] = "none" /\ status'[i] = "stopped"
    <3>1. CASE k # i
        BY <1>1, <2>1, <2>2, <2>3, <3>1
        DEF RestartStep, BackoffOver, Terminated, Drained, Launched, LaunchFails, Ready,
            NotReady, Discarded, CancelEnds, CancelSwallowed, EndTask, GoTo, BeginLaunch,
            NewEntry
    <3>2. CASE k = i
        BY <1>1, <2>1, <2>2, <2>3, <3>2
        DEF RestartStep, BackoffOver, Terminated, Drained, Launched, LaunchFails, Ready,
            NotReady, Discarded, CancelEnds, CancelSwallowed, At, GoTo
    <3> QED BY <3>1, <3>2
  <2>4. CASE Scan
      BY <1>1, <2>1, <2>4 DEF Scan, Dead, Watched
  <2>5. CASE Apply
      BY <1>1, <2>1, <2>5 DEF Apply
  <2> QED BY <1>1, <2>1, <2>3, <2>4, <2>5
          DEF Next, EngineExits, Tick, RequestShutdown, ShutdownStep, CancelRestarts,
              RestartsOver, StopSet, ShutdownAll, vars
<1>2. EngineInv /\ EntryInv /\ [Next]_vars => Final
    BY <1>1
<1>3. EngineInv /\ EntryInv /\ [Next]_vars => [Final]_vars
    BY <1>2
<1> QED BY <1>3, EnginesInv, EntriesInv, PTL DEF Spec, StoppedIsFinal

-----------------------------------------------------------------------------
(* The restart budget.                                                     *)

LEMMA LeastNumber ==
    ASSUME NEW S \in SUBSET Nat, S # {}
    PROVE  \E n \in S : \A m \in S : n <= m
<1> DEFINE R == {p \in Nat \X Nat : p[1] < p[2]}
<1>1. IsWellFoundedOn(R, Nat)
    BY NatLessThanWellFounded DEF OpToRel
<1>2. PICK n \in S : \A m \in S : ~ (<<m, n>> \in R)
  <2> HIDE DEF R
  <2> QED BY <1>1, WFMin
<1>3. ASSUME NEW m \in S PROVE n <= m
  <2>1. n \in Nat /\ m \in Nat /\ <<m, n>> \in Nat \X Nat
      OBVIOUS
  <2>2. ~ (m < n)
      BY <1>2, <1>3, <2>1
  <2> QED BY <2>1, <2>2
<1> QED BY <1>3

\* popleft stops: Expired is the number of old restarts at the front.
LEMMA ExpiredExists ==
    ASSUME NEW i \in Indices, times[i] \in Seq(0 .. MaxTime), now \in 0 .. MaxTime
    PROVE  /\ Expired(i, Window) \in 0 .. Len(times[i])
           /\ \A j \in 1 .. Expired(i, Window) : now - times[i][j] > Window
<1> DEFINE stops == {n \in 0 .. Len(times[i]) :
                        n < Len(times[i]) => now - times[i][n + 1] <= Window}
           Found(n) == /\ \A j \in 1 .. n : now - times[i][j] > Window
                       /\ n < Len(times[i]) => now - times[i][n + 1] <= Window
<1>1. stops \in SUBSET Nat /\ Len(times[i]) \in stops
    OBVIOUS
<1>2. PICK n \in stops : \A m \in stops : n <= m
  <2> HIDE DEF stops
  <2> QED BY <1>1, LeastNumber
<1>3. ASSUME NEW j \in 1 .. n PROVE now - times[i][j] > Window
  <2>1. j - 1 \in 0 .. Len(times[i]) /\ j - 1 < n /\ (j - 1) + 1 = j
      BY <1>2
  <2>2. j - 1 \notin stops
      BY <1>2, <2>1
  <2>3. ~ (now - times[i][j] <= Window)
      BY <2>1, <2>2
  <2>4. times[i][j] \in 0 .. MaxTime
    <3>1. j \in 1 .. Len(times[i])
        BY <1>2
    <3> QED BY <3>1, ElementOfSeq
  <2> QED BY <2>3, <2>4, BudgetAssumption
<1>4. n \in 0 .. Len(times[i]) /\ Found(n)
    BY <1>2, <1>3
<1>5. Expired(i, Window) = CHOOSE m \in 0 .. Len(times[i]) : Found(m)
    BY DEF Expired
<1> HIDE DEF Found, stops
<1>6. Expired(i, Window) \in 0 .. Len(times[i]) /\ Found(Expired(i, Window))
    BY <1>4, <1>5
<1> QED BY <1>6 DEF Found

\* The remembered restarts are the last ones, and all before them left the window.
TimesOK(i) ==
    LET dropped == Len(scheduled[i]) - Len(times[i]) IN
    /\ times[i] \in Seq(0 .. MaxTime)
    /\ dropped \in Nat
    /\ \A j \in 1 .. Len(times[i]) : times[i][j] = scheduled[i][j + dropped]
    /\ \A j \in 1 .. dropped : now - scheduled[i][j] > Window

BudgetOK(i) ==
    \A j \in 1 .. Len(scheduled[i]) - MaxRestarts :
        scheduled[i][j + MaxRestarts] - scheduled[i][j] > Window

BudgetInv ==
    /\ now \in 0 .. MaxTime
    /\ scheduled \in [Indices -> Seq(0 .. MaxTime)]
    /\ DOMAIN times = Indices
    /\ \A i \in Indices : TimesOK(i) /\ BudgetOK(i)

LEMMA BudgetInit == Init => BudgetInv
BY BudgetAssumption DEF Init, BudgetInv, TimesOK, BudgetOK

\* What is left of the remembered restarts is still the last ones.
LEMMA RecentOK ==
    ASSUME BudgetInv, NEW i \in Indices
    PROVE  LET dropped == Len(scheduled[i]) - Len(Recent(i)) IN
           /\ Recent(i) \in Seq(0 .. MaxTime)
           /\ dropped \in Nat
           /\ \A j \in 1 .. Len(Recent(i)) : Recent(i)[j] = scheduled[i][j + dropped]
           /\ \A j \in 1 .. dropped : now - scheduled[i][j] > Window
<1> DEFINE t == times[i]
           s == scheduled[i]
           n == Expired(i, Window)
           d == Len(s) - Len(t)
<1>1. /\ t \in Seq(0 .. MaxTime) /\ s \in Seq(0 .. MaxTime) /\ now \in 0 .. MaxTime
      /\ d \in Nat /\ \A j \in 1 .. Len(t) : t[j] = s[j + d]
      /\ \A j \in 1 .. d : now - s[j] > Window
    BY DEF BudgetInv, TimesOK
<1>2. n \in 0 .. Len(t) /\ \A j \in 1 .. n : now - t[j] > Window
    BY <1>1, ExpiredExists
<1>3. Recent(i) = SubSeq(t, n + 1, Len(t))
    BY DEF Recent, Unexpired
<1> HIDE DEF t, s, n
<1>4. /\ Recent(i) \in Seq(0 .. MaxTime) /\ Len(Recent(i)) = Len(t) - n
      /\ \A j \in 1 .. Len(t) - n : Recent(i)[j] = t[j + n]
  <2>1. ASSUME NEW j \in n + 1 .. Len(t) PROVE t[j] \in 0 .. MaxTime
    <3>1. j \in 1 .. Len(t)
        BY <1>1, <1>2
    <3> QED BY <1>1, <3>1, ElementOfSeq
  <2>2. n + 1 \in Int /\ Len(t) \in Int
      BY <1>1, <1>2
  <2> QED BY <1>2, <1>3, <2>1, <2>2, SubSeqProperties
<1>5. ASSUME NEW j \in 1 .. d + n PROVE now - s[j] > Window
  <2>1. CASE j <= d
      BY <1>1, <1>2, <2>1
  <2>2. CASE j > d
    <3>1. j - d \in 1 .. n /\ j - d \in 1 .. Len(t) /\ (j - d) + d = j
        BY <1>1, <1>2, <2>2
    <3> QED BY <1>1, <1>2, <3>1
  <2> QED BY <1>1, <1>2, <2>1, <2>2
<1>6. Len(s) - Len(Recent(i)) = d + n /\ Len(s) \in Nat /\ Len(t) \in Nat
    BY <1>1, <1>2, <1>4
<1>7. \A j \in 1 .. Len(Recent(i)) : Recent(i)[j] = s[j + (d + n)]
    BY <1>1, <1>2, <1>4
<1> QED BY <1>1, <1>2, <1>4, <1>5, <1>6, <1>7 DEF s

LEMMA NotTheLast ==
    ASSUME NEW a \in Nat, NEW m \in Nat, NEW j \in 1 .. a + 1 - m, j + m # a + 1
    PROVE  j + m \in 1 .. a /\ j \in 1 .. a - m
<1>1. j \in Int /\ j >= 1 /\ j <= a + 1 - m
    OBVIOUS
<1>2. j + m <= a
    BY <1>1
<1> QED BY <1>1, <1>2

\* A restart is scheduled: the budget was not used up within the window.
LEMMA Scheduled ==
    ASSUME BudgetInv, NEW i \in Indices, Len(Recent(i)) < MaxRestarts,
           now' = now, scheduled'[i] = Append(scheduled[i], now),
           times'[i] = Append(Recent(i), now)
    PROVE  TimesOK(i)' /\ BudgetOK(i)'
<1> DEFINE r == Recent(i)
           s == scheduled[i]
           d == Len(s) - Len(r)
<1>1. /\ s \in Seq(0 .. MaxTime) /\ now \in 0 .. MaxTime /\ r \in Seq(0 .. MaxTime)
      /\ d \in Nat /\ \A j \in 1 .. Len(r) : r[j] = s[j + d]
      /\ \A j \in 1 .. d : now - s[j] > Window
    BY RecentOK DEF BudgetInv
<1>2. BudgetOK(i)
    BY DEF BudgetInv
<1>3. scheduled'[i] = Append(s, now) /\ times'[i] = Append(r, now) /\ Len(r) < MaxRestarts
    OBVIOUS
<1>0. Len(s) \in Nat /\ Len(r) \in Nat /\ d \in Nat /\ Len(s) = Len(r) + d
    BY <1>1
<1> HIDE DEF r, d
<1>4. /\ Append(s, now) \in Seq(0 .. MaxTime) /\ Len(Append(s, now)) = Len(s) + 1
      /\ \A j \in 1 .. Len(s) : Append(s, now)[j] = s[j]
      /\ Append(s, now)[Len(s) + 1] = now
    BY <1>1
<1>5. /\ Append(r, now) \in Seq(0 .. MaxTime) /\ Len(Append(r, now)) = Len(r) + 1
      /\ \A j \in 1 .. Len(r) : Append(r, now)[j] = r[j]
      /\ Append(r, now)[Len(r) + 1] = now
    BY <1>1
<1>6. TimesOK(i)'
  <2>1. Len(Append(s, now)) - Len(Append(r, now)) = d
      BY <1>0, <1>4, <1>5
  <2>2. ASSUME NEW j \in 1 .. Len(r) + 1 PROVE Append(r, now)[j] = Append(s, now)[j + d]
    <3>1. CASE j = Len(r) + 1
      <4>1. j + d = Len(s) + 1
          BY <1>0, <3>1
      <4> QED BY <1>4, <1>5, <3>1, <4>1
    <3>2. CASE j # Len(r) + 1
      <4>1. j \in 1 .. Len(r) /\ j + d \in 1 .. Len(s)
          BY <1>0, <3>2
      <4> QED BY <1>1, <1>4, <1>5, <4>1
    <3> QED BY <3>1, <3>2
  <2>3. ASSUME NEW j \in 1 .. d PROVE now - Append(s, now)[j] > Window
    <3>1. j \in 1 .. Len(s)
        BY <1>0
    <3> QED BY <1>1, <1>4, <3>1
  <2> HIDE DEF s
  <2> QED BY <1>1, <1>3, <1>5, <2>1, <2>2, <2>3 DEF TimesOK
<1>7. BudgetOK(i)'
  <2>1. ASSUME NEW j \in 1 .. Len(s) + 1 - MaxRestarts
        PROVE  Append(s, now)[j + MaxRestarts] - Append(s, now)[j] > Window
    <3>1. MaxRestarts \in Nat /\ Len(r) < MaxRestarts /\ MaxRestarts > 0 /\ j \in Nat
        BY <1>0, <1>3, BudgetAssumption
    <3>2. j \in 1 .. Len(s) /\ Append(s, now)[j] = s[j]
        BY <1>0, <1>4, <3>1
    <3>3. CASE j + MaxRestarts = Len(s) + 1
      <4>1. j \in 1 .. d
          BY <1>0, <3>1, <3>3
      <4> QED BY <1>1, <1>4, <3>2, <3>3, <4>1
    <3>4. CASE j + MaxRestarts # Len(s) + 1
      <4>1. j + MaxRestarts \in 1 .. Len(s) /\ j \in 1 .. Len(s) - MaxRestarts
          BY <1>0, <3>1, <3>4, NotTheLast
      <4>2. s[j + MaxRestarts] - s[j] > Window
          BY <1>2, <4>1 DEF BudgetOK
      <4> QED BY <1>4, <3>2, <4>1, <4>2
    <3> QED BY <3>3, <3>4
  <2>2. Len(scheduled'[i]) = Len(s) + 1 /\ scheduled'[i] = Append(s, now)
      BY <1>3, <1>4
  <2>3. ASSUME NEW j \in 1 .. Len(scheduled'[i]) - MaxRestarts
        PROVE  scheduled'[i][j + MaxRestarts] - scheduled'[i][j] > Window
    <3> HIDE DEF s
    <3>1. j \in 1 .. Len(s) + 1 - MaxRestarts
        BY <1>0, <2>2, <2>3, BudgetAssumption
    <3> QED BY <2>1, <2>2, <3>1
  <2> QED BY <2>3 DEF BudgetOK
<1> QED BY <1>6, <1>7

\* The clock only makes what has left the window older.
LEMMA BudgetAges ==
    ASSUME BudgetInv, now' \in 0 .. MaxTime, now <= now', UNCHANGED <<times, scheduled>>
    PROVE  BudgetInv'
<1>1. ASSUME NEW i \in Indices PROVE TimesOK(i)' /\ BudgetOK(i)'
  <2>1. TimesOK(i) /\ BudgetOK(i) /\ scheduled[i] \in Seq(0 .. MaxTime)
        /\ now \in 0 .. MaxTime
      BY DEF BudgetInv
  <2>2. ASSUME NEW j \in 1 .. Len(scheduled[i]) - Len(times[i])
        PROVE  now' - scheduled[i][j] > Window
    <3>1. now - scheduled[i][j] > Window
        BY <2>1 DEF TimesOK
    <3>2. j \in 1 .. Len(scheduled[i])
        BY <2>1 DEF TimesOK
    <3>3. scheduled[i][j] \in 0 .. MaxTime
        BY <2>1, <3>2, ElementOfSeq
    <3> QED BY <2>1, <3>1, <3>3, BudgetAssumption
  <2> QED BY <2>1, <2>2 DEF TimesOK, BudgetOK
<1> QED BY <1>1 DEF BudgetInv

LEMMA BudgetScan == BudgetInv /\ Scan => BudgetInv'
<1> SUFFICES ASSUME BudgetInv, Scan PROVE BudgetInv'
    OBVIOUS
<1> DEFINE dead == {i \in Indices : Dead(i)}
           again == {i \in dead : ~GivesUp(i)}
<1>1. /\ times' = [i \in Indices |->
            IF i \in again THEN Append(Recent(i), now)
            ELSE IF i \in dead /\ RestartEnabled THEN Recent(i) ELSE times[i]]
      /\ scheduled' = [i \in Indices |->
            IF i \in again THEN Append(scheduled[i], now) ELSE scheduled[i]]
      /\ now' = now
    BY DEF Scan
<1>2. ASSUME NEW i \in again PROVE i \in Indices /\ Len(Recent(i)) < MaxRestarts
  <2>1. i \in Indices /\ ~ (Len(Recent(i)) >= MaxRestarts)
      BY DEF GivesUp
  <2> QED BY <2>1, RecentOK, BudgetAssumption
<1> HIDE DEF dead, again
<1>3. ASSUME NEW i \in Indices PROVE TimesOK(i)' /\ BudgetOK(i)'
  <2>1. TimesOK(i) /\ BudgetOK(i)
      BY DEF BudgetInv
  <2>2. CASE i \in again
      BY <1>1, <1>2, <2>2, Scheduled
  <2>3. CASE i \notin again
    <3>1. scheduled'[i] = scheduled[i] /\ times'[i] \in {Recent(i), times[i]}
        BY <1>1, <2>3
    <3>2. CASE times'[i] = times[i]
        BY <1>1, <2>1, <3>1, <3>2 DEF TimesOK, BudgetOK
    <3>3. CASE times'[i] = Recent(i)
      <4>1. TimesOK(i)'
        <5>1. LET dropped == Len(scheduled[i]) - Len(Recent(i)) IN
              /\ Recent(i) \in Seq(0 .. MaxTime)
              /\ dropped \in Nat
              /\ \A j \in 1 .. Len(Recent(i)) : Recent(i)[j] = scheduled[i][j + dropped]
              /\ \A j \in 1 .. dropped : now - scheduled[i][j] > Window
            BY RecentOK
        <5>2. now' = now /\ scheduled'[i] = scheduled[i] /\ times'[i] = Recent(i)
            BY <1>1, <3>1, <3>3
        <5> QED BY <5>1, <5>2 DEF TimesOK
      <4>2. BudgetOK(i)'
          BY <2>1, <3>1 DEF BudgetOK
      <4> QED BY <4>1, <4>2
    <3> QED BY <3>1, <3>2, <3>3
  <2> QED BY <2>2, <2>3
<1>4. scheduled' \in [Indices -> Seq(0 .. MaxTime)]
  <2>1. ASSUME NEW i \in Indices
        PROVE  (IF i \in again THEN Append(scheduled[i], now) ELSE scheduled[i])
                  \in Seq(0 .. MaxTime)
    <3>1. scheduled[i] \in Seq(0 .. MaxTime) /\ now \in 0 .. MaxTime
        BY DEF BudgetInv
    <3>2. Append(scheduled[i], now) \in Seq(0 .. MaxTime)
        BY <3>1
    <3> QED BY <3>1, <3>2
  <2> QED BY <1>1, <2>1
<1> QED BY <1>1, <1>3, <1>4 DEF BudgetInv

LEMMA BudgetStep == BudgetInv /\ [Next]_vars => BudgetInv'
<1> SUFFICES ASSUME BudgetInv, [Next]_vars PROVE BudgetInv'
    OBVIOUS
<1>1. CASE Scan
    BY <1>1, BudgetScan
<1>2. CASE Tick
  <2>1. now' \in 0 .. MaxTime /\ now <= now' /\ UNCHANGED <<times, scheduled>>
      BY <1>2, BudgetAssumption DEF Tick, BudgetInv, checkerVars
  <2> QED BY <2>1, BudgetAges
<1>3. CASE UNCHANGED <<now, times, scheduled>>
  <2>1. now' \in 0 .. MaxTime /\ now <= now'
      BY <1>3 DEF BudgetInv
  <2> QED BY <1>3, <2>1, BudgetAges
<1>4. Next => Scan \/ Tick \/ UNCHANGED <<now, times, scheduled>>
    BY DEF Next, RestartStep, ShutdownStep, EngineExits, Apply, BackoffOver, Terminated,
           Drained, Launched, LaunchFails, Ready, NotReady, Discarded, CancelEnds,
           CancelSwallowed, RequestShutdown, CancelRestarts, RestartsOver, StopSet,
           ShutdownAll, checkerVars
<1>5. UNCHANGED vars => UNCHANGED <<now, times, scheduled>>
    BY DEF vars, checkerVars
<1> QED BY <1>1, <1>2, <1>3, <1>4, <1>5

\* No replica is restarted more than MaxRestarts times within any window, although
\* the checker forgets what has left it and never looks at the history.
THEOREM BudgetKept == Spec => []RestartBudget
<1>1. BudgetInv => RestartBudget
    BY DEF BudgetInv, BudgetOK, RestartBudget
<1> QED BY <1>1, BudgetInit, BudgetStep, PTL DEF Spec

=============================================================================
