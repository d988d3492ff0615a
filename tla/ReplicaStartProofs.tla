------------------------- MODULE ReplicaStartProofs -------------------------
(***************************************************************************)
(* Proofs about ReplicaStart: its types, the allocator's promise and what  *)
(* a start promises, for any number of processes, replicas, ports and      *)
(* starts, with cancellations anywhere.                                    *)
(***************************************************************************)
EXTENDS ReplicaStart, TLAPS

-----------------------------------------------------------------------------
(* The inductive invariant                                                 *)

\* Replicas of a set never share a port, and a set that is not stopped has its
\* ports reserved.
PortsOK(p) ==
    /\ \A r \in Of(p) : Alive(r) \/ task[r] \in Awaiting => port[r] # None
    /\ \A r, s \in Of(p) : r # s /\ port[r] # None => port[r] # port[s]
    /\ phase[p] # "off" /\ p \notin interrupted =>
          \A r \in Of(p) : port[r] # None => port[r] \in reserved[p]

\* The set gives back what it took, and an engine has a task that knows it.
OwnedOK(p) ==
    /\ reserved[p] = allocated[p]
    /\ \A r \in Of(p) :
          Alive(r) => task[r] \in {"readying", "asking", "discarding", "ready"}

\* how far the tasks can be in each phase
PhaseOK(p) ==
    /\ phase[p] = "off" => reserved[p] = {} /\ \A r \in Of(p) : ~Alive(r)
    /\ phase[p] = "new" => \A r \in Of(p) : task[r] = "none"
    /\ phase[p] \in {"new", "first"} =>
          listed[p] = {} /\ next[p] = 1 /\ \A r \in Later(p) : task[r] = "none"
    /\ phase[p] \in {"staggering", "gathering"} =>
          listed[p] = {<<p, 0>>} /\ task[<<p, 0>>] = "ready"
    /\ phase[p] = "staggering" =>
          /\ next[p] \in 1 .. Count - 1
          /\ \A r \in Of(p) : r[2] >= next[p] => task[r] = "none"
    /\ phase[p] \in {"off", "stopping", "up"} =>
          \A r \in Of(p) : task[r] \notin Awaiting
    /\ phase[p] \in {"stopping", "up"} =>
          \A r \in Of(p) : task[r] = "ready" => r \in listed[p]
    /\ phase[p] = "up" => listed[p] = Of(p) /\ \A r \in Of(p) : task[r] = "ready"

StartOK(p) ==
    /\ PortsOK(p)
    /\ p \notin interrupted => OwnedOK(p) /\ PhaseOK(p)
    /\ p \in interrupted => phase[p] \in {"stopping", "off"}

StartInv == TypeOK /\ \A p \in Pilots : StartOK(p)

-----------------------------------------------------------------------------
(* Replicas and their processes                                            *)

\* A replica belongs to one process; each process has a first replica.
LEMMA Belongs ==
    /\ \A r \in Replicas : r[1] \in Pilots /\ r[2] \in 0 .. Count - 1 /\ r \in Of(r[1])
    /\ \A p \in Pilots : <<p, 0>> \in Of(p)
    /\ \A p \in Pilots : \A i \in 0 .. Count - 1 : <<p, i>> \in Of(p)
    /\ \A p \in Pilots : \A r \in Of(p) : r \in Replicas /\ r[1] = p
BY CountAssumption DEF Replicas, Of

\* A step that does nothing to a process but let engines die keeps its part of
\* the invariant.
LEMMA Frame ==
    ASSUME NEW p \in Pilots, StartOK(p),
           reserved'[p] = reserved[p], allocated'[p] = allocated[p],
           phase'[p] = phase[p], next'[p] = next[p], listed'[p] = listed[p],
           p \in interrupted' <=> p \in interrupted,
           \A r \in Of(p) : task'[r] = task[r] /\ port'[r] = port[r],
           \A r \in Of(p) : Alive(r)' => Alive(r)
    PROVE  StartOK(p)'
<1>1. Of(p)' = Of(p) /\ Later(p)' = Later(p)
    BY DEF Of, Later
<1>2. <<p, 0>> \in Of(p) /\ Later(p) \subseteq Of(p)
    BY Belongs DEF Later
<1>3. PortsOK(p)'
    BY <1>1 DEF StartOK, PortsOK
<1>4. ASSUME p \notin interrupted PROVE OwnedOK(p)' /\ PhaseOK(p)'
  <2>1. OwnedOK(p)'
      BY <1>1, <1>4 DEF StartOK, OwnedOK
  <2>2. PhaseOK(p)'
      BY <1>1, <1>2, <1>4 DEF StartOK, PhaseOK
  <2> QED BY <2>1, <2>2
<1> QED BY <1>3, <1>4 DEF StartOK

LEMMA StartInit == Init => StartInv
<1> SUFFICES ASSUME Init PROVE StartInv
    OBVIOUS
<1>1. TypeOK
    BY RangeAssumption, PilotAssumption, CountAssumption
    DEF Init, TypeOK, Ports, Phases, Tasks
<1>2. ASSUME NEW p \in Pilots PROVE StartOK(p)
    BY <1>2, Belongs DEF Init, StartOK, PortsOK, OwnedOK, PhaseOK, Alive, Awaiting, Later
<1> QED BY <1>1, <1>2 DEF StartInv

-----------------------------------------------------------------------------
(* Launch tasks and engines                                                *)

\* A task that waits goes on, or ends with its engine gone or handed over.
LEMMA TaskMoves ==
    ASSUME StartInv, NEW r \in Replicas, NEW w \in Tasks \ {"none"},
           task[r] \in Awaiting, task' = [task EXCEPT ![r] = w],
           \A s \in Replicas \ {r} : engine'[s] = engine[s],
           r[1] \notin interrupted =>
              (Alive(r)' => w \in {"readying", "asking", "discarding", "ready"}),
           UNCHANGED <<allocatorVars, setVars, port>>
    PROVE  \A p \in Pilots : StartOK(p)'
<1> SUFFICES ASSUME NEW p \in Pilots PROVE StartOK(p)'
    OBVIOUS
<1> USE DEF allocatorVars, setVars
<1>1. StartOK(p) /\ Of(p)' = Of(p) /\ Later(p)' = Later(p) /\ Of(p) \subseteq Replicas
    BY Belongs DEF StartInv, Of, Later
<1>2. task'[r] = w /\ \A s \in Replicas \ {r} : task'[s] = task[s]
    BY DEF StartInv, TypeOK
<1>3. \A s \in Replicas \ {r} : Alive(s)' <=> Alive(s)
    BY DEF Alive
<1>4. CASE r \notin Of(p)
    BY <1>1, <1>2, <1>3, <1>4, Frame
<1>5. CASE r \in Of(p)
  <2>1. p = r[1]
      BY <1>5, Belongs
  <2>2. PortsOK(p)'
      BY <1>1, <1>2, <1>3 DEF StartOK, PortsOK
  <2>3. ASSUME p \notin interrupted PROVE OwnedOK(p)'
      BY <1>1, <1>2, <1>3, <2>1, <2>3 DEF StartOK, OwnedOK
  <2>4. ASSUME p \notin interrupted PROVE PhaseOK(p)'
    <3>1. phase[p] \notin {"off", "new", "stopping", "up"}
        BY <1>1, <1>5, <2>4 DEF StartOK, PhaseOK, Awaiting
    <3>2. phase[p] = "first" => r \notin Later(p)
        BY <1>1, <2>4 DEF StartOK, PhaseOK, Awaiting
    <3>3. phase[p] \in {"staggering", "gathering"} => r # <<p, 0>>
        BY <1>1, <2>4 DEF StartOK, PhaseOK, Awaiting
    <3>4. phase[p] = "staggering" => ~(r[2] >= next[p])
        BY <1>1, <1>5, <2>4 DEF StartOK, PhaseOK, Awaiting
    <3>5. <<p, 0>> \in Replicas /\ Later(p) \subseteq Replicas
        BY Belongs DEF Later
    <3> QED BY <1>1, <1>2, <2>4, <3>1, <3>2, <3>3, <3>4, <3>5 DEF StartOK, PhaseOK
  <2> QED BY <1>1, <2>2, <2>3, <2>4 DEF StartOK
<1> QED BY <1>4, <1>5

\* One lemma serves for all the steps of a launch task.
LEMMA TaskSteps ==
    ASSUME StartInv, NEW r \in Replicas,
           LaunchStep(r) \/ NotAnswered(r) \/ TimedOut(r)
    PROVE  \A p \in Pilots : StartOK(p)'
<1> USE DEF Tasks, Awaiting
<1>1. r[1] \in Pilots /\ r \in Of(r[1]) /\ StartOK(r[1])
    BY Belongs DEF StartInv
<1>2. r[1] \notin interrupted /\ task[r] = "launching" => ~Alive(r)
    BY <1>1 DEF StartOK, OwnedOK
<1>3. engine \in [Replicas -> {"none", "loading", "listening", "gone"}]
    BY DEF StartInv, TypeOK
<1>4. CASE Launched(r)
    BY <1>3, <1>4, TaskMoves DEF Launched, Becomes, Alive
<1>5. CASE LaunchFails(r)
    BY <1>2, <1>5, TaskMoves DEF LaunchFails, Becomes, Alive
<1>6. CASE Poll(r)
    BY <1>6, TaskMoves DEF Poll, Becomes
<1>7. CASE Answered(r)
    BY <1>7, TaskMoves DEF Answered, Becomes
<1>8. CASE NotAnswered(r)
    BY <1>8, TaskMoves DEF NotAnswered, Becomes
<1>9. CASE TimedOut(r)
    BY <1>9, TaskMoves DEF TimedOut, Becomes
<1>10. CASE Discarded(r)
    BY <1>3, <1>10, TaskMoves DEF Discarded, Becomes, Alive
<1> QED BY <1>4, <1>5, <1>6, <1>7, <1>8, <1>9, <1>10 DEF LaunchStep

\* Engines come to life only by Launched.
LEMMA EngineSteps ==
    ASSUME StartInv, NEW r \in Replicas, Binds(r) \/ Dies(r)
    PROVE  \A p \in Pilots : StartOK(p)'
<1>1. \A s \in Replicas : Alive(s)' => Alive(s)
    BY DEF StartInv, TypeOK, Binds, Dies, Alive
<1>2. UNCHANGED <<allocatorVars, setVars, task, port>>
    BY DEF Binds, Dies
<1> QED BY <1>1, <1>2, Frame, Belongs DEF StartInv, allocatorVars, setVars

-----------------------------------------------------------------------------
(* start and stop                                                          *)

LEMMA CreateStep == ASSUME StartInv, NEW q \in Pilots, Create(q)
                    PROVE  \A p \in Pilots : StartOK(p)'
<1> SUFFICES ASSUME NEW p \in Pilots PROVE StartOK(p)'
    OBVIOUS
<1> USE DEF Create, GoTo, allocatorVars
<1>1. StartOK(p) /\ StartOK(q) /\ Of(p)' = Of(p) /\ Later(p)' = Later(p)
    BY DEF StartInv, Of, Later
<1>2. phase' = [phase EXCEPT ![q] = "new"] /\ phase \in [Pilots -> Phases]
    BY DEF StartInv, TypeOK
<1>3. \A r \in Of(p) : r \in Replicas /\ (r \in Of(q) <=> p = q)
    BY Belongs
<1>4. \A r \in Of(p) : Alive(r)' <=> Alive(r)
    BY DEF Alive
<1>5. CASE p # q
    BY <1>1, <1>2, <1>3, <1>4, <1>5, Frame DEF StartInv, TypeOK
<1>6. CASE p = q
  <2>1. q \notin interrupted /\ phase[q] = "off" /\ reserved[q] = {}
        /\ \A r \in Of(q) : ~Alive(r)
      BY <1>1 DEF StartOK, PhaseOK
  <2>2. phase'[p] = "new" /\ listed'[p] = {} /\ next'[p] = 1 /\ allocated'[p] = {} /\ reserved'[p] = {}
        /\ interrupted' = interrupted
      BY <1>2, <1>6, <2>1 DEF StartInv, TypeOK
  <2>3. \A r \in Of(p) : task'[r] = "none" /\ port'[r] = None /\ ~Alive(r)'
      BY <1>3, <1>4, <1>6, <2>1
  <2>4. PortsOK(p)'
      BY <1>1, <2>2, <2>3 DEF PortsOK, Awaiting
  <2>5. OwnedOK(p)'
      BY <1>1, <2>2, <2>3 DEF OwnedOK
  <2>6. PhaseOK(p)'
      BY <1>1, <2>2, <2>3 DEF PhaseOK, Later
  <2> QED BY <1>6, <2>1, <2>2, <2>4, <2>5, <2>6 DEF StartOK
<1> QED BY <1>5, <1>6

\* A launch begins in a set that is being started: it takes a port nobody in
\* the set has, or fails, and changes nothing else.
LEMMA LaunchBegins ==
    ASSUME StartInv, NEW r \in Replicas, BeginLaunch(r),
           r[1] \notin interrupted, phase[r[1]] \in {"new", "staggering"},
           engine' = engine, interrupted' = interrupted
    PROVE  /\ \E w \in {"launching", "failed"} : task' = [task EXCEPT ![r] = w]
           /\ \A p \in Pilots \ {r[1]} :
                 reserved'[p] = reserved[p] /\ allocated'[p] = allocated[p]
           /\ \A s \in Replicas \ {r} : port'[s] = port[s] /\ task'[s] = task[s]
           /\ PortsOK(r[1])'
           /\ reserved'[r[1]] = allocated'[r[1]]
<1> DEFINE p == r[1]
<1>1. p \in Pilots /\ r \in Of(p) /\ Of(p) \subseteq Replicas /\ Of(p)' = Of(p) /\ StartOK(p)
    BY Belongs DEF StartInv, Of
<1>2. /\ \A s \in Of(p) : Alive(s) \/ task[s] \in Awaiting => port[s] # None
      /\ \A s, t \in Of(p) : s # t /\ port[s] # None => port[s] # port[t]
      /\ \A s \in Of(p) : port[s] # None => port[s] \in reserved[p]
      /\ reserved[p] = allocated[p]
    BY <1>1 DEF StartOK, PortsOK, OwnedOK
<1>3. \A s \in Replicas : Alive(s)' <=> Alive(s)
    BY DEF Alive
<1>4. CASE \E q \in Ports :
              /\ Allocate(p, q)
              /\ allocated' = [allocated EXCEPT ![p] = @ \cup {q}]
              /\ port' = [port EXCEPT ![r] = q]
              /\ Becomes(r, "launching")
  <2>1. PICK q \in Ports :
              /\ Allocate(p, q)
              /\ allocated' = [allocated EXCEPT ![p] = @ \cup {q}]
              /\ port' = [port EXCEPT ![r] = q]
              /\ task' = [task EXCEPT ![r] = "launching"]
      BY <1>4 DEF Becomes
  <2>2. q \notin reserved[p] /\ reserved' = [reserved EXCEPT ![p] = @ \cup {q}]
      BY <2>1 DEF Allocate, Free
  <2>3. /\ reserved'[p] = reserved[p] \cup {q} /\ allocated'[p] = allocated[p] \cup {q}
        /\ port'[r] = q /\ task'[r] = "launching"
        /\ \A s \in Replicas \ {r} : port'[s] = port[s] /\ task'[s] = task[s]
        /\ \A o \in Pilots \ {p} : reserved'[o] = reserved[o] /\ allocated'[o] = allocated[o]
      BY <1>1, <2>1, <2>2 DEF StartInv, TypeOK
  <2>4. q # None
      BY NonePort DEF Ports
  <2>5. PortsOK(p)'
    <3>1. \A s \in Of(p) : Alive(s)' \/ task'[s] \in Awaiting => port'[s] # None
        BY <1>1, <1>2, <1>3, <2>3, <2>4
    <3>2. \A s, t \in Of(p) : s # t /\ port'[s] # None => port'[s] # port'[t]
        BY <1>1, <1>2, <2>2, <2>3
    <3>3. \A s \in Of(p) : port'[s] # None => port'[s] \in reserved'[p]
        BY <1>1, <1>2, <2>3
    <3> QED BY <1>1, <3>1, <3>2, <3>3 DEF PortsOK
  <2> QED BY <1>2, <2>1, <2>3, <2>5
<1>5. CASE Becomes(r, "failed") /\ UNCHANGED <<allocatorVars, allocated, port>>
  <2>1. task' = [task EXCEPT ![r] = "failed"] /\ reserved' = reserved
      BY <1>5 DEF Becomes, allocatorVars
  <2>2. task'[r] = "failed" /\ \A s \in Replicas \ {r} : task'[s] = task[s]
      BY <2>1 DEF StartInv, TypeOK
  <2>3. PortsOK(p)'
      BY <1>1, <1>2, <1>3, <1>5, <2>1, <2>2 DEF PortsOK, Awaiting
  <2> QED BY <1>2, <1>5, <2>1, <2>2, <2>3
<1> QED BY <1>4, <1>5 DEF BeginLaunch

\* start is not at work in a process where it was cancelled.
LEMMA NotInterrupted ==
    ASSUME StartInv, NEW q \in Pilots, phase[q] \notin {"off", "stopping"}
    PROVE  q \notin interrupted /\ OwnedOK(q) /\ PhaseOK(q)
BY DEF StartInv, StartOK

LEMMA StartFirstStep == ASSUME StartInv, NEW q \in Pilots, StartFirst(q)
                        PROVE  \A p \in Pilots : StartOK(p)'
<1> SUFFICES ASSUME NEW p \in Pilots PROVE StartOK(p)'
    OBVIOUS
<1> DEFINE r == <<q, 0>>
<1>1. r \in Replicas /\ r[1] = q /\ r \in Of(q) /\ Of(q)' = Of(q) /\ Later(q)' = Later(q)
      /\ Of(p)' = Of(p) /\ Of(p) \subseteq Replicas
    BY Belongs DEF Of, Later
<1>2. q \notin interrupted /\ phase[q] = "new" /\ OwnedOK(q) /\ PhaseOK(q)
    BY NotInterrupted DEF StartFirst
<1>3. /\ \E w \in {"launching", "failed"} : task' = [task EXCEPT ![r] = w]
      /\ \A o \in Pilots \ {q} : reserved'[o] = reserved[o] /\ allocated'[o] = allocated[o]
      /\ \A s \in Replicas \ {r} : port'[s] = port[s] /\ task'[s] = task[s]
      /\ PortsOK(q)' /\ reserved'[q] = allocated'[q]
    BY <1>1, <1>2, LaunchBegins DEF StartFirst
<1>4. /\ phase'[q] = "first" /\ \A o \in Pilots \ {q} : phase'[o] = phase[o]
      /\ UNCHANGED <<next, listed, interrupted, engine>>
    BY DEF StartFirst, GoTo, StartInv, TypeOK
<1>5. CASE p # q
  <2>1. \A s \in Of(p) : s # r
      BY <1>5, Belongs
  <2>2. \A s \in Of(p) : Alive(s)' => Alive(s)
      BY <1>4 DEF Alive
  <2> QED BY <1>1, <1>3, <1>4, <1>5, <2>1, <2>2, Frame DEF StartInv
<1>6. CASE p = q
  <2>1. \A s \in Of(q) : task[s] = "none" /\ ~Alive(s)
      BY <1>2 DEF PhaseOK, OwnedOK
  <2>2. OwnedOK(q)'
      BY <1>1, <1>3, <1>4, <2>1 DEF OwnedOK, Alive
  <2>3. \A s \in Later(q) : s \in Replicas /\ s # r /\ task'[s] = "none"
      BY <1>1, <1>3, <2>1, Belongs DEF Later
  <2>4. PhaseOK(q)'
      BY <1>1, <1>2, <1>4, <2>3 DEF PhaseOK
  <2> QED BY <1>2, <1>3, <1>4, <1>6, <2>2, <2>4 DEF StartOK
<1> QED BY <1>5, <1>6

LEMMA SpawnStep == ASSUME StartInv, NEW q \in Pilots, Spawn(q)
                   PROVE  \A p \in Pilots : StartOK(p)'
<1> SUFFICES ASSUME NEW p \in Pilots PROVE StartOK(p)'
    OBVIOUS
<1> DEFINE r == <<q, next[q]>>
<1>1. q \notin interrupted /\ phase[q] = "staggering" /\ OwnedOK(q) /\ PhaseOK(q)
    BY NotInterrupted DEF Spawn
<1>2. next[q] \in 1 .. Count - 1
    BY <1>1 DEF PhaseOK
<1>3. r \in Replicas /\ r[1] = q /\ r \in Of(q) /\ Of(q)' = Of(q) /\ Later(q)' = Later(q)
      /\ Of(p)' = Of(p) /\ Of(p) \subseteq Replicas /\ r # <<q, 0>>
    BY <1>2, Belongs DEF Of, Later, Replicas
<1>4. /\ \E w \in {"launching", "failed"} : task' = [task EXCEPT ![r] = w]
      /\ \A o \in Pilots \ {q} : reserved'[o] = reserved[o] /\ allocated'[o] = allocated[o]
      /\ \A s \in Replicas \ {r} : port'[s] = port[s] /\ task'[s] = task[s]
      /\ PortsOK(q)' /\ reserved'[q] = allocated'[q]
    BY <1>1, <1>3, LaunchBegins DEF Spawn
<1>5. /\ phase'[q] = IF next[q] = Count - 1 THEN "gathering" ELSE "staggering"
      /\ next'[q] = next[q] + 1
      /\ \A o \in Pilots \ {q} : phase'[o] = phase[o] /\ next'[o] = next[o]
      /\ UNCHANGED <<listed, interrupted, engine>>
    BY DEF Spawn, GoTo, StartInv, TypeOK
<1>6. CASE p # q
  <2>1. \A s \in Of(p) : s # r
      BY <1>6, Belongs
  <2>2. \A s \in Of(p) : Alive(s)' => Alive(s)
      BY <1>5 DEF Alive
  <2> QED BY <1>3, <1>4, <1>5, <1>6, <2>1, <2>2, Frame DEF StartInv
<1>7. CASE p = q
  <2>1. task[r] = "none" /\ ~Alive(r)
      BY <1>1, <1>2, <1>3 DEF PhaseOK, OwnedOK
  <2>2. OwnedOK(q)'
      BY <1>1, <1>3, <1>4, <1>5, <1>7, <2>1 DEF OwnedOK, Alive
  <2>3. listed'[q] = {<<q, 0>>} /\ task'[<<q, 0>>] = "ready"
      BY <1>1, <1>3, <1>4, <1>5, Belongs DEF PhaseOK
  <2>4. ASSUME phase'[q] = "staggering"
        PROVE  /\ next'[q] \in 1 .. Count - 1
               /\ \A s \in Of(q) : s[2] >= next'[q] => task'[s] = "none"
    <3>1. next'[q] \in 1 .. Count - 1
        BY <1>2, <1>5, <2>4, CountAssumption
    <3>2. ASSUME NEW s \in Of(q), s[2] >= next'[q] PROVE task'[s] = "none"
      <4>1. s \in Replicas /\ s[2] \in Nat /\ s # r /\ s[2] >= next[q]
          BY <1>2, <1>5, <3>2, Belongs
      <4> QED BY <1>1, <1>4, <4>1 DEF PhaseOK
    <3> QED BY <3>1, <3>2
  <2>5. PhaseOK(q)'
      BY <1>3, <1>5, <2>3, <2>4 DEF PhaseOK
  <2> QED BY <1>1, <1>4, <1>5, <1>7, <2>2, <2>5 DEF StartOK
<1> QED BY <1>6, <1>7

\* The steps of start between its launches only move the phase and the list.
LEMMA PhaseMoves ==
    ASSUME StartInv, NEW q \in Pilots, q \notin interrupted,
           NEW where \in {"stopping", "up", "staggering"},
           phase[q] # "off", GoTo(q, where),
           \A p \in Pilots \ {q} : listed'[p] = listed[p],
           UNCHANGED <<allocatorVars, next, allocated, interrupted, task, port, engine>>,
           OwnedOK(q) => PhaseOK(q)'
    PROVE  \A p \in Pilots : StartOK(p)'
<1> SUFFICES ASSUME NEW p \in Pilots PROVE StartOK(p)'
    OBVIOUS
<1>1. StartOK(p) /\ Of(p)' = Of(p) /\ \A r \in Of(p) : Alive(r)' <=> Alive(r)
    BY DEF StartInv, Of, Alive
<1>2. phase'[q] = where /\ \A o \in Pilots \ {q} : phase'[o] = phase[o]
    BY DEF GoTo, StartInv, TypeOK
<1>3. CASE p # q
    BY <1>1, <1>2, <1>3, Frame DEF allocatorVars
<1>4. CASE p = q
  <2>1. PortsOK(q)'
      BY <1>1, <1>2, <1>4 DEF StartOK, PortsOK, allocatorVars
  <2>2. OwnedOK(q) /\ OwnedOK(q)'
      BY <1>1, <1>4 DEF StartOK, OwnedOK, allocatorVars
  <2> QED BY <1>4, <2>1, <2>2 DEF StartOK
<1> QED BY <1>3, <1>4

LEMMA StartSteps ==
    ASSUME StartInv, NEW q \in Pilots,
           FirstFails(q) \/ FirstReady(q) \/ Gathered(q) \/ Close(q)
    PROVE  \A p \in Pilots : StartOK(p)'
<1>1. q \notin interrupted /\ PhaseOK(q)
    BY NotInterrupted DEF FirstFails, FirstReady, Gathered, Close
<1>2. /\ Of(q)' = Of(q) /\ Later(q)' = Later(q) /\ <<q, 0>> \in Of(q)
      /\ Of(q) = Later(q) \cup {<<q, 0>>}
    BY Belongs DEF Of, Later
<1>3. CASE FirstFails(q)
  <2>1. phase'[q] = "stopping"
      BY <1>3 DEF FirstFails, GoTo, StartInv, TypeOK
  <2>2. PhaseOK(q)'
      BY <1>1, <1>2, <1>3, <2>1 DEF FirstFails, PhaseOK, Awaiting
  <2> QED BY <1>1, <1>3, <2>2, PhaseMoves DEF FirstFails
<1>4. CASE FirstReady(q)
  <2>1. phase'[q] = (IF Count = 1 THEN "up" ELSE "staggering") /\ listed'[q] = {<<q, 0>>}
        /\ UNCHANGED <<task, next>>
      BY <1>1, <1>4 DEF FirstReady, GoTo, StartInv, TypeOK, PhaseOK
  <2>2. ASSUME Count = 1 PROVE Of(q) = {<<q, 0>>}
      BY <2>2 DEF Of, Replicas
  <2>3. next[q] = 1
      BY <1>1, <1>4 DEF FirstReady, PhaseOK
  <2>4. PhaseOK(q)'
      BY <1>1, <1>2, <1>4, <2>1, <2>2, <2>3, CountAssumption, Belongs
      DEF FirstReady, PhaseOK, Awaiting
  <2> QED BY <1>1, <1>4, <2>4, PhaseMoves DEF FirstReady, StartInv, TypeOK
<1>5. CASE Gathered(q)
  <2>1. phase'[q] = (IF GoodOnes(q) = Later(q) THEN "up" ELSE "stopping")
        /\ listed'[q] = listed[q] \cup GoodOnes(q) /\ UNCHANGED task
      BY <1>5 DEF Gathered, GoTo, StartInv, TypeOK
  <2>2. listed[q] = {<<q, 0>>} /\ task[<<q, 0>>] = "ready"
      BY <1>1, <1>5 DEF Gathered, PhaseOK
  <2>3. PhaseOK(q)'
      BY <1>1, <1>2, <1>5, <2>1, <2>2 DEF Gathered, GoodOnes, PhaseOK, Awaiting
  <2> QED BY <1>1, <1>5, <2>3, PhaseMoves DEF Gathered, StartInv, TypeOK
<1>6. CASE Close(q)
  <2>1. phase'[q] = "stopping"
      BY <1>6 DEF Close, GoTo, StartInv, TypeOK
  <2>2. PhaseOK(q)'
      BY <1>1, <1>2, <1>6, <2>1 DEF Close, PhaseOK
  <2> QED BY <1>1, <1>6, <2>2, PhaseMoves DEF Close
<1> QED BY <1>3, <1>4, <1>5, <1>6

LEMMA StoppedStep == ASSUME StartInv, NEW q \in Pilots, Stopped(q)
                     PROVE  \A p \in Pilots : StartOK(p)'
<1> SUFFICES ASSUME NEW p \in Pilots PROVE StartOK(p)'
    OBVIOUS
<1>1. StartOK(p) /\ Of(p)' = Of(p) /\ Of(p) \subseteq Replicas
    BY Belongs DEF StartInv, Of
<1>2. \A r \in Of(p) : Alive(r)' => Alive(r) /\ r \notin listed[q]
    BY <1>1 DEF Stopped, Alive
<1>3. /\ phase[q] = "stopping" /\ phase'[q] = "off"
      /\ reserved'[q] = reserved[q] \ allocated[q] /\ allocated'[q] = {}
      /\ \A o \in Pilots \ {q} :
            phase'[o] = phase[o] /\ reserved'[o] = reserved[o] /\ allocated'[o] = allocated[o]
      /\ UNCHANGED <<next, listed, interrupted, task, port>>
    BY DEF Stopped, GoTo, StartInv, TypeOK
<1>4. CASE p # q
    BY <1>1, <1>2, <1>3, <1>4, Frame
<1>5. CASE p = q
  <2>1. PortsOK(q)'
      BY <1>1, <1>2, <1>3, <1>5 DEF StartOK, PortsOK
  <2>2. ASSUME q \notin interrupted PROVE OwnedOK(q)' /\ PhaseOK(q)'
    <3>1. OwnedOK(q) /\ PhaseOK(q)
        BY <1>1, <1>5, <2>2 DEF StartOK
    <3>2. reserved'[q] = {}
        BY <1>3, <3>1 DEF OwnedOK
    <3>3. \A r \in Of(q) : ~Alive(r)'
        BY <1>2, <1>3, <1>5, <3>1 DEF OwnedOK, PhaseOK, Awaiting
    <3> QED BY <1>1, <1>3, <1>5, <3>1, <3>2, <3>3 DEF OwnedOK, PhaseOK
  <2> QED BY <1>3, <1>5, <2>1, <2>2 DEF StartOK
<1> QED BY <1>4, <1>5

LEMMA InterruptStep == ASSUME StartInv, NEW q \in Pilots, Interrupt(q)
                       PROVE  \A p \in Pilots : StartOK(p)'
<1> SUFFICES ASSUME NEW p \in Pilots PROVE StartOK(p)'
    OBVIOUS
<1>1. StartOK(p) /\ Of(p)' = Of(p) /\ \A r \in Of(p) : Alive(r)' <=> Alive(r)
    BY DEF StartInv, Of, Alive, Interrupt
<1>2. \A r \in Of(p) : r \in Replicas /\ (r \in Of(q) <=> p = q)
    BY Belongs
<1>3. /\ phase'[q] \in {"off", "stopping"} /\ q \in interrupted'
      /\ \A o \in Pilots \ {q} :
            phase'[o] = phase[o] /\ (o \in interrupted' <=> o \in interrupted)
      /\ UNCHANGED <<allocatorVars, next, listed, allocated, port>>
    BY DEF Interrupt, GoTo, StartInv, TypeOK
<1>4. \A r \in Of(p) : task'[r] = task[r] \/ (p = q /\ task'[r] = "cancelled")
    BY <1>2 DEF Interrupt
<1>5. CASE p # q
    BY <1>1, <1>3, <1>4, <1>5, Frame DEF allocatorVars
<1>6. CASE p = q
  <2>1. PortsOK(q)'
      BY <1>1, <1>3, <1>4, <1>6 DEF StartOK, PortsOK, Awaiting
  <2> QED BY <1>3, <1>6, <2>1 DEF StartOK
<1> QED BY <1>5, <1>6

-----------------------------------------------------------------------------
(* The invariant                                                           *)

\* The types hold again after every step; the cursor stays in the range, and
\* start launches no more replicas than the plan has.
LEMMA TypeStep == StartInv /\ [Next]_vars => TypeOK'
<1> SUFFICES ASSUME StartInv, [Next]_vars PROVE TypeOK'
    OBVIOUS
<1> USE DEF Tasks, Awaiting, Phases, GoTo, Becomes, allocatorVars, setVars
<1>1. TypeOK
    BY DEF StartInv
<1>2. \A q \in Ports : After(q) \in Ports
    BY RangeAssumption DEF Ports, After
<1>3. ASSUME NEW r \in Replicas, BeginLaunch(r)
      PROVE  /\ reserved' \in [Pilots -> SUBSET Ports] /\ cursor' \in [Pilots -> Ports]
             /\ allocated' \in [Pilots -> SUBSET Ports] /\ task' \in [Replicas -> Tasks]
             /\ port' \in [Replicas -> Ports \cup {None}]
  <2>1. CASE NoPortFree(r[1]) /\ task' = [task EXCEPT ![r] = "failed"]
             /\ UNCHANGED <<allocatorVars, allocated, port>>
      BY <1>1, <2>1 DEF TypeOK
  <2>2. ASSUME NEW q \in Ports, Allocate(r[1], q),
               allocated' = [allocated EXCEPT ![r[1]] = @ \cup {q}],
               port' = [port EXCEPT ![r] = q], task' = [task EXCEPT ![r] = "launching"]
        PROVE  /\ reserved' \in [Pilots -> SUBSET Ports] /\ cursor' \in [Pilots -> Ports]
               /\ allocated' \in [Pilots -> SUBSET Ports] /\ task' \in [Replicas -> Tasks]
               /\ port' \in [Replicas -> Ports \cup {None}]
    <3>1. /\ cursor' = [cursor EXCEPT ![r[1]] = After(q)]
          /\ reserved' = [reserved EXCEPT ![r[1]] = @ \cup {q}]
        BY <2>2 DEF Allocate
    <3> QED BY <1>1, <1>2, <2>2, <3>1 DEF TypeOK
  <2> QED BY <1>3, <2>1, <2>2 DEF BeginLaunch
<1>4. CASE UNCHANGED vars
    BY <1>1, <1>4 DEF TypeOK, vars
<1>5. ASSUME NEW p \in Pilots, Create(p) PROVE TypeOK'
    BY <1>1, <1>5, CountAssumption, PilotAssumption DEF TypeOK, Create
<1>6. ASSUME NEW p \in Pilots, StartFirst(p) PROVE TypeOK'
    BY <1>1, <1>3, <1>6, Belongs DEF TypeOK, StartFirst
<1>7. ASSUME NEW p \in Pilots, FirstFails(p) \/ Close(p) PROVE TypeOK'
    BY <1>1, <1>7 DEF TypeOK, FirstFails, Close
<1>8. ASSUME NEW p \in Pilots, FirstReady(p) PROVE TypeOK'
    BY <1>1, <1>8, Belongs DEF TypeOK, FirstReady
<1>9. ASSUME NEW p \in Pilots, Spawn(p) PROVE TypeOK'
  <2>1. next[p] \in 1 .. Count - 1
      BY <1>9, NotInterrupted DEF Spawn, PhaseOK
  <2>2. <<p, next[p]>> \in Replicas /\ next[p] + 1 \in 0 .. Count
      BY <2>1, CountAssumption DEF Replicas
  <2> QED BY <1>1, <1>3, <1>9, <2>2 DEF TypeOK, Spawn
<1>10. ASSUME NEW p \in Pilots, Gathered(p) PROVE TypeOK'
    BY <1>1, <1>10, Belongs DEF TypeOK, Gathered, GoodOnes, Later
<1>11. ASSUME NEW p \in Pilots, Stopped(p) PROVE TypeOK'
    BY <1>1, <1>11 DEF TypeOK, Stopped
<1>12. ASSUME NEW p \in Pilots, Interrupt(p) PROVE TypeOK'
    BY <1>1, <1>12 DEF TypeOK, Interrupt
<1>13. ASSUME NEW r \in Replicas, LaunchStep(r) \/ NotAnswered(r) \/ TimedOut(r) PROVE TypeOK'
    BY <1>1, <1>13
    DEF TypeOK, LaunchStep, Launched, LaunchFails, Poll, Answered, Discarded, NotAnswered, TimedOut
<1>14. ASSUME NEW r \in Replicas, Binds(r) \/ Dies(r) PROVE TypeOK'
    BY <1>1, <1>14 DEF TypeOK, Binds, Dies
<1> QED BY <1>4, <1>5, <1>6, <1>7, <1>8, <1>9, <1>10, <1>11, <1>12, <1>13, <1>14
        DEF Next, StartStep

LEMMA StartStepInv == StartInv /\ [Next]_vars => StartInv'
<1> SUFFICES ASSUME StartInv, [Next]_vars PROVE \A p \in Pilots : StartOK(p)'
    BY TypeStep DEF StartInv
<1>1. CASE UNCHANGED vars
    BY <1>1, Frame, Belongs DEF StartInv, vars, allocatorVars, setVars, Alive
<1>2. ASSUME NEW q \in Pilots, Create(q) \/ StartStep(q) \/ Close(q) \/ Interrupt(q)
      PROVE  \A p \in Pilots : StartOK(p)'
    BY <1>2, CreateStep, StartFirstStep, SpawnStep, StartSteps, StoppedStep, InterruptStep
    DEF StartStep
<1>3. ASSUME NEW r \in Replicas,
             LaunchStep(r) \/ NotAnswered(r) \/ TimedOut(r) \/ Binds(r) \/ Dies(r)
      PROVE  \A p \in Pilots : StartOK(p)'
    BY <1>3, TaskSteps, EngineSteps
<1> QED BY <1>1, <1>2, <1>3 DEF Next

\* The invariant from which the rest follows.
THEOREM StartInvariant == Spec => []StartInv
BY StartInit, StartStepInv, PTL DEF Spec

\* The types, and a cursor that never leaves the range of ports.
THEOREM StartTypes == Spec => []TypeOK
<1>1. StartInv => TypeOK
    BY DEF StartInv
<1> QED BY StartInvariant, <1>1, PTL

\* No two engines of a process ever have the same port.
THEOREM AllocatorPromise == Spec => []PortsApart
<1>1. StartInv => PortsApart
    BY DEF StartInv, StartOK, PortsOK, PortsApart
<1> QED BY StartInvariant, <1>1, PTL

\* A failed start leaves no engine and no reserved port.
THEOREM FailedStartIsClean == Spec => []NothingLeft
<1>1. StartInv => NothingLeft
    BY DEF StartInv, StartOK, PhaseOK, NothingLeft
<1> QED BY StartInvariant, <1>1, PTL

\* A start that succeeds has listed every replica, each of which was ready.
THEOREM StartIsComplete == Spec => []UpIsComplete
<1>1. StartInv => UpIsComplete
    BY DEF StartInv, StartOK, PhaseOK, UpIsComplete
<1> QED BY StartInvariant, <1>1, PTL

\* start gives the caller the whole set, or nothing that lives or is reserved.
THEOREM StartAllOrNothing == Spec => []AllOrNothing
<1>1. UpIsComplete /\ NothingLeft => AllOrNothing
    BY DEF AllOrNothing
<1> QED BY <1>1, FailedStartIsClean, StartIsComplete, PTL

-----------------------------------------------------------------------------
(* Whose answer it was                                                     *)

\* One ServePilot process on the machine: with two, each has reservations of its own
\* and an engine may be answered for by an engine of the other.
OnePilot == \A p, q \in Pilots : p = q

LEMMA ReadyStep ==
    ASSUME OnePilot, StartInv, ReadyIsOwn, [Next]_vars PROVE ReadyIsOwn'
<1> SUFFICES ASSUME NEW r \in Replicas, task'[r] = "ready", engine'[r] = "loading"
             PROVE  FALSE
    BY DEF ReadyIsOwn
<1> USE DEF allocatorVars, setVars, Becomes
<1>1. /\ task \in [Replicas -> Tasks]
      /\ engine \in [Replicas -> {"none", "loading", "listening", "gone"}]
    BY DEF StartInv, TypeOK
\* Only an answer makes it ready, and what answers on its port is the replica itself.
<1>2. ASSUME NEW s \in Replicas, LaunchStep(s) \/ NotAnswered(s) \/ TimedOut(s)
      PROVE  FALSE
  <2>1. CASE Answered(s) /\ s = r
    <3>1. task[r] = "asking" /\ engine' = engine /\ Listeners(port[r]) # {}
        BY <2>1 DEF Answered
    <3>2. PICK l \in Replicas : engine[l] = "listening" /\ port[l] = port[r]
        BY <3>1 DEF Listeners
    <3>3. l # r /\ l \in Of(r[1]) /\ r \in Of(r[1]) /\ r[1] \in Pilots
        BY <3>1, <3>2, Belongs DEF OnePilot
    <3>4. PortsOK(r[1])
        BY <3>3 DEF StartInv, StartOK
    <3>5. port[r] # None
        BY <3>1, <3>3, <3>4 DEF PortsOK, Awaiting
    <3> QED BY <3>2, <3>3, <3>4, <3>5 DEF PortsOK
  <2>2. CASE Answered(s) /\ s # r
      BY <1>1, <2>2 DEF Answered, ReadyIsOwn
  <2>3. CASE Launched(s)
      BY <1>1, <2>3 DEF Launched, ReadyIsOwn
  <2>4. CASE LaunchFails(s) \/ Poll(s) \/ NotAnswered(s) \/ TimedOut(s) \/ Discarded(s)
      BY <1>1, <2>4 DEF LaunchFails, Poll, NotAnswered, TimedOut, Discarded, ReadyIsOwn
  <2> QED BY <1>2, <2>1, <2>2, <2>3, <2>4 DEF LaunchStep
<1>3. ASSUME NEW s \in Replicas, Binds(s) \/ Dies(s) PROVE FALSE
    BY <1>1, <1>3 DEF Binds, Dies, ReadyIsOwn
<1>4. ASSUME NEW q \in Pilots, Create(q) \/ StartStep(q) \/ Close(q) \/ Interrupt(q)
      PROVE  FALSE
  <2>1. ASSUME NEW s \in Replicas, BeginLaunch(s), engine' = engine PROVE FALSE
      BY <1>1, <2>1 DEF BeginLaunch, ReadyIsOwn
  <2>2. CASE StartFirst(q)
      BY <2>1, <2>2, Belongs DEF StartFirst
  <2>3. CASE Spawn(q)
    <3>1. next[q] \in 1 .. Count - 1
        BY <2>3, NotInterrupted DEF Spawn, PhaseOK
    <3> QED BY <2>1, <2>3, <3>1, Belongs, CountAssumption DEF Spawn
  <2>4. CASE Create(q)
      BY <1>1, <2>4 DEF Create, ReadyIsOwn
  <2>5. CASE FirstFails(q) \/ FirstReady(q) \/ Gathered(q) \/ Close(q)
      BY <2>5 DEF FirstFails, FirstReady, Gathered, Close, ReadyIsOwn
  <2>6. CASE Stopped(q)
      BY <1>1, <2>6 DEF Stopped, ReadyIsOwn
  <2>7. CASE Interrupt(q)
      BY <1>1, <2>7 DEF Interrupt, ReadyIsOwn
  <2> QED BY <1>4, <2>2, <2>3, <2>4, <2>5, <2>6, <2>7 DEF StartStep
<1>5. CASE UNCHANGED vars
    BY <1>5 DEF vars, ReadyIsOwn
<1> QED BY <1>2, <1>3, <1>4, <1>5 DEF Next

\* With one process on the machine nothing but its own engine answers for a replica:
\* one taken for ready has bound its port.
THEOREM ReadyEnginesListen == ASSUME OnePilot PROVE Spec => []ReadyIsOwn
<1>1. Init => ReadyIsOwn
    BY DEF Init, ReadyIsOwn
<1>2. StartInv /\ ReadyIsOwn /\ [Next]_vars => ReadyIsOwn'
    BY ReadyStep
<1> QED BY <1>1, <1>2, StartInvariant, PTL DEF Spec

=============================================================================
