---------------------------- MODULE CloudProofs ----------------------------
(***************************************************************************)
(* What a launch uploads, names and reports, for any number of launch      *)
(* commands, nodes, edits and polls.                                       *)
(*                                                                         *)
(* CommandOK follows one command from the digest it takes to the wheel it  *)
(* uploads, and says where it may have rented machines; WheelsOK says that *)
(* a wheel in the cache is at least as new as the sources its directory is *)
(* named for; MachineOK says that only a serving head is healthy, and that *)
(* a serving head is in Ray.                                               *)
(***************************************************************************)
EXTENDS Cloud, TLAPS, FiniteSetTheorems

CommandOK(l, c) ==
    /\ c.began <= checkout /\ c.digest <= checkout
    /\ c.at \in {"build", "task", "rent"} => c.began <= c.digest
    /\ c.at \in {"task", "rent"} => wheels[c.digest] # None
    /\ c.uploaded # None => c.at = "wait" /\ c.began <= c.uploaded
    /\ c.at = "rent" => l \in named
    /\ c.at # "ended" => c.result = None
    /\ l \in rented => /\ l \in named /\ c.at \in {"wait", "ended"}
                       /\ c.result \notin {"dry_run", "error"}

WheelsOK == \A v \in Versions: wheels[v] # None => v <= wheels[v]

MachineOK ==
    /\ job = None => script = Off /\ ~healthy
    /\ healthy => script[Head] = "serving"
    /\ script[Head] = "serving" => seen > 0
    /\ cluster # 0 => rented # {}

IInv == TypeOK /\ (\A l \in Launches: CommandOK(l, cmd[l])) /\ WheelsOK /\ MachineOK

LEMMA Constants ==
    /\ MaxEdits \in Nat /\ MaxNodes \in Nat /\ MaxUps \in Nat /\ WaitPolls \in Nat
    /\ JoinTries \in Nat /\ Head \in Nodes
BY CloudAssumption DEF Head, Nodes

LEMMA StartedTypes == Started \in Commands
BY Constants DEF Started, Commands, Versions, Outcomes

LEMMA InitInv == Init => IInv
<1> SUFFICES ASSUME Init PROVE IInv
  OBVIOUS
<1>1. TypeOK
  <2>1. /\ nodes \in Nodes /\ checkout \in Versions /\ wheels \in [Versions -> Versions \cup {None}]
        /\ cmd \in [Launches -> Commands]
    BY Constants, StartedTypes DEF Init, Versions
  <2>2. /\ named \in SUBSET Launches /\ rented \in SUBSET Launches
        /\ cluster \in 0..MaxUps /\ ups \in 0..MaxUps
        /\ queue \in SUBSET Launches /\ job \in Launches \cup {None}
    BY Constants DEF Init
  <2>3. /\ script \in [Nodes -> {"off", "start", "poll", "join", "joined", "serving", "failed"}]
        /\ tries \in [Nodes -> 0..JoinTries]
        /\ seen \in 0..MaxNodes /\ healthy \in BOOLEAN
    <3>1. Off \in [Nodes -> {"off", "start", "poll", "join", "joined", "serving", "failed"}]
      BY DEF Off
    <3>2. [n \in Nodes |-> JoinTries] \in [Nodes -> 0..JoinTries]
      BY Constants
    <3>3. 0 \in 0..MaxNodes
      BY Constants
    <3> QED
      BY <3>1, <3>2, <3>3 DEF Init
  <2> QED
    BY <2>1, <2>2, <2>3 DEF TypeOK
<1>2. \A l \in Launches: CommandOK(l, cmd[l])
  BY Constants, NoneAssumption DEF Init, CommandOK, Started
<1>3. WheelsOK
  BY DEF Init, WheelsOK
<1>4. MachineOK
  BY Constants DEF Init, MachineOK, Off
<1> QED
  BY <1>1, <1>2, <1>3, <1>4 DEF IInv

----------------------------------------------------------------------------
(* The commands                                                            *)

LEMMA CommandTypes ==
    ASSUME IInv, NEW l \in Launches
    PROVE  /\ cmd[l] \in Commands /\ CommandOK(l, cmd[l]) /\ checkout \in Nat
           /\ cmd[l].began \in Nat /\ cmd[l].digest \in Versions /\ cmd[l].digest \in Nat
BY Constants DEF IInv, TypeOK, Commands, Versions

\* A command moves on and leaves the machines and the sources alone.
LEMMA CommandMoves ==
    ASSUME IInv, NEW l \in Launches, cmd' \in [Launches -> Commands],
           \A m \in Launches \ {l}: cmd'[m] = cmd[m],
           nodes' = nodes, checkout' = checkout, wheels' = wheels, rented' = rented,
           machines' = machines,
           named' \in SUBSET Launches, named \subseteq named',
           CommandOK(l, cmd[l])'
    PROVE  IInv'
<1>1. TypeOK'
  BY DEF IInv, TypeOK, machines
<1>2. \A m \in Launches \ {l}: CommandOK(m, cmd[m])'
  BY DEF IInv, CommandOK, machines
<1>3. WheelsOK' /\ MachineOK'
  BY DEF IInv, WheelsOK, MachineOK, machines
<1> QED
  BY <1>1, <1>2, <1>3 DEF IInv

\* What Ends leaves of a command.
LEMMA EndsTypes ==
    ASSUME IInv, NEW l \in Launches, NEW result \in Outcomes, Ends(l, result)
    PROVE  /\ cmd' \in [Launches -> Commands]
           /\ \A m \in Launches \ {l}: cmd'[m] = cmd[m]
           /\ cmd'[l].at = "ended" /\ cmd'[l].result = result
           /\ cmd'[l].began = 0 /\ cmd'[l].digest = 0 /\ cmd'[l].uploaded = None
<1> DEFINE c == [Started EXCEPT !.at = "ended", !.result = result]
<1>1. /\ c \in Commands /\ c.at = "ended" /\ c.result = result
      /\ c.began = 0 /\ c.digest = 0 /\ c.uploaded = None
  BY Constants, StartedTypes DEF Started, Commands
<1>2. cmd' = [cmd EXCEPT ![l] = c] /\ cmd \in [Launches -> Commands]
  BY DEF Ends, IInv, TypeOK
<1> HIDE DEF c
<1> QED
  BY <1>1, <1>2

\* A command that has not rented may end in any way, one that has in any that says so.
LEMMA CommandEnds ==
    ASSUME IInv, NEW l \in Launches, NEW result \in Outcomes, Ends(l, result),
           nodes' = nodes, checkout' = checkout, wheels' = wheels, rented' = rented,
           machines' = machines, named' = named,
           result \in {"dry_run", "error"} => l \notin rented
    PROVE  IInv'
<1>1. CommandOK(l, cmd[l])'
  <2>1. /\ cmd'[l].at = "ended" /\ cmd'[l].result = result
        /\ cmd'[l].began = 0 /\ cmd'[l].digest = 0 /\ cmd'[l].uploaded = None
    BY EndsTypes
  <2>2. CommandOK(l, cmd[l]) /\ checkout \in Nat
    BY CommandTypes
  <2>3. checkout' = checkout /\ rented' = rented /\ named' = named
    OBVIOUS
  <2>4. l \in rented => l \in named /\ result \notin {"dry_run", "error"}
    BY <2>2 DEF CommandOK
  <2> QED
    BY <2>1, <2>2, <2>3, <2>4 DEF CommandOK
<1>2. named \in SUBSET Launches
  BY DEF IInv, TypeOK
<1> QED
  BY <1>1, <1>2, EndsTypes, CommandMoves

LEMMA PlanInv == ASSUME IInv, NEW l \in Launches, Plan(l) PROVE IInv'
<1>1. CASE Ends(l, "error")
  BY <1>1, CommandEnds, CommandTypes DEF Plan, CommandOK, Outcomes
<1>2. CASE cmd' = [cmd EXCEPT ![l].at = "package", ![l].began = checkout]
  <2> DEFINE new == [cmd[l] EXCEPT !.at = "package", !.began = checkout]
  <2>3. cmd[l] \in Commands /\ checkout \in Versions /\ cmd \in [Launches -> Commands]
    BY DEF IInv, TypeOK
  <2>4. /\ new \in Commands /\ new.at = "package" /\ new.began = checkout
        /\ new.digest = cmd[l].digest /\ new.uploaded = cmd[l].uploaded
        /\ new.result = cmd[l].result
    BY <2>3 DEF Commands
  <2>5. cmd' = [cmd EXCEPT ![l] = new]
    BY <1>2, <2>3
  <2> HIDE DEF new
  <2>1. /\ cmd' \in [Launches -> Commands] /\ \A m \in Launches \ {l}: cmd'[m] = cmd[m]
        /\ cmd'[l].at = "package" /\ cmd'[l].began = checkout
        /\ cmd'[l].digest = cmd[l].digest /\ cmd'[l].uploaded = cmd[l].uploaded
        /\ cmd'[l].result = cmd[l].result
    BY <2>3, <2>4, <2>5
  <2>2. CommandOK(l, cmd[l])'
    BY <2>1, CommandTypes DEF Plan, CommandOK
  <2> QED
    BY <2>1, <2>2, CommandMoves DEF Plan, IInv, TypeOK
<1> QED
  BY <1>1, <1>2 DEF Plan

LEMMA HashInv == ASSUME IInv, NEW l \in Launches, Hash(l) PROVE IInv'
<1>1. /\ cmd' \in [Launches -> Commands] /\ \A m \in Launches \ {l}: cmd'[m] = cmd[m]
      /\ cmd'[l].at = (IF wheels[checkout] = None THEN "build" ELSE "task")
      /\ cmd'[l].digest = checkout /\ cmd'[l].began = cmd[l].began
      /\ cmd'[l].uploaded = cmd[l].uploaded /\ cmd'[l].result = cmd[l].result
  BY DEF Hash, IInv, TypeOK, Commands
<1>2. CommandOK(l, cmd[l])'
  BY <1>1, CommandTypes DEF Hash, CommandOK
<1> QED
  BY <1>1, <1>2, CommandMoves DEF Hash, IInv, TypeOK

\* What a wheel is packed from is at least as new as what its directory is named for.
LEMMA BuildInv == ASSUME IInv, NEW l \in Launches, Build(l) PROVE IInv'
<1>1. CASE Ends(l, "error") /\ UNCHANGED wheels
  BY <1>1, CommandEnds, CommandTypes DEF Build, CommandOK, Outcomes
<1>2. CASE wheels' = [wheels EXCEPT ![cmd[l].digest] = checkout] /\ GoTo(l, "task")
  <2>1. /\ cmd' \in [Launches -> Commands] /\ \A m \in Launches \ {l}: cmd'[m] = cmd[m]
        /\ cmd'[l].at = "task" /\ cmd'[l].digest = cmd[l].digest
        /\ cmd'[l].began = cmd[l].began /\ cmd'[l].uploaded = cmd[l].uploaded
        /\ cmd'[l].result = cmd[l].result
    BY <1>2 DEF GoTo, IInv, TypeOK, Commands
  <2>2. UNCHANGED <<nodes, checkout, named, rented, machines>> /\ cmd[l].at = "build"
    BY DEF Build
  <2>3. /\ wheels' \in [Versions -> Versions \cup {None}]
        /\ wheels'[cmd[l].digest] = checkout
        /\ \A v \in Versions: wheels'[v] = IF v = cmd[l].digest THEN checkout ELSE wheels[v]
    BY <1>2, CommandTypes DEF IInv, TypeOK
  <2>4. checkout # None /\ cmd[l].digest <= checkout
    BY CommandTypes, CloudAssumption DEF CommandOK
  <2>5. TypeOK'
    BY <2>1, <2>2, <2>3 DEF IInv, TypeOK, machines
  <2>6. WheelsOK'
    BY <2>3, <2>4 DEF IInv, WheelsOK
  <2>7. \A m \in Launches: CommandOK(m, cmd[m])'
    <3>1. CommandOK(l, cmd[l])'
      BY <2>1, <2>2, <2>3, <2>4, CommandTypes DEF CommandOK
    <3>2. ASSUME NEW m \in Launches \ {l} PROVE CommandOK(m, cmd[m])'
      BY <2>1, <2>2, <2>3, <2>4, CommandTypes DEF CommandOK
    <3> QED
      BY <3>1, <3>2
  <2>8. MachineOK'
    BY <2>2 DEF IInv, MachineOK, machines
  <2> QED
    BY <2>5, <2>6, <2>7, <2>8 DEF IInv
<1> QED
  BY <1>1, <1>2 DEF Build

LEMMA WriteTaskInv == ASSUME IInv, NEW l \in Launches, WriteTask(l) PROVE IInv'
<1>1. ASSUME NEW result \in {"dry_run", "error"}, Ends(l, result) /\ UNCHANGED named
      PROVE  IInv'
  BY <1>1, CommandEnds, CommandTypes DEF WriteTask, CommandOK, Outcomes
<1>2. CASE GoTo(l, "rent") /\ named' = named \cup {l}
  <2>1. /\ cmd' \in [Launches -> Commands] /\ \A m \in Launches \ {l}: cmd'[m] = cmd[m]
        /\ cmd'[l].at = "rent" /\ cmd'[l].digest = cmd[l].digest
        /\ cmd'[l].began = cmd[l].began /\ cmd'[l].uploaded = cmd[l].uploaded
        /\ cmd'[l].result = cmd[l].result
    BY <1>2 DEF GoTo, IInv, TypeOK, Commands
  <2>2. CommandOK(l, cmd[l])'
    BY <1>2, <2>1, CommandTypes DEF WriteTask, CommandOK
  <2> QED
    BY <1>2, <2>1, <2>2, CommandMoves DEF WriteTask, IInv, TypeOK
<1> QED
  BY <1>1, <1>2 DEF WriteTask

LEMMA ProvisionTypes ==
    ASSUME IInv, Provision
    PROVE  cluster' \in 0..MaxUps /\ ups' \in 0..MaxUps
BY Constants DEF Provision, IInv, TypeOK

\* Only a command that has named its cluster gets to sky launch, and what it uploads
\* is the wheel its digest names.
LEMMA SkyLaunchInv == ASSUME IInv, NEW l \in Launches, SkyLaunch(l) PROVE IInv'
<1>1. /\ cmd[l].at = "rent" /\ rented' = rented \cup {l} /\ l \in named
      /\ UNCHANGED <<nodes, checkout, wheels, named, job, script, tries, seen, healthy>>
  BY CommandTypes DEF SkyLaunch, CommandOK, running
<1>2. /\ cmd' \in [Launches -> Commands] /\ \A m \in Launches \ {l}: cmd'[m] = cmd[m]
      /\ CommandOK(l, cmd[l])'
      /\ queue' \in SUBSET Launches /\ cluster' \in 0..MaxUps /\ ups' \in 0..MaxUps
  <2>1. CASE /\ Provision /\ queue' = queue \cup {l}
             /\ \E polls \in {0, WaitPolls}:
                  cmd' = [cmd EXCEPT ![l].uploaded = wheels[cmd[l].digest],
                                     ![l].at = "wait", ![l].polls = polls]
    <3>1. wheels[cmd[l].digest] \in Versions /\ cmd[l].began <= wheels[cmd[l].digest]
      BY <1>1, CommandTypes, Constants DEF IInv, TypeOK, CommandOK, WheelsOK, Versions
    <3>2. PICK polls \in {0, WaitPolls}:
            cmd' = [cmd EXCEPT ![l].uploaded = wheels[cmd[l].digest],
                               ![l].at = "wait", ![l].polls = polls]
      BY <2>1
    <3>3. polls \in 0..WaitPolls
      BY Constants
    <3>4. /\ cmd' \in [Launches -> Commands] /\ \A m \in Launches \ {l}: cmd'[m] = cmd[m]
          /\ cmd'[l].at = "wait" /\ cmd'[l].digest = cmd[l].digest
          /\ cmd'[l].began = cmd[l].began /\ cmd'[l].uploaded = wheels[cmd[l].digest]
          /\ cmd'[l].result = cmd[l].result
      <4> DEFINE w == wheels[cmd[l].digest]
                 c == [cmd[l] EXCEPT !.uploaded = w, !.at = "wait", !.polls = polls]
      <4>1. cmd \in [Launches -> Commands] /\ cmd[l] \in Commands
        BY DEF IInv, TypeOK
      <4>2. w \in Versions
        BY <3>1
      <4>3. cmd' = [cmd EXCEPT ![l] = c]
        BY <3>2, <4>1
      <4> HIDE DEF w
      <4>4. /\ c \in Commands /\ c.at = "wait" /\ c.uploaded = w
            /\ c.digest = cmd[l].digest /\ c.began = cmd[l].began /\ c.result = cmd[l].result
        BY <3>3, <4>1, <4>2 DEF Commands
      <4> HIDE DEF c
      <4> QED
        BY <4>1, <4>3, <4>4 DEF w
    <3>5. CommandOK(l, cmd[l])'
      BY <1>1, <3>1, <3>4, CommandTypes, NoneAssumption DEF CommandOK, Outcomes
    <3> QED
      BY <2>1, <3>4, <3>5, ProvisionTypes DEF IInv, TypeOK
  <2>2. CASE /\ Provision \/ UNCHANGED <<cluster, ups>>
             /\ Ends(l, "launch_failed") /\ UNCHANGED queue
    <3>1. CommandOK(l, cmd[l])'
      BY <1>1, <2>2, EndsTypes, CommandTypes DEF CommandOK, Outcomes
    <3> QED
      BY <2>2, <3>1, EndsTypes, ProvisionTypes DEF IInv, TypeOK, Outcomes
  <2> QED
    BY <2>1, <2>2 DEF SkyLaunch
<1>3. TypeOK'
  BY <1>1, <1>2 DEF IInv, TypeOK
<1>4. \A m \in Launches \ {l}: CommandOK(m, cmd[m])'
  BY <1>1, <1>2 DEF IInv, CommandOK
<1>5. WheelsOK' /\ MachineOK'
  BY <1>1 DEF IInv, WheelsOK, MachineOK
<1> QED
  BY <1>2, <1>3, <1>4, <1>5 DEF IInv

LEMMA WaitInv == ASSUME IInv, NEW l \in Launches, Lookup(l) \/ Probe(l) \/ GiveUp(l)
                 PROVE  IInv'
<1>1. CASE Ends(l, "endpoint") /\ Probe(l)
  BY <1>1, CommandEnds DEF Probe, Outcomes
<1>2. CASE GiveUp(l)
  BY <1>2, CommandEnds DEF GiveUp, Outcomes
<1>3. ASSUME cmd[l].at = "wait",
             \/ cmd[l].polls > 0 /\ cmd' = [cmd EXCEPT ![l].polls = @ - 1]
             \/ cluster # 0 /\ cmd' = [cmd EXCEPT ![l].url = cluster],
             UNCHANGED <<nodes, checkout, wheels, named, rented, machines>>
      PROVE  IInv'
  <2>1. cluster # 0 => cluster \in 1..MaxUps
    BY Constants DEF IInv, TypeOK
  <2>2. cmd[l].polls > 0 => cmd[l].polls - 1 \in 0..WaitPolls
    BY CommandTypes, Constants DEF Commands
  <2>3. /\ cmd' \in [Launches -> Commands] /\ \A m \in Launches \ {l}: cmd'[m] = cmd[m]
        /\ cmd'[l].at = cmd[l].at /\ cmd'[l].digest = cmd[l].digest
        /\ cmd'[l].began = cmd[l].began /\ cmd'[l].uploaded = cmd[l].uploaded
        /\ cmd'[l].result = cmd[l].result
    BY <1>3, <2>1, <2>2 DEF IInv, TypeOK, Commands
  <2>4. CommandOK(l, cmd[l])'
    BY <1>3, <2>3, CommandTypes DEF CommandOK
  <2> QED
    BY <1>3, <2>3, <2>4, CommandMoves DEF IInv, TypeOK
<1> QED
  BY <1>1, <1>2, <1>3 DEF Lookup, Probe

LEMMA InterruptInv == ASSUME IInv, NEW l \in Launches, Interrupt(l) PROVE IInv'
<1>1. CASE UNCHANGED <<rented, machines>>
  BY <1>1, CommandEnds DEF Interrupt, Outcomes
<1>2. CASE /\ cmd[l].at = "rent" /\ rented' = rented \cup {l}
           /\ Provision /\ queue' \in {queue, queue \cup {l}} /\ UNCHANGED running
  <2>1. /\ Ends(l, "interrupted") /\ l \in named
        /\ UNCHANGED <<nodes, checkout, wheels, named, job, script, tries, seen, healthy>>
    BY <1>2, CommandTypes DEF Interrupt, CommandOK, running
  <2>2. /\ cmd' \in [Launches -> Commands] /\ \A m \in Launches \ {l}: cmd'[m] = cmd[m]
        /\ CommandOK(l, cmd[l])'
    BY <1>2, <2>1, EndsTypes, CommandTypes DEF CommandOK, Outcomes
  <2>3. TypeOK'
    BY <1>2, <2>1, <2>2, ProvisionTypes DEF IInv, TypeOK
  <2>4. \A m \in Launches \ {l}: CommandOK(m, cmd[m])'
    BY <1>2, <2>1, <2>2 DEF IInv, CommandOK
  <2>5. WheelsOK' /\ MachineOK'
    BY <1>2, <2>1 DEF IInv, WheelsOK, MachineOK
  <2> QED
    BY <2>2, <2>3, <2>4, <2>5 DEF IInv
<1> QED
  BY <1>1, <1>2 DEF Interrupt

LEMMA EditInv == IInv /\ Edit => IInv'
<1> SUFFICES ASSUME IInv, Edit PROVE IInv'
  OBVIOUS
<1>1. checkout \in Nat /\ checkout' = checkout + 1 /\ checkout' \in Versions
  BY Constants DEF Edit, IInv, TypeOK, Versions
<1>2. UNCHANGED <<nodes, wheels, cmd, named, rented, machines>>
  BY DEF Edit
<1>3. ASSUME NEW l \in Launches PROVE CommandOK(l, cmd[l])'
  BY <1>1, <1>2, CommandTypes DEF CommandOK
<1> QED
  BY <1>1, <1>2, <1>3 DEF IInv, TypeOK, WheelsOK, MachineOK, machines

----------------------------------------------------------------------------
(* The machines                                                            *)

Places == {"off", "start", "poll", "join", "joined", "serving", "failed"}

\* A step of the machines leaves the commands alone.
LEMMA MachinesMove ==
    ASSUME IInv,
           UNCHANGED <<nodes, checkout, wheels, cmd, named, rented>>,
           cluster' \in 0..MaxUps, ups' \in 0..MaxUps,
           queue' \in SUBSET Launches, job' \in Launches \cup {None},
           script' \in [Nodes -> Places], tries' \in [Nodes -> 0..JoinTries],
           seen' \in 0..MaxNodes, healthy' \in BOOLEAN, MachineOK'
    PROVE  IInv'
<1>1. TypeOK'
  BY DEF IInv, TypeOK, Places
<1>2. \A l \in Launches: CommandOK(l, cmd[l])'
  BY DEF IInv, CommandOK
<1>3. WheelsOK'
  BY DEF IInv, WheelsOK
<1> QED
  BY <1>1, <1>2, <1>3 DEF IInv

LEMMA MachineTypes ==
    ASSUME IInv
    PROVE  /\ cluster \in 0..MaxUps /\ ups \in 0..MaxUps /\ queue \in SUBSET Launches
           /\ job \in Launches \cup {None} /\ script \in [Nodes -> Places]
           /\ tries \in [Nodes -> 0..JoinTries] /\ seen \in 0..MaxNodes /\ healthy \in BOOLEAN
           /\ nodes \in Nodes /\ MachineOK
BY DEF IInv, TypeOK, Places

LEMMA JobGoneTypes ==
    ASSUME JobGone
    PROVE  /\ job' = None /\ script' = Off /\ script' \in [Nodes -> Places]
           /\ tries' \in [Nodes -> 0..JoinTries] /\ seen' \in 0..MaxNodes /\ ~healthy'
           /\ healthy' \in BOOLEAN /\ script'[Head] = "off"
<1>1. Off \in [Nodes -> Places] /\ Off[Head] = "off"
  BY Constants DEF Off, Places
<1>2. [n \in Nodes |-> JoinTries] \in [Nodes -> 0..JoinTries]
  BY Constants
<1>3. 0 \in 0..MaxNodes
  BY Constants
<1> QED
  BY <1>1, <1>2, <1>3 DEF JobGone

LEMMA DownInv == IInv /\ Down => IInv'
<1> SUFFICES ASSUME IInv, Down PROVE IInv'
  OBVIOUS
<1>1. MachineOK'
  BY JobGoneTypes DEF Down, MachineOK
<1>2. cluster' \in 0..MaxUps
  BY Constants DEF Down
<1> QED
  BY <1>1, <1>2, JobGoneTypes, MachineTypes, MachinesMove DEF Down

LEMMA JobEndsInv == IInv /\ JobEnds => IInv'
<1> SUFFICES ASSUME IInv, JobEnds PROVE IInv'
  OBVIOUS
<1>1. MachineOK'
  BY JobGoneTypes, MachineTypes DEF JobEnds, MachineOK
<1> QED
  BY <1>1, JobGoneTypes, MachineTypes, MachinesMove DEF JobEnds

LEMMA StartJobInv == IInv /\ StartJob => IInv'
<1> SUFFICES ASSUME IInv, StartJob PROVE IInv'
  OBVIOUS
<1>1. /\ job = None /\ job' \in Launches /\ queue' \in SUBSET Launches /\ job' # None
      /\ UNCHANGED <<nodes, checkout, wheels, cmd, named, rented, cluster, ups, tries, seen,
                     healthy>>
  BY NoneAssumption, MachineTypes DEF StartJob
<1>2. script' \in [Nodes -> Places] /\ script'[Head] \in {"start", "off"}
  BY Constants DEF StartJob, Places
<1>3. MachineOK'
  <2>1. ~healthy /\ (cluster # 0 => rented # {})
    BY <1>1, MachineTypes DEF MachineOK
  <2>2. ~healthy'
    BY <1>1, <2>1
  <2>3. cluster' # 0 => rented' # {}
    BY <1>1, <2>1
  <2>4. script'[Head] # "serving" /\ job' # None
    BY <1>1, <1>2
  <2> QED
    BY <2>2, <2>3, <2>4 DEF MachineOK
<1> QED
  BY <1>1, <1>2, <1>3, MachineTypes, MachinesMove

\* A step of one node's script, which does not touch a serving head.
LEMMA ScriptMoves ==
    ASSUME IInv, InScript, NEW n \in Nodes, NEW place \in Places, Moves(n, place),
           script[n] # "off", place # "serving",
           tries' \in [Nodes -> 0..JoinTries], seen' = seen,
           n = Head => healthy' = FALSE, healthy' \in {healthy, FALSE}
    PROVE  IInv'
<1>1. /\ script' \in [Nodes -> Places] /\ script'[n] = place
      /\ \A m \in Nodes \ {n}: script'[m] = script[m]
  BY MachineTypes DEF Moves
<1>2. /\ UNCHANGED <<nodes, checkout, wheels, cmd, named, rented>>
      /\ UNCHANGED <<cluster, ups, queue, job>>
  BY DEF InScript
<1>3. job # None
  BY MachineTypes DEF MachineOK, Off
<1>4. MachineOK'
  <2>1. MachineOK /\ Head \in Nodes /\ healthy \in BOOLEAN
    BY Constants, MachineTypes
  <2>2. CASE n = Head
    <3>1. script'[Head] # "serving" /\ ~healthy'
      BY <1>1, <2>2
    <3>2. job' # None /\ (cluster' # 0 => rented' # {})
      BY <1>2, <1>3, <2>1 DEF MachineOK
    <3> QED
      BY <3>1, <3>2 DEF MachineOK
  <2>3. CASE n # Head
    <3>1. script'[Head] = script[Head]
      BY <1>1, <2>1, <2>3
    <3>2. healthy' => healthy
      BY <2>1
    <3>3. job' # None /\ (cluster' # 0 => rented' # {})
      BY <1>2, <1>3, <2>1 DEF MachineOK
    <3>4. /\ healthy' => script'[Head] = "serving"
          /\ script'[Head] = "serving" => seen' > 0
      BY <2>1, <3>1, <3>2 DEF MachineOK
    <3> QED
      BY <3>3, <3>4 DEF MachineOK
  <2> QED
    BY <2>2, <2>3
<1> QED
  BY <1>1, <1>2, <1>4, MachineTypes, MachinesMove

LEMMA PollsTypes ==
    ASSUME IInv, NEW n \in Nodes, tries[n] > 0, Polls(n)
    PROVE  tries' \in [Nodes -> 0..JoinTries] /\ script' = script
<1>1. tries \in [Nodes -> 0..JoinTries] /\ tries[n] - 1 \in 0..JoinTries
  BY MachineTypes, Constants
<1> QED
  BY <1>1 DEF Polls

LEMMA PollInv ==
    ASSUME IInv, InScript, NEW n \in Nodes, tries[n] > 0, Polls(n),
           UNCHANGED <<seen, healthy>>
    PROVE  IInv'
<1>1. tries' \in [Nodes -> 0..JoinTries] /\ script' = script
  BY PollsTypes
<1>2. UNCHANGED <<nodes, checkout, wheels, cmd, named, rented, cluster, ups, queue, job>>
  BY DEF InScript
<1>3. MachineOK'
  BY <1>1, <1>2, MachineTypes DEF MachineOK
<1> QED
  BY <1>1, <1>2, <1>3, MachineTypes, MachinesMove

\* The head is in the Ray it starts.
LEMMA InRaySize == Cardinality(InRay) \in 1..MaxNodes
<1>1. InRay \subseteq Nodes /\ Head \in InRay
  BY Constants DEF InRay
<1>2. IsFiniteSet(Nodes) /\ Cardinality(Nodes) = MaxNodes
  BY FS_Interval, Constants DEF Nodes
<1>3. IsFiniteSet(InRay) /\ Cardinality(InRay) <= MaxNodes
  BY <1>1, <1>2, FS_Subset
<1>4. Cardinality(InRay) \in Nat /\ Cardinality(InRay) # 0
  BY <1>1, <1>3, FS_CardinalityType, FS_EmptySet
<1> QED
  BY <1>3, <1>4, Constants

LEMMA HeadServesInv == IInv /\ HeadServes => IInv'
<1> SUFFICES ASSUME IInv, HeadServes PROVE IInv'
  OBVIOUS
<1>1. /\ script' \in [Nodes -> Places] /\ script'[Head] = "serving"
      /\ seen' = Cardinality(InRay) /\ script[Head] \in {"start", "poll"}
      /\ UNCHANGED <<nodes, checkout, wheels, cmd, named, rented, cluster, ups, queue, job,
                     tries, healthy>>
  BY Constants, MachineTypes DEF HeadServes, Moves, InScript, Places
<1>2. seen' \in 0..MaxNodes /\ seen' > 0
  BY <1>1, InRaySize, Constants
<1>3. job # None
  BY <1>1, Constants, MachineTypes DEF MachineOK, Off
<1>4. MachineOK'
  BY <1>1, <1>2, <1>3, MachineTypes DEF MachineOK
<1> QED
  BY <1>1, <1>2, <1>4, MachineTypes, MachinesMove

LEMMA ServeHealthyInv == IInv /\ ServeHealthy => IInv'
<1> SUFFICES ASSUME IInv, ServeHealthy PROVE IInv'
  OBVIOUS
<1>1. /\ script[Head] = "serving" /\ healthy' = TRUE
      /\ UNCHANGED <<nodes, checkout, wheels, cmd, named, rented, cluster, ups, queue, job,
                     script, tries, seen>>
  BY DEF ServeHealthy, InScript
<1>2. job # None
  BY <1>1, Constants, MachineTypes DEF MachineOK, Off
<1>3. MachineOK'
  BY <1>1, <1>2, MachineTypes DEF MachineOK
<1> QED
  BY <1>1, <1>3, MachineTypes, MachinesMove

LEMMA ScriptsInv == IInv /\ (Scripts \/ ServeExits) => IInv'
<1> SUFFICES ASSUME IInv, Scripts \/ ServeExits PROVE IInv'
  OBVIOUS
<1>1. ASSUME HeadStarts PROVE IInv'
  <2>1. PICK place \in {"poll", "failed"}: Moves(Head, place)
    BY <1>1 DEF HeadStarts
  <2>2. script[Head] = "start" /\ InScript /\ tries' = tries /\ seen' = seen /\ healthy' = healthy
    BY <1>1 DEF HeadStarts
  <2>3. ~healthy /\ tries \in [Nodes -> 0..JoinTries]
    BY <2>2, MachineTypes DEF MachineOK
  <2>4. healthy' = FALSE
    BY <2>2, <2>3, MachineTypes
  <2>5. place \in Places /\ script[Head] # "off" /\ place # "serving"
    BY <2>1, <2>2 DEF Places
  <2>6. tries' \in [Nodes -> 0..JoinTries]
    BY <2>2, <2>3
  <2> QED
    BY <2>1, <2>2, <2>4, <2>5, <2>6, Constants, ScriptMoves
<1>2. ASSUME HeadPolls PROVE IInv'
  BY <1>2, Constants, PollInv DEF HeadPolls
<1>3. ASSUME NEW n \in Workers, WorkerPolls(n) PROVE IInv'
  <2>1. n \in Nodes /\ n # Head
    BY MachineTypes, Constants DEF Workers, Nodes, Head
  <2>2. CASE Moves(n, "join") /\ UNCHANGED tries
    BY <1>3, <2>1, <2>2, MachineTypes, ScriptMoves DEF WorkerPolls, Places
  <2>3. CASE tries[n] > 0 /\ Polls(n)
    BY <1>3, <2>1, <2>3, PollInv DEF WorkerPolls
  <2> QED
    BY <1>3, <2>2, <2>3 DEF WorkerPolls
<1>4. ASSUME NEW n \in Workers, WorkerJoins(n) PROVE IInv'
  <2>1. n \in Nodes /\ n # Head
    BY MachineTypes, Constants DEF Workers, Nodes, Head
  <2> DEFINE place == IF HeadRayUp THEN "joined" ELSE "failed"
  <2>2. place \in {"joined", "failed"} /\ Moves(n, place)
    BY <1>4 DEF WorkerJoins
  <2>3. Moves(n, "joined") \/ Moves(n, "failed")
    BY <2>2
  <2> QED
    BY <1>4, <2>1, <2>3, MachineTypes, ScriptMoves DEF WorkerJoins, Places
<1>5. ASSUME ServeExits PROVE IInv'
  <2>1. /\ script[Head] = "serving" /\ Moves(Head, "failed") /\ healthy' = FALSE
        /\ InScript /\ tries' = tries /\ seen' = seen
    BY <1>5 DEF ServeExits
  <2> QED
    BY <2>1, Constants, MachineTypes, ScriptMoves DEF Places
<1> QED
  BY <1>1, <1>2, <1>3, <1>4, <1>5, HeadServesInv, JobEndsInv DEF Scripts

----------------------------------------------------------------------------
(* Theorems                                                                *)

LEMMA StepInv == IInv /\ [Next]_vars => IInv'
<1> SUFFICES ASSUME IInv, [Next]_vars PROVE IInv'
  OBVIOUS
<1>1. CASE UNCHANGED vars
  BY <1>1 DEF vars, IInv, TypeOK, CommandOK, WheelsOK, MachineOK
<1>2. ASSUME NEW l \in Launches, Command(l) \/ Interrupt(l) PROVE IInv'
  BY <1>2, PlanInv, HashInv, BuildInv, WriteTaskInv, SkyLaunchInv, WaitInv, InterruptInv
     DEF Command
<1>3. CASE Edit \/ Down \/ StartJob \/ Scripts \/ ServeHealthy \/ ServeExits
  BY <1>3, EditInv, DownInv, StartJobInv, ScriptsInv, ServeHealthyInv
<1> QED
  BY <1>1, <1>2, <1>3 DEF Next

\* The inductive invariant: commands, wheels and machines, at any moment of any number
\* of launches.
THEOREM Inductive == Spec => []IInv
BY InitInv, StepInv, PTL DEF Spec

\* The code a launch uploads has every edit made before the command was started.
THEOREM LocalFixesUploaded == Spec => []UploadsLocalFixes
<1>1. IInv => UploadsLocalFixes
  <2> SUFFICES ASSUME IInv PROVE UploadsLocalFixes
    OBVIOUS
  <2>1. ASSUME NEW l \in Launches, cmd[l].uploaded # None
        PROVE  cmd[l].uploaded >= cmd[l].began
    <3>1. cmd[l].uploaded \in Nat /\ cmd[l].began <= cmd[l].uploaded
      BY <2>1, CommandTypes, Constants DEF Commands, CommandOK, Versions
    <3> QED
      BY <3>1, CommandTypes
  <2> QED
    BY <2>1 DEF IInv, UploadsLocalFixes
<1> QED
  BY <1>1, Inductive, PTL

\* A command that may have rented machines has told the user the cluster's name.
THEOREM RentingIsSaid == Spec => []NothingRentedUnsaid
<1>1. IInv => NothingRentedUnsaid
  <2> SUFFICES ASSUME IInv PROVE NothingRentedUnsaid
    OBVIOUS
  <2>1. rented \subseteq Launches
    BY DEF IInv, TypeOK
  <2> QED
    BY <2>1, CommandTypes, MachineTypes DEF NothingRentedUnsaid, CommandOK, MachineOK
<1> QED
  BY <1>1, Inductive, PTL

\* An endpoint is reported only by a probe that a serving head of the cluster answered.
LEMMA OnlyProbeReports ==
    ASSUME IInv, [Next]_vars, NEW l \in Launches,
           cmd[l].result # "endpoint", cmd'[l].result = "endpoint"
    PROVE  healthy /\ seen > 0 /\ cmd[l].url = cluster
<1>1. cmd \in [Launches -> Commands]
  BY DEF IInv, TypeOK
<1>2. ASSUME NEW m \in Launches, NEW result \in Outcomes, Ends(m, result)
      PROVE  m = l /\ result = "endpoint"
  BY <1>2, EndsTypes
<1>3. PICK m \in Launches: Command(m) \/ Interrupt(m)
  BY <1>1 DEF Next, vars, Edit, Down, StartJob, Scripts, HeadStarts, HeadPolls, HeadServes,
              WorkerPolls, WorkerJoins, JobEnds, ServeHealthy, ServeExits, InScript
<1>4. CASE Plan(m) \/ Hash(m) \/ Build(m) \/ WriteTask(m)
  <2>1. cmd'[l].result # "endpoint"
    BY <1>1, <1>2, <1>4 DEF Plan, Hash, Build, WriteTask, GoTo, Outcomes, Commands
  <2> QED
    BY <2>1
<1>5. CASE SkyLaunch(m) \/ Lookup(m) \/ GiveUp(m) \/ Interrupt(m)
  <2>1. cmd'[l].result # "endpoint"
    BY <1>1, <1>2, <1>5 DEF SkyLaunch, Lookup, GiveUp, Interrupt, Outcomes, Commands
  <2> QED
    BY <2>1
<1>6. CASE Probe(m)
  <2>1. CASE cmd' = [cmd EXCEPT ![m].polls = @ - 1]
    BY <1>1, <2>1 DEF Commands
  <2>2. CASE cmd[m].url = cluster /\ healthy /\ Ends(m, "endpoint")
    BY <1>2, <2>2, MachineTypes DEF MachineOK, Outcomes
  <2> QED
    BY <1>6, <2>1, <2>2 DEF Probe
<1> QED
  BY <1>3, <1>4, <1>5, <1>6 DEF Command

\* An endpoint is reported only while serve answers on the cluster that has its address.
THEOREM EndpointsAreHealthy == Spec => ReportedIsHealthy
<1>1. IInv /\ [Next]_vars =>
        [\A l \in Launches: cmd[l].result # "endpoint" /\ cmd'[l].result = "endpoint"
           => healthy /\ seen > 0 /\ cmd[l].url = cluster]_vars
  BY OnlyProbeReports
<1> QED
  BY <1>1, Inductive, PTL DEF Spec, ReportedIsHealthy

=============================================================================
