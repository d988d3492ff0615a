------------------------------- MODULE Cloud -------------------------------
(***************************************************************************)
(* Renting machines: `servepilot launch` and `down` (cli/cloud_cmd.py),    *)
(* the wheel of the checkout they upload (cloud/package.py), the sky CLI   *)
(* they call and the script SkyPilot runs on every node                    *)
(* (cloud/skypilot.py).                                                    *)
(*                                                                         *)
(* The commands in Launches are for one request and one cluster name: a    *)
(* user who retries or runs it twice.  A cluster is known by its           *)
(* generation, which is also its address; 0 is no cluster.  A checkout is  *)
(* known by the number of edits made to it.  SkyPilot and Ray are          *)
(* external: jobs of a cluster run one at a time, and a job ends when the  *)
(* script of one of its nodes fails.                                       *)
(***************************************************************************)
EXTENDS Naturals, FiniteSets

CONSTANTS Launches,  \* launch commands
          MaxNodes,  \* bound on --nodes
          JoinTries, \* polls of head and workers for each other: 180 in RUN_SCRIPT
          WaitPolls, \* polls of wait_for_endpoint before its deadline
          MaxEdits,  \* bound on edits of the checkout
          MaxUps,    \* bound on clusters created
          None

ASSUME CloudAssumption ==
    /\ {MaxNodes, JoinTries, WaitPolls, MaxUps} \subseteq Nat \ {0}
    /\ MaxEdits \in Nat /\ None \notin Nat

VARIABLES nodes,    \* --nodes of the request
          checkout, \* edits made to the checkout so far
          wheels,   \* the built wheels: for a digest, the checkout that was packed
          cmd,      \* the launch commands
          named,    \* commands that told the user the name of the cluster
          rented,   \* commands that ran `sky launch`
          cluster,  \* the running cluster
          ups,      \* clusters created so far
          queue,    \* commands whose job waits on the cluster
          job,      \* the command whose job runs
          script,   \* where RUN_SCRIPT is on each node of the job
          tries,    \* polls each node has left
          seen,     \* nodes in Ray when serve was started, 0 before
          healthy   \* does /health of the head answer 200?

vars == <<nodes, checkout, wheels, cmd, named, rented, cluster, ups, queue, job,
          script, tries, seen, healthy>>
machines == <<cluster, ups, queue, job, script, tries, seen, healthy>>
running == <<job, script, tries, seen, healthy>>

Versions == 0..MaxEdits
Head == 1
Nodes == 1..MaxNodes
Workers == 2..nodes
Off == [n \in Nodes |-> "off"]

Outcomes == {"error", "dry_run", "launch_failed", "endpoint", "no_endpoint", "interrupted"}
Commands ==
    [at: {"start", "package", "build", "task", "rent", "wait", "ended"},
     began: Versions, digest: Versions, uploaded: Versions \cup {None},
     url: 1..MaxUps \cup {None}, polls: 0..WaitPolls, result: Outcomes \cup {None}]

ASSUME NoneAssumption == None \notin Outcomes /\ None \notin Launches

TypeOK ==
    /\ nodes \in Nodes /\ checkout \in Versions
    /\ wheels \in [Versions -> Versions \cup {None}]
    /\ cmd \in [Launches -> Commands]
    /\ named \in SUBSET Launches /\ rented \in SUBSET Launches
    /\ cluster \in 0..MaxUps /\ ups \in 0..MaxUps
    /\ queue \in SUBSET Launches /\ job \in Launches \cup {None}
    /\ script \in [Nodes -> {"off", "start", "poll", "join", "joined", "serving", "failed"}]
    /\ tries \in [Nodes -> 0..JoinTries]
    /\ seen \in 0..MaxNodes /\ healthy \in BOOLEAN

Started == [at |-> "start", began |-> 0, digest |-> 0, uploaded |-> None, url |-> None,
            polls |-> 0, result |-> None]

Init ==
    /\ nodes \in Nodes /\ checkout = 0 /\ wheels = [v \in Versions |-> None]
    /\ cmd = [l \in Launches |-> Started]
    /\ named = {} /\ rented = {} /\ cluster = 0 /\ ups = 0 /\ queue = {} /\ job = None
    /\ script = Off /\ tries = [n \in Nodes |-> JoinTries] /\ seen = 0 /\ healthy = FALSE

(***************************************************************************)
(* The launch command                                                      *)
(***************************************************************************)
GoTo(l, place) == cmd' = [cmd EXCEPT ![l].at = place]
Ends(l, result) ==
    cmd' = [cmd EXCEPT ![l] = [Started EXCEPT !.at = "ended", !.result = result]]

\* LaunchRequest refuses the request, or the planning ahead ends in an error that is
\* not a ConfigurationError; a ConfigurationError of the planning is only noted.
Plan(l) ==
    /\ cmd[l].at = "start"
    /\ \/ Ends(l, "error")
       \/ cmd' = [cmd EXCEPT ![l].at = "package", ![l].began = checkout]
    /\ UNCHANGED <<nodes, checkout, wheels, named, rented, machines>>

\* Mutant of Hash: any wheel built before will do.
Hash_AnyWheel(l) ==
    /\ cmd[l].at = "package"
    /\ \/ \E v \in Versions:
            /\ wheels[v] # None
            /\ cmd' = [cmd EXCEPT ![l].digest = v, ![l].at = "task"]
       \/ /\ \A v \in Versions: wheels[v] = None
          /\ cmd' = [cmd EXCEPT ![l].digest = checkout, ![l].at = "build"]
    /\ UNCHANGED <<nodes, checkout, wheels, named, rented, machines>>

\* The digest of the sources names the directory a wheel is looked for in.
Hash(l) ==
    /\ cmd[l].at = "package"
    /\ cmd' = [cmd EXCEPT ![l].digest = checkout,
                          ![l].at = IF wheels[checkout] = None THEN "build" ELSE "task"]
    /\ UNCHANGED <<nodes, checkout, wheels, named, rented, machines>>

\* pip packs what the checkout holds by now, into the directory of the digest.
Build(l) ==
    /\ cmd[l].at = "build"
    /\ \/ /\ wheels' = [wheels EXCEPT ![cmd[l].digest] = checkout]
          /\ GoTo(l, "task")
       \/ Ends(l, "error") /\ UNCHANGED wheels
    /\ UNCHANGED <<nodes, checkout, named, rented, machines>>

\* Mutant of WriteTask: the cluster is named when it has been rented, if that works.
WriteTask_NamesLater(l) ==
    /\ cmd[l].at = "task"
    /\ \E result \in {"dry_run", "error"}: Ends(l, result) \/ GoTo(l, "rent")
    /\ UNCHANGED <<nodes, checkout, wheels, named, rented, machines>>

\* The task is written and shown.  --dry-run ends here, a missing sky is an error.
WriteTask(l) ==
    /\ cmd[l].at = "task"
    /\ \/ \E result \in {"dry_run", "error"}: Ends(l, result) /\ UNCHANGED named
       \/ GoTo(l, "rent") /\ named' = named \cup {l}
    /\ UNCHANGED <<nodes, checkout, wheels, rented, machines>>

\* sky creates the cluster unless it is there.
Provision ==
    \/ cluster = 0 /\ ups < MaxUps /\ ups' = ups + 1 /\ cluster' = ups + 1
    \/ cluster # 0 /\ UNCHANGED <<cluster, ups>>

\* sky launch comes to its end: the job is queued; or it fails, with or without a
\* cluster left behind.  --no-wait is a wait without a poll.
SkyLaunch(l) ==
    /\ cmd[l].at = "rent" /\ rented' = rented \cup {l}
    /\ \/ /\ Provision
          /\ queue' = queue \cup {l}
          /\ \E polls \in {0, WaitPolls}:
               cmd' = [cmd EXCEPT ![l].uploaded = wheels[cmd[l].digest],
                                  ![l].at = "wait", ![l].polls = polls]
       \/ /\ Provision \/ UNCHANGED <<cluster, ups>>
          /\ Ends(l, "launch_failed") /\ UNCHANGED queue
    /\ UNCHANGED <<nodes, checkout, wheels, named, running>>

\* Mutant of Lookup: a failed look-up does not use up any of the time.
Lookup_NoDeadline(l) ==
    /\ cmd[l].at = "wait" /\ cmd[l].url = None /\ cmd[l].polls > 0
    /\ \/ cluster # 0 /\ cmd' = [cmd EXCEPT ![l].url = cluster]
       \/ UNCHANGED cmd
    /\ UNCHANGED <<nodes, checkout, wheels, named, rented, machines>>

\* wait_for_endpoint: sky may or may not know the address yet.
Lookup(l) ==
    /\ cmd[l].at = "wait" /\ cmd[l].url = None /\ cmd[l].polls > 0
    /\ \/ cluster # 0 /\ cmd' = [cmd EXCEPT ![l].url = cluster]
       \/ cmd' = [cmd EXCEPT ![l].polls = @ - 1]
    /\ UNCHANGED <<nodes, checkout, wheels, named, rented, machines>>

\* Mutant of Probe: an address is enough.
Probe_Address(l) ==
    /\ cmd[l].at = "wait" /\ cmd[l].url # None /\ cmd[l].polls > 0
    /\ Ends(l, "endpoint")
    /\ UNCHANGED <<nodes, checkout, wheels, named, rented, machines>>

\* wait_for_endpoint: GET /health at the address that was found first; the request
\* may get lost.
Probe(l) ==
    /\ cmd[l].at = "wait" /\ cmd[l].url # None /\ cmd[l].polls > 0
    /\ \/ cmd[l].url = cluster /\ healthy /\ Ends(l, "endpoint")
       \/ cmd' = [cmd EXCEPT ![l].polls = @ - 1]
    /\ UNCHANGED <<nodes, checkout, wheels, named, rented, machines>>

GiveUp(l) ==
    /\ cmd[l].at = "wait" /\ cmd[l].polls = 0
    /\ Ends(l, "no_endpoint")
    /\ UNCHANGED <<nodes, checkout, wheels, named, rented, machines>>

\* Ctrl-C; what sky was doing may go on without the command.
Interrupt(l) ==
    /\ cmd[l].at \notin {"start", "ended"}
    /\ Ends(l, "interrupted")
    /\ \/ UNCHANGED <<rented, machines>>
       \/ /\ cmd[l].at = "rent" /\ rented' = rented \cup {l}
          /\ Provision /\ queue' \in {queue, queue \cup {l}} /\ UNCHANGED running
    /\ UNCHANGED <<nodes, checkout, wheels, named>>

\* The developer edits the checkout.
Edit ==
    /\ checkout < MaxEdits /\ checkout' = checkout + 1
    /\ UNCHANGED <<nodes, wheels, cmd, named, rented, machines>>

(***************************************************************************)
(* The machines                                                            *)
(***************************************************************************)
JobGone ==
    job' = None /\ script' = Off /\ tries' = [n \in Nodes |-> JoinTries]
    /\ seen' = 0 /\ healthy' = FALSE

\* `servepilot down`: sky down removes the machines with their jobs.  When it fails
\* the command fails and nothing changes.
Down ==
    /\ cluster # 0 /\ cluster' = 0 /\ queue' = {} /\ JobGone
    /\ UNCHANGED <<nodes, checkout, wheels, cmd, named, rented, ups>>

StartJob ==
    /\ cluster # 0 /\ job = None
    /\ \E l \in queue: job' = l /\ queue' = queue \ {l}
    /\ script' = [n \in Nodes |-> IF n <= nodes THEN "start" ELSE "off"]
    /\ UNCHANGED <<nodes, checkout, wheels, cmd, named, rented, cluster, ups, tries, seen,
                   healthy>>

Moves(n, place) == script' = [script EXCEPT ![n] = place]
Polls(n) == tries' = [tries EXCEPT ![n] = @ - 1] /\ UNCHANGED script
InScript == UNCHANGED <<nodes, checkout, wheels, cmd, named, rented, cluster, ups, queue, job>>

HeadRayUp == script[Head] \in {"poll", "serving"}
InRay == {n \in Nodes: script[n] = "joined"} \cup {Head}

\* The head starts Ray, when there is more than one node.
HeadStarts ==
    /\ script[Head] = "start" /\ nodes > 1
    /\ \E place \in {"poll", "failed"}: Moves(Head, place)
    /\ InScript /\ UNCHANGED <<tries, seen, healthy>>

\* A poll that does not see every node alive, or that fails.
HeadPolls ==
    /\ script[Head] = "poll" /\ tries[Head] > 0 /\ Polls(Head)
    /\ InScript /\ UNCHANGED <<seen, healthy>>

\* exec servepilot serve: at once on a single node, when a poll saw all nodes, or after
\* the last poll with the nodes that are there.
HeadServes ==
    /\ \/ script[Head] = "start" /\ nodes = 1
       \/ script[Head] = "poll" /\ (InRay = 1..nodes \/ tries[Head] = 0)
    /\ Moves(Head, "serving") /\ seen' = Cardinality(InRay)
    /\ InScript /\ UNCHANGED <<tries, healthy>>

\* A worker polls for the Ray of the head, and goes on after the last poll anyway.
WorkerPolls(n) ==
    /\ script[n] = "start"
    /\ \/ (HeadRayUp \/ tries[n] = 0) /\ Moves(n, "join") /\ UNCHANGED tries
       \/ tries[n] > 0 /\ Polls(n)
    /\ InScript /\ UNCHANGED <<seen, healthy>>

\* ray start fails when the head is not up, and the script with it (set -e).
WorkerJoins(n) ==
    /\ script[n] = "join"
    /\ Moves(n, IF HeadRayUp THEN "joined" ELSE "failed")
    /\ InScript /\ UNCHANGED <<tries, seen, healthy>>

\* serve answers its health check (Router.tla, ReplicaSupervisor.tla) or exits.
ServeHealthy ==
    /\ script[Head] = "serving" /\ ~healthy /\ healthy' = TRUE
    /\ InScript /\ UNCHANGED <<script, tries, seen>>

ServeExits ==
    /\ script[Head] = "serving" /\ Moves(Head, "failed") /\ healthy' = FALSE
    /\ InScript /\ UNCHANGED <<tries, seen>>

\* SkyPilot ends the job when a script of it failed.
JobEnds ==
    /\ \E n \in Nodes: script[n] = "failed"
    /\ JobGone
    /\ UNCHANGED <<nodes, checkout, wheels, cmd, named, rented, cluster, ups, queue>>

Command(l) ==
    \/ Plan(l) \/ Hash(l) \/ Build(l) \/ WriteTask(l) \/ SkyLaunch(l)
    \/ Lookup(l) \/ Probe(l) \/ GiveUp(l)

Scripts ==
    HeadStarts \/ HeadPolls \/ HeadServes \/ JobEnds
    \/ \E n \in Workers: WorkerPolls(n) \/ WorkerJoins(n)

Next ==
    \/ \E l \in Launches: Command(l) \/ Interrupt(l)
    \/ Edit \/ Down \/ StartJob \/ Scripts \/ ServeHealthy \/ ServeExits

Spec == Init /\ [][Next]_vars

\* Commands and scripts are processes that run until they block or end, and the
\* sky commands and the calls of ray they wait for return.
FairSpec ==
    /\ Spec /\ WF_vars(HeadStarts \/ HeadPolls \/ HeadServes) /\ WF_vars(JobEnds)
    /\ \A n \in Nodes: WF_vars(n \in Workers /\ (WorkerPolls(n) \/ WorkerJoins(n)))
    /\ \A l \in Launches: WF_vars(Command(l))

(***************************************************************************)
(* Properties                                                              *)
(***************************************************************************)

\* An endpoint is reported only while serve answers /health on the cluster that has
\* this address now: an address that sky knew before, or of a cluster that was torn
\* down during the wait, is not enough (wait_for_endpoint).
ReportedIsHealthy ==
    [][\A l \in Launches: cmd[l].result # "endpoint" /\ cmd'[l].result = "endpoint"
          => healthy /\ seen > 0 /\ cmd[l].url = cluster]_vars

\* The code a launch uploads has every edit made before the command was started,
\* whatever wheels earlier commands left in the cache and whatever is edited while a
\* wheel is built, as long as no edit is undone (prepare_package).
UploadsLocalFixes ==
    TypeOK /\ \A l \in Launches: cmd[l].uploaded # None => cmd[l].uploaded >= cmd[l].began

\* A command that may have rented machines has told the user the name to tear them
\* down by, however it ended, and was neither a dry run nor refused.
NothingRentedUnsaid ==
    /\ \A l \in rented: l \in named /\ cmd[l].result \notin {"dry_run", "error"}
    /\ cluster # 0 => rented # {}

\* Head and workers do not wait for each other for ever: every job gets to the point
\* where the head serves and each worker has joined, or it is over (RUN_SCRIPT).
ScriptsSettle ==
    job # None ~> \/ job = None
                  \/ script[Head] = "serving" /\ \A n \in Workers: script[n] = "joined"

\* Every launch command ends, also when no address or no health ever shows up.
CommandsEnd ==
    \A l \in Launches: cmd[l].at # "start" ~> cmd[l].at = "ended"

\* Of all who wait for each other, commands and scripts, none waits for ever.
WaitsEnd == ScriptsSettle /\ CommandsEnd
=============================================================================
