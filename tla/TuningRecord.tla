---------------------------- MODULE TuningRecord ----------------------------
(***************************************************************************)
(* The life of tuning records (cli/pipeline.py, cli/app.py, cache/): a run *)
(* saves its record after every candidate, a later run resumes an          *)
(* interrupted one, and serve uses the winner of a complete one if the     *)
(* machine, the model, the engine and the options still fit it.            *)
(*                                                                         *)
(* A record is found by the fingerprints of hardware, model and workload,  *)
(* here a key.  Not in the fingerprints are the engine's version, a pair   *)
(* <<minor, patch>>, and the launch options, which may change between runs.*)
(* Tuner.tla has the tuning itself; here a candidate is measured or fails. *)
(***************************************************************************)
EXTENDS Naturals, FiniteSets

CONSTANTS N,          \* candidates of the planner
          Keys,       \* values of the three fingerprints
          Versions,   \* engine versions that may be installed
          Options,    \* engine arguments and memory budgets
          MaxRuns,    \* bound: runs of tune and serve
          MaxChanges, \* bound: changes of the situation
          None

ASSUME RecordAssumption ==
    N \in Nat \ {0} /\ Versions \subseteq Nat \X Nat /\ MaxRuns \in Nat /\ MaxChanges \in Nat

VARIABLES disk,      \* the cache directory: a record or None for each key
          now,       \* the situation: key, engine version, options
          pc,        \* "idle", "tuning", or how the last command ended
          record,    \* run_tune's record, held in memory
          completed, \* the measurements it resumes with
          evals,     \* successful entries of Tuner.evaluations
          next,      \* the candidate stage A looks at
          served,    \* what the last serve launched from the cache, and for what
          runs, changes

vars == <<disk, now, pc, record, completed, evals, next, served, runs, changes>>

Situations == [key: Keys, version: Versions, options: Options]
\* A measurement knows the situation it was made in.
Measurements == [id: 1..N, of: Situations]
Records == [status: {"in_progress", "complete", "failed"}, version: Versions,
            candidates: SUBSET Measurements, winner: Measurements \cup {None}]

ASSUME NoneAssumption == None \notin Measurements /\ None \notin Records

TypeOK ==
    /\ \A k \in Keys: disk[k] = None \/ disk[k] \in Records
    /\ pc \in {"idle", "tuning", "interrupted", "killed", "unviable", "complete", "served"}
    /\ \A k \in Keys: disk[k] # None =>
         (disk[k].status = "complete" <=> disk[k].winner # None)
    /\ next \in 1..N + 1 /\ evals \subseteq Measurements

Init ==
    /\ disk = [k \in Keys |-> None]
    /\ now \in Situations
    /\ pc = "idle" /\ record = None /\ completed = {} /\ evals = {} /\ next = 1
    /\ served = None /\ runs = 0 /\ changes = 0

----------------------------------------------------------------------------
(* The store                                                               *)

Found == disk[now.key]

Save(r) == disk' = [disk EXCEPT ![now.key] = r]

\* `cache clear` by hand.
Clear ==
    /\ pc # "tuning" /\ runs < MaxRuns
    /\ \E ks \in SUBSET Keys:
         /\ Cardinality(ks) = 1 \/ ks = Keys
         /\ \E k \in ks: disk[k] # None
         /\ disk' = [k \in Keys |-> IF k \in ks THEN None ELSE disk[k]]
    /\ pc' = "idle"
    /\ UNCHANGED <<now, record, completed, evals, next, served, runs, changes>>

\* Same major.minor.
Compatible(v, w) == v[1] = w[1]

\* Mutant of Valid: the version of the engine is not compared.
Valid_AnyVersion(r) ==
    /\ r.status = "complete" /\ r.winner # None
    /\ r.winner.of.options = now.options

\* validate_record, up to the free memory, which may suffice or not.  The key
\* stands for the fingerprints, under which the record was found.
Valid(r) ==
    /\ r.status = "complete" /\ r.winner # None
    /\ Compatible(r.version, now.version)
    /\ r.winner.of.options = now.options

----------------------------------------------------------------------------
(* A run                                                                   *)

\* serve uses the winner of a complete record.
ServeCached ==
    /\ pc # "tuning" /\ runs < MaxRuns
    /\ Found # None /\ Valid(Found)
    /\ served' = [winner |-> Found.winner, situation |-> now]
    /\ pc' = "served" /\ runs' = runs + 1
    /\ UNCHANGED <<disk, now, record, completed, evals, next, changes>>

\* What `--resume` takes over: measured on exactly the installed version.
Resumable ==
    IF Found # None /\ Found.status = "in_progress"
    THEN {c \in Found.candidates: c.of.version = now.version}
    ELSE {}

\* Mutant of StartRun: a resumed record keeps its engine versions.
StartRun_OldVersions(resume) ==
    /\ pc # "tuning" /\ runs < MaxRuns
    /\ completed' = IF resume THEN Resumable ELSE {}
    /\ record' = [status |-> "in_progress",
                  version |-> IF resume /\ Found # None /\ Found.status = "in_progress"
                              THEN Found.version ELSE now.version,
                  candidates |-> completed', winner |-> None]
    /\ evals' = {} /\ next' = 1
    /\ pc' = "tuning" /\ runs' = runs + 1
    /\ UNCHANGED <<disk, now, served, changes>>

\* tune, or a serve that may not or cannot use the cache.
StartRun(resume) ==
    /\ pc # "tuning" /\ runs < MaxRuns
    /\ completed' = IF resume THEN Resumable ELSE {}
    /\ record' = [status |-> "in_progress", version |-> now.version,
                  candidates |-> completed', winner |-> None]
    /\ evals' = {} /\ next' = 1
    /\ pc' = "tuning" /\ runs' = runs + 1
    /\ UNCHANGED <<disk, now, served, changes>>

\* A prior result counts if the plan of that id is configured the same.
Reusable(c) == c.id = next /\ c.of.options = now.options

Reuse ==
    /\ pc = "tuning"
    /\ \E c \in completed:
         /\ Reusable(c)
         /\ evals' = evals \cup {c}
    /\ next' = next + 1
    /\ UNCHANGED <<disk, now, pc, record, completed, served, runs, changes>>

\* The callback of every evaluation; a failed one is saved as well.
Persist(c) ==
    /\ record' = [record EXCEPT !.candidates = @ \cup c]
    /\ Save(record')

Measure ==
    /\ pc = "tuning" /\ next <= N /\ ~\E c \in completed: Reusable(c)
    /\ \E c \in {{}, {[id |-> next, of |-> now]}}:
         Persist(c) /\ evals' = evals \cup c
    /\ next' = next + 1
    /\ UNCHANGED <<now, pc, completed, served, runs, changes>>

\* NoViablePlanError: nothing was measured, or nothing valid.
Unviable ==
    /\ pc = "tuning" /\ next > N
    /\ record' = [record EXCEPT !.status = "failed"]
    /\ Save(record')
    /\ pc' = "unviable"
    /\ UNCHANGED <<now, completed, evals, next, served, runs, changes>>

Complete ==
    /\ pc = "tuning" /\ next > N
    /\ \E w \in evals:
         record' = [record EXCEPT !.status = "complete", !.winner = w, !.candidates = evals]
    /\ Save(record')
    /\ pc' = "complete"
    /\ UNCHANGED <<now, completed, evals, next, served, runs, changes>>

\* Ctrl-C, or an exception that ends tune(), such as a close that failed.  Before
\* the first evaluation of this run the record counts as failed.  Priors are taken
\* over without an await.
Interrupt ==
    /\ pc = "tuning" /\ ~\E c \in completed: Reusable(c)
    /\ record' = [record EXCEPT !.status = IF next > 1 THEN "in_progress" ELSE "failed"]
    /\ Save(record')
    /\ pc' = "interrupted"
    /\ UNCHANGED <<now, completed, evals, next, served, runs, changes>>

\* SIGKILL, or an error before the tuner is there: the file stays as it is.
Killed ==
    /\ pc = "tuning"
    /\ pc' = "killed"
    /\ UNCHANGED <<disk, now, record, completed, evals, next, served, runs, changes>>

\* Another model, machine or workload, another engine release, other options.
Change ==
    /\ pc # "tuning" /\ changes < MaxChanges
    /\ now' \in Situations \ {now}
    /\ changes' = changes + 1 /\ pc' = "idle"
    /\ UNCHANGED <<disk, record, completed, evals, next, served, runs>>

Next == \/ Clear \/ ServeCached \/ (\E resume \in BOOLEAN: StartRun(resume))
        \/ Reuse \/ Measure \/ Unviable \/ Complete \/ Interrupt \/ Killed \/ Change

Spec == Init /\ [][Next]_vars

----------------------------------------------------------------------------
(* Properties                                                              *)

\* A run chooses among measurements of this engine version with these options:
\* what it takes over from an interrupted run was made under the same
\* conditions as what it measures itself.
SameConditions == pc = "tuning" => \A c \in evals: c.of = now

\* The engine version of a complete record is the one its winner ran on, also
\* when the run was resumed after an upgrade.
WinnerMeasured ==
    \A k \in Keys: disk[k] # None /\ disk[k].winner # None =>
        /\ disk[k].winner \in disk[k].candidates
        /\ disk[k].winner.of.key = k /\ disk[k].winner.of.version = disk[k].version

\* serve uses a cached winner only for the machine, model, workload and options
\* it was measured with, on an engine of the same minor version.
ServedFits ==
    served # None =>
        /\ served.winner.of.key = served.situation.key
        /\ served.winner.of.options = served.situation.options
        /\ Compatible(served.winner.of.version, served.situation.version)

\* What a run has measured can be resumed after Ctrl-C or SIGKILL.
FinishedIsSaved ==
    pc \in {"tuning", "interrupted", "killed"} /\ evals # {} =>
        disk[now.key] # None /\ disk[now.key].status = "in_progress"
        /\ evals \subseteq disk[now.key].candidates

\* The record on disk, what a run chooses from and what it names as the winner are
\* what was measured, under the conditions the record states.
RecordTrue == TypeOK /\ SameConditions /\ WinnerMeasured /\ FinishedIsSaved

\* "Interrupted or crashed part-way: keep finished candidates resumable."
ResumableStays ==
    pc = "interrupted" =>
        disk[now.key].status = "in_progress" \/ disk[now.key].candidates = {}

=============================================================================
