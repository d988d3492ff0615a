------------------------- MODULE TuningRecordProofs -------------------------
(***************************************************************************)
(* What a cached winner is worth, for any number of candidates, keys,      *)
(* versions and runs.                                                      *)
(*                                                                         *)
(* A record passes through three hands: the run that writes it, the run    *)
(* that resumes it and the serve that uses it.  FiledRight says of each    *)
(* record on disk that what it holds was measured for the key it is filed  *)
(* under; Running relates the record in memory to the one on disk and to   *)
(* what the run may choose among.  From the two, WinnerMeasured is         *)
(* preserved, and from it ServedFits.                                      *)
(***************************************************************************)
EXTENDS TuningRecord, TLAPS

\* A record on disk, if there is one, holds measurements made for its key, and
\* its winner ran on the engine version it names.
FiledRight(r, k) ==
    r # None =>
        /\ r \in Records
        /\ \A c \in r.candidates: c.of.key = k
        /\ r.status = "complete" <=> r.winner # None
        /\ r.winner # None => /\ r.winner \in r.candidates
                              /\ r.winner.of.version = r.version

\* While a run tunes: its record is filed right, says no winner yet, and holds what
\* the run took over and measured; the measurements it chooses among were made under
\* the conditions it runs in, and all of them are on disk.
Running ==
    /\ record \in Records /\ FiledRight(record, now.key)
    /\ record.winner = None /\ record.version = now.version
    /\ record.status = "in_progress"
    /\ completed \subseteq record.candidates /\ evals \subseteq record.candidates
    /\ \A c \in completed: c.of.version = now.version
    /\ next = 1 => evals = {}

\* What a run has is on disk.
Saved(ms) ==
    ms # {} => /\ disk[now.key] # None /\ disk[now.key].status = "in_progress"
               /\ ms \subseteq disk[now.key].candidates

IInv ==
    /\ now \in Situations /\ next \in 1..N + 1 /\ evals \subseteq Measurements
    /\ pc \in {"idle", "tuning", "interrupted", "killed", "unviable", "complete", "served"}
    /\ disk = [k \in Keys |-> disk[k]]
    /\ \A k \in Keys: FiledRight(disk[k], k)
    /\ pc = "tuning" => Running /\ SameConditions /\ Saved(completed)
    /\ pc \in {"tuning", "interrupted", "killed"} => Saved(evals)
    /\ ServedFits

LEMMA SameSituation ==
    ASSUME NEW s \in Situations, NEW t \in Situations,
           s.key = t.key, s.version = t.version, s.options = t.options
    PROVE  s = t
BY DEF Situations

LEMMA InitInv == Init => IInv
<1> SUFFICES ASSUME Init PROVE IInv
  OBVIOUS
<1>1. 1 \in 1..N + 1
  BY RecordAssumption
<1> QED
  BY <1>1 DEF Init, IInv, FiledRight, Saved, ServedFits

LEMMA Implies == IInv => RecordTrue /\ ServedFits
<1> SUFFICES ASSUME IInv PROVE RecordTrue /\ ServedFits
  OBVIOUS
<1>1. TypeOK
  BY DEF IInv, TypeOK, FiledRight
<1>2. SameConditions
  BY DEF IInv, SameConditions
<1>3. WinnerMeasured
  BY DEF IInv, WinnerMeasured, FiledRight
<1>4. FinishedIsSaved
  BY DEF IInv, FinishedIsSaved, Saved
<1> QED
  BY <1>1, <1>2, <1>3, <1>4 DEF RecordTrue, IInv

----------------------------------------------------------------------------
(* Between runs                                                            *)

LEMMA ClearInv == IInv /\ Clear => IInv'
<1> SUFFICES ASSUME IInv, Clear PROVE IInv'
  OBVIOUS
<1>1. PICK ks \in SUBSET Keys: disk' = [k \in Keys |-> IF k \in ks THEN None ELSE disk[k]]
  BY DEF Clear
<1>2. \A k \in Keys: FiledRight(disk'[k], k)
  BY <1>1 DEF IInv, FiledRight
<1>3. disk' = [k \in Keys |-> disk'[k]]
  BY <1>1
<1> QED
  BY <1>2, <1>3 DEF Clear, IInv, ServedFits

LEMMA ChangeInv == IInv /\ Change => IInv'
BY DEF Change, IInv, ServedFits

\* A cached winner fits because its record is filed under the situation's key and
\* names the version it ran on, which serve compares.
LEMMA ServeCachedInv == IInv /\ ServeCached => IInv'
<1> SUFFICES ASSUME IInv, ServeCached PROVE IInv'
  OBVIOUS
<1>1. now.key \in Keys
  BY DEF IInv, Situations
<1>2. /\ Found.winner # None /\ Found.winner.of.key = now.key
      /\ Found.winner.of.version = Found.version
  BY <1>1 DEF ServeCached, Valid, IInv, FiledRight, Found
<1>3. served' = [winner |-> Found.winner, situation |-> now]
  BY DEF ServeCached
<1>4. ServedFits'
  BY <1>2, <1>3 DEF ServeCached, Valid, ServedFits, Compatible
<1> QED
  BY <1>4 DEF ServeCached, IInv

----------------------------------------------------------------------------
(* A run                                                                   *)

\* A run starts from what an interrupted one left, as far as it was measured on the
\* installed version.
LEMMA StartRunInv == ASSUME NEW resume \in BOOLEAN, IInv, StartRun(resume) PROVE IInv'
<1>1. now.key \in Keys /\ now.version \in Versions /\ now \in Situations
  BY DEF IInv, Situations
<1>2. FiledRight(Found, now.key)
  BY <1>1 DEF IInv, Found
<1>3. /\ completed' \subseteq Measurements
      /\ \A c \in completed': c.of.key = now.key /\ c.of.version = now.version
      /\ completed' # {} => /\ Found # None /\ Found.status = "in_progress"
                            /\ completed' \subseteq Found.candidates
  <2>1. CASE completed' = {}
    BY <2>1
  <2>2. CASE completed' # {}
    <3>1. /\ Found # None /\ Found.status = "in_progress"
          /\ completed' = {c \in Found.candidates: c.of.version = now.version}
      BY <2>2 DEF StartRun, Resumable
    <3>2. Found \in Records /\ \A c \in Found.candidates: c.of.key = now.key
      BY <1>2, <3>1 DEF FiledRight
    <3> QED
      BY <3>1, <3>2 DEF Records
  <2> QED
    BY <2>1, <2>2
<1>4. /\ record' = [status |-> "in_progress", version |-> now.version,
                   candidates |-> completed', winner |-> None]
      /\ evals' = {} /\ next' = 1 /\ pc' = "tuning"
      /\ UNCHANGED <<disk, now, served>>
  BY DEF StartRun
<1>5. Running'
  <2>1. record' \in Records
    BY <1>1, <1>3, <1>4 DEF Records
  <2> QED
    BY <1>3, <1>4, <2>1, NoneAssumption DEF Running, FiledRight
<1>6. SameConditions' /\ Saved(completed)' /\ Saved(evals)'
  BY <1>3, <1>4 DEF SameConditions, Saved, Found
<1>7. 1 \in 1..N + 1
  BY RecordAssumption
<1> QED
  BY <1>4, <1>5, <1>6, <1>7 DEF IInv, ServedFits

\* A prior result that is configured the same was measured under the same conditions.
LEMMA ReuseInv == IInv /\ Reuse => IInv'
<1> SUFFICES ASSUME IInv, Reuse PROVE IInv'
  OBVIOUS
<1>1. Running /\ SameConditions /\ Saved(completed) /\ Saved(evals) /\ now \in Situations
  BY DEF Reuse, IInv
<1>2. PICK c \in completed: Reusable(c) /\ evals' = evals \cup {c}
  BY DEF Reuse
<1>3. c \in Measurements /\ c.of.key = now.key /\ c.of.version = now.version
  <2>1. c \in record.candidates /\ c.of.version = now.version
    BY <1>1, <1>2 DEF Running
  <2>2. record # None /\ record.candidates \subseteq Measurements
    BY <1>1, NoneAssumption DEF Running, Records
  <2> QED
    BY <1>1, <2>1, <2>2 DEF Running, FiledRight
<1>4. c.of = now
  BY <1>1, <1>2, <1>3, SameSituation DEF Reusable, Measurements
<1>5. UNCHANGED <<disk, now, pc, record, completed, served>> /\ next' = next + 1 /\ pc = "tuning"
  BY DEF Reuse
<1>6. next \in 1..N
  BY <1>2, <1>3 DEF Reusable, Measurements
<1>7. next' \in 1..N + 1 /\ next' # 1
  BY <1>5, <1>6, RecordAssumption
<1>8. Running'
  BY <1>1, <1>2, <1>5, <1>7 DEF Running, FiledRight
<1>9. SameConditions'
  BY <1>1, <1>2, <1>4, <1>5 DEF SameConditions
<1>10. Saved(completed)' /\ Saved(evals)'
  BY <1>1, <1>2, <1>5 DEF Saved
<1>11. evals' \subseteq Measurements
  BY <1>2, <1>3 DEF IInv
<1> QED
  BY <1>5, <1>7, <1>8, <1>9, <1>10, <1>11 DEF IInv, ServedFits

\* The record in memory is saved as it is.
LEMMA SaveKeeps ==
    ASSUME IInv, NEW r \in Records, FiledRight(r, now.key), Save(r)
    PROVE  /\ disk' = [k \in Keys |-> disk'[k]] /\ \A k \in Keys: FiledRight(disk'[k], k)
           /\ disk'[now.key] = r
<1>1. now.key \in Keys
  BY DEF IInv, Situations
<1>2. disk = [k \in Keys |-> disk[k]] /\ \A k \in Keys: FiledRight(disk[k], k)
  BY DEF IInv
<1>3. disk' = [disk EXCEPT ![now.key] = r]
  BY DEF Save
<1> QED
  BY <1>1, <1>2, <1>3

LEMMA MeasureInv == IInv /\ Measure => IInv'
<1> SUFFICES ASSUME IInv, Measure PROVE IInv'
  OBVIOUS
<1>1. /\ Running /\ SameConditions /\ Saved(completed) /\ now \in Situations
      /\ pc = "tuning" /\ evals \subseteq Measurements /\ next \in 1..N
  BY RecordAssumption DEF Measure, IInv
<1>2. PICK c \in {{}, {[id |-> next, of |-> now]}}: Persist(c) /\ evals' = evals \cup c
  BY DEF Measure
<1>3. c \subseteq Measurements /\ \A m \in c: m.of = now
  BY <1>1, <1>2 DEF Measurements
<1>4. UNCHANGED <<now, pc, completed, served>> /\ next' = next + 1
  BY DEF Measure
<1>5. next' \in 1..N + 1 /\ next' # 1
  BY <1>1, <1>4, RecordAssumption
<1>6. /\ record' \in Records /\ record'.status = "in_progress" /\ record'.winner = None
      /\ record'.version = record.version /\ record'.candidates = record.candidates \cup c
  <2>1. record' = [record EXCEPT !.candidates = @ \cup c]
    BY <1>2 DEF Persist
  <2> QED
    BY <1>1, <1>3, <2>1 DEF Running, Records
<1>7. FiledRight(record', now.key)
  BY <1>1, <1>3, <1>6, NoneAssumption DEF Running, FiledRight
<1>8. Running'
  BY <1>1, <1>2, <1>4, <1>5, <1>6, <1>7 DEF Running
<1>9. /\ disk' = [k \in Keys |-> disk'[k]] /\ \A k \in Keys: FiledRight(disk'[k], k)
      /\ disk'[now.key] = record'
  BY <1>2, <1>6, <1>7, SaveKeeps DEF Persist
<1>10. record' # None
  BY <1>6, NoneAssumption
<1>11. Saved(completed)' /\ Saved(evals)'
  BY <1>4, <1>6, <1>8, <1>9, <1>10 DEF Saved, Running
<1>12. SameConditions' /\ evals' \subseteq Measurements
  BY <1>1, <1>2, <1>3, <1>4 DEF SameConditions
<1> QED
  BY <1>1, <1>4, <1>5, <1>8, <1>9, <1>11, <1>12 DEF IInv, ServedFits

\* A run that ends without a winner saves what it has under another status.
LEMMA EndsWithout ==
    ASSUME IInv, pc = "tuning", NEW status \in {"in_progress", "failed"},
           record' = [record EXCEPT !.status = status]
    PROVE  /\ record' \in Records /\ FiledRight(record', now.key) /\ record' # None
           /\ record'.status = status /\ evals \subseteq record'.candidates
<1>1. Running
  BY DEF IInv
<1>2. /\ record' \in Records /\ record'.status = status /\ record'.winner = None
      /\ record'.candidates = record.candidates
  BY <1>1 DEF Running, Records
<1> QED
  BY <1>1, <1>2, NoneAssumption DEF Running, FiledRight

LEMMA UnviableInv == IInv /\ Unviable => IInv'
<1> SUFFICES ASSUME IInv, Unviable PROVE IInv'
  OBVIOUS
<1>1. record' \in Records /\ FiledRight(record', now.key)
  BY EndsWithout DEF Unviable
<1>2. disk' = [k \in Keys |-> disk'[k]] /\ \A k \in Keys: FiledRight(disk'[k], k)
  BY <1>1, SaveKeeps DEF Unviable
<1> QED
  BY <1>2 DEF Unviable, IInv, ServedFits

\* Nothing was measured before the first evaluation, so a record saved as failed loses
\* nothing of this run.
LEMMA InterruptInv == IInv /\ Interrupt => IInv'
<1> SUFFICES ASSUME IInv, Interrupt PROVE IInv'
  OBVIOUS
<1> DEFINE status == IF next > 1 THEN "in_progress" ELSE "failed"
<1>1. /\ record' \in Records /\ FiledRight(record', now.key) /\ record' # None
      /\ record'.status = status /\ evals \subseteq record'.candidates
  BY EndsWithout DEF Interrupt
<1>2. /\ disk' = [k \in Keys |-> disk'[k]] /\ \A k \in Keys: FiledRight(disk'[k], k)
      /\ disk'[now.key] = record'
  BY <1>1, SaveKeeps DEF Interrupt
<1>3. pc' = "interrupted" /\ UNCHANGED <<now, completed, evals, next, served>>
  BY DEF Interrupt
<1>4. evals # {} => next > 1
  BY DEF Interrupt, IInv, Running
<1>5. Saved(evals)'
  BY <1>1, <1>2, <1>3, <1>4 DEF Saved
<1> QED
  BY <1>2, <1>3, <1>5 DEF IInv, ServedFits

LEMMA CompleteInv == IInv /\ Complete => IInv'
<1> SUFFICES ASSUME IInv, Complete PROVE IInv'
  OBVIOUS
<1>1. Running /\ SameConditions /\ pc = "tuning" /\ evals \subseteq Measurements
  BY DEF Complete, IInv
<1>2. PICK w \in evals:
        record' = [record EXCEPT !.status = "complete", !.winner = w, !.candidates = evals]
  BY DEF Complete
<1>3. /\ record' \in Records /\ record'.status = "complete" /\ record'.winner = w
      /\ record'.candidates = evals /\ record'.version = record.version
  BY <1>1, <1>2 DEF Running, Records
<1>4. w # None /\ \A c \in evals: c.of = now
  BY <1>1, <1>2, NoneAssumption DEF SameConditions
<1>5. FiledRight(record', now.key)
  BY <1>1, <1>2, <1>3, <1>4 DEF Running, FiledRight
<1>6. disk' = [k \in Keys |-> disk'[k]] /\ \A k \in Keys: FiledRight(disk'[k], k)
  BY <1>3, <1>5, SaveKeeps DEF Complete
<1> QED
  BY <1>6 DEF Complete, IInv, ServedFits

LEMMA KilledInv == IInv /\ Killed => IInv'
BY DEF Killed, IInv, Saved, ServedFits

----------------------------------------------------------------------------
(* Theorems                                                                *)

LEMMA StepInv == IInv /\ [Next]_vars => IInv'
<1> SUFFICES ASSUME IInv, [Next]_vars PROVE IInv'
  OBVIOUS
<1>1. CASE UNCHANGED vars
  BY <1>1 DEF vars, IInv, Running, SameConditions, Saved, ServedFits, FiledRight
<1>2. CASE Clear \/ ServeCached \/ Change
  BY <1>2, ClearInv, ServeCachedInv, ChangeInv
<1>3. CASE \E resume \in BOOLEAN: StartRun(resume)
  BY <1>3, StartRunInv
<1>4. CASE Reuse \/ Measure \/ Unviable \/ Complete \/ Interrupt \/ Killed
  BY <1>4, ReuseInv, MeasureInv, UnviableInv, CompleteInv, InterruptInv, KilledInv
<1> QED
  BY <1>1, <1>2, <1>3, <1>4 DEF Next

\* The inductive invariant: what a record and the tuning under way know of what was
\* measured.
THEOREM Inductive == Spec => []IInv
BY InitInv, StepInv, PTL DEF Spec

\* What records say was measured was measured so, through interruptions, upgrades and
\* resumptions in any number and order.
THEOREM RecordsAreTrue == Spec => []RecordTrue
BY Implies, Inductive, PTL

\* serve never uses a cached winner for another model, machine, workload, engine minor
\* version or set of options than it was measured with.
THEOREM CachedWinnerFits == Spec => []ServedFits
BY Implies, Inductive, PTL

=============================================================================
