---------------------------- MODULE RouterProofs ----------------------------
(***************************************************************************)
(* Theorems about Router, for any number of requests, replicas and slots:  *)
(* its types, the slots of the semaphore, and then its other counters,     *)
(* each of which is the number of requests in some situation.              *)
(***************************************************************************)
EXTENDS Router, FiniteSetTheorems, SequenceTheorems, TLAPS

USE DEF Phases, InLine, Served, Terminal

-----------------------------------------------------------------------------
(* Lemmas about the operators of the model.                                *)

\* Changing the membership of one element changes a cardinality by one.
LEMMA CountChange ==
  ASSUME NEW S, NEW T, NEW x, IsFiniteSet(S), S \ {x} = T \ {x}
  PROVE  /\ IsFiniteSet(T)
         /\ Cardinality(S) \in Nat /\ Cardinality(T) \in Nat
         /\ (x \in S <=> x \in T) => Cardinality(T) = Cardinality(S)
         /\ x \in S /\ x \notin T => Cardinality(T) = Cardinality(S) - 1
         /\ x \notin S /\ x \in T => Cardinality(T) = Cardinality(S) + 1
<1> DEFINE R == S \ {x}
<1>1. IsFiniteSet(R)
  BY FS_RemoveElement
<1>2. /\ S = IF x \in S THEN R \cup {x} ELSE R
      /\ T = IF x \in T THEN R \cup {x} ELSE R
  OBVIOUS
<1>3. IsFiniteSet(R \cup {x})
  BY <1>1, FS_AddElement
<1>4. Cardinality(R \cup {x}) = Cardinality(R) + 1
  BY <1>1, FS_AddElement
<1>5. Cardinality(R) \in Nat
  BY <1>1, FS_CardinalityType
<1>6. IsFiniteSet(T)
  BY <1>1, <1>2, <1>3
<1> HIDE DEF R
<1>7. Cardinality(S) = IF x \in S THEN Cardinality(R) + 1 ELSE Cardinality(R)
  BY <1>2, <1>4
<1>8. Cardinality(T) = IF x \in T THEN Cardinality(R) + 1 ELSE Cardinality(R)
  BY <1>2, <1>4
<1>9. QED
  BY <1>5, <1>6, <1>7, <1>8

\* Taking one occurrence out of the line leaves a line that is one shorter.
LEMMA RemoveAtType ==
  ASSUME NEW S, NEW s \in Seq(S), NEW i \in DOMAIN s
  PROVE  /\ RemoveAt(s, i) \in Seq(S)
         /\ Len(RemoveAt(s, i)) = Len(s) - 1
<1>1. i \in 1 .. Len(s) /\ Len(s) \in Nat
  BY LenProperties
<1>2. \A j \in 1 .. i - 1 : s[j] \in S
  BY <1>1, ElementOfSeq
<1>3. \A j \in i + 1 .. Len(s) : s[j] \in S
  BY <1>1, ElementOfSeq
<1>4. SubSeq(s, 1, i - 1) \in Seq(S) /\ Len(SubSeq(s, 1, i - 1)) = i - 1
  BY <1>1, <1>2, SubSeqProperties
<1>5. /\ SubSeq(s, i + 1, Len(s)) \in Seq(S)
      /\ Len(SubSeq(s, i + 1, Len(s))) = Len(s) - i
  BY <1>1, <1>3, SubSeqProperties
<1> DEFINE a == SubSeq(s, 1, i - 1)
           b == SubSeq(s, i + 1, Len(s))
<1>6. RemoveAt(s, i) = a \o b
  BY DEF RemoveAt
<1> HIDE DEF a, b
<1>7. a \o b \in Seq(S) /\ Len(a \o b) = Len(a) + Len(b)
  BY <1>4, <1>5, ConcatProperties DEF a, b
<1>8. Len(a) = i - 1 /\ Len(b) = Len(s) - i
  BY <1>4, <1>5 DEF a, b
<1>9. QED
  BY <1>1, <1>6, <1>7, <1>8

\* What _wake_up_next does: some tasks that wait get a slot, the rest is as
\* before, and no more slots are given than calls are made.
LEMMA WakeEffect ==
  ASSUME NEW ph \in [Requests -> Phases], NEW v \in Int, NEW n \in Int,
         Wake(ph, v, n)
  PROVE  \E woken \in SUBSET {r \in Requests : ph[r] = "queued"} :
            /\ IsFiniteSet(woken) /\ Cardinality(woken) \in Nat
            /\ Cardinality(woken) <= n
            /\ value' = v - Cardinality(woken)
            /\ phase' = [r \in Requests |->
                            IF r \in woken THEN "woken" ELSE ph[r]]
            /\ phase' \in [Requests -> Phases]
<1> DEFINE pending == {r \in Requests : ph[r] = "queued"}
<1>1. PICK woken \in SUBSET pending :
        /\ Cardinality(woken) =
              IF n < Cardinality(pending) THEN n ELSE Cardinality(pending)
        /\ value' = v - Cardinality(woken)
        /\ phase' = [r \in Requests |-> IF r \in woken THEN "woken" ELSE ph[r]]
  BY DEF Wake
<1>2. IsFiniteSet(pending) /\ IsFiniteSet(woken)
  BY FiniteAssumption, FS_Subset
<1>3. Cardinality(woken) \in Nat /\ Cardinality(pending) \in Nat
  BY <1>2, FS_CardinalityType
<1>4. phase' \in [Requests -> Phases]
  BY <1>1
<1>5. Cardinality(woken) <= n
  BY <1>1, <1>3
<1>6. QED
  BY <1>1, <1>2, <1>3, <1>4, <1>5, Zenon

\* The phases differ from ph in waiters that were woken, and in nothing else.
OnlyWoken(ph) ==
    \A q \in Requests : phase'[q] # ph[q] => ph[q] = "queued" /\ phase'[q] = "woken"

\* The types behind Wake, LeaveLine and the choice of a replica.
LEMMA WakeType ==
  ASSUME NEW ph \in [Requests -> Phases], NEW v \in Int, NEW n \in Int,
         Wake(ph, v, n)
  PROVE  /\ value' \in Int /\ phase' \in [Requests -> Phases]
         /\ OnlyWoken(ph)
<1>1. PICK woken \in SUBSET {r \in Requests : ph[r] = "queued"} :
        /\ IsFiniteSet(woken) /\ Cardinality(woken) \in Nat
        /\ value' = v - Cardinality(woken)
        /\ phase' = [r \in Requests |-> IF r \in woken THEN "woken" ELSE ph[r]]
        /\ phase' \in [Requests -> Phases]
  BY WakeEffect
<1>2. OnlyWoken(ph)
  BY <1>1 DEF OnlyWoken
<1>3. QED
  BY <1>1, <1>2

LEMMA LeaveLineType ==
  ASSUME TypeOK, NEW r \in Requests, LeaveLine(r)
  PROVE  /\ waiters' \in Seq(Requests) /\ waiting' \in Int
         /\ Len(waiters') = Len(waiters) - 1
<1>1. waiters \in Seq(Requests)
  BY DEF TypeOK, ProxyTypeOK, RouterTypeOK
<1>2. PICK i \in DOMAIN waiters : waiters' = RemoveAt(waiters, i)
  BY DEF LeaveLine
<1>3. waiters' \in Seq(Requests) /\ Len(waiters') = Len(waiters) - 1
  BY <1>1, <1>2, RemoveAtType
<1>4. QED
  BY <1>3 DEF LeaveLine, TypeOK, ProxyTypeOK, RouterTypeOK

LEMMA CurrentType ==
  ASSUME TypeOK, NEW i \in Replicas
  PROVE  Current(i) \in Objects
BY DEF TypeOK, ProxyTypeOK, RouterTypeOK, Current, Objects

LEMMA TakeLeaseType ==
  ASSUME TypeOK, NEW r \in Requests, TakeLease(r)
  PROVE  /\ lease' \in [Requests -> Objects \cup {None}]
         /\ \A q \in Requests : q # r => lease'[q] = lease[q]
         /\ lease'[r] \in Objects
         /\ excluded' \in [Requests -> SUBSET Replicas]
         /\ inflight' \in [Objects -> Nat]
<1>1. PICK i \in Replicas :
        /\ lease' = [lease EXCEPT ![r] = Current(i)]
        /\ excluded' = [excluded EXCEPT ![r] = {i}]
        /\ inflight' = [inflight EXCEPT ![Current(i)] = @ + 1]
  BY DEF TakeLease, LeastLoaded, Candidates
<1>2. Current(i) \in Objects
  BY CurrentType
<1>3. QED
  BY <1>1, <1>2 DEF TypeOK, ProxyTypeOK, RouterTypeOK

LEMMA ReleaseLeaseType ==
  ASSUME TypeOK, NEW r \in Requests, lease[r] \in Objects,
         NEW failed \in BOOLEAN, ReleaseLease(r, failed)
  PROVE  /\ inflight' \in [Objects -> Nat] /\ failures' \in [Objects -> Nat]
         /\ totalErrors' \in Nat
BY DEF TypeOK, ProxyTypeOK, RouterTypeOK, ReleaseLease, Drop

LEMMA ReleaseSlotType ==
  ASSUME TypeOK, NEW ph \in [Requests -> Phases], ReleaseSlot(ph)
  PROVE  /\ value' \in Int /\ phase' \in [Requests -> Phases]
         /\ OnlyWoken(ph)
<1>1. CASE Gated
  <2>1. value + 1 \in Int /\ Wake(ph, value + 1, 1)
    BY <1>1 DEF TypeOK, ProxyTypeOK, RouterTypeOK, ReleaseSlot
  <2>2. QED
    BY <2>1, WakeType
<1>2. CASE ~Gated
  BY <1>2 DEF TypeOK, ProxyTypeOK, RouterTypeOK, ReleaseSlot, OnlyWoken
<1>3. QED
  BY <1>1, <1>2

LEMMA RerouteType ==
  ASSUME TypeOK, NEW r \in Requests, lease[r] \in Objects, Reroute(r)
  PROVE  /\ lease' \in [Requests -> Objects \cup {None}]
         /\ \A q \in Requests : q # r => lease'[q] = lease[q]
         /\ lease'[r] \in Objects
         /\ excluded' \in [Requests -> SUBSET Replicas]
         /\ inflight' \in [Objects -> Nat] /\ failures' \in [Objects -> Nat]
<1>1. PICK i \in Replicas :
        /\ inflight' = [[inflight EXCEPT ![lease[r]] = Drop(@)]
                          EXCEPT ![Current(i)] = @ + 1]
        /\ failures' = [failures EXCEPT ![lease[r]] = @ + 1]
        /\ lease' = [lease EXCEPT ![r] = Current(i)]
        /\ excluded' = [excluded EXCEPT ![r] = @ \cup {i}]
  BY DEF Reroute, LeastLoaded, Candidates
<1>2. Current(i) \in Objects
  BY CurrentType
<1> DEFINE f == [inflight EXCEPT ![lease[r]] = Drop(@)]
<1>3. f \in [Objects -> Nat]
  BY DEF TypeOK, ProxyTypeOK, RouterTypeOK, Drop
<1>4. inflight' = [f EXCEPT ![Current(i)] = @ + 1]
  BY <1>1
<1> HIDE DEF f
<1>5. inflight' \in [Objects -> Nat]
  BY <1>2, <1>3, <1>4
<1>6. lease' \in [Requests -> Objects \cup {None}]
  BY <1>1, <1>2 DEF TypeOK, ProxyTypeOK, RouterTypeOK
<1>7. (\A q \in Requests : q # r => lease'[q] = lease[q]) /\ lease'[r] \in Objects
  BY <1>1, <1>2 DEF TypeOK, ProxyTypeOK, RouterTypeOK
<1>8. excluded' \in [Requests -> SUBSET Replicas]
  BY <1>1, <1>2 DEF TypeOK, ProxyTypeOK, RouterTypeOK
<1>9. failures' \in [Objects -> Nat]
  BY <1>1, <1>2 DEF TypeOK, ProxyTypeOK, RouterTypeOK
<1>10. QED
  BY <1>5, <1>6, <1>7, <1>8, <1>9

LEMMA SettleType ==
  ASSUME TypeOK, NEW r \in Requests, lease[r] \in Objects,
         NEW outcome \in Terminal, NEW failed \in BOOLEAN, Settle(r, outcome, failed)
  PROVE  /\ inflight' \in [Objects -> Nat] /\ failures' \in [Objects -> Nat]
         /\ totalErrors' \in Nat /\ gauge' \in Int
         /\ value' \in Int /\ phase' \in [Requests -> Phases]
         /\ \A q \in Requests : phase'[q] \in Served => lease'[q] \in Objects
         /\ UNCHANGED <<lease, excluded, attempts, waiters, waiting>>
<1>1. [phase EXCEPT ![r] = outcome] \in [Requests -> Phases]
  BY DEF TypeOK, ProxyTypeOK, RouterTypeOK
<1>2. /\ value' \in Int /\ phase' \in [Requests -> Phases]
      /\ OnlyWoken([phase EXCEPT ![r] = outcome])
  BY <1>1, ReleaseSlotType DEF Settle
<1>3. /\ inflight' \in [Objects -> Nat] /\ failures' \in [Objects -> Nat]
      /\ totalErrors' \in Nat
  BY ReleaseLeaseType DEF Settle
<1>4. \A q \in Requests : phase'[q] \in Served => lease'[q] \in Objects
  BY <1>1, <1>2 DEF Settle, TypeOK, ProxyTypeOK, RouterTypeOK, OnlyWoken
<1>5. QED
  BY <1>2, <1>3, <1>4 DEF Settle, TypeOK, ProxyTypeOK, RouterTypeOK

-----------------------------------------------------------------------------
(* Type correctness                                                        *)

LEMMA TypeInit == Init => TypeOK
<1> SUFFICES ASSUME Init PROVE TypeOK
  OBVIOUS
<1>1. waiters \in Seq(Requests)
  BY EmptySeq DEF Init
<1>2. gen \in [Replicas -> 0 .. MaxIncarnation]
  BY LimitAssumption DEF Init
<1>3. value \in Int
  BY LimitAssumption DEF Init
<1>4. ProxyTypeOK
  BY DEF Init, ProxyTypeOK
<1>5. /\ totalErrors \in Nat /\ waiting \in Int /\ gauge \in Int
      /\ inflight \in [Objects -> Nat] /\ failures \in [Objects -> Nat]
      /\ blamed \in [Requests -> SUBSET Objects]
  BY DEF Init
<1>6. /\ status \in [Replicas -> {"absent", "down", "healthy"}]
      /\ stopping \in BOOLEAN
  BY DEF Init
<1>7. QED
  BY <1>1, <1>2, <1>3, <1>4, <1>5, <1>6 DEF TypeOK, RouterTypeOK

LEMMA TypeStep ==
  ASSUME TypeOK, [Next]_vars
  PROVE  TypeOK'
<1>1. ASSUME NEW r \in Requests, ArriveOverloaded(r) PROVE TypeOK'
  BY <1>1 DEF ArriveOverloaded, TypeOK, ProxyTypeOK, RouterTypeOK, semVars, bookVars, tableVars
<1>2. ASSUME NEW r \in Requests, ArriveQueued(r) PROVE TypeOK'
  BY <1>2 DEF ArriveQueued, TypeOK, ProxyTypeOK, RouterTypeOK, bookVars, tableVars
<1>3. ASSUME NEW r \in Requests, ArriveServed(r) PROVE TypeOK'
  <2>1. value' \in Int
    BY <1>3 DEF ArriveServed, TypeOK, ProxyTypeOK, RouterTypeOK
  <2>2. /\ lease' \in [Requests -> Objects \cup {None}]
        /\ \A q \in Requests : q # r => lease'[q] = lease[q]
        /\ lease'[r] \in Objects
        /\ excluded' \in [Requests -> SUBSET Replicas]
        /\ inflight' \in [Objects -> Nat]
    BY <1>3, TakeLeaseType DEF ArriveServed
  <2>3. ProxyTypeOK'
    BY <1>3, <2>1, <2>2 DEF ArriveServed, TypeOK, ProxyTypeOK, RouterTypeOK, tableVars
  <2>4. RouterTypeOK'
    BY <1>3, <2>1, <2>2 DEF ArriveServed, TypeOK, ProxyTypeOK, RouterTypeOK, tableVars
  <2>5. QED
    BY <2>3, <2>4 DEF TypeOK
<1>4. ASSUME NEW r \in Requests, ArriveUnavailable(r) PROVE TypeOK'
  <2> DEFINE ph == [phase EXCEPT ![r] = "unavailable"]
  <2>1. ph \in [Requests -> Phases] /\ value \in Int
    BY DEF TypeOK, ProxyTypeOK, RouterTypeOK
  <2>2. IF Gated THEN Wake(ph, value, 1) ELSE phase' = ph /\ UNCHANGED value
    BY <1>4 DEF ArriveUnavailable
  <2> HIDE DEF ph
  <2>3. value' \in Int /\ phase' \in [Requests -> Phases] /\ OnlyWoken(ph)
    <3>1. CASE Gated
      BY <2>1, <2>2, <3>1, WakeType
    <3>2. CASE ~Gated
      BY <2>1, <2>2, <3>2 DEF OnlyWoken
    <3>3. QED
      BY <3>1, <3>2
  <2>4. ProxyTypeOK'
    BY <1>4, <2>3 DEF ArriveUnavailable, OnlyWoken, TypeOK, ProxyTypeOK, RouterTypeOK, ph, bookVars, tableVars
  <2>5. RouterTypeOK'
    BY <1>4, <2>3 DEF ArriveUnavailable, OnlyWoken, TypeOK, ProxyTypeOK, RouterTypeOK, ph, bookVars, tableVars
  <2>6. QED
    BY <2>4, <2>5 DEF TypeOK
<1>5. ASSUME NEW r \in Requests, ResumeServed(r) PROVE TypeOK'
  <2> DEFINE ph == [phase EXCEPT ![r] = "sending"]
  <2>1. ph \in [Requests -> Phases] /\ value \in Int
    BY DEF TypeOK, ProxyTypeOK, RouterTypeOK
  <2>2. PICK n \in Int : Wake(ph, value, n)
    BY <1>5 DEF ResumeServed, WakeCalls, TypeOK, ProxyTypeOK, RouterTypeOK
  <2> HIDE DEF ph
  <2>3. value' \in Int /\ phase' \in [Requests -> Phases] /\ OnlyWoken(ph)
    BY <2>1, <2>2, WakeType
  <2>4. waiters' \in Seq(Requests) /\ waiting' \in Int
    BY <1>5, LeaveLineType DEF ResumeServed
  <2>5. /\ lease' \in [Requests -> Objects \cup {None}]
        /\ \A q \in Requests : q # r => lease'[q] = lease[q]
        /\ lease'[r] \in Objects
        /\ excluded' \in [Requests -> SUBSET Replicas]
        /\ inflight' \in [Objects -> Nat]
    BY <1>5, TakeLeaseType DEF ResumeServed
  <2>6. ProxyTypeOK'
    BY <1>5, <2>3, <2>4, <2>5 DEF ResumeServed, OnlyWoken, TypeOK, ProxyTypeOK, RouterTypeOK, ph, tableVars
  <2>7. RouterTypeOK'
    BY <1>5, <2>3, <2>4, <2>5 DEF ResumeServed, OnlyWoken, TypeOK, ProxyTypeOK, RouterTypeOK, ph, tableVars
  <2>8. QED
    BY <2>6, <2>7 DEF TypeOK
<1>6. ASSUME NEW r \in Requests, ResumeUnavailable(r) PROVE TypeOK'
  <2> DEFINE ph == [phase EXCEPT ![r] = "unavailable"]
  <2>1. ph \in [Requests -> Phases] /\ value + 1 \in Int
    BY DEF TypeOK, ProxyTypeOK, RouterTypeOK
  <2>2. PICK n \in Int : Wake(ph, value + 1, n)
    BY <1>6 DEF ResumeUnavailable, WakeCalls, TypeOK, ProxyTypeOK, RouterTypeOK
  <2> HIDE DEF ph
  <2>3. value' \in Int /\ phase' \in [Requests -> Phases] /\ OnlyWoken(ph)
    BY <2>1, <2>2, WakeType
  <2>4. waiters' \in Seq(Requests) /\ waiting' \in Int
    BY <1>6, LeaveLineType DEF ResumeUnavailable
  <2>5. ProxyTypeOK'
    BY <1>6, <2>3, <2>4 DEF ResumeUnavailable, OnlyWoken, TypeOK, ProxyTypeOK, RouterTypeOK, ph, bookVars, tableVars
  <2>6. RouterTypeOK'
    BY <1>6, <2>3, <2>4 DEF ResumeUnavailable, OnlyWoken, TypeOK, ProxyTypeOK, RouterTypeOK, ph, bookVars, tableVars
  <2>7. QED
    BY <2>5, <2>6 DEF TypeOK
<1>7. ASSUME NEW r \in Requests, CancelQueued(r) PROVE TypeOK'
  BY <1>7 DEF CancelQueued, TypeOK, ProxyTypeOK, RouterTypeOK, semVars, bookVars, tableVars
<1>8. ASSUME NEW r \in Requests, RunCancelled(r) PROVE TypeOK'
  <2> DEFINE ph == [phase EXCEPT ![r] = "aborted"]
  <2>1. ph \in [Requests -> Phases] /\ value \in Int
    BY DEF TypeOK, ProxyTypeOK, RouterTypeOK
  <2>2. PICK n \in Int : Wake(ph, value, n)
    BY <1>8 DEF RunCancelled, WakeCalls, TypeOK, ProxyTypeOK, RouterTypeOK
  <2> HIDE DEF ph
  <2>3. value' \in Int /\ phase' \in [Requests -> Phases] /\ OnlyWoken(ph)
    BY <2>1, <2>2, WakeType
  <2>4. waiters' \in Seq(Requests) /\ waiting' \in Int
    BY <1>8, LeaveLineType DEF RunCancelled
  <2>5. ProxyTypeOK'
    BY <1>8, <2>3, <2>4 DEF RunCancelled, OnlyWoken, TypeOK, ProxyTypeOK, RouterTypeOK, ph, bookVars, tableVars
  <2>6. RouterTypeOK'
    BY <1>8, <2>3, <2>4 DEF RunCancelled, OnlyWoken, TypeOK, ProxyTypeOK, RouterTypeOK, ph, bookVars, tableVars
  <2>7. QED
    BY <2>5, <2>6 DEF TypeOK
<1>9. ASSUME NEW r \in Requests, CancelWoken(r) PROVE TypeOK'
  <2> DEFINE ph == [phase EXCEPT ![r] = "aborted"]
  <2>1. ph \in [Requests -> Phases] /\ value + 1 \in Int
    BY DEF TypeOK, ProxyTypeOK, RouterTypeOK
  <2>2. PICK n \in Int : Wake(ph, value + 1, n)
    BY <1>9 DEF CancelWoken, WakeCalls, TypeOK, ProxyTypeOK, RouterTypeOK
  <2> HIDE DEF ph
  <2>3. value' \in Int /\ phase' \in [Requests -> Phases] /\ OnlyWoken(ph)
    BY <2>1, <2>2, WakeType
  <2>4. waiters' \in Seq(Requests) /\ waiting' \in Int
    BY <1>9, LeaveLineType DEF CancelWoken
  <2>5. ProxyTypeOK'
    BY <1>9, <2>3, <2>4 DEF CancelWoken, OnlyWoken, TypeOK, ProxyTypeOK, RouterTypeOK, ph, bookVars, tableVars
  <2>6. RouterTypeOK'
    BY <1>9, <2>3, <2>4 DEF CancelWoken, OnlyWoken, TypeOK, ProxyTypeOK, RouterTypeOK, ph, bookVars, tableVars
  <2>7. QED
    BY <2>5, <2>6 DEF TypeOK
<1>10. ASSUME NEW r \in Requests, Respond(r) PROVE TypeOK'
  BY <1>10 DEF Respond, TypeOK, ProxyTypeOK, RouterTypeOK, semVars, bookVars, tableVars
<1>11. ASSUME NEW r \in Requests, RespondServerError(r) PROVE TypeOK'
  BY <1>11 DEF RespondServerError, TypeOK, ProxyTypeOK, RouterTypeOK, semVars, bookVars, tableVars
<1>12. ASSUME NEW r \in Requests, lease[r] \in Objects, Retry(r),
              blamed' \in [Requests -> SUBSET Objects]
       PROVE TypeOK'
  <2>1. /\ lease' \in [Requests -> Objects \cup {None}]
        /\ \A q \in Requests : q # r => lease'[q] = lease[q]
        /\ lease'[r] \in Objects
        /\ excluded' \in [Requests -> SUBSET Replicas]
        /\ inflight' \in [Objects -> Nat] /\ failures' \in [Objects -> Nat]
    BY <1>12, RerouteType DEF Retry
  <2>2. attempts' \in [Requests -> 0 .. 1]
    <3>1. attempts \in [Requests -> 0 .. 1] /\ attempts[r] < 1
      BY <1>12 DEF Retry, TypeOK, ProxyTypeOK, RouterTypeOK
    <3>2. attempts' = [attempts EXCEPT ![r] = @ + 1]
      BY <1>12 DEF Retry
    <3>3. QED
      BY <3>1, <3>2
  <2>3. ProxyTypeOK'
    BY <1>12, <2>1, <2>2 DEF Retry, TypeOK, ProxyTypeOK, RouterTypeOK, semVars, tableVars
  <2>4. RouterTypeOK'
    BY <1>12, <2>1, <2>2 DEF Retry, TypeOK, ProxyTypeOK, RouterTypeOK, semVars, tableVars
  <2>5. QED
    BY <2>3, <2>4 DEF TypeOK
<1>13. ASSUME NEW r \in Requests, lease[r] \in Objects, GiveUp(r),
              blamed' \in [Requests -> SUBSET Objects]
       PROVE TypeOK'
  <2>1. /\ inflight' \in [Objects -> Nat] /\ failures' \in [Objects -> Nat]
        /\ totalErrors' \in Nat /\ gauge' \in Int
        /\ value' \in Int /\ phase' \in [Requests -> Phases]
        /\ \A q \in Requests : phase'[q] \in Served => lease'[q] \in Objects
        /\ UNCHANGED <<lease, excluded, attempts, waiters, waiting>>
    BY <1>13, SettleType DEF GiveUp
  <2>2. ProxyTypeOK'
    BY <1>13, <2>1 DEF GiveUp, TypeOK, ProxyTypeOK, RouterTypeOK, tableVars
  <2>3. RouterTypeOK'
    BY <1>13, <2>1 DEF GiveUp, TypeOK, ProxyTypeOK, RouterTypeOK, tableVars
  <2>4. QED
    BY <2>2, <2>3 DEF TypeOK
<1>14. ASSUME NEW r \in Requests, SendError(r) PROVE TypeOK'
  <2>1. lease[r] \in Objects /\ blamed' \in [Requests -> SUBSET Objects]
    BY <1>14 DEF SendError, TypeOK, ProxyTypeOK, RouterTypeOK
  <2>2. QED
    BY <1>12, <1>13, <1>14, <2>1 DEF SendError
<1>15. ASSUME NEW r \in Requests, CloseDone(r) PROVE TypeOK'
  <2>1. lease[r] \in Objects /\ blamed' \in [Requests -> SUBSET Objects]
    BY <1>15 DEF CloseDone, TypeOK, ProxyTypeOK, RouterTypeOK
  <2>2. QED
    BY <1>12, <1>13, <1>15, <2>1 DEF CloseDone
<1>16. ASSUME NEW r \in Requests, Abort(r) PROVE TypeOK'
  <2>1. lease[r] \in Objects
    BY <1>16 DEF Abort, TypeOK, ProxyTypeOK, RouterTypeOK
  <2>2. /\ inflight' \in [Objects -> Nat] /\ failures' \in [Objects -> Nat]
        /\ totalErrors' \in Nat /\ gauge' \in Int
        /\ value' \in Int /\ phase' \in [Requests -> Phases]
        /\ \A q \in Requests : phase'[q] \in Served => lease'[q] \in Objects
        /\ UNCHANGED <<lease, excluded, attempts, waiters, waiting>>
    BY <1>16, <2>1, SettleType DEF Abort
  <2>3. ProxyTypeOK'
    BY <1>16, <2>2 DEF Abort, TypeOK, ProxyTypeOK, RouterTypeOK, tableVars
  <2>4. RouterTypeOK'
    BY <1>16, <2>2 DEF Abort, TypeOK, ProxyTypeOK, RouterTypeOK, tableVars
  <2>5. QED
    BY <2>3, <2>4 DEF TypeOK
<1>17. ASSUME NEW r \in Requests, StreamEnd(r) PROVE TypeOK'
  BY <1>17 DEF StreamEnd, TypeOK, ProxyTypeOK, RouterTypeOK, semVars, bookVars, tableVars
<1>18. ASSUME NEW r \in Requests, BackendDrop(r) PROVE TypeOK'
  BY <1>18 DEF BackendDrop, TypeOK, ProxyTypeOK, RouterTypeOK, semVars, bookVars, tableVars
<1>19. ASSUME NEW r \in Requests, Finish(r) PROVE TypeOK'
  <2>1. lease[r] \in Objects /\ error[r] \in BOOLEAN
    BY <1>19 DEF Finish, TypeOK, ProxyTypeOK, RouterTypeOK
  <2>2. (IF error[r] THEN "dropped" ELSE "answered") \in Terminal
    OBVIOUS
  <2>3. /\ inflight' \in [Objects -> Nat] /\ failures' \in [Objects -> Nat]
        /\ totalErrors' \in Nat /\ gauge' \in Int
        /\ value' \in Int /\ phase' \in [Requests -> Phases]
        /\ \A q \in Requests : phase'[q] \in Served => lease'[q] \in Objects
        /\ UNCHANGED <<lease, excluded, attempts, waiters, waiting>>
    BY <1>19, <2>1, <2>2, SettleType DEF Finish
  <2>4. ProxyTypeOK'
    BY <1>19, <2>3 DEF Finish, TypeOK, ProxyTypeOK, RouterTypeOK, tableVars
  <2>5. RouterTypeOK'
    BY <1>19, <2>3 DEF Finish, TypeOK, ProxyTypeOK, RouterTypeOK, tableVars
  <2>6. QED
    BY <2>4, <2>5 DEF TypeOK
<1>20. ASSUME NEW i \in Replicas, SetStatus(i) PROVE TypeOK'
  BY <1>20, LimitAssumption DEF SetStatus, TypeOK, ProxyTypeOK, RouterTypeOK, proxyVars, semVars, bookVars
<1>21. ASSUME NEW i \in Replicas, RemoveReplica(i) PROVE TypeOK'
  BY <1>21, LimitAssumption DEF RemoveReplica, TypeOK, ProxyTypeOK, RouterTypeOK, proxyVars, semVars, bookVars
<1>22. ASSUME NEW i \in Replicas, AddReplica(i) PROVE TypeOK'
  BY <1>22, LimitAssumption DEF AddReplica, TypeOK, ProxyTypeOK, RouterTypeOK, proxyVars, semVars, bookVars
<1>23. CASE BeginShutdown
  BY <1>23 DEF BeginShutdown, TypeOK, ProxyTypeOK, RouterTypeOK, proxyVars, semVars, bookVars, tableVars
<1>24. CASE UNCHANGED vars
  BY <1>24 DEF vars, TypeOK, ProxyTypeOK, RouterTypeOK, proxyVars, semVars, bookVars, tableVars
<1>25. QED
  BY <1>1, <1>2, <1>3, <1>4, <1>5, <1>6, <1>7, <1>8, <1>9, <1>10, <1>11,
     <1>14, <1>15, <1>16, <1>17, <1>18, <1>19, <1>20, <1>21, <1>22, <1>23,
     <1>24 DEF Next, Progress

\* Every state the router and its request tasks reach is well typed, and a
\* request that is being served has a lease.
THEOREM TypeCorrect == Spec => []TypeOK
<1>1. QED
  BY TypeInit, TypeStep, PTL DEF Spec

-----------------------------------------------------------------------------
(* Slot conservation                                                       *)

Holding == Served \cup {"woken"}
HoldersOf(ph) == {r \in Requests : ph[r] \in Holding}

LEMMA HoldersAreHoldersOf == Holders = HoldersOf(phase)
BY DEF Holders, HoldersOf, Holding

\* A request that takes a slot, keeps it or gives it up changes the number of
\* holders accordingly.
LEMMA HoldersChange ==
  ASSUME TypeOK, NEW r \in Requests, NEW p \in Phases
  PROVE  LET ph == [phase EXCEPT ![r] = p] IN
         /\ ph \in [Requests -> Phases]
         /\ Cardinality(Holders) \in Nat /\ Cardinality(HoldersOf(ph)) \in Nat
         /\ (phase[r] \in Holding <=> p \in Holding)
              => Cardinality(HoldersOf(ph)) = Cardinality(Holders)
         /\ phase[r] \in Holding /\ p \notin Holding
              => Cardinality(HoldersOf(ph)) = Cardinality(Holders) - 1
         /\ phase[r] \notin Holding /\ p \in Holding
              => Cardinality(HoldersOf(ph)) = Cardinality(Holders) + 1
<1> DEFINE ph == [phase EXCEPT ![r] = p]
<1>1. phase \in [Requests -> Phases] /\ ph \in [Requests -> Phases]
  BY DEF TypeOK, ProxyTypeOK
<1>2. IsFiniteSet(Holders)
  BY FiniteAssumption, FS_Subset DEF Holders
<1>3. Holders \ {r} = HoldersOf(ph) \ {r}
  BY <1>1, HoldersAreHoldersOf DEF HoldersOf
<1>4. (r \in Holders <=> phase[r] \in Holding) /\ (r \in HoldersOf(ph) <=> p \in Holding)
  BY <1>1, HoldersAreHoldersOf DEF HoldersOf
<1> HIDE DEF ph
<1>5. /\ Cardinality(Holders) \in Nat /\ Cardinality(HoldersOf(ph)) \in Nat
      /\ (r \in Holders <=> r \in HoldersOf(ph))
           => Cardinality(HoldersOf(ph)) = Cardinality(Holders)
      /\ r \in Holders /\ r \notin HoldersOf(ph)
           => Cardinality(HoldersOf(ph)) = Cardinality(Holders) - 1
      /\ r \notin Holders /\ r \in HoldersOf(ph)
           => Cardinality(HoldersOf(ph)) = Cardinality(Holders) + 1
  BY <1>2, <1>3, CountChange
<1>6. QED
  BY <1>1, <1>4, <1>5 DEF ph

\* Waking waiters moves slots from the free ones to the holders.
LEMMA WakeConserves ==
  ASSUME NEW ph \in [Requests -> Phases], NEW v \in Int, NEW n \in Int,
         n <= v, Wake(ph, v, n)
  PROVE  value' >= 0 /\ value' + Cardinality(Holders') = v + Cardinality(HoldersOf(ph))
<1>1. PICK woken \in SUBSET {r \in Requests : ph[r] = "queued"} :
        /\ IsFiniteSet(woken) /\ Cardinality(woken) \in Nat
        /\ Cardinality(woken) <= n
        /\ value' = v - Cardinality(woken)
        /\ phase' = [r \in Requests |-> IF r \in woken THEN "woken" ELSE ph[r]]
  BY WakeEffect
<1>2. IsFiniteSet(HoldersOf(ph))
  BY FiniteAssumption, FS_Subset DEF HoldersOf
<1>3. HoldersOf(ph) \cap woken = {}
  BY DEF HoldersOf, Holding
<1>4. Holders' = HoldersOf(ph) \cup woken
  BY <1>1 DEF HoldersOf, Holders, Holding
<1>5. /\ Cardinality(HoldersOf(ph)) \in Nat
      /\ Cardinality(HoldersOf(ph) \cup woken) =
            Cardinality(HoldersOf(ph)) + Cardinality(woken)
              - Cardinality(HoldersOf(ph) \cap woken)
  BY <1>1, <1>2, FS_Union, FS_CardinalityType
<1>6. Cardinality(HoldersOf(ph) \cap woken) = 0
  BY <1>3, FS_EmptySet
<1>7. QED
  BY <1>1, <1>4, <1>5, <1>6

\* The slots stay balanced when request r moves to phase p, gives its slot back
\* if p holds none, and n waiters are woken.
LEMMA MoveConserves ==
  ASSUME TypeOK, SlotConservation, NEW r \in Requests, NEW p \in Phases,
         NEW n \in Int, NEW v \in Int, n <= v,
         Wake([phase EXCEPT ![r] = p], v, n),
         p \in Holding => phase[r] \in Holding,
         v = IF phase[r] \in Holding /\ p \notin Holding THEN value + 1 ELSE value
  PROVE  SlotConservation'
<1> DEFINE ph == [phase EXCEPT ![r] = p]
<1> SUFFICES ASSUME Gated
             PROVE  value' >= 0 /\ value' + Cardinality(Holders') = MaxConcurrency
  BY DEF SlotConservation, Gated
<1>1. /\ ph \in [Requests -> Phases] /\ Cardinality(Holders) \in Nat
      /\ Cardinality(HoldersOf(ph)) =
            IF phase[r] \in Holding /\ p \notin Holding
              THEN Cardinality(Holders) - 1 ELSE Cardinality(Holders)
  BY HoldersChange
<1>2. value \in Int /\ value >= 0 /\ value + Cardinality(Holders) = MaxConcurrency
  BY DEF SlotConservation, TypeOK, RouterTypeOK
<1>3. Wake(ph, v, n)
  OBVIOUS
<1> HIDE DEF ph
<1>4. value' >= 0 /\ value' + Cardinality(Holders') = v + Cardinality(HoldersOf(ph))
  BY <1>1, <1>3, WakeConserves
<1>5. QED
  BY <1>1, <1>2, <1>4

\* A step that wakes nobody and lets r neither in nor out changes nothing.
LEMMA QuietConserves ==
  ASSUME TypeOK, SlotConservation, NEW r \in Requests, NEW p \in Phases,
         phase' = [phase EXCEPT ![r] = p], value' = value,
         phase[r] \in Holding <=> p \in Holding
  PROVE  SlotConservation'
<1>1. Cardinality(HoldersOf(phase')) = Cardinality(Holders)
  BY HoldersChange
<1>2. Holders' = HoldersOf(phase')
  BY DEF Holders, HoldersOf, Holding
<1>3. QED
  BY <1>1, <1>2 DEF SlotConservation, Gated

LEMMA SettleConserves ==
  ASSUME TypeOK, SlotConservation, NEW r \in Requests, phase[r] \in Served,
         NEW outcome \in Terminal, NEW failed \in BOOLEAN, Settle(r, outcome, failed)
  PROVE  SlotConservation'
<1>1. phase[r] \in Holding /\ outcome \notin Holding /\ outcome \in Phases
  BY DEF Holding
<1>2. CASE Gated
  <2>1. PICK n \in {1} : Wake([phase EXCEPT ![r] = outcome], value + 1, n)
    BY <1>2 DEF Settle, ReleaseSlot
  <2>2. n \in Int /\ value + 1 \in Int /\ n <= value + 1
    BY <1>2, <2>1 DEF SlotConservation, TypeOK, RouterTypeOK
  <2>3. QED
    BY <1>1, <2>1, <2>2, MoveConserves
<1>3. CASE ~Gated
  BY <1>3 DEF SlotConservation, Gated
<1>4. QED
  BY <1>2, <1>3

LEMMA SlotInit == Init => SlotConservation
<1> SUFFICES ASSUME Init PROVE SlotConservation
  OBVIOUS
<1>1. Holders = {}
  BY DEF Init, Holders
<1>2. Cardinality(Holders) = 0
  BY <1>1, FS_EmptySet
<1>3. QED
  BY <1>2, LimitAssumption DEF Init, SlotConservation

LEMMA SlotStep ==
  ASSUME TypeOK, SlotConservation, [Next]_vars
  PROVE  SlotConservation'
<1> USE DEF Holding
<1>0. value \in Int /\ (Gated => value >= 0)
  BY DEF SlotConservation, TypeOK, RouterTypeOK
<1>1. CASE ~Gated
  BY <1>1 DEF SlotConservation, Gated
<1>2. ASSUME Gated PROVE SlotConservation'
  <2>1. ASSUME NEW r \in Requests, ArriveOverloaded(r) PROVE SlotConservation'
    BY <2>1, QuietConserves DEF ArriveOverloaded, semVars
  <2>2. ASSUME NEW r \in Requests, ArriveQueued(r) PROVE SlotConservation'
    BY <2>2, QuietConserves DEF ArriveQueued
  <2>3. ASSUME NEW r \in Requests, ArriveServed(r) PROVE SlotConservation'
    <3>1. value' = value - 1 /\ value # 0 /\ phase[r] = "new"
      BY <1>2, <2>3 DEF ArriveServed, Locked
    <3>2. /\ Cardinality(Holders) \in Nat
          /\ Cardinality(HoldersOf([phase EXCEPT ![r] = "sending"]))
                = Cardinality(Holders) + 1
      BY <3>1, HoldersChange
    <3>3. Cardinality(Holders') = Cardinality(Holders) + 1
      BY <2>3, <3>2 DEF ArriveServed, Holders, HoldersOf
    <3>4. QED
      BY <1>0, <1>2, <3>1, <3>2, <3>3 DEF SlotConservation
  <2>4. ASSUME NEW r \in Requests, ArriveUnavailable(r) PROVE SlotConservation'
    <3>1. value # 0 /\ phase[r] = "new"
      BY <1>2, <2>4 DEF ArriveUnavailable, Locked
    <3>2. PICK n \in {1} : Wake([phase EXCEPT ![r] = "unavailable"], value, n)
      BY <1>2, <2>4 DEF ArriveUnavailable
    <3>3. n \in Int /\ n <= value
      BY <1>0, <1>2, <3>1, <3>2
    <3>4. QED
      BY <1>0, <3>1, <3>2, <3>3, MoveConserves
  <2>5. ASSUME NEW r \in Requests, ResumeServed(r) PROVE SlotConservation'
    <3>1. PICK n \in WakeCalls(value) : Wake([phase EXCEPT ![r] = "sending"], value, n)
      BY <2>5 DEF ResumeServed
    <3>2. n \in Int /\ n <= value /\ phase[r] = "woken"
      BY <1>0, <1>2, <2>5, <3>1 DEF ResumeServed, WakeCalls
    <3>3. QED
      BY <1>0, <3>1, <3>2, MoveConserves
  <2>6. ASSUME NEW r \in Requests, ResumeUnavailable(r) PROVE SlotConservation'
    <3>1. PICK n \in WakeCalls(value) :
            Wake([phase EXCEPT ![r] = "unavailable"], value + 1, n + 1)
      BY <2>6 DEF ResumeUnavailable
    <3>2. /\ n + 1 \in Int /\ n + 1 <= value + 1 /\ value + 1 \in Int
          /\ phase[r] = "woken"
      BY <1>0, <1>2, <2>6, <3>1 DEF ResumeUnavailable, WakeCalls
    <3>3. QED
      BY <3>1, <3>2, MoveConserves
  <2>7. ASSUME NEW r \in Requests, CancelQueued(r) PROVE SlotConservation'
    BY <2>7, QuietConserves DEF CancelQueued, semVars
  <2>8. ASSUME NEW r \in Requests, RunCancelled(r) PROVE SlotConservation'
    <3>1. PICK n \in {0, value} : Wake([phase EXCEPT ![r] = "aborted"], value, n)
      BY <2>8 DEF RunCancelled
    <3>2. n \in Int /\ n <= value /\ phase[r] = "cancelled"
      BY <1>0, <1>2, <2>8, <3>1 DEF RunCancelled
    <3>3. QED
      BY <1>0, <3>1, <3>2, MoveConserves
  <2>9. ASSUME NEW r \in Requests, CancelWoken(r) PROVE SlotConservation'
    <3>1. PICK n \in WakeCalls(value + 1) :
            Wake([phase EXCEPT ![r] = "aborted"], value + 1, n)
      BY <2>9 DEF CancelWoken
    <3>2. n \in Int /\ n <= value + 1 /\ value + 1 \in Int /\ phase[r] = "woken"
      BY <1>0, <1>2, <2>9, <3>1 DEF CancelWoken, WakeCalls
    <3>3. QED
      BY <3>1, <3>2, MoveConserves
  <2>10. ASSUME NEW r \in Requests, Respond(r) PROVE SlotConservation'
    BY <2>10, QuietConserves DEF Respond, semVars
  <2>11. ASSUME NEW r \in Requests, RespondServerError(r) PROVE SlotConservation'
    BY <2>11, QuietConserves DEF RespondServerError, semVars
  <2>12. ASSUME NEW r \in Requests, phase[r] \in Served, Retry(r)
         PROVE  SlotConservation'
    BY <2>12, QuietConserves DEF Retry, semVars
  <2>13. ASSUME NEW r \in Requests, phase[r] \in Served, GiveUp(r)
         PROVE  SlotConservation'
    BY <2>13, SettleConserves DEF GiveUp
  <2>14. ASSUME NEW r \in Requests, SendError(r) PROVE SlotConservation'
    BY <2>12, <2>13, <2>14 DEF SendError
  <2>15. ASSUME NEW r \in Requests, CloseDone(r) PROVE SlotConservation'
    BY <2>12, <2>13, <2>15 DEF CloseDone
  <2>16. ASSUME NEW r \in Requests, Abort(r) PROVE SlotConservation'
    BY <2>16, SettleConserves DEF Abort
  <2>17. ASSUME NEW r \in Requests, StreamEnd(r) PROVE SlotConservation'
    BY <2>17, QuietConserves DEF StreamEnd, semVars
  <2>18. ASSUME NEW r \in Requests, BackendDrop(r) PROVE SlotConservation'
    BY <2>18, QuietConserves DEF BackendDrop, semVars
  <2>19. ASSUME NEW r \in Requests, Finish(r) PROVE SlotConservation'
    <3>1. (IF error[r] THEN "dropped" ELSE "answered") \in Terminal
      OBVIOUS
    <3>2. error[r] \in BOOLEAN /\ phase[r] \in Served
      BY <2>19 DEF Finish, TypeOK, ProxyTypeOK
    <3>3. QED
      BY <2>19, <3>1, <3>2, SettleConserves DEF Finish
  <2>20. ASSUME UNCHANGED <<value, phase>> PROVE SlotConservation'
    BY <2>20 DEF SlotConservation, Holders
  <2>21. ASSUME NEW i \in Replicas, SetStatus(i) \/ RemoveReplica(i) \/ AddReplica(i)
         PROVE  SlotConservation'
    BY <2>20, <2>21 DEF SetStatus, RemoveReplica, AddReplica, proxyVars, semVars
  <2>22. CASE BeginShutdown
    BY <2>20, <2>22 DEF BeginShutdown, proxyVars, semVars
  <2>23. CASE UNCHANGED vars
    BY <2>20, <2>23 DEF vars, proxyVars, semVars
  <2>24. QED
    BY <2>1, <2>2, <2>3, <2>4, <2>5, <2>6, <2>7, <2>8, <2>9, <2>10, <2>11,
       <2>14, <2>15, <2>16, <2>17, <2>18, <2>19, <2>21, <2>22, <2>23
       DEF Next, Progress
<1>3. QED
  BY <1>1, <1>2

\* For any number of slots, requests and replicas, no path through the proxy
\* loses a slot or gives it back twice: free slots and holders add up.
THEOREM SlotsConserved == Spec => []SlotConservation
<1>1. Init => TypeOK /\ SlotConservation
  BY TypeInit, SlotInit
<1>2. TypeOK /\ SlotConservation /\ [Next]_vars => (TypeOK /\ SlotConservation)'
  BY TypeStep, SlotStep
<1>3. QED
  BY <1>1, <1>2, PTL DEF Spec

-----------------------------------------------------------------------------
(* The other counters.  Every step moves one request in one of eight ways  *)
(* (and may wake others, which no counter can tell); each counter then has *)
(* to follow these eight.                                                  *)

\* What a request remembers of its attempts.
Remembers(q) ==
    /\ lease'[q] = lease[q] /\ excluded'[q] = excluded[q]
    /\ attempts'[q] = attempts[q] /\ error'[q] = error[q] /\ blamed'[q] = blamed[q]

\* Request r goes to phase p, and all that happens to others is that they are woken.
Moved(r, p) ==
    /\ phase'[r] = p
    /\ \A q \in Requests \ {r} :
          phase'[q] = phase[q] \/ (phase[q] = "queued" /\ phase'[q] = "woken")

\* The others remember what they did.
Others(r) == \A q \in Requests \ {r} : Remembers(q)

Rejects(r) ==
    /\ phase[r] = "new"
    /\ \E p \in {"overloaded", "unavailable"} : Moved(r, p)
    /\ Remembers(r)
    /\ UNCHANGED <<waiters, waiting, inflight, failures, totalErrors, gauge>>

Joins(r) ==
    /\ phase[r] = "new" /\ Moved(r, "queued")
    /\ waiting < MaxQueueDepth
    /\ waiters' = Append(waiters, r) /\ waiting' = waiting + 1
    /\ gauge' = gauge + 1
    /\ Remembers(r)
    /\ UNCHANGED <<inflight, failures, totalErrors>>

StaysInLine(r) ==
    /\ phase[r] = "queued" /\ Moved(r, "cancelled")
    /\ Remembers(r)
    /\ UNCHANGED <<waiters, waiting, inflight, failures, totalErrors, gauge>>

Leaves(r) ==
    /\ phase[r] \in InLine
    /\ \E p \in {"unavailable", "aborted"} : Moved(r, p)
    /\ LeaveLine(r)
    /\ gauge' = gauge - 1
    /\ Remembers(r)
    /\ UNCHANGED <<inflight, failures, totalErrors>>

Starts(r) ==
    /\ \/ phase[r] = "new" /\ gauge' = gauge + 1 /\ UNCHANGED <<waiters, waiting>>
       \/ phase[r] = "woken" /\ LeaveLine(r) /\ UNCHANGED gauge
    /\ Moved(r, "sending")
    /\ TakeLease(r)
    /\ UNCHANGED <<attempts, error, blamed, failures, totalErrors>>

\* The attempt that r is on has failed.
Blames(r) == blamed' = [blamed EXCEPT ![r] = @ \cup {lease[r]}]

Answers(r) ==
    /\ \/ /\ phase[r] = "sending" /\ Moved(r, "streaming")
          /\ UNCHANGED <<error, blamed>>
       \/ /\ phase[r] = "sending" /\ Moved(r, "closing")
          /\ UNCHANGED error /\ Blames(r)
       \/ /\ phase[r] = "streaming" /\ Moved(r, "draining")
          /\ UNCHANGED <<error, blamed>>
       \/ /\ phase[r] = "streaming" /\ Moved(r, "draining")
          /\ error' = [error EXCEPT ![r] = TRUE] /\ Blames(r)
    /\ UNCHANGED <<lease, excluded, attempts>>
    /\ UNCHANGED <<waiters, waiting, inflight, failures, totalErrors, gauge>>

\* The attempt had failed when it was sent, or fails now.
Fails(r) ==
    \/ phase[r] = "sending" /\ Blames(r)
    \/ phase[r] = "closing" /\ UNCHANGED blamed

Retries(r) ==
    /\ Fails(r) /\ attempts[r] < 1
    /\ Moved(r, "sending")
    /\ Reroute(r)
    /\ attempts' = [attempts EXCEPT ![r] = @ + 1]
    /\ UNCHANGED <<error, waiters, waiting, totalErrors, gauge>>

Ends(r) ==
    /\ phase[r] \in Served
    /\ \/ /\ Fails(r) /\ Moved(r, "bad_gateway") /\ ReleaseLease(r, TRUE)
          /\ error' = [error EXCEPT ![r] = TRUE]
       \/ /\ phase[r] \in {"sending", "closing"} /\ Moved(r, "aborted")
          /\ ReleaseLease(r, FALSE)
          /\ UNCHANGED <<error, blamed>>
       \/ /\ phase[r] = "draining" /\ error[r] /\ Moved(r, "dropped")
          /\ ReleaseLease(r, TRUE)
          /\ UNCHANGED <<error, blamed>>
       \/ /\ phase[r] = "draining" /\ ~error[r] /\ Moved(r, "answered")
          /\ ReleaseLease(r, FALSE)
          /\ UNCHANGED <<error, blamed>>
    /\ gauge' = gauge - 1
    /\ UNCHANGED <<lease, excluded, attempts, waiters, waiting>>

\* Nothing that concerns requests.
Rests ==
    UNCHANGED <<proxyVars, waiters, waiting, bookVars, gauge, blamed>>

StepOf(r) ==
    \/ Rejects(r) \/ Joins(r) \/ StaysInLine(r) \/ Leaves(r)
    \/ Starts(r) \/ Answers(r) \/ Retries(r) \/ Ends(r)

\* A task moves and others may be woken.
LEMMA WokenMoved ==
  ASSUME TypeOK, NEW r \in Requests, NEW p \in Phases, p # "queued",
         OnlyWoken([phase EXCEPT ![r] = p])
  PROVE  Moved(r, p)
BY DEF OnlyWoken, Moved, TypeOK, ProxyTypeOK

LEMMA PlainMoved ==
  ASSUME TypeOK, NEW r \in Requests, NEW p \in Phases,
         phase' = [phase EXCEPT ![r] = p]
  PROVE  Moved(r, p)
BY DEF Moved, TypeOK, ProxyTypeOK

\* Waking after a move of r.
LEMMA WakeMoved ==
  ASSUME TypeOK, NEW r \in Requests, NEW p \in Phases, p # "queued",
         NEW v \in Int, NEW n \in Int, Wake([phase EXCEPT ![r] = p], v, n)
  PROVE  Moved(r, p)
<1>1. [phase EXCEPT ![r] = p] \in [Requests -> Phases]
  BY DEF TypeOK, ProxyTypeOK
<1>2. QED
  BY <1>1, WakeType, WokenMoved

LEMMA ReleaseMoved ==
  ASSUME TypeOK, NEW r \in Requests, NEW p \in Phases, p # "queued",
         ReleaseSlot([phase EXCEPT ![r] = p])
  PROVE  Moved(r, p)
<1>1. [phase EXCEPT ![r] = p] \in [Requests -> Phases]
  BY DEF TypeOK, ProxyTypeOK
<1>2. QED
  BY <1>1, ReleaseSlotType, WokenMoved

LEMMA NobodyChanges ==
  ASSUME UNCHANGED <<lease, excluded, attempts, error, blamed>>
  PROVE  \A q \in Requests : Remembers(q)
BY DEF Remembers

\* Every step is one of these.
LEMMA StepKinds ==
  ASSUME TypeOK, [Next]_vars
  PROVE  Rests \/ \E r \in Requests : Others(r) /\ StepOf(r)
<1> DEFINE Kind(r) == Others(r) /\ StepOf(r)
<1> SUFFICES Rests \/ \E r \in Requests : Kind(r)
  OBVIOUS
<1>t. value \in Int
  BY DEF TypeOK, RouterTypeOK
<1>1. ASSUME NEW r \in Requests, ArriveOverloaded(r) PROVE Kind(r)
  <2>1. Moved(r, "overloaded")
    BY <1>1, PlainMoved DEF ArriveOverloaded
  <2>2. QED
    BY <1>1, <2>1, NobodyChanges
       DEF ArriveOverloaded, Rejects, StepOf, Others, semVars, bookVars
<1>2. ASSUME NEW r \in Requests, ArriveQueued(r) PROVE Kind(r)
  <2>1. Moved(r, "queued")
    BY <1>2, PlainMoved DEF ArriveQueued
  <2>2. QED
    BY <1>2, <2>1, NobodyChanges DEF ArriveQueued, Joins, StepOf, Others, bookVars
<1>3. ASSUME NEW r \in Requests, ArriveServed(r) PROVE Kind(r)
  <2>1. Moved(r, "sending")
    BY <1>3, PlainMoved DEF ArriveServed
  <2>2. Others(r)
    BY <1>3 DEF ArriveServed, TakeLease, Others, Remembers, TypeOK, ProxyTypeOK
  <2>3. QED
    BY <1>3, <2>1, <2>2 DEF ArriveServed, Starts, StepOf
<1>4. ASSUME NEW r \in Requests, ArriveUnavailable(r) PROVE Kind(r)
  <2>1. Moved(r, "unavailable")
    <3>1. CASE Gated
      <4>1. PICK n \in {1} : Wake([phase EXCEPT ![r] = "unavailable"], value, n)
        BY <1>4, <3>1 DEF ArriveUnavailable
      <4>2. n \in Int
        BY <4>1
      <4>3. QED
        BY <1>t, <4>1, <4>2, WakeMoved
    <3>2. CASE ~Gated
      BY <1>4, <3>2, PlainMoved DEF ArriveUnavailable
    <3>3. QED
      BY <3>1, <3>2
  <2>2. QED
    BY <1>4, <2>1, NobodyChanges
       DEF ArriveUnavailable, Rejects, StepOf, Others, bookVars
<1>5. ASSUME NEW r \in Requests, ResumeServed(r) PROVE Kind(r)
  <2>1. PICK n \in WakeCalls(value) : Wake([phase EXCEPT ![r] = "sending"], value, n)
    BY <1>5 DEF ResumeServed
  <2>n. n \in Int
    BY <1>t, <2>1 DEF WakeCalls
  <2>2. Moved(r, "sending")
    BY <1>t, <2>1, <2>n, WakeMoved
  <2>3. Others(r)
    BY <1>5 DEF ResumeServed, TakeLease, Others, Remembers, TypeOK, ProxyTypeOK
  <2>4. QED
    BY <1>5, <2>2, <2>3 DEF ResumeServed, Starts, StepOf
<1>6. ASSUME NEW r \in Requests, ResumeUnavailable(r) PROVE Kind(r)
  <2>1. PICK n \in WakeCalls(value) :
          Wake([phase EXCEPT ![r] = "unavailable"], value + 1, n + 1)
    BY <1>6 DEF ResumeUnavailable
  <2>2. n + 1 \in Int /\ value + 1 \in Int
    BY <1>t, <2>1 DEF WakeCalls
  <2>3. Moved(r, "unavailable")
    BY <2>1, <2>2, WakeMoved
  <2>4. QED
    BY <1>6, <2>3, NobodyChanges DEF ResumeUnavailable, Leaves, StepOf, Others, bookVars
<1>7. ASSUME NEW r \in Requests, CancelQueued(r) PROVE Kind(r)
  <2>1. Moved(r, "cancelled")
    BY <1>7, PlainMoved DEF CancelQueued
  <2>2. QED
    BY <1>7, <2>1, NobodyChanges
       DEF CancelQueued, StaysInLine, StepOf, Others, semVars, bookVars
<1>8. ASSUME NEW r \in Requests, RunCancelled(r) PROVE Kind(r)
  <2>1. PICK n \in {0, value} : Wake([phase EXCEPT ![r] = "aborted"], value, n)
    BY <1>8 DEF RunCancelled
  <2>n. n \in Int
    BY <1>t, <2>1
  <2>2. Moved(r, "aborted")
    BY <1>t, <2>1, <2>n, WakeMoved
  <2>3. QED
    BY <1>8, <2>2, NobodyChanges DEF RunCancelled, Leaves, StepOf, Others, bookVars
<1>9. ASSUME NEW r \in Requests, CancelWoken(r) PROVE Kind(r)
  <2>1. PICK n \in WakeCalls(value + 1) :
          Wake([phase EXCEPT ![r] = "aborted"], value + 1, n)
    BY <1>9 DEF CancelWoken
  <2>2. n \in Int /\ value + 1 \in Int
    BY <1>t, <2>1 DEF WakeCalls
  <2>3. Moved(r, "aborted")
    BY <2>1, <2>2, WakeMoved
  <2>4. QED
    BY <1>9, <2>3, NobodyChanges DEF CancelWoken, Leaves, StepOf, Others, bookVars
<1>10. ASSUME NEW r \in Requests, Respond(r) PROVE Kind(r)
  <2>1. Moved(r, "streaming")
    BY <1>10, PlainMoved DEF Respond
  <2>2. QED
    BY <1>10, <2>1, NobodyChanges
       DEF Respond, Answers, StepOf, Others, semVars, bookVars
<1>b. ASSUME NEW r \in Requests, Blames(r)
      PROVE  \A q \in Requests \ {r} : blamed'[q] = blamed[q]
  BY <1>b DEF Blames, TypeOK, RouterTypeOK
<1>11. ASSUME NEW r \in Requests, RespondServerError(r) PROVE Kind(r)
  <2>1. Moved(r, "closing")
    BY <1>11, PlainMoved DEF RespondServerError
  <2>2. Blames(r)
    BY <1>11 DEF RespondServerError, Blames
  <2>3. Others(r)
    BY <1>11, <1>b, <2>2 DEF RespondServerError, Others, Remembers
  <2>4. QED
    BY <1>11, <2>1, <2>2, <2>3 DEF RespondServerError, Answers, StepOf, semVars, bookVars
<1>12. ASSUME NEW r \in Requests, Fails(r), Retry(r) PROVE Kind(r)
  <2>1. Moved(r, "sending")
    BY <1>12, PlainMoved DEF Retry
  <2>2. Others(r)
    BY <1>12, <1>b DEF Retry, Reroute, Fails, Others, Remembers, TypeOK, ProxyTypeOK
  <2>3. QED
    BY <1>12, <2>1, <2>2 DEF Retry, Retries, StepOf, semVars
<1>13. ASSUME NEW r \in Requests, Fails(r), GiveUp(r) PROVE Kind(r)
  <2>1. Moved(r, "bad_gateway")
    BY <1>13, ReleaseMoved DEF GiveUp, Settle
  <2>2. Others(r)
    BY <1>13, <1>b DEF GiveUp, Settle, Fails, Others, Remembers, TypeOK, ProxyTypeOK
  <2>3. phase[r] \in Served
    BY <1>13 DEF Fails
  <2>4. QED
    BY <1>13, <2>1, <2>2, <2>3 DEF GiveUp, Settle, Ends, StepOf
<1>14. ASSUME NEW r \in Requests, SendError(r) PROVE Kind(r)
  <2>1. Fails(r)
    BY <1>14 DEF SendError, Fails, Blames
  <2>2. QED
    BY <1>12, <1>13, <1>14, <2>1 DEF SendError
<1>15. ASSUME NEW r \in Requests, CloseDone(r) PROVE Kind(r)
  <2>1. Fails(r)
    BY <1>15 DEF CloseDone, Fails
  <2>2. QED
    BY <1>12, <1>13, <1>15, <2>1 DEF CloseDone
<1>16. ASSUME NEW r \in Requests, Abort(r) PROVE Kind(r)
  <2>1. Moved(r, "aborted")
    BY <1>16, ReleaseMoved DEF Abort, Settle
  <2>2. QED
    BY <1>16, <2>1, NobodyChanges DEF Abort, Settle, Ends, StepOf, Others
<1>17. ASSUME NEW r \in Requests, StreamEnd(r) PROVE Kind(r)
  <2>1. Moved(r, "draining")
    BY <1>17, PlainMoved DEF StreamEnd
  <2>2. QED
    BY <1>17, <2>1, NobodyChanges
       DEF StreamEnd, Answers, StepOf, Others, semVars, bookVars
<1>18. ASSUME NEW r \in Requests, BackendDrop(r) PROVE Kind(r)
  <2>1. Moved(r, "draining")
    BY <1>18, PlainMoved DEF BackendDrop
  <2>2. Blames(r)
    BY <1>18 DEF BackendDrop, Blames
  <2>3. Others(r)
    BY <1>18, <1>b, <2>2 DEF BackendDrop, Others, Remembers, TypeOK, ProxyTypeOK
  <2>4. QED
    BY <1>18, <2>1, <2>2, <2>3 DEF BackendDrop, Answers, StepOf, semVars, bookVars
<1>19. ASSUME NEW r \in Requests, Finish(r) PROVE Kind(r)
  <2>1. CASE error[r]
    <3>1. Moved(r, "dropped") /\ ReleaseLease(r, TRUE)
      BY <1>19, <2>1, ReleaseMoved DEF Finish, Settle, ReleaseLease
    <3>2. QED
      BY <1>19, <2>1, <3>1, NobodyChanges DEF Finish, Settle, Ends, StepOf, Others
  <2>2. CASE ~error[r]
    <3>1. Moved(r, "answered") /\ ReleaseLease(r, FALSE)
      BY <1>19, <2>2, ReleaseMoved DEF Finish, Settle, ReleaseLease
    <3>2. QED
      BY <1>19, <2>2, <3>1, NobodyChanges DEF Finish, Settle, Ends, StepOf, Others
  <2>3. QED
    BY <2>1, <2>2
<1>20. ASSUME NEW i \in Replicas, SetStatus(i) \/ RemoveReplica(i) \/ AddReplica(i)
       PROVE  Rests
  BY <1>20 DEF SetStatus, RemoveReplica, AddReplica, Rests, semVars
<1>21. CASE BeginShutdown
  BY <1>21 DEF BeginShutdown, Rests, semVars
<1>22. CASE UNCHANGED vars
  BY <1>22 DEF vars, Rests, semVars
<1> HIDE DEF Kind
<1>23. QED
  BY <1>1, <1>2, <1>3, <1>4, <1>5, <1>6, <1>7, <1>8, <1>9, <1>10, <1>11, <1>14,
     <1>15, <1>16, <1>17, <1>18, <1>19, <1>20, <1>21, <1>22 DEF Next, Progress

-----------------------------------------------------------------------------
(* What a request remembers of its attempts                                *)

Untried(q) ==
    lease[q] = None /\ attempts[q] = 0 /\ error[q] = FALSE /\ blamed[q] = {}

\* Only the present attempt may have failed, or the one before it, which was on
\* another replica.
AttemptsOK(q) ==
    /\ lease[q] # None => lease[q][1] \in excluded[q]
    /\ attempts[q] = 0 => blamed[q] \subseteq {lease[q]}
    /\ attempts[q] = 1 =>
         /\ lease[q] \in Objects
         /\ \E o \in Objects : blamed[q] \subseteq {o, lease[q]} /\ o[1] # lease[q][1]

\* In each phase it is known whether the present attempt has failed.
BlameOK(q) ==
    /\ phase[q] \in {"sending", "streaming", "closing"} => error[q] = FALSE
    /\ phase[q] \in {"sending", "streaming"} => lease[q] \notin blamed[q]
    /\ phase[q] = "closing" => lease[q] \in blamed[q]
    /\ phase[q] = "draining" => (error[q] = TRUE <=> lease[q] \in blamed[q])

RequestOK(q) ==
    /\ phase[q] \in {"new"} \cup InLine => Untried(q)
    /\ AttemptsOK(q)
    /\ BlameOK(q)

RequestsOK == \A q \in Requests : RequestOK(q)

LEMMA RequestsInit == Init => RequestsOK
BY DEF Init, RequestsOK, RequestOK, Untried, AttemptsOK, BlameOK

\* A request that is at most woken stays as it is.
LEMMA Undisturbed ==
  ASSUME NEW q \in Requests, RequestOK(q), Remembers(q),
         \/ phase'[q] = phase[q]
         \/ phase[q] = "queued" /\ phase'[q] = "woken"
  PROVE  RequestOK(q)'
<1>1. (phase[q] \in {"new"} \cup InLine => Untried(q))'
  BY DEF RequestOK, Untried, Remembers
<1>2. AttemptsOK(q)'
  BY DEF RequestOK, AttemptsOK, Remembers
<1>3. BlameOK(q)'
  BY DEF RequestOK, BlameOK, Remembers
<1>4. QED
  BY <1>1, <1>2, <1>3 DEF RequestOK

\* A request that only goes to a phase in which nothing is known of it.
LEMMA Resigned ==
  ASSUME NEW q \in Requests, RequestOK(q), Remembers(q), phase'[q] \in Terminal
  PROVE  RequestOK(q)'
<1>1. AttemptsOK(q)'
  BY DEF RequestOK, AttemptsOK, Remembers
<1>2. QED
  BY <1>1 DEF RequestOK, BlameOK

\* A failed attempt adds the present object to those blamed.
LEMMA FailsEffect ==
  ASSUME TypeOK, NEW r \in Requests, RequestOK(r), Fails(r)
  PROVE  /\ blamed'[r] = blamed[r] \cup {lease[r]}
         /\ lease[r] \in Objects
         /\ \A q \in Requests \ {r} : blamed'[q] = blamed[q]
         /\ phase[r] \in Served
         /\ error[r] = FALSE
BY DEF Fails, Blames, RequestOK, BlameOK, TypeOK, ProxyTypeOK, RouterTypeOK

LEMMA StartsOK ==
  ASSUME TypeOK, NEW r \in Requests, RequestOK(r), Starts(r)
  PROVE  RequestOK(r)'
<1>1. PICK i \in Replicas :
        /\ lease' = [lease EXCEPT ![r] = Current(i)]
        /\ excluded' = [excluded EXCEPT ![r] = {i}]
  BY DEF Starts, TakeLease, LeastLoaded, Candidates
<1>2. lease'[r] = Current(i) /\ excluded'[r] = {i} /\ Current(i)[1] = i
  BY <1>1 DEF Current, TypeOK, ProxyTypeOK
<1>3. Untried(r) /\ attempts'[r] = 0 /\ error'[r] = FALSE /\ blamed'[r] = {}
  BY DEF Starts, RequestOK, Untried
<1>4. phase'[r] = "sending"
  BY DEF Starts, Moved
<1>5. QED
  BY <1>2, <1>3, <1>4 DEF RequestOK, AttemptsOK, BlameOK

LEMMA AnswersOK ==
  ASSUME TypeOK, NEW r \in Requests, RequestOK(r), Answers(r)
  PROVE  RequestOK(r)'
<1>1. /\ lease'[r] = lease[r] /\ excluded'[r] = excluded[r] /\ attempts'[r] = attempts[r]
      /\ lease[r] \in Objects /\ phase[r] \in {"sending", "streaming"}
  BY DEF Answers, TypeOK, ProxyTypeOK
<1>2. \/ blamed'[r] = blamed[r]
      \/ blamed'[r] = blamed[r] \cup {lease[r]}
  BY DEF Answers, Blames, TypeOK, RouterTypeOK
<1>3. AttemptsOK(r)'
  BY <1>1, <1>2 DEF RequestOK, AttemptsOK
<1>4. phase'[r] \in {"streaming", "closing", "draining"}
  BY DEF Answers, Moved
<1>5. BlameOK(r)'
  BY <1>1 DEF Answers, Moved, Blames, RequestOK, BlameOK, TypeOK, ProxyTypeOK, RouterTypeOK
<1>6. QED
  BY <1>3, <1>4, <1>5 DEF RequestOK

LEMMA RetriesOK ==
  ASSUME TypeOK, NEW r \in Requests, RequestOK(r), Retries(r)
  PROVE  RequestOK(r)' /\ lease'[r] \in Objects /\ lease'[r] \notin blamed'[r]
<1>1. PICK i \in Replicas \ excluded[r] :
        /\ lease' = [lease EXCEPT ![r] = Current(i)]
        /\ excluded' = [excluded EXCEPT ![r] = @ \cup {i}]
  BY DEF Retries, Reroute, LeastLoaded, Candidates
<1>2. /\ lease'[r] = Current(i) /\ excluded'[r] = excluded[r] \cup {i}
      /\ Current(i)[1] = i /\ Current(i) \in Objects
  BY <1>1, CurrentType DEF Current, TypeOK, ProxyTypeOK
<1>3. blamed'[r] = blamed[r] \cup {lease[r]} /\ lease[r] \in Objects
  BY FailsEffect DEF Retries
<1>4. attempts[r] = 0 /\ attempts'[r] = 1
  BY DEF Retries, TypeOK, ProxyTypeOK
<1>5. lease[r] # None
  BY <1>3, NoneAssumption DEF Objects
<1>6. lease[r][1] # i /\ blamed'[r] \subseteq {lease[r]}
  BY <1>1, <1>3, <1>4, <1>5 DEF RequestOK, AttemptsOK
<1>7. AttemptsOK(r)'
  BY <1>2, <1>3, <1>4, <1>6 DEF AttemptsOK
<1>8. phase'[r] = "sending" /\ error'[r] = FALSE
  BY FailsEffect DEF Retries, Moved
<1>9. lease'[r] \notin blamed'[r]
  BY <1>2, <1>6
<1>10. QED
  BY <1>2, <1>7, <1>8, <1>9 DEF RequestOK, BlameOK

LEMMA EndsOK ==
  ASSUME TypeOK, NEW r \in Requests, RequestOK(r), Ends(r)
  PROVE  RequestOK(r)'
<1>1. /\ lease'[r] = lease[r] /\ excluded'[r] = excluded[r] /\ attempts'[r] = attempts[r]
  BY DEF Ends
<1>2. \/ blamed'[r] = blamed[r]
      \/ blamed'[r] = blamed[r] \cup {lease[r]} /\ lease[r] \in Objects
  BY FailsEffect DEF Ends
<1>3. AttemptsOK(r)'
  BY <1>1, <1>2 DEF RequestOK, AttemptsOK
<1>4. phase'[r] \in Terminal
  BY DEF Ends, Moved
<1>5. QED
  BY <1>3, <1>4 DEF RequestOK, BlameOK

\* Every step moves some request r, and only r, to another phase.
LEMMA SomeMove ==
  ASSUME NEW r \in Requests, StepOf(r)
  PROVE  \E p \in Phases : Moved(r, p)
BY DEF StepOf, Rejects, Joins, StaysInLine, Leaves, Starts, Answers, Retries, Ends

LEMMA RequestStep ==
  ASSUME TypeOK, NEW r \in Requests, RequestOK(r), StepOf(r)
  PROVE  RequestOK(r)'
<1>1. CASE Rejects(r)
  BY <1>1, Resigned DEF Rejects, Moved
<1>2. CASE Joins(r) \/ StaysInLine(r)
  <2>1. phase[r] \in {"new"} \cup InLine /\ phase'[r] \in InLine /\ Remembers(r)
    BY <1>2 DEF Joins, StaysInLine, Moved
  <2>2. Untried(r)' /\ BlameOK(r)'
    BY <2>1 DEF RequestOK, Untried, BlameOK, Remembers
  <2>3. AttemptsOK(r)'
    BY <2>1 DEF RequestOK, AttemptsOK, Remembers
  <2>4. QED
    BY <2>2, <2>3 DEF RequestOK
<1>3. CASE Leaves(r)
  BY <1>3, Resigned DEF Leaves, Moved
<1>4. CASE Starts(r)
  BY <1>4, StartsOK
<1>5. CASE Answers(r)
  BY <1>5, AnswersOK
<1>6. CASE Retries(r)
  BY <1>6, RetriesOK
<1>7. CASE Ends(r)
  BY <1>7, EndsOK
<1>8. QED
  BY <1>1, <1>2, <1>3, <1>4, <1>5, <1>6, <1>7 DEF StepOf

LEMMA RequestsStep ==
  ASSUME TypeOK, RequestsOK, [Next]_vars
  PROVE  RequestsOK'
<1>1. CASE Rests
  <2>1. \A q \in Requests : Remembers(q) /\ phase'[q] = phase[q]
    BY <1>1 DEF Rests, proxyVars, Remembers
  <2>2. QED
    BY <2>1, Undisturbed DEF RequestsOK
<1>2. ASSUME NEW r \in Requests, Others(r), StepOf(r) PROVE RequestsOK'
  <2>1. RequestOK(r)'
    BY <1>2, RequestStep DEF RequestsOK
  <2>2. ASSUME NEW q \in Requests \ {r} PROVE RequestOK(q)'
    <3>1. \/ phase'[q] = phase[q]
          \/ phase[q] = "queued" /\ phase'[q] = "woken"
      BY <1>2, SomeMove DEF Moved
    <3>2. QED
      BY <1>2, <3>1, Undisturbed DEF RequestsOK, Others
  <2>3. QED
    BY <2>1, <2>2 DEF RequestsOK
<1>3. QED
  BY <1>1, <1>2, StepKinds

-----------------------------------------------------------------------------
(* The counters count requests                                             *)

\* The requests that a counter counts, for each of the five.
Leased(o)  == {r \in Requests : phase[r] \in Served /\ lease[r] = o}
Charged(o) == {r \in Requests : o \in blamed[r]} \ Uncharged(o)
Failed     == {r \in Requests : phase[r] \in {"bad_gateway", "dropped"}}
Busy       == {r \in Requests : phase[r] \in InLine \cup Served}
Lined      == {r \in Requests : phase[r] \in InLine}

\* Only the one that moves can join or leave one of these sets.
LEMMA OneMoves ==
  ASSUME TypeOK, TypeOK', NEW r \in Requests, Others(r), StepOf(r)
  PROVE  /\ \A o \in Objects : Leased(o)' \ {r} = Leased(o) \ {r}
         /\ \A o \in Objects : Charged(o)' \ {r} = Charged(o) \ {r}
         /\ Failed' \ {r} = Failed \ {r}
         /\ Busy' \ {r} = Busy \ {r}
         /\ Lined' \ {r} = Lined \ {r}
<1>1. ASSUME NEW q \in Requests \ {r}
      PROVE  /\ Remembers(q)
             /\ \/ phase'[q] = phase[q]
                \/ phase[q] = "queued" /\ phase'[q] = "woken"
  BY SomeMove DEF Moved, Others
<1>2. ASSUME NEW o \in Objects PROVE Leased(o)' \ {r} = Leased(o) \ {r}
  BY <1>1 DEF Leased, Remembers
<1>3. ASSUME NEW o \in Objects PROVE Charged(o)' \ {r} = Charged(o) \ {r}
  <2>1. ASSUME NEW q \in Requests \ {r} PROVE q \in Charged(o)' <=> q \in Charged(o)
    BY <1>1 DEF Charged, Uncharged, Remembers
  <2>2. Charged(o) \subseteq Requests /\ Charged(o)' \subseteq Requests
    BY DEF Charged
  <2>3. QED
    BY <2>1, <2>2
<1>4. Failed' \ {r} = Failed \ {r}
  BY <1>1 DEF Failed
<1>5. Busy' \ {r} = Busy \ {r}
  BY <1>1 DEF Busy
<1>6. Lined' \ {r} = Lined \ {r}
  BY <1>1 DEF Lined
<1>7. QED
  BY <1>2, <1>3, <1>4, <1>5, <1>6

LEMMA SetsAreFinite ==
  /\ \A o : IsFiniteSet(Leased(o)) /\ IsFiniteSet(Charged(o))
  /\ IsFiniteSet(Failed) /\ IsFiniteSet(Busy)
<1>1. \A S : S \subseteq Requests => IsFiniteSet(S)
  BY FiniteAssumption, FS_Subset
<1>2. /\ \A o : Leased(o) \subseteq Requests /\ Charged(o) \subseteq Requests
      /\ Failed \subseteq Requests /\ Busy \subseteq Requests
  BY DEF Leased, Charged, Failed, Busy
<1>3. QED
  BY <1>1, <1>2

\* What is at rest counts as before.
LEMMA NoneMoves ==
  ASSUME Rests
  PROVE  /\ \A o \in Objects : Leased(o)' = Leased(o) /\ Charged(o)' = Charged(o)
         /\ Failed' = Failed /\ Busy' = Busy /\ Lined' = Lined
BY DEF Rests, proxyVars, Leased, Charged, Uncharged, Failed, Busy, Lined

-----------------------------------------------------------------------------
(* inflight                                                                *)

LEMMA InflightStep ==
  ASSUME TypeOK, TypeOK', InflightMatchesLeases, NEW r \in Requests,
         Others(r), StepOf(r)
  PROVE  InflightMatchesLeases'
<1> SUFFICES ASSUME NEW o \in Objects
             PROVE  inflight'[o] = Cardinality(Leased(o)')
  BY DEF InflightMatchesLeases, Leased
<1>1. /\ \A p \in Objects : inflight[p] = Cardinality(Leased(p))
      /\ inflight \in [Objects -> Nat]
  BY DEF InflightMatchesLeases, Leased, TypeOK, RouterTypeOK
<1>2. \A p \in Objects :
        /\ Cardinality(Leased(p)) \in Nat
        /\ (r \in Leased(p) <=> r \in Leased(p)')
             => Cardinality(Leased(p)') = Cardinality(Leased(p))
        /\ r \in Leased(p) /\ r \notin Leased(p)'
             => Cardinality(Leased(p)') = Cardinality(Leased(p)) - 1
        /\ r \notin Leased(p) /\ r \in Leased(p)'
             => Cardinality(Leased(p)') = Cardinality(Leased(p)) + 1
  <2>1. ASSUME NEW p \in Objects
        PROVE  IsFiniteSet(Leased(p)) /\ Leased(p) \ {r} = Leased(p)' \ {r}
    BY SetsAreFinite, OneMoves
  <2>2. QED
    BY <2>1, CountChange
<1>3. \A p \in Objects :
        /\ r \in Leased(p) <=> phase[r] \in Served /\ lease[r] = p
        /\ r \in Leased(p)' <=> phase'[r] \in Served /\ lease'[r] = p
  BY DEF Leased
<1>4. \A p \in Objects : r \in Leased(p) => inflight[p] >= 1
  <2>1. ASSUME NEW p \in Objects, r \in Leased(p) PROVE Cardinality(Leased(p)) # 0
    BY <2>1, SetsAreFinite, FS_EmptySet
  <2>2. QED
    BY <1>1, <1>2, <2>1
<1>5. CASE Rejects(r) \/ Joins(r) \/ StaysInLine(r) \/ Leaves(r)
  BY <1>1, <1>2, <1>3, <1>5 DEF Rejects, Joins, StaysInLine, Leaves, Moved, Remembers
<1>6. CASE Starts(r)
  <2>1. PICK c \in Objects :
          /\ lease' = [lease EXCEPT ![r] = c]
          /\ inflight' = [inflight EXCEPT ![c] = @ + 1]
    BY <1>6, CurrentType DEF Starts, TakeLease, LeastLoaded, Candidates
  <2>2. lease'[r] = c /\ phase'[r] = "sending" /\ phase[r] \in {"new", "woken"}
    BY <1>6, <2>1 DEF Starts, Moved, TypeOK, ProxyTypeOK
  <2>3. inflight'[o] = IF o = c THEN inflight[o] + 1 ELSE inflight[o]
    BY <1>1, <2>1
  <2>4. QED
    BY <1>1, <1>2, <1>3, <2>2, <2>3
<1>7. CASE Answers(r)
  BY <1>1, <1>2, <1>3, <1>7 DEF Answers, Moved
<1>8. CASE Retries(r)
  <2>1. PICK c \in Objects :
          /\ lease' = [lease EXCEPT ![r] = c]
          /\ inflight' = [[inflight EXCEPT ![lease[r]] = Drop(@)] EXCEPT ![c] = @ + 1]
    BY <1>8, CurrentType DEF Retries, Reroute, LeastLoaded, Candidates
  <2>2. /\ lease'[r] = c /\ phase'[r] = "sending"
        /\ phase[r] \in Served /\ lease[r] \in Objects
    BY <1>8, <2>1 DEF Retries, Fails, Moved, TypeOK, ProxyTypeOK
  <2> DEFINE f == [inflight EXCEPT ![lease[r]] = Drop(@)]
  <2>3. /\ f \in [Objects -> Nat]
        /\ f[o] = IF o = lease[r] THEN inflight[o] - 1 ELSE inflight[o]
    BY <1>1, <1>3, <1>4, <2>2 DEF Drop
  <2>4. inflight' = [f EXCEPT ![c] = @ + 1]
    BY <2>1
  <2> HIDE DEF f
  <2>5. inflight'[o] = IF o = c THEN f[o] + 1 ELSE f[o]
    BY <2>3, <2>4
  <2>6. QED
    BY <1>1, <1>2, <1>3, <2>2, <2>3, <2>5
<1>9. CASE Ends(r)
  <2>1. inflight' = [inflight EXCEPT ![lease[r]] = Drop(@)]
    BY <1>9 DEF Ends, ReleaseLease
  <2>2. phase[r] \in Served /\ lease[r] \in Objects /\ phase'[r] \in Terminal
    BY <1>9 DEF Ends, Moved, TypeOK, ProxyTypeOK
  <2>3. inflight'[o] = IF o = lease[r] THEN inflight[o] - 1 ELSE inflight[o]
    BY <1>1, <1>3, <1>4, <2>1, <2>2 DEF Drop
  <2>4. QED
    BY <1>1, <1>2, <1>3, <2>2, <2>3
<1>10. QED
  BY <1>5, <1>6, <1>7, <1>8, <1>9 DEF StepOf

LEMMA InflightNext ==
  ASSUME TypeOK, TypeOK', InflightMatchesLeases, [Next]_vars
  PROVE  InflightMatchesLeases'
<1>1. CASE Rests
  BY <1>1, NoneMoves DEF InflightMatchesLeases, Leased, Rests, bookVars
<1>2. QED
  BY <1>1, StepKinds, InflightStep

LEMMA InflightInit == Init => InflightMatchesLeases
<1> SUFFICES ASSUME Init, NEW o \in Objects PROVE inflight[o] = Cardinality(Leased(o))
  BY DEF InflightMatchesLeases, Leased
<1>1. Leased(o) = {} /\ inflight[o] = 0
  BY DEF Init, Leased
<1>2. QED
  BY <1>1, FS_EmptySet

-----------------------------------------------------------------------------
(* The line and the gauge                                                  *)

\* Where the j-th element of what is left was before the i-th was taken out.
Old(i, j) == IF j < i THEN j ELSE j + 1

LEMMA OldIndex ==
  ASSUME NEW n \in Nat, NEW i \in 1 .. n
  PROVE  /\ \A j \in 1 .. n - 1 : Old(i, j) \in 1 .. n /\ Old(i, j) # i
         /\ \A j, k \in 1 .. n - 1 : Old(i, j) = Old(i, k) => j = k
         /\ \A j, k \in 1 .. n - 1 : j < k <=> Old(i, j) < Old(i, k)
         /\ \A k \in 1 .. n : k # i => \E j \in 1 .. n - 1 : Old(i, j) = k
<1>1. \A k \in 1 .. n : k # i =>
         LET j == IF k < i THEN k ELSE k - 1 IN j \in 1 .. n - 1 /\ Old(i, j) = k
  BY DEF Old
<1>2. \A j \in 1 .. n - 1 : Old(i, j) \in 1 .. n /\ Old(i, j) # i
  BY DEF Old
<1>3. \A j, k \in 1 .. n - 1 : Old(i, j) = Old(i, k) => j = k
  BY DEF Old
<1>4. \A j, k \in 1 .. n - 1 : j < k <=> Old(i, j) < Old(i, k)
  BY DEF Old
<1> HIDE DEF Old
<1>5. QED
  BY <1>1, <1>2, <1>3, <1>4

LEMMA RemoveAtElement ==
  ASSUME NEW S, NEW s \in Seq(S), NEW i \in DOMAIN s
  PROVE  /\ DOMAIN RemoveAt(s, i) = 1 .. Len(s) - 1
         /\ \A j \in 1 .. Len(s) - 1 : RemoveAt(s, i)[j] = s[Old(i, j)]
<1> DEFINE t == RemoveAt(s, i)
           a == SubSeq(s, 1, i - 1)
           b == SubSeq(s, i + 1, Len(s))
<1>1. /\ i \in 1 .. Len(s) /\ Len(s) \in Nat /\ DOMAIN s = 1 .. Len(s)
      /\ \A j \in 1 .. Len(s) : s[j] \in S
  BY LenProperties, ElementOfSeq
<1>2. /\ a \in Seq(S) /\ Len(a) = i - 1
      /\ \A j \in 1 .. i - 1 : a[j] = s[j]
  BY <1>1, SubSeqProperties
<1>3. /\ b \in Seq(S) /\ Len(b) = Len(s) - i
      /\ \A j \in 1 .. Len(s) - i : b[j] = s[j + i]
  <2>1. \A j \in i + 1 .. Len(s) : s[j] \in S
    BY <1>1
  <2>2. /\ b \in Seq(S) /\ Len(b) = Len(s) - i
        /\ \A j \in 1 .. Len(b) : b[j] = s[i + 1 + j - 1]
    BY <1>1, <2>1, SubSeqProperties
  <2>3. QED
    BY <1>1, <2>2
<1>4. t = a \o b
  BY DEF RemoveAt
<1> HIDE DEF a, b, t
<1>5. /\ t \in Seq(S) /\ Len(t) = Len(a) + Len(b)
      /\ \A j \in 1 .. Len(a) + Len(b) :
            t[j] = IF j <= Len(a) THEN a[j] ELSE b[j - Len(a)]
  BY <1>2, <1>3, <1>4, ConcatProperties
<1>6. Len(t) = Len(s) - 1 /\ DOMAIN t = 1 .. Len(s) - 1
  BY <1>1, <1>2, <1>3, <1>5, LenProperties
<1>7. ASSUME NEW j \in 1 .. Len(s) - 1 PROVE t[j] = s[Old(i, j)]
  <2>1. t[j] = IF j <= i - 1 THEN a[j] ELSE b[j - (i - 1)]
    BY <1>1, <1>2, <1>3, <1>5
  <2>2. CASE j < i
    BY <1>1, <1>2, <2>1, <2>2 DEF Old
  <2>3. CASE ~(j < i)
    <3>1. j - (i - 1) \in 1 .. Len(s) - i /\ j - (i - 1) + i = j + 1
      BY <1>1, <2>3
    <3>2. QED
      BY <1>1, <1>3, <2>1, <2>3, <3>1 DEF Old
  <2>4. QED
    BY <2>2, <2>3
<1>8. QED
  BY <1>6, <1>7 DEF t

\* Taking an element out of a sequence without duplicates takes it out of its range.
LEMMA RemoveAtRange ==
  ASSUME NEW S, NEW s \in Seq(S), IsInjective(s), NEW i \in DOMAIN s
  PROVE  /\ IsInjective(RemoveAt(s, i))
         /\ Range(RemoveAt(s, i)) = Range(s) \ {s[i]}
<1> DEFINE t == RemoveAt(s, i)
<1>1. i \in 1 .. Len(s) /\ Len(s) \in Nat /\ DOMAIN s = 1 .. Len(s)
  BY LenProperties
<1>2. DOMAIN t = 1 .. Len(s) - 1 /\ \A j \in 1 .. Len(s) - 1 : t[j] = s[Old(i, j)]
  BY RemoveAtElement
<1>3. /\ \A j \in 1 .. Len(s) - 1 : Old(i, j) \in 1 .. Len(s) /\ Old(i, j) # i
      /\ \A j, k \in 1 .. Len(s) - 1 : Old(i, j) = Old(i, k) => j = k
      /\ \A k \in 1 .. Len(s) : k # i => \E j \in 1 .. Len(s) - 1 : Old(i, j) = k
  BY <1>1, OldIndex
<1> HIDE DEF t
<1>4. \A j, k \in 1 .. Len(s) : s[j] = s[k] => j = k
  BY <1>1 DEF IsInjective
<1>5. IsInjective(t)
  <2>1. ASSUME NEW j \in 1 .. Len(s) - 1, NEW k \in 1 .. Len(s) - 1, t[j] = t[k]
        PROVE  j = k
    <3>1. Old(i, j) \in 1 .. Len(s) /\ Old(i, k) \in 1 .. Len(s)
      BY <1>3
    <3>2. s[Old(i, j)] = s[Old(i, k)]
      BY <1>2, <2>1
    <3>3. Old(i, j) = Old(i, k)
      BY <1>4, <3>1, <3>2
    <3>4. QED
      BY <1>3, <3>3
  <2>2. QED
    BY <1>2, <2>1 DEF IsInjective
<1>6. Range(t) = Range(s) \ {s[i]}
  <2>1. Range(t) = {t[j] : j \in 1 .. Len(s) - 1} /\ Range(s) = {s[j] : j \in 1 .. Len(s)}
    BY <1>1, <1>2 DEF Range
  <2>2. ASSUME NEW x \in Range(t) PROVE x \in Range(s) \ {s[i]}
    BY <1>1, <1>2, <1>3, <1>4, <2>1
  <2>3. ASSUME NEW x \in Range(s) \ {s[i]} PROVE x \in Range(t)
    <3>1. PICK k \in 1 .. Len(s) : x = s[k] /\ k # i
      BY <2>1
    <3>2. PICK j \in 1 .. Len(s) - 1 : Old(i, j) = k
      BY <1>3, <3>1
    <3>3. QED
      BY <1>2, <2>1, <3>1, <3>2
  <2>4. QED
    BY <2>2, <2>3
<1>7. QED
  BY <1>5, <1>6 DEF t

LEMMA AppendRange ==
  ASSUME NEW S, NEW s \in Seq(S), IsInjective(s), NEW x \in S, x \notin Range(s)
  PROVE  /\ IsInjective(Append(s, x))
         /\ Range(Append(s, x)) = Range(s) \cup {x}
<1>1. /\ Len(s) \in Nat /\ DOMAIN s = 1 .. Len(s)
      /\ DOMAIN Append(s, x) = 1 .. Len(s) + 1
      /\ \A j \in 1 .. Len(s) : Append(s, x)[j] = s[j]
      /\ Append(s, x)[Len(s) + 1] = x
  BY LenProperties, AppendProperties
<1>2. \A j \in 1 .. Len(s) : s[j] # x
  BY <1>1 DEF Range
<1>3. QED
  BY <1>1, <1>2 DEF IsInjective, Range

\* Out of the line: the one that leaves and no other.
LEMMA LeaveLineRange ==
  ASSUME TypeOK, LineMatchesWaiting, NEW r \in Requests, LeaveLine(r)
  PROVE  /\ waiting' = Len(waiters') /\ waiting' <= MaxQueueDepth
         /\ IsInjective(waiters')
         /\ Range(waiters') = Range(waiters) \ {r}
<1>1. waiters \in Seq(Requests) /\ Len(waiters) \in Nat
  BY LenProperties DEF TypeOK, RouterTypeOK
<1>2. PICK i \in DOMAIN waiters : waiters[i] = r /\ waiters' = RemoveAt(waiters, i)
  BY DEF LeaveLine
<1>3. Len(waiters') = Len(waiters) - 1
  BY <1>1, <1>2, RemoveAtType
<1>4. IsInjective(waiters') /\ Range(waiters') = Range(waiters) \ {r}
  BY <1>1, <1>2, RemoveAtRange DEF LineMatchesWaiting
<1>5. QED
  BY <1>1, <1>3, <1>4, LimitAssumption DEF LeaveLine, LineMatchesWaiting

LEMMA LineStep ==
  ASSUME TypeOK, TypeOK', LineMatchesWaiting, NEW r \in Requests, Others(r), StepOf(r)
  PROVE  LineMatchesWaiting'
<1>1. /\ waiting = Len(waiters) /\ waiting <= MaxQueueDepth
      /\ IsInjective(waiters) /\ Range(waiters) = Lined
      /\ waiters \in Seq(Requests) /\ Len(waiters) \in Nat
  BY LenProperties DEF LineMatchesWaiting, Lined, TypeOK, RouterTypeOK
<1>2. Lined' \ {r} = Lined \ {r}
  BY OneMoves
<1>3. (r \in Lined <=> phase[r] \in InLine) /\ (r \in Lined' <=> phase'[r] \in InLine)
  BY DEF Lined
<1>4. CASE UNCHANGED <<waiters, waiting>> /\ (phase[r] \in InLine <=> phase'[r] \in InLine)
  <2>1. Lined' = Lined
    BY <1>2, <1>3, <1>4
  <2>2. QED
    BY <1>1, <1>4, <2>1 DEF LineMatchesWaiting, Lined
<1>5. CASE LeaveLine(r) /\ phase'[r] \notin InLine
  <2>1. Lined' = Lined \ {r}
    BY <1>2, <1>3, <1>5
  <2>2. QED
    BY <1>1, <1>5, <2>1, LeaveLineRange DEF LineMatchesWaiting, Lined
<1>6. CASE Joins(r)
  <2>1. /\ phase[r] = "new" /\ phase'[r] = "queued" /\ waiting < MaxQueueDepth
        /\ waiters' = Append(waiters, r) /\ waiting' = waiting + 1
    BY <1>6 DEF Joins, Moved
  <2>2. r \notin Lined /\ Lined' = Lined \cup {r}
    BY <1>2, <1>3, <2>1
  <2>3. IsInjective(waiters') /\ Range(waiters') = Lined'
    BY <1>1, <2>1, <2>2, AppendRange
  <2>4. Len(waiters') = Len(waiters) + 1
    BY <1>1, <2>1, AppendProperties
  <2>5. QED
    BY <1>1, <2>1, <2>3, <2>4, LimitAssumption DEF LineMatchesWaiting, Lined
<1>7. CASE Rejects(r) \/ StaysInLine(r) \/ Answers(r) \/ Retries(r) \/ Ends(r)
  BY <1>4, <1>7 DEF Rejects, StaysInLine, Answers, Retries, Fails, Ends, Moved
<1>8. CASE Leaves(r)
  BY <1>5, <1>8 DEF Leaves, Moved
<1>9. CASE Starts(r)
  BY <1>4, <1>5, <1>9 DEF Starts, Moved
<1>10. QED
  BY <1>6, <1>7, <1>8, <1>9 DEF StepOf

LEMMA GaugeStep ==
  ASSUME TypeOK, TypeOK', GaugeBalanced, NEW r \in Requests, Others(r), StepOf(r)
  PROVE  GaugeBalanced'
<1>1. /\ Cardinality(Busy) \in Nat
      /\ (r \in Busy <=> r \in Busy') => Cardinality(Busy') = Cardinality(Busy)
      /\ r \in Busy /\ r \notin Busy' => Cardinality(Busy') = Cardinality(Busy) - 1
      /\ r \notin Busy /\ r \in Busy' => Cardinality(Busy') = Cardinality(Busy) + 1
  <2>1. IsFiniteSet(Busy) /\ Busy \ {r} = Busy' \ {r}
    BY SetsAreFinite, OneMoves
  <2>2. QED
    BY <2>1, CountChange
<1>2. /\ r \in Busy <=> phase[r] \in InLine \cup Served
      /\ r \in Busy' <=> phase'[r] \in InLine \cup Served
  BY DEF Busy
<1>3. \/ gauge' = gauge /\ (r \in Busy <=> r \in Busy')
      \/ gauge' = gauge + 1 /\ r \notin Busy /\ r \in Busy'
      \/ gauge' = gauge - 1 /\ r \in Busy /\ r \notin Busy'
  <2>1. CASE Rejects(r) \/ Joins(r) \/ StaysInLine(r) \/ Leaves(r)
    BY <1>2, <2>1 DEF Rejects, Joins, StaysInLine, Leaves, Moved
  <2>2. CASE Starts(r) \/ Answers(r) \/ Retries(r) \/ Ends(r)
    BY <1>2, <2>2 DEF Starts, Answers, Retries, Fails, Ends, Moved
  <2>3. QED
    BY <2>1, <2>2 DEF StepOf
<1>4. gauge = Cardinality(Busy)
  BY DEF GaugeBalanced, Busy
<1>5. gauge' = Cardinality(Busy')
  BY <1>1, <1>3, <1>4
<1>6. QED
  BY <1>5 DEF GaugeBalanced, Busy

LEMMA CountersNext ==
  ASSUME TypeOK, TypeOK', CountersBalanced, [Next]_vars
  PROVE  CountersBalanced'
<1>1. CASE Rests
  BY <1>1, NoneMoves DEF CountersBalanced, LineMatchesWaiting, GaugeBalanced, Busy, Lined, Rests
<1>2. QED
  BY <1>1, StepKinds, LineStep, GaugeStep DEF CountersBalanced

LEMMA CountersInit == Init => CountersBalanced
<1> SUFFICES ASSUME Init PROVE CountersBalanced
  OBVIOUS
<1>1. Busy = {} /\ gauge = 0
  BY DEF Init, Busy
<1>2. GaugeBalanced
  BY <1>1, FS_EmptySet DEF GaugeBalanced, Busy
<1>3. Lined = {} /\ waiters = <<>> /\ waiting = 0
  BY DEF Init, Lined
<1>4. Len(waiters) = 0 /\ DOMAIN waiters = {}
  BY <1>3
<1>5. QED
  BY <1>2, <1>3, <1>4, LimitAssumption
     DEF CountersBalanced, LineMatchesWaiting, Lined, IsInjective, Range

-----------------------------------------------------------------------------
(* No lost wakeup                                                          *)

\* A call of _wake_up_next finds a waiter if there is one.
LEMMA WakeReaches ==
  ASSUME NEW ph \in [Requests -> Phases], NEW v \in Int, NEW n \in Int, n >= 1,
         Wake(ph, v, n)
  PROVE  (\E q \in Requests : phase'[q] = "queued")
            => \E q \in Requests : phase'[q] = "woken"
<1> DEFINE pending == {q \in Requests : ph[q] = "queued"}
<1>1. PICK woken \in SUBSET pending :
        /\ Cardinality(woken) =
              IF n < Cardinality(pending) THEN n ELSE Cardinality(pending)
        /\ phase' = [q \in Requests |-> IF q \in woken THEN "woken" ELSE ph[q]]
  BY DEF Wake
<1>2. SUFFICES ASSUME NEW q \in Requests, phase'[q] = "queued"
               PROVE  \E w \in Requests : phase'[w] = "woken"
  OBVIOUS
<1>3. q \in pending
  BY <1>1, <1>2
<1>4. IsFiniteSet(pending)
  BY FiniteAssumption, FS_Subset
<1> HIDE DEF pending
<1>5. Cardinality(pending) \in Nat /\ Cardinality(pending) # 0
  BY <1>3, <1>4, FS_CardinalityType, FS_EmptySet
<1>6. Cardinality(woken) # 0
  BY <1>1, <1>5
<1>7. woken # {}
  BY <1>6, FS_EmptySet
<1>8. QED
  BY <1>1, <1>7 DEF pending

\* No call, no change.
LEMMA WakeZero ==
  ASSUME NEW ph \in [Requests -> Phases], NEW v \in Int, Wake(ph, v, 0)
  PROVE  phase' = ph /\ value' = v
<1>1. PICK woken \in SUBSET {r \in Requests : ph[r] = "queued"} :
        /\ IsFiniteSet(woken) /\ Cardinality(woken) \in Nat
        /\ Cardinality(woken) <= 0
        /\ value' = v - Cardinality(woken)
        /\ phase' = [r \in Requests |-> IF r \in woken THEN "woken" ELSE ph[r]]
  BY WakeEffect
<1>2. Cardinality(woken) = 0
  BY <1>1
<1>3. woken = {}
  BY <1>1, <1>2, FS_EmptySet
<1>4. value' = v
  BY <1>1, <1>2
<1>5. QED
  BY <1>1, <1>3, <1>4

\* The requests in line are those in the semaphore's deque.
LEMMA InDeque ==
  ASSUME TypeOK, LineMatchesWaiting
  PROVE  /\ \A q \in Requests : phase[q] \in InLine => \E i \in DOMAIN waiters : waiters[i] = q
         /\ \A i \in DOMAIN waiters : waiters[i] \in Requests /\ phase[waiters[i]] \in InLine
BY DEF LineMatchesWaiting, Range

\* Where a free slot is taken at once, nobody waits.
LEMMA NobodyWaits ==
  ASSUME TypeOK, LineMatchesWaiting, ~Locked
  PROVE  \A q \in Requests : phase[q] # "queued"
BY InDeque DEF Locked

LEMMA QuietWakeup ==
  ASSUME TypeOK, NoLostWakeup, NEW r \in Requests, NEW p \in Phases, p # "queued",
         phase[r] # "woken", phase' = [phase EXCEPT ![r] = p], value' = value
  PROVE  NoLostWakeup'
BY DEF NoLostWakeup, Gated, TypeOK, ProxyTypeOK

LEMMA WokenWakeup ==
  ASSUME TypeOK, NEW r \in Requests, NEW p \in Phases,
         NEW v \in Int, NEW n \in Int, n >= 1, Wake([phase EXCEPT ![r] = p], v, n)
  PROVE  NoLostWakeup'
<1>1. [phase EXCEPT ![r] = p] \in [Requests -> Phases]
  BY DEF TypeOK, ProxyTypeOK
<1>2. QED
  BY <1>1, WakeReaches DEF NoLostWakeup

LEMMA SettleWakeup ==
  ASSUME TypeOK, Gated, NEW r \in Requests, NEW outcome \in Terminal,
         NEW failed \in BOOLEAN, Settle(r, outcome, failed)
  PROVE  NoLostWakeup'
<1>1. PICK n \in {1} : Wake([phase EXCEPT ![r] = outcome], value + 1, n)
  BY DEF Settle, ReleaseSlot
<1>2. value + 1 \in Int /\ n \in Int /\ n >= 1
  BY DEF TypeOK, RouterTypeOK
<1>3. QED
  BY <1>1, <1>2, WokenWakeup

LEMMA WakeupStep ==
  ASSUME TypeOK, SlotConservation, LineMatchesWaiting, NoLostWakeup, [Next]_vars
  PROVE  NoLostWakeup'
<1> SUFFICES ASSUME Gated PROVE NoLostWakeup'
  BY DEF NoLostWakeup, Gated
<1>0. value \in Int /\ value >= 0
  BY DEF SlotConservation, TypeOK, RouterTypeOK
<1>1. ASSUME NEW r \in Requests, ArriveOverloaded(r) PROVE NoLostWakeup'
  BY <1>1, QuietWakeup DEF ArriveOverloaded, semVars
<1>2. ASSUME NEW r \in Requests, ArriveQueued(r) PROVE NoLostWakeup'
  <2>1. phase' = [phase EXCEPT ![r] = "queued"] /\ value' = value /\ Locked /\ phase[r] = "new"
    BY <1>2 DEF ArriveQueued
  <2>2. value = 0 \/ \E q \in Requests : phase[q] \in {"queued", "woken"}
    BY <2>1, InDeque DEF Locked
  <2>3. value > 0 => \E q \in Requests : phase[q] = "woken"
    BY <1>0, <2>2 DEF NoLostWakeup
  <2>4. QED
    BY <2>1, <2>3 DEF NoLostWakeup, TypeOK, ProxyTypeOK
<1>3. ASSUME NEW r \in Requests, ArriveServed(r) PROVE NoLostWakeup'
  <2>1. phase' = [phase EXCEPT ![r] = "sending"] /\ ~Locked
    BY <1>3 DEF ArriveServed
  <2>2. \A q \in Requests : phase'[q] # "queued"
    BY <2>1, NobodyWaits DEF TypeOK, ProxyTypeOK
  <2>3. QED
    BY <2>2 DEF NoLostWakeup
<1>4. ASSUME NEW r \in Requests, ArriveUnavailable(r) PROVE NoLostWakeup'
  <2>1. PICK n \in {1} : Wake([phase EXCEPT ![r] = "unavailable"], value, n)
    BY <1>4 DEF ArriveUnavailable
  <2>2. n \in Int /\ n >= 1
    BY <2>1
  <2>3. QED
    BY <1>0, <2>1, <2>2, WokenWakeup
<1>5. ASSUME NEW r \in Requests, ResumeServed(r) PROVE NoLostWakeup'
  <2>1. PICK n \in WakeCalls(value) : Wake([phase EXCEPT ![r] = "sending"], value, n)
    BY <1>5 DEF ResumeServed
  <2>2. CASE value > 0
    <3>1. n \in Int /\ n >= 1
      BY <1>0, <2>1, <2>2 DEF WakeCalls
    <3>2. QED
      BY <1>0, <2>1, <3>1, WokenWakeup
  <2>3. CASE ~(value > 0)
    <3>1. Wake([phase EXCEPT ![r] = "sending"], value, 0)
      BY <2>1, <2>3 DEF WakeCalls
    <3>2. [phase EXCEPT ![r] = "sending"] \in [Requests -> Phases]
      BY DEF TypeOK, ProxyTypeOK
    <3>3. value' = value
      BY <1>0, <3>1, <3>2, WakeZero
    <3>4. QED
      BY <2>3, <3>3 DEF NoLostWakeup
  <2>4. QED
    BY <2>2, <2>3
<1>6. ASSUME NEW r \in Requests, ResumeUnavailable(r) PROVE NoLostWakeup'
  <2>1. PICK n \in WakeCalls(value) :
          Wake([phase EXCEPT ![r] = "unavailable"], value + 1, n + 1)
    BY <1>6 DEF ResumeUnavailable
  <2>2. n + 1 \in Int /\ n + 1 >= 1 /\ value + 1 \in Int
    BY <1>0, <2>1 DEF WakeCalls
  <2>3. QED
    BY <2>1, <2>2, WokenWakeup
<1>7. ASSUME NEW r \in Requests, CancelQueued(r) PROVE NoLostWakeup'
  BY <1>7, QuietWakeup DEF CancelQueued, semVars
<1>8. ASSUME NEW r \in Requests, RunCancelled(r) PROVE NoLostWakeup'
  <2>1. PICK n \in {0, value} : Wake([phase EXCEPT ![r] = "aborted"], value, n)
    BY <1>8 DEF RunCancelled
  <2>2. CASE n >= 1
    <3>1. n \in Int
      BY <1>0, <2>1
    <3>2. QED
      BY <1>0, <2>1, <2>2, <3>1, WokenWakeup
  <2>3. CASE n = 0
    <3>1. [phase EXCEPT ![r] = "aborted"] \in [Requests -> Phases]
      BY DEF TypeOK, ProxyTypeOK
    <3>2. phase' = [phase EXCEPT ![r] = "aborted"] /\ value' = value
      BY <1>0, <2>1, <2>3, <3>1, WakeZero
    <3>3. QED
      BY <1>8, <3>2, QuietWakeup DEF RunCancelled
  <2>4. QED
    BY <1>0, <2>1, <2>2, <2>3
<1>9. ASSUME NEW r \in Requests, CancelWoken(r) PROVE NoLostWakeup'
  <2>1. PICK n \in WakeCalls(value + 1) :
          Wake([phase EXCEPT ![r] = "aborted"], value + 1, n)
    BY <1>9 DEF CancelWoken
  <2>2. n \in Int /\ n >= 1 /\ value + 1 \in Int
    BY <1>0, <2>1 DEF WakeCalls
  <2>3. QED
    BY <2>1, <2>2, WokenWakeup
<1>10. ASSUME NEW r \in Requests, Respond(r) PROVE NoLostWakeup'
  BY <1>10, QuietWakeup DEF Respond, semVars
<1>11. ASSUME NEW r \in Requests, RespondServerError(r) PROVE NoLostWakeup'
  BY <1>11, QuietWakeup DEF RespondServerError, semVars
<1>12. ASSUME NEW r \in Requests, phase[r] \in Served, Retry(r) PROVE NoLostWakeup'
  BY <1>12, QuietWakeup DEF Retry, semVars
<1>13. ASSUME NEW r \in Requests, GiveUp(r) PROVE NoLostWakeup'
  BY <1>13, SettleWakeup DEF GiveUp
<1>14. ASSUME NEW r \in Requests, SendError(r) \/ CloseDone(r) PROVE NoLostWakeup'
  BY <1>12, <1>13, <1>14 DEF SendError, CloseDone
<1>15. ASSUME NEW r \in Requests, Abort(r) PROVE NoLostWakeup'
  BY <1>15, SettleWakeup DEF Abort
<1>16. ASSUME NEW r \in Requests, StreamEnd(r) \/ BackendDrop(r) PROVE NoLostWakeup'
  BY <1>16, QuietWakeup DEF StreamEnd, BackendDrop, semVars
<1>17. ASSUME NEW r \in Requests, Finish(r) PROVE NoLostWakeup'
  <2>1. error[r] \in BOOLEAN
    BY DEF TypeOK, ProxyTypeOK
  <2>2. PICK outcome \in Terminal : Settle(r, outcome, error[r])
    BY <1>17 DEF Finish
  <2>3. QED
    BY <2>1, <2>2, SettleWakeup
<1>18. CASE UNCHANGED <<phase, value>>
  BY <1>18 DEF NoLostWakeup, Gated
<1>19. ASSUME NEW i \in Replicas, SetStatus(i) \/ RemoveReplica(i) \/ AddReplica(i)
       PROVE  UNCHANGED <<phase, value>>
  BY <1>19 DEF SetStatus, RemoveReplica, AddReplica, proxyVars, semVars
<1>20. BeginShutdown \/ UNCHANGED vars => UNCHANGED <<phase, value>>
  BY DEF BeginShutdown, vars, proxyVars, semVars
<1>21. QED
  BY <1>1, <1>2, <1>3, <1>4, <1>5, <1>6, <1>7, <1>8, <1>9, <1>10, <1>11, <1>14, <1>15,
     <1>16, <1>17, <1>18, <1>19, <1>20 DEF Next, Progress

-----------------------------------------------------------------------------
(* The gate: Router implements Admission.                                  *)

\* q still waits in front of w exactly if it did before r left the deque.
LEMMA LeaveLineOrder ==
  ASSUME TypeOK, NEW r \in Requests, LeaveLine(r),
         NEW q \in Requests \ {r}, NEW w \in Requests \ {r}
  PROVE  Before(q, w)' <=> Before(q, w)
<1>1. waiters \in Seq(Requests) /\ Len(waiters) \in Nat /\ DOMAIN waiters = 1 .. Len(waiters)
  BY LenProperties DEF TypeOK, RouterTypeOK
<1>2. PICK i \in DOMAIN waiters : waiters[i] = r /\ waiters' = RemoveAt(waiters, i)
  BY DEF LeaveLine
<1>3. /\ DOMAIN waiters' = 1 .. Len(waiters) - 1
      /\ \A j \in 1 .. Len(waiters) - 1 : waiters'[j] = waiters[Old(i, j)]
  BY <1>1, <1>2, RemoveAtElement
<1>4. /\ \A j \in 1 .. Len(waiters) - 1 : Old(i, j) \in 1 .. Len(waiters) /\ Old(i, j) # i
      /\ \A j, k \in 1 .. Len(waiters) - 1 : j < k <=> Old(i, j) < Old(i, k)
      /\ \A k \in 1 .. Len(waiters) : k # i => \E j \in 1 .. Len(waiters) - 1 : Old(i, j) = k
  BY <1>1, <1>2, OldIndex
<1>5. ASSUME Before(q, w)' PROVE Before(q, w)
  <2>1. PICK j, k \in 1 .. Len(waiters) - 1 : j < k /\ waiters'[j] = q /\ waiters'[k] = w
    BY <1>3, <1>5 DEF Before
  <2>2. QED
    BY <1>1, <1>3, <1>4, <2>1 DEF Before
<1>6. ASSUME Before(q, w) PROVE Before(q, w)'
  <2>1. PICK m, n \in 1 .. Len(waiters) : m < n /\ waiters[m] = q /\ waiters[n] = w
    BY <1>1, <1>6 DEF Before
  <2>2. m # i /\ n # i
    BY <1>2, <2>1
  <2>3. PICK j \in 1 .. Len(waiters) - 1 : Old(i, j) = m
    BY <1>4, <2>1, <2>2
  <2>4. PICK k \in 1 .. Len(waiters) - 1 : Old(i, k) = n
    BY <1>4, <2>1, <2>2
  <2>5. j < k /\ waiters'[j] = q /\ waiters'[k] = w
    BY <1>3, <1>4, <2>1, <2>3, <2>4
  <2>6. QED
    BY <1>3, <2>5 DEF Before
<1>7. QED
  BY <1>5, <1>6

\* A newcomer is behind all others.
LEMMA JoinOrder ==
  ASSUME TypeOK, LineMatchesWaiting, NEW r \in Requests, phase[r] = "new",
         waiters' = Append(waiters, r), NEW q \in Requests, NEW w \in Requests
  PROVE  Before(q, w)' <=> Before(q, w) \/ (phase[q] \in InLine /\ w = r)
<1>1. waiters \in Seq(Requests) /\ Len(waiters) \in Nat /\ DOMAIN waiters = 1 .. Len(waiters)
  BY LenProperties DEF TypeOK, RouterTypeOK
<1>2. /\ DOMAIN waiters' = 1 .. Len(waiters) + 1
      /\ \A j \in 1 .. Len(waiters) : waiters'[j] = waiters[j]
      /\ waiters'[Len(waiters) + 1] = r
  BY <1>1, LenProperties, AppendProperties
<1>3. /\ \A i \in 1 .. Len(waiters) : waiters[i] # r /\ phase[waiters[i]] \in InLine
      /\ phase[q] \in InLine => \E i \in 1 .. Len(waiters) : waiters[i] = q
  BY <1>1, InDeque
<1>4. ASSUME Before(q, w)' PROVE Before(q, w) \/ (phase[q] \in InLine /\ w = r)
  <2>1. PICK j, k \in 1 .. Len(waiters) + 1 : j < k /\ waiters'[j] = q /\ waiters'[k] = w
    BY <1>2, <1>4 DEF Before
  <2>2. j \in 1 .. Len(waiters) /\ waiters[j] = q
    BY <1>1, <1>2, <2>1
  <2>3. CASE k = Len(waiters) + 1
    BY <1>2, <1>3, <2>1, <2>2, <2>3
  <2>4. CASE k # Len(waiters) + 1
    <3>1. k \in 1 .. Len(waiters) /\ waiters[k] = w
      BY <1>1, <1>2, <2>1, <2>4
    <3>2. QED
      BY <1>1, <2>1, <2>2, <3>1 DEF Before
  <2>5. QED
    BY <2>3, <2>4
<1>5. ASSUME Before(q, w) PROVE Before(q, w)'
  <2>1. PICK j, k \in 1 .. Len(waiters) : j < k /\ waiters[j] = q /\ waiters[k] = w
    BY <1>1, <1>5 DEF Before
  <2>2. /\ j \in 1 .. Len(waiters) + 1 /\ k \in 1 .. Len(waiters) + 1
        /\ waiters'[j] = q /\ waiters'[k] = w
    BY <1>1, <1>2, <2>1
  <2>3. QED
    BY <1>2, <2>1, <2>2 DEF Before
<1>6. ASSUME phase[q] \in InLine, w = r PROVE Before(q, w)'
  <2>1. PICK j \in 1 .. Len(waiters) : waiters[j] = q
    BY <1>3, <1>6
  <2>2. /\ j \in 1 .. Len(waiters) + 1 /\ Len(waiters) + 1 \in 1 .. Len(waiters) + 1
        /\ j < Len(waiters) + 1 /\ waiters'[j] = q /\ waiters'[Len(waiters) + 1] = w
    BY <1>1, <1>2, <1>6, <2>1
  <2>3. QED
    BY <1>2, <2>2 DEF Before
<1>7. QED
  BY <1>4, <1>5, <1>6

\* The deque is at least as long as the line.
LEMMA LineIsShort ==
  ASSUME TypeOK, LineMatchesWaiting
  PROVE  IsFiniteSet(Queued) /\ Cardinality(Queued) \in Nat /\ Cardinality(Queued) <= waiting
<1> DEFINE D == 1 .. Len(waiters)
           I == Range(waiters)
<1>1. waiters \in Seq(Requests) /\ Len(waiters) \in Nat /\ DOMAIN waiters = D
  BY LenProperties DEF TypeOK, RouterTypeOK
<1>2. IsFiniteSet(D) /\ Cardinality(D) = Len(waiters)
  BY <1>1, FS_Interval
<1>3. Queued \subseteq I
  BY <1>1, InDeque DEF Queued, Range
<1>4. IsFiniteSet(I) /\ Cardinality(I) <= Cardinality(D)
  <2>1. waiters \in Surjection(D, I)
    BY <1>1 DEF Surjection, Range
  <2>2. QED
    BY <1>2, <2>1, FS_Surjection
<1> HIDE DEF D, I
<1>5. IsFiniteSet(Queued) /\ Cardinality(Queued) <= Cardinality(I)
  BY <1>3, <1>4, FS_Subset
<1>6. Cardinality(Queued) \in Nat /\ Cardinality(I) \in Nat
  BY <1>4, <1>5, FS_CardinalityType
<1>7. QED
  BY <1>1, <1>2, <1>4, <1>5, <1>6 DEF LineMatchesWaiting

\* Admission counts as Router does.
LEMMA SameCount == \A S : Gate!Cardinality(S) = Cardinality(S)
BY DEF Gate!Cardinality, Cardinality

\* There are never more than MaxConcurrency inside.
LEMMA InsideBounded ==
  ASSUME TypeOK, SlotConservation, Gated
  PROVE  /\ Cardinality(Holders) \in Nat /\ Cardinality(Holders) <= MaxConcurrency
         /\ value > 0 => Cardinality(Holders) < MaxConcurrency
<1>1. IsFiniteSet(Holders)
  BY FiniteAssumption, FS_Subset DEF Holders
<1>2. Cardinality(Holders) \in Nat
  BY <1>1, FS_CardinalityType
<1>3. QED
  BY <1>2, LimitAssumption DEF SlotConservation, TypeOK, RouterTypeOK

\* r goes to phase p and nobody else moves: it stays inside, or outside and not in line.
LEMMA GateRests ==
  ASSUME TypeOK, NEW r \in Requests, NEW p \in Phases,
         phase' = [phase EXCEPT ![r] = p], waiters' = waiters,
         phase[r] # "queued", p # "queued", phase[r] \in Holding <=> p \in Holding
  PROVE  UNCHANGED Gate!vars
<1>1. Holders' = Holders /\ Queued' = Queued
  BY DEF Holders, Holding, Queued, TypeOK, ProxyTypeOK
<1>2. QueuedAhead' = QueuedAhead
  BY <1>1 DEF QueuedAhead, Before
<1>3. QED
  BY <1>1, <1>2 DEF Gate!vars

\* r goes to phase p, out of line or out of the gate, and the first waiters are woken.
LEMMA GateMoves ==
  ASSUME TypeOK, TypeOK', SlotConservation', Gated,
         NEW r \in Requests, NEW p \in Phases, phase[r] # "queued", p # "queued",
         p \in Holding => phase[r] \in Holding,
         NEW v \in Int, NEW n \in Int, Wake([phase EXCEPT ![r] = p], v, n),
         \A q, w \in Requests \ {r} : Before(q, w)' <=> Before(q, w)
  PROVE  Gate!Next
<1> DEFINE ph == [phase EXCEPT ![r] = p]
           pending == {q \in Requests : ph[q] = "queued"}
           leaving == IF phase[r] \in Holding /\ p \notin Holding THEN {r} ELSE {}
<1>1. PICK woken \in SUBSET pending :
        /\ \A q \in woken, w \in pending \ woken : Before(q, w)
        /\ phase' = [q \in Requests |-> IF q \in woken THEN "woken" ELSE ph[q]]
  BY DEF Wake
<1>2. /\ phase \in [Requests -> Phases] /\ ph \in [Requests -> Phases]
      /\ ph[r] = p /\ \A q \in Requests \ {r} : ph[q] = phase[q]
  BY DEF TypeOK, ProxyTypeOK
<1>3. pending = Queued /\ r \notin Queued
  BY <1>2 DEF Queued
<1>4. \A q \in Requests : phase'[q] = IF q \in woken THEN "woken"
                                      ELSE IF q = r THEN p ELSE phase[q]
  BY <1>1, <1>2
<1> HIDE DEF pending, ph
<1>5. Holders' = (Holders \ leaving) \cup woken
  BY <1>2, <1>3, <1>4 DEF Holders, Holding, Queued
<1>6. Queued' = Queued \ woken
  BY <1>2, <1>3, <1>4 DEF Queued
<1>7. QueuedAhead' = {b \in QueuedAhead : b[1] \notin woken /\ b[2] \notin woken}
  <2>1. \A q, w \in Queued : Before(q, w)' <=> Before(q, w)
    BY <1>3 DEF Queued
  <2>2. QED
    BY <1>6, <2>1 DEF QueuedAhead
<1>8. leaving \subseteq Holders /\ Cardinality(leaving) <= 1
  <2>1. leaving \subseteq Holders
    BY DEF Holders, Holding
  <2>2. CASE leaving = {}
    BY <2>1, <2>2, FS_EmptySet
  <2>3. CASE leaving = {r}
    BY <2>1, <2>3, FS_Singleton
  <2>4. QED
    BY <2>2, <2>3
<1>9. woken \subseteq Queued /\ woken \X (Queued \ woken) \subseteq QueuedAhead
  <2>1. ASSUME NEW q \in woken, NEW w \in Queued \ woken PROVE <<q, w>> \in QueuedAhead
    <3>1. Before(q, w)
      BY <1>1, <1>3
    <3>2. q \in Queued
      BY <1>3
    <3>3. QED
      BY <3>1, <3>2 DEF QueuedAhead
  <2>2. QED
    BY <1>3, <2>1
<1>10. Cardinality(Holders') <= MaxConcurrency
  <2>1. Gated'
    BY DEF Gated
  <2>2. IsFiniteSet(Holders')
    BY FiniteAssumption, FS_Subset DEF Holders
  <2>3. Cardinality(Holders') \in Nat
    BY <2>2, FS_CardinalityType
  <2>4. QED
    BY <2>1, <2>3, LimitAssumption DEF SlotConservation, TypeOK, RouterTypeOK
<1> HIDE DEF leaving
<1>11. Gate!Move(leaving, woken)
  BY <1>5, <1>6, <1>7, <1>8, <1>9, <1>10, SameCount DEF Gate!Move, Gate!Stay
<1>12. QED
  BY <1>8, <1>9, <1>11 DEF Gate!Next

LEMMA GateSettles ==
  ASSUME TypeOK, TypeOK', SlotConservation', Gated, NEW r \in Requests,
         phase[r] \in Served, NEW outcome \in Terminal, NEW failed \in BOOLEAN,
         Settle(r, outcome, failed)
  PROVE  Gate!Next
<1>1. PICK n \in {1} : Wake([phase EXCEPT ![r] = outcome], value + 1, n)
  BY DEF Settle, ReleaseSlot
<1>2. n \in Int /\ value + 1 \in Int
  BY <1>1 DEF TypeOK, RouterTypeOK
<1>3. \A q, w \in Requests \ {r} : Before(q, w)' <=> Before(q, w)
  BY DEF Settle, Before
<1>4. /\ phase[r] # "queued" /\ outcome # "queued" /\ outcome \in Phases
      /\ outcome \in Holding => phase[r] \in Holding
  BY DEF Holding
<1>5. QED
  BY <1>1, <1>2, <1>3, <1>4, GateMoves

\* Out of the deque, in the order of the others.
LEMMA GateLeaves ==
  ASSUME TypeOK, TypeOK', SlotConservation', Gated, NEW r \in Requests, LeaveLine(r),
         NEW p \in Phases, phase[r] # "queued", p # "queued",
         p \in Holding => phase[r] \in Holding,
         NEW v \in Int, NEW n \in Int, Wake([phase EXCEPT ![r] = p], v, n)
  PROVE  Gate!Next
<1>1. \A q, w \in Requests \ {r} : Before(q, w)' <=> Before(q, w)
  BY LeaveLineOrder
<1>2. QED
  BY <1>1, GateMoves

\* Every step of the router is one of the gate, or none of its business.
LEMMA GateStep ==
  ASSUME Gated, TypeOK, TypeOK', SlotConservation, SlotConservation', LineMatchesWaiting,
         [Next]_vars
  PROVE  [Gate!Next]_(Gate!vars)
<1> USE DEF Holding
<1>0. value \in Int /\ value >= 0 /\ phase \in [Requests -> Phases]
  BY DEF SlotConservation, TypeOK, ProxyTypeOK, RouterTypeOK
<1>1. ASSUME NEW r \in Requests, ArriveOverloaded(r) PROVE UNCHANGED Gate!vars
  BY <1>1, GateRests DEF ArriveOverloaded, semVars
<1>2. ASSUME NEW r \in Requests, ArriveQueued(r) PROVE Gate!Wait(r)
  <2>1. /\ phase[r] = "new" /\ phase' = [phase EXCEPT ![r] = "queued"]
        /\ waiters' = Append(waiters, r) /\ waiting < MaxQueueDepth
    BY <1>2 DEF ArriveQueued
  <2>2. /\ Holders' = Holders /\ Queued' = Queued \cup {r}
        /\ r \notin Holders /\ r \notin Queued
    BY <1>0, <2>1 DEF Holders, Queued
  <2>3. Cardinality(Queued) < MaxQueueDepth
    BY <2>1, LineIsShort, LimitAssumption DEF TypeOK, RouterTypeOK
  <2>4. \A q, w \in Requests :
           Before(q, w)' <=> Before(q, w) \/ (phase[q] \in InLine /\ w = r)
    BY <2>1, JoinOrder
  <2>5. ASSUME NEW q \in Requests PROVE ~Before(r, q) /\ ~Before(q, r)
    BY <2>1, InDeque DEF Before
  <2>6. QueuedAhead' = QueuedAhead \cup Queued \X {r}
    <3>1. ASSUME NEW q \in Queued', NEW w \in Queued'
          PROVE  Before(q, w)' <=> <<q, w>> \in QueuedAhead \cup Queued \X {r}
      <4>1. q \in Requests /\ w \in Requests
        BY DEF Queued
      <4>2. CASE w = r
        BY <2>1, <2>2, <2>4, <2>5, <4>1, <4>2 DEF QueuedAhead, Queued
      <4>3. CASE w # r
        BY <2>1, <2>2, <2>4, <2>5, <4>1, <4>3 DEF QueuedAhead, Queued
      <4>4. QED
        BY <4>2, <4>3
    <3>2. QueuedAhead \cup Queued \X {r} \subseteq Queued' \X Queued'
      BY <2>2 DEF QueuedAhead
    <3>3. QED
      BY <3>1, <3>2 DEF QueuedAhead
  <2>7. QED
    BY <2>2, <2>3, <2>6, SameCount DEF Gate!Wait
<1>3. ASSUME NEW r \in Requests, ArriveServed(r) PROVE Gate!Enter(r)
  <2>1. /\ phase[r] = "new" /\ phase' = [phase EXCEPT ![r] = "sending"]
        /\ ~Locked /\ waiters' = waiters
    BY <1>3 DEF ArriveServed
  <2>2. Queued = {} /\ r \notin Holders
    BY <2>1, NobodyWaits DEF Queued, Holders
  <2>3. Holders' = Holders \cup {r} /\ Queued' = Queued
    BY <1>0, <2>1 DEF Holders, Queued
  <2>4. QueuedAhead' = QueuedAhead
    BY <2>1, <2>3 DEF QueuedAhead, Before
  <2>5. value > 0
    BY <1>0, <2>1 DEF Locked
  <2>6. Cardinality(Holders) < MaxConcurrency
    BY <2>5, InsideBounded
  <2>7. QED
    BY <2>2, <2>3, <2>4, <2>6, SameCount DEF Gate!Enter
<1>4. ASSUME NEW r \in Requests, ArriveUnavailable(r) PROVE Gate!Next
  <2>1. PICK n \in {1} : Wake([phase EXCEPT ![r] = "unavailable"], value, n)
    BY <1>4 DEF ArriveUnavailable
  <2>2. n \in Int /\ phase[r] = "new" /\ waiters' = waiters
    BY <1>4, <2>1 DEF ArriveUnavailable
  <2>3. \A q, w \in Requests \ {r} : Before(q, w)' <=> Before(q, w)
    BY <2>2 DEF Before
  <2>4. QED
    BY <1>0, <2>1, <2>2, <2>3, GateMoves
<1>5. ASSUME NEW r \in Requests, ResumeServed(r) PROVE Gate!Next
  <2>1. PICK n \in WakeCalls(value) : Wake([phase EXCEPT ![r] = "sending"], value, n)
    BY <1>5 DEF ResumeServed
  <2>2. n \in Int /\ phase[r] = "woken" /\ LeaveLine(r)
    BY <1>0, <1>5, <2>1 DEF ResumeServed, WakeCalls
  <2>3. QED
    BY <1>0, <2>1, <2>2, GateLeaves
<1>6. ASSUME NEW r \in Requests, ResumeUnavailable(r) PROVE Gate!Next
  <2>1. PICK n \in WakeCalls(value) :
          Wake([phase EXCEPT ![r] = "unavailable"], value + 1, n + 1)
    BY <1>6 DEF ResumeUnavailable
  <2>2. /\ n + 1 \in Int /\ value + 1 \in Int
        /\ phase[r] = "woken" /\ LeaveLine(r)
    BY <1>0, <1>6, <2>1 DEF ResumeUnavailable, WakeCalls
  <2>3. QED
    BY <2>1, <2>2, GateLeaves
<1>7. ASSUME NEW r \in Requests, CancelQueued(r) PROVE Gate!Abandon(r)
  <2>1. /\ phase[r] = "queued" /\ phase' = [phase EXCEPT ![r] = "cancelled"]
        /\ waiters' = waiters
    BY <1>7 DEF CancelQueued, semVars
  <2>2. Holders' = Holders /\ Queued' = Queued \ {r} /\ r \in Queued
    BY <1>0, <2>1 DEF Holders, Queued
  <2>3. QueuedAhead' = {b \in QueuedAhead : b[1] \notin {r} /\ b[2] \notin {r}}
    BY <2>1, <2>2 DEF QueuedAhead, Before
  <2>4. QED
    BY <2>2, <2>3 DEF Gate!Abandon, Gate!Stay
<1>8. ASSUME NEW r \in Requests, RunCancelled(r) PROVE Gate!Next
  <2>1. PICK n \in {0, value} : Wake([phase EXCEPT ![r] = "aborted"], value, n)
    BY <1>8 DEF RunCancelled
  <2>2. n \in Int /\ phase[r] = "cancelled" /\ LeaveLine(r)
    BY <1>0, <1>8, <2>1 DEF RunCancelled
  <2>3. QED
    BY <1>0, <2>1, <2>2, GateLeaves
<1>9. ASSUME NEW r \in Requests, CancelWoken(r) PROVE Gate!Next
  <2>1. PICK n \in WakeCalls(value + 1) :
          Wake([phase EXCEPT ![r] = "aborted"], value + 1, n)
    BY <1>9 DEF CancelWoken
  <2>2. n \in Int /\ value + 1 \in Int /\ phase[r] = "woken" /\ LeaveLine(r)
    BY <1>0, <1>9, <2>1 DEF CancelWoken, WakeCalls
  <2>3. QED
    BY <2>1, <2>2, GateLeaves
<1>10. ASSUME NEW r \in Requests, Respond(r) \/ RespondServerError(r) PROVE UNCHANGED Gate!vars
  BY <1>10, GateRests DEF Respond, RespondServerError, semVars
<1>11. ASSUME NEW r \in Requests, phase[r] \in Served, Retry(r) PROVE UNCHANGED Gate!vars
  BY <1>11, GateRests DEF Retry, semVars
<1>12. ASSUME NEW r \in Requests, phase[r] \in Served, GiveUp(r) PROVE Gate!Next
  BY <1>12, GateSettles DEF GiveUp
<1>13. ASSUME NEW r \in Requests, SendError(r) \/ CloseDone(r)
       PROVE  Gate!Next \/ UNCHANGED Gate!vars
  BY <1>11, <1>12, <1>13 DEF SendError, CloseDone
<1>14. ASSUME NEW r \in Requests, Abort(r) PROVE Gate!Next
  BY <1>14, GateSettles DEF Abort
<1>15. ASSUME NEW r \in Requests, StreamEnd(r) \/ BackendDrop(r) PROVE UNCHANGED Gate!vars
  BY <1>15, GateRests DEF StreamEnd, BackendDrop, semVars
<1>16. ASSUME NEW r \in Requests, Finish(r) PROVE Gate!Next
  <2>1. error[r] \in BOOLEAN /\ phase[r] \in Served
    BY <1>16 DEF Finish, TypeOK, ProxyTypeOK
  <2>2. PICK outcome \in Terminal : Settle(r, outcome, error[r])
    BY <1>16 DEF Finish
  <2>3. QED
    BY <2>1, <2>2, GateSettles
<1>17. CASE UNCHANGED <<phase, waiters>>
  <2>1. Holders' = Holders /\ Queued' = Queued /\ QueuedAhead' = QueuedAhead
    BY <1>17 DEF Holders, Queued, QueuedAhead, Before
  <2>2. QED
    BY <2>1 DEF Gate!vars
<1>18. ASSUME NEW i \in Replicas, SetStatus(i) \/ RemoveReplica(i) \/ AddReplica(i)
       PROVE  UNCHANGED <<phase, waiters>>
  BY <1>18 DEF SetStatus, RemoveReplica, AddReplica, proxyVars, semVars
<1>19. BeginShutdown \/ UNCHANGED vars => UNCHANGED <<phase, waiters>>
  BY DEF BeginShutdown, vars, proxyVars, semVars
<1>20. \A r \in Requests : Gate!Enter(r) \/ Gate!Wait(r) \/ Gate!Abandon(r) => Gate!Next
  BY DEF Gate!Next
<1>21. QED
  BY <1>1, <1>2, <1>3, <1>4, <1>5, <1>6, <1>7, <1>8, <1>9, <1>10, <1>13, <1>14, <1>15,
     <1>16, <1>17, <1>18, <1>19, <1>20 DEF Next, Progress

LEMMA GateInit == Init => Gate!Init
BY DEF Init, Gate!Init, Holders, Queued, QueuedAhead

-----------------------------------------------------------------------------
(* Failures                                                                *)

\* r's failed attempt on an object is charged from this step on, or as before.
LEMMA ChargedStep ==
  ASSUME TypeOK, TypeOK', NEW r \in Requests, RequestOK(r), StepOf(r), NEW o \in Objects
  PROVE  \/ /\ failures'[o] = failures[o]
            /\ r \in Charged(o) <=> r \in Charged(o)'
         \/ /\ failures'[o] = failures[o] + 1
            /\ r \notin Charged(o) /\ r \in Charged(o)'
<1>1. /\ r \in Charged(o) <=> /\ o \in blamed[r]
                              /\ ~(/\ phase[r] \in {"closing", "draining", "aborted"}
                                   /\ lease[r] = o)
      /\ r \in Charged(o)' <=> /\ o \in blamed'[r]
                               /\ ~(/\ phase'[r] \in {"closing", "draining", "aborted"}
                                    /\ lease'[r] = o)
  BY DEF Charged, Uncharged
<1>2. CASE Rejects(r) \/ Joins(r) \/ StaysInLine(r) \/ Leaves(r)
  <2>1. blamed[r] = {} /\ blamed'[r] = {} /\ UNCHANGED failures
    BY <1>2 DEF Rejects, Joins, StaysInLine, Leaves, Remembers, RequestOK, Untried
  <2>2. QED
    BY <1>1, <2>1
<1>3. CASE Starts(r)
  <2>1. blamed[r] = {} /\ blamed'[r] = {} /\ UNCHANGED failures
    BY <1>3 DEF Starts, RequestOK, Untried
  <2>2. QED
    BY <1>1, <2>1
<1>4. CASE Answers(r)
  <2>1. /\ lease'[r] = lease[r] /\ UNCHANGED failures
        /\ phase[r] \in {"sending", "streaming"} /\ phase'[r] \in {"streaming", "closing", "draining"}
        /\ lease[r] \notin blamed[r]
    BY <1>4 DEF Answers, Moved, RequestOK, BlameOK
  <2>2. \/ blamed'[r] = blamed[r]
        \/ phase'[r] \in {"closing", "draining"} /\ blamed'[r] = blamed[r] \cup {lease[r]}
    BY <1>4 DEF Answers, Moved, Blames, TypeOK, RouterTypeOK
  <2>3. QED
    BY <1>1, <2>1, <2>2
<1>f. ASSUME Fails(r)
      PROVE  /\ \A p : p \in blamed'[r] <=> p \in blamed[r] \/ p = lease[r]
             /\ lease[r] \in Objects
             /\ \/ phase[r] = "sending" /\ lease[r] \notin blamed[r]
                \/ phase[r] = "closing"
  BY <1>f, FailsEffect DEF Fails, RequestOK, BlameOK
<1>n. failures \in [Objects -> Nat]
  BY DEF TypeOK, RouterTypeOK
<1>5. CASE Retries(r)
  <2>1. /\ failures' = [failures EXCEPT ![lease[r]] = @ + 1]
        /\ phase'[r] = "sending" /\ Fails(r)
    BY <1>5 DEF Retries, Reroute, Moved
  <2>2. failures'[o] = IF o = lease[r] THEN failures[o] + 1 ELSE failures[o]
    BY <1>f, <1>n, <2>1
  <2>3. QED
    BY <1>1, <1>f, <2>1, <2>2
<1>6. CASE Ends(r)
  <2>1. lease'[r] = lease[r] /\ lease[r] \in Objects
    BY <1>6 DEF Ends, TypeOK, ProxyTypeOK
  <2>2. CASE /\ Fails(r) /\ Moved(r, "bad_gateway") /\ ReleaseLease(r, TRUE)
    <3>1. failures'[o] = IF o = lease[r] THEN failures[o] + 1 ELSE failures[o]
      BY <1>n, <2>1, <2>2 DEF ReleaseLease
    <3>2. phase'[r] = "bad_gateway"
      BY <2>2 DEF Moved
    <3>3. QED
      BY <1>1, <1>f, <2>1, <2>2, <3>1, <3>2
  <2>3. CASE /\ phase[r] \in {"sending", "closing"} /\ Moved(r, "aborted")
             /\ ReleaseLease(r, FALSE) /\ UNCHANGED <<error, blamed>>
    <3>1. failures'[o] = failures[o] /\ phase'[r] = "aborted" /\ blamed'[r] = blamed[r]
      BY <1>n, <2>1, <2>3 DEF ReleaseLease, Moved
    <3>2. phase[r] = "sending" => lease[r] \notin blamed[r]
      BY DEF RequestOK, BlameOK
    <3>3. QED
      BY <1>1, <2>1, <2>3, <3>1, <3>2
  <2>4. CASE /\ phase[r] = "draining" /\ error[r] /\ Moved(r, "dropped")
             /\ ReleaseLease(r, TRUE) /\ UNCHANGED <<error, blamed>>
    <3>1. failures'[o] = IF o = lease[r] THEN failures[o] + 1 ELSE failures[o]
      BY <1>n, <2>1, <2>4 DEF ReleaseLease
    <3>2. phase'[r] = "dropped" /\ blamed'[r] = blamed[r]
      BY <2>4 DEF Moved
    <3>3. error[r] = TRUE
      BY <2>4 DEF TypeOK, ProxyTypeOK
    <3>4. lease[r] \in blamed[r]
      BY <2>4, <3>3 DEF RequestOK, BlameOK
    <3>5. QED
      BY <1>1, <2>1, <2>4, <3>1, <3>2, <3>4
  <2>5. CASE /\ phase[r] = "draining" /\ ~error[r] /\ Moved(r, "answered")
             /\ ReleaseLease(r, FALSE) /\ UNCHANGED <<error, blamed>>
    <3>1. failures'[o] = failures[o] /\ phase'[r] = "answered" /\ blamed'[r] = blamed[r]
      BY <1>n, <2>1, <2>5 DEF ReleaseLease, Moved
    <3>2. error[r] = FALSE
      BY <2>5 DEF TypeOK, ProxyTypeOK
    <3>3. lease[r] \notin blamed[r]
      BY <2>5, <3>2 DEF RequestOK, BlameOK
    <3>4. QED
      BY <1>1, <2>1, <2>5, <3>1, <3>3
  <2>6. QED
    BY <1>6, <2>2, <2>3, <2>4, <2>5 DEF Ends
<1>7. QED
  BY <1>2, <1>3, <1>4, <1>5, <1>6 DEF StepOf

\* total_errors counts a request when it ends failed.
LEMMA FailedStep ==
  ASSUME TypeOK, TypeOK', NEW r \in Requests, StepOf(r)
  PROVE  \/ totalErrors' = totalErrors /\ (r \in Failed <=> r \in Failed')
         \/ totalErrors' = totalErrors + 1 /\ r \notin Failed /\ r \in Failed'
<1>1. /\ r \in Failed <=> phase[r] \in {"bad_gateway", "dropped"}
      /\ r \in Failed' <=> phase'[r] \in {"bad_gateway", "dropped"}
  BY DEF Failed
<1>2. CASE Rejects(r) \/ Joins(r) \/ StaysInLine(r) \/ Leaves(r) \/ Starts(r)
           \/ Answers(r) \/ Retries(r)
  BY <1>1, <1>2
     DEF Rejects, Joins, StaysInLine, Leaves, Starts, Answers, Retries, Fails, Moved
<1>3. CASE Ends(r)
  BY <1>1, <1>3 DEF Ends, Moved, ReleaseLease
<1>4. QED
  BY <1>2, <1>3 DEF StepOf

LEMMA FailureStep ==
  ASSUME TypeOK, TypeOK', RequestsOK, EachFailureChargedOnce, NEW r \in Requests,
         Others(r), StepOf(r)
  PROVE  EachFailureChargedOnce'
<1>1. ASSUME NEW S, NEW T, IsFiniteSet(S), S \ {r} = T \ {r}
      PROVE  /\ Cardinality(S) \in Nat
             /\ (r \in S <=> r \in T) => Cardinality(T) = Cardinality(S)
             /\ r \notin S /\ r \in T => Cardinality(T) = Cardinality(S) + 1
  BY <1>1, CountChange
<1>2. ASSUME NEW o \in Objects PROVE failures'[o] = Cardinality(Charged(o)')
  <2>1. failures[o] = Cardinality(Charged(o))
    BY DEF EachFailureChargedOnce, Charged
  <2>2. IsFiniteSet(Charged(o)) /\ Charged(o) \ {r} = Charged(o)' \ {r}
    BY SetsAreFinite, OneMoves
  <2>3. \/ /\ failures'[o] = failures[o]
           /\ r \in Charged(o) <=> r \in Charged(o)'
        \/ /\ failures'[o] = failures[o] + 1
           /\ r \notin Charged(o) /\ r \in Charged(o)'
    BY ChargedStep DEF RequestsOK
  <2>4. QED
    BY <1>1, <2>1, <2>2, <2>3
<1>3. totalErrors' = Cardinality(Failed')
  <2>1. totalErrors = Cardinality(Failed)
    BY DEF EachFailureChargedOnce, Failed
  <2>2. IsFiniteSet(Failed) /\ Failed \ {r} = Failed' \ {r}
    BY SetsAreFinite, OneMoves
  <2>3. QED
    BY <1>1, <2>1, <2>2, FailedStep
<1>4. QED
  BY <1>2, <1>3 DEF EachFailureChargedOnce, Charged, Failed

LEMMA FailureNext ==
  ASSUME TypeOK, TypeOK', RequestsOK, EachFailureChargedOnce, [Next]_vars
  PROVE  EachFailureChargedOnce'
<1>1. CASE Rests
  BY <1>1, NoneMoves DEF EachFailureChargedOnce, Charged, Failed, Rests, bookVars
<1>2. QED
  BY <1>1, StepKinds, FailureStep

LEMMA FailureInit == Init => EachFailureChargedOnce
<1> SUFFICES ASSUME Init PROVE EachFailureChargedOnce
  OBVIOUS
<1>1. (\A o \in Objects : Charged(o) = {}) /\ Failed = {}
  BY DEF Init, Charged, Failed
<1>2. (\A o \in Objects : failures[o] = 0) /\ totalErrors = 0
  BY DEF Init
<1>3. QED
  BY <1>1, <1>2, FS_EmptySet DEF EachFailureChargedOnce, Charged, Failed

-----------------------------------------------------------------------------
(* Theorems                                                                *)

\* The count of a ReplicaState is the number of leases on it, however many restarts,
\* retries and cancellations there are.
THEOREM InflightIsLeases == Spec => []InflightMatchesLeases
<1>1. Init => TypeOK /\ InflightMatchesLeases
  BY TypeInit, InflightInit
<1>2. TypeOK /\ InflightMatchesLeases /\ [Next]_vars => (TypeOK /\ InflightMatchesLeases)'
  BY TypeStep, InflightNext
<1>3. QED
  BY <1>1, <1>2, PTL DEF Spec

\* The line is what _waiting counts, no longer than the queue's limit and without
\* duplicates, and the gauge counts the requests under way.
THEOREM CountersFollow == Spec => []CountersBalanced
<1>1. Init => TypeOK /\ CountersBalanced
  BY TypeInit, CountersInit
<1>2. TypeOK /\ CountersBalanced /\ [Next]_vars => (TypeOK /\ CountersBalanced)'
  BY TypeStep, CountersNext
<1>3. QED
  BY <1>1, <1>2, PTL DEF Spec

\* No slot is lost or given back twice, and none stays free while a request waits for
\* it unless a woken one is about to run and wakes the next.
THEOREM SlotsReachTheWaiters == Spec => []SlotsReachWaiters
<1> DEFINE IInv == TypeOK /\ SlotConservation /\ CountersBalanced /\ NoLostWakeup
<1>1. Init => IInv
  <2>1. Init => NoLostWakeup
    BY DEF Init, NoLostWakeup
  <2>2. QED
    BY <2>1, TypeInit, SlotInit, CountersInit
<1>2. IInv /\ [Next]_vars => IInv'
  BY TypeStep, SlotStep, CountersNext, WakeupStep DEF CountersBalanced
<1>3. IInv => SlotsReachWaiters
  BY DEF SlotsReachWaiters
<1>4. QED
  BY <1>1, <1>2, <1>3, PTL DEF Spec

\* The router keeps the gate's promise, for any number of slots, places in line and
\* requests: bounded inside, bounded line, nobody overtaken.
THEOREM GateKept == ASSUME Gated PROVE Spec => ImplementsAdmission
<1> DEFINE IInv == TypeOK /\ SlotConservation /\ CountersBalanced
<1>1. Init => IInv /\ Gate!Init
  BY TypeInit, SlotInit, CountersInit, GateInit
<1>2. IInv /\ [Next]_vars => IInv'
  BY TypeStep, SlotStep, CountersNext
<1>3. IInv /\ IInv' /\ [Next]_vars => [Gate!Next]_(Gate!vars)
  BY GateStep DEF CountersBalanced
<1>4. QED
  BY <1>1, <1>2, <1>3, PTL DEF Spec, ImplementsAdmission, Gate!Spec

\* Each failed attempt is charged once to the object it ran on, and each request
\* that failed is counted once.
THEOREM FailuresChargedOnce == Spec => []EachFailureChargedOnce
<1>1. Init => TypeOK /\ RequestsOK /\ EachFailureChargedOnce
  BY TypeInit, RequestsInit, FailureInit
<1>2. TypeOK /\ RequestsOK /\ EachFailureChargedOnce /\ [Next]_vars
        => (TypeOK /\ RequestsOK /\ EachFailureChargedOnce)'
  BY TypeStep, RequestsStep, FailureNext
<1>3. QED
  BY <1>1, <1>2, PTL DEF Spec

\* A pair has at most two elements.
LEMMA PairSize ==
  ASSUME NEW a, NEW b, NEW S, S \subseteq {a, b}
  PROVE  Cardinality(S) <= 2
<1>1. IsFiniteSet({a}) /\ Cardinality({a}) = 1
  BY FS_Singleton
<1>2. IsFiniteSet({a} \cup {b}) /\ Cardinality({a} \cup {b}) \in {1, 2}
  BY <1>1, FS_AddElement
<1>3. {a, b} = {a} \cup {b}
  OBVIOUS
<1>4. QED
  BY <1>2, <1>3, FS_Subset, FS_CardinalityType

LEMMA TriedElsewhere ==
  ASSUME TypeOK, RequestsOK
  PROVE  RetriesElsewhere
<1> SUFFICES ASSUME NEW r \in Requests
             PROVE  LET tried == blamed[r] \cup ({lease[r]} \ {None})
                    IN Cardinality(tried) <= 2
                       /\ \A o, p \in tried : o[1] = p[1] => o = p
  BY DEF RetriesElsewhere
<1> DEFINE tried == blamed[r] \cup ({lease[r]} \ {None})
<1>1. attempts[r] \in {0, 1}
  BY DEF TypeOK, ProxyTypeOK
<1>2. PICK o : tried \subseteq {o, lease[r]} /\ (o = lease[r] \/ o[1] # lease[r][1])
  <2>1. CASE attempts[r] = 0
    BY <2>1 DEF RequestsOK, RequestOK, AttemptsOK
  <2>2. CASE attempts[r] = 1
    BY <2>2 DEF RequestsOK, RequestOK, AttemptsOK
  <2>3. QED
    BY <1>1, <2>1, <2>2
<1>3. Cardinality(tried) <= 2
  BY <1>2, PairSize
<1>4. \A p, q \in tried : p[1] = q[1] => p = q
  BY <1>2
<1>5. QED
  BY <1>3, <1>4

\* A request is tried on at most two replicas, whose ids differ even if one of them
\* restarted in between.
THEOREM RetriesGoElsewhere == Spec => []RetriesElsewhere
<1>1. Init => TypeOK /\ RequestsOK
  BY TypeInit, RequestsInit
<1>2. TypeOK /\ RequestsOK /\ [Next]_vars => (TypeOK /\ RequestsOK)'
  BY TypeStep, RequestsStep
<1>3. QED
  BY <1>1, <1>2, TriedElsewhere, PTL DEF Spec

=============================================================================
