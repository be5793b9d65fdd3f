--------------------------- MODULE Breaker_proofs ---------------------------
(***************************************************************************)
(* Proofs about Breaker for any thresholds, any number of clients and any  *)
(* order in which results of earlier requests arrive, panics included.     *)
(***************************************************************************)
EXTENDS Breaker, FiniteSetTheorems, TLAPS

\* A probe is a running request, and there are finitely many.
ProbesRun == IsFiniteSet(probes) /\ probes \subseteq running

IInv == TypeOK /\ ProbesRun /\ ProbesBounded /\ CountersMatchState

LEMMA InitIInv == Init => IInv
  BY FS_EmptySet, ThresholdAssumption, MaxPanicsAssumption
  DEF Init, IInv, TypeOK, ProbesRun, ProbesBounded, CountersMatchState, AtLeastOne

LEMMA NextTypeOK == TypeOK /\ [Next]_vars => TypeOK'
<1> SUFFICES ASSUME TypeOK, [Next]_vars PROVE TypeOK'
  OBVIOUS
<1> USE ThresholdAssumption, MaxPanicsAssumption DEF TypeOK
<1>1. ASSUME NEW r \in Requests, Admit(r) PROVE TypeOK'
  BY <1>1 DEF Admit, AllowClosed, AllowOpen, AllowHalfOpen
<1>2. ASSUME NEW r \in Requests, Panic(r) PROVE TypeOK'
  BY <1>2 DEF Panic
<1>3. ASSUME NEW r \in Requests, NEW ok \in BOOLEAN, Finish(r, ok) PROVE TypeOK'
  <2>1. /\ running' \subseteq Requests /\ probes' \subseteq Requests /\ leaked' \in Nat
        /\ up' = up /\ panics' = panics
    BY <1>3 DEF Finish
  <2>2. /\ state' \in {"closed", "open", "half-open"}
        /\ failures' \in Nat /\ successes' \in Nat /\ halfOpenCount' \in Nat
        /\ elapsed' \in BOOLEAN
    <3>1. CASE SucceedClosed \/ IgnoreOpen
      BY <3>1 DEF SucceedClosed, IgnoreOpen
    <3>2. CASE SucceedHalfOpen
      BY <3>2 DEF SucceedHalfOpen
    <3>3. CASE FailClosed
      <4>1. state' \in {"closed", "open", "half-open"}
        BY <3>3 DEF FailClosed
      <4>2. failures' \in Nat
        BY <3>3 DEF FailClosed
      <4>3. successes' \in Nat /\ halfOpenCount' \in Nat /\ elapsed' \in BOOLEAN
        BY <3>3 DEF FailClosed
      <4> QED
        BY <4>1, <4>2, <4>3
    <3>4. CASE FailHalfOpen
      BY <3>4 DEF FailHalfOpen
    <3> QED
      BY <1>3, <3>1, <3>2, <3>3, <3>4 DEF Finish
  <2> QED
    BY <2>1, <2>2
<1>4. ASSUME Reset \/ TimeoutPasses \/ UpstreamChanges PROVE TypeOK'
  <2>1. CASE Reset
    BY <2>1 DEF Reset
  <2>3. CASE TimeoutPasses
    BY <2>3 DEF TimeoutPasses
  <2>2. CASE UpstreamChanges
    <3>1. up' \in BOOLEAN
      BY <2>2, Zenon DEF UpstreamChanges
    <3> QED
      BY <2>2, <3>1 DEF UpstreamChanges
  <2> QED
    BY <1>4, <2>1, <2>2, <2>3
<1>5. ASSUME UNCHANGED vars PROVE TypeOK'
  BY <1>5 DEF vars
<1> QED
  BY <1>1, <1>2, <1>3, <1>4, <1>5 DEF Next

\* The history sets: a probe joins when it is admitted and leaves when it
\* ends, or when the episode does.
LEMMA AdmitProbes ==
  ASSUME IInv, NEW r \in Requests, Admit(r)
  PROVE  ProbesRun' /\ ProbesBounded'
<1>1. /\ r \notin running /\ running' = running \cup {r} /\ successes' = successes
      /\ halfOpenCount \in Nat /\ Cardinality(probes) \in Nat
      /\ leaked \in Nat /\ successes \in Nat
  BY FS_CardinalityType DEF Admit, IInv, TypeOK, ProbesRun
<1>2. CASE AllowClosed(r)
  BY <1>1, <1>2 DEF AllowClosed, IInv, ProbesRun, ProbesBounded
<1>3. CASE AllowOpen(r)
  <2>1. probes' = {r} /\ state' = "half-open" /\ halfOpenCount' = 1 /\ leaked' = 0
    BY <1>3 DEF AllowOpen
  <2>2. IsFiniteSet(probes') /\ Cardinality(probes') = 1
    BY <2>1, FS_Singleton
  <2> QED
    BY <1>1, <2>1, <2>2, ThresholdAssumption DEF ProbesRun, ProbesBounded, AtLeastOne
<1>4. CASE AllowHalfOpen(r)
  <2>1. /\ probes' = probes \cup {r} /\ state' = "half-open"
        /\ halfOpenCount' = halfOpenCount + 1 /\ halfOpenCount < HalfOpenMaxRequests
        /\ leaked' = leaked
    BY <1>4 DEF AllowHalfOpen, HalfOpenHasRoom
  <2>2. IsFiniteSet(probes') /\ Cardinality(probes') = Cardinality(probes) + 1
    BY <1>1, <2>1, FS_AddElement DEF IInv, ProbesRun
  <2> QED
    BY <1>1, <2>1, <2>2, ThresholdAssumption DEF IInv, ProbesRun, ProbesBounded, AtLeastOne
<1> QED
  BY <1>2, <1>3, <1>4 DEF Admit

LEMMA ShrinkingProbes ==
  ASSUME IInv, NEW r, probes' \in {{}, probes \ {r}}
  PROVE  /\ IsFiniteSet(probes')
         /\ Cardinality(probes') <= Cardinality(probes)
         /\ probes' = probes \ {r} =>
              Cardinality(probes') = IF r \in probes THEN Cardinality(probes) - 1
                                                     ELSE Cardinality(probes)
<1>1. IsFiniteSet({}) /\ Cardinality({}) = 0 /\ Cardinality(probes) \in Nat
  BY FS_EmptySet, FS_CardinalityType DEF IInv, ProbesRun
<1>2. /\ IsFiniteSet(probes \ {r})
      /\ Cardinality(probes \ {r}) = IF r \in probes THEN Cardinality(probes) - 1
                                                      ELSE Cardinality(probes)
  BY FS_RemoveElement DEF IInv, ProbesRun
<1> QED
  BY <1>1, <1>2

\* A result that leaves the breaker half-open is a success.
LEMMA FinishProbes ==
  ASSUME IInv, NEW r \in Requests, NEW ok \in BOOLEAN, Finish(r, ok)
  PROVE  ProbesRun' /\ ProbesBounded'
<1>1. /\ probes' = IF state' = "half-open" THEN probes \ {r} ELSE {}
      /\ leaked' = IF state' = "half-open" THEN leaked ELSE 0
      /\ running' = running \ {r}
      /\ halfOpenCount \in Nat /\ Cardinality(probes) \in Nat
      /\ leaked \in Nat /\ successes \in Nat
  BY FS_CardinalityType DEF Finish, IInv, TypeOK, ProbesRun
<1>2. /\ IsFiniteSet(probes') /\ Cardinality(probes') \in Nat
      /\ Cardinality(probes') <= Cardinality(probes)
      /\ state' = "half-open" => Cardinality(probes') >= Cardinality(probes) - 1
      /\ probes' \subseteq running'
  <2>1. probes' \in {{}, probes \ {r}}
    BY <1>1
  <2>2. /\ IsFiniteSet(probes') /\ Cardinality(probes') <= Cardinality(probes)
        /\ probes' = probes \ {r} =>
             Cardinality(probes') = IF r \in probes THEN Cardinality(probes) - 1
                                                    ELSE Cardinality(probes)
    BY <2>1, ShrinkingProbes
  <2> QED
    BY <1>1, <2>1, <2>2, FS_CardinalityType DEF IInv, ProbesRun
<1>3. /\ state' = "half-open" => /\ state = "half-open"
                                 /\ halfOpenCount' = halfOpenCount
                                 /\ successes' = successes + 1
      /\ state' # "half-open" => halfOpenCount' = 0 /\ successes' \in Nat
  BY <1>1 DEF Finish, SucceedClosed, IgnoreOpen, SucceedHalfOpen, FailClosed, FailHalfOpen,
         IInv, ProbesBounded
<1>4. CASE state' = "half-open"
  BY <1>1, <1>2, <1>3, <1>4 DEF IInv, ProbesRun, ProbesBounded
<1>5. CASE state' # "half-open"
  <2>1. Cardinality(probes') = 0
    BY <1>1, <1>5, FS_EmptySet
  <2> QED
    BY <1>1, <1>2, <1>3, <1>5, <2>1 DEF ProbesRun, ProbesBounded
<1> QED
  BY <1>4, <1>5

LEMMA OtherProbes ==
  ASSUME IInv,
         \/ \E r \in Requests : Panic(r)
         \/ Reset \/ TimeoutPasses \/ UpstreamChanges \/ UNCHANGED vars
  PROVE  ProbesRun' /\ ProbesBounded'
<1>1. /\ Cardinality(probes) \in Nat /\ halfOpenCount \in Nat
      /\ leaked \in Nat /\ successes \in Nat
  BY FS_CardinalityType DEF IInv, ProbesRun, TypeOK
<1>2. CASE Reset
  BY <1>2, FS_EmptySet DEF Reset, ProbesRun, ProbesBounded
<1>3. ASSUME NEW r \in Requests, Panic(r) PROVE ProbesRun' /\ ProbesBounded'
  <2>1. /\ probes' = probes \ {r} /\ running' = running \ {r}
        /\ leaked' = IF r \in probes THEN leaked + 1 ELSE leaked
        /\ UNCHANGED <<state, halfOpenCount, successes>>
    BY <1>3 DEF Panic
  <2>2. /\ IsFiniteSet(probes')
        /\ Cardinality(probes') = IF r \in probes THEN Cardinality(probes) - 1
                                                  ELSE Cardinality(probes)
    BY <2>1, ShrinkingProbes
  <2> QED
    BY <1>1, <2>1, <2>2, FS_CardinalityType DEF IInv, ProbesRun, ProbesBounded
<1>4. CASE TimeoutPasses \/ UpstreamChanges \/ UNCHANGED vars
  BY <1>4 DEF TimeoutPasses, UpstreamChanges, vars, IInv, ProbesRun, ProbesBounded
<1> QED
  BY <1>2, <1>3, <1>4

LEMMA NextCounters == IInv /\ [Next]_vars => CountersMatchState'
<1> SUFFICES ASSUME IInv, [Next]_vars PROVE CountersMatchState'
  OBVIOUS
<1> USE ThresholdAssumption DEF IInv, TypeOK, CountersMatchState, AtLeastOne
<1>1. ASSUME NEW r \in Requests, Admit(r) PROVE CountersMatchState'
  BY <1>1 DEF Admit, AllowClosed, AllowOpen, AllowHalfOpen
<1>2. ASSUME NEW r \in Requests, NEW ok \in BOOLEAN, Finish(r, ok) PROVE CountersMatchState'
  <2>1. CASE SucceedClosed \/ IgnoreOpen
    BY <2>1 DEF SucceedClosed, IgnoreOpen
  <2>2. CASE SucceedHalfOpen
    BY <2>2 DEF SucceedHalfOpen, Enough
  <2>3. CASE FailClosed
    BY <2>3 DEF FailClosed
  <2>4. CASE FailHalfOpen
    BY <2>4 DEF FailHalfOpen
  <2> QED
    BY <1>2, <2>1, <2>2, <2>3, <2>4 DEF Finish
<1>3. ASSUME NEW r \in Requests, Panic(r) PROVE CountersMatchState'
  BY <1>3 DEF Panic
<1>4. ASSUME Reset \/ TimeoutPasses \/ UpstreamChanges \/ UNCHANGED vars
      PROVE  CountersMatchState'
  BY <1>4 DEF Reset, TimeoutPasses, UpstreamChanges, vars
<1> QED
  BY <1>1, <1>2, <1>3, <1>4 DEF Next

LEMMA NextIInv == IInv /\ [Next]_vars => IInv'
<1> SUFFICES ASSUME IInv, [Next]_vars PROVE IInv'
  OBVIOUS
<1>1. TypeOK' /\ CountersMatchState'
  BY NextTypeOK, NextCounters DEF IInv
<1>2. ProbesRun' /\ ProbesBounded'
  BY AdmitProbes, FinishProbes, OtherProbes DEF Next
<1> QED
  BY <1>1, <1>2 DEF IInv

THEOREM InductiveInvariant == Spec => []IInv
  BY InitIInv, NextIInv, PTL DEF Spec

\* In every reachable state the variables of Breaker have their types.
THEOREM TypeCorrect == Spec => []TypeOK
<1>1. IInv => TypeOK
  BY DEF IInv
<1> QED
  BY <1>1, InductiveInvariant, PTL

\* For all thresholds: halfOpenCount counts the running probes of a half-open
\* episode and those lost by panics, what it counts beyond them has brought
\* successes, and it stays within HalfOpenMaxRequests (or one).
THEOREM ProbesAreBounded == Spec => []ProbesBounded
<1>1. IInv => ProbesBounded
  BY DEF IInv
<1> QED
  BY <1>1, InductiveInvariant, PTL

\* For all thresholds: failures and successes agree with the state, whatever
\* late results Record is given.
THEOREM CountersAgree == Spec => []CountersMatchState
<1>1. IInv => CountersMatchState
  BY DEF IInv
<1> QED
  BY <1>1, InductiveInvariant, PTL

\* For all thresholds: a breaker that opens waits for the timeout before it
\* admits a probe.
THEOREM OpenWaits == Spec => NoEarlyProbe
<1> DEFINE P == /\ state # "open" /\ state' = "open" => ~elapsed'
                /\ state = "open" /\ state' = "half-open" => elapsed
<1>1. IInv /\ [Next]_vars => [P]_vars
  <2> SUFFICES ASSUME IInv, Next PROVE P
    BY DEF vars
  <2>1. ASSUME NEW r \in Requests, Admit(r) \/ Panic(r) PROVE P
    BY <2>1 DEF Admit, AllowClosed, AllowOpen, AllowHalfOpen, Panic
  <2>2. ASSUME NEW r \in Requests, NEW ok \in BOOLEAN, Finish(r, ok) PROVE P
    BY <2>2 DEF Finish, SucceedClosed, IgnoreOpen, SucceedHalfOpen, FailClosed, FailHalfOpen
  <2>3. ASSUME Reset \/ TimeoutPasses \/ UpstreamChanges PROVE P
    BY <2>3 DEF Reset, TimeoutPasses, UpstreamChanges
  <2> QED
    BY <2>1, <2>2, <2>3 DEF Next
<1> QED
  BY <1>1, InductiveInvariant, PTL DEF Spec, NoEarlyProbe
=============================================================================
