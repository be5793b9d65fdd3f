------------------------------ MODULE Breaker ------------------------------
(***************************************************************************)
(* One circuit breaker of gateway/breaker and the requests that the        *)
(* middleware passes through it: Allow, the wrapped handler, Record.       *)
(* Allow and Record run under the breaker's mutex; between them a request  *)
(* runs its handler for any time, so a result may be recorded in a state   *)
(* of the breaker other than the one that admitted the request.            *)
(***************************************************************************)
EXTENDS Integers, FiniteSets

CONSTANTS Requests,             \* clients; each sends one request at a time
          FailureThreshold,
          SuccessThreshold,
          HalfOpenMaxRequests,
          MaxPanics             \* bound: how many handlers may panic

ASSUME ThresholdAssumption ==
  /\ FailureThreshold \in Nat
  /\ SuccessThreshold \in Nat
  /\ HalfOpenMaxRequests \in Nat
ASSUME MaxPanicsAssumption == MaxPanics \in Nat

VARIABLES state,                \* "closed", "open" or "half-open"
          failures,
          successes,
          halfOpenCount,
          elapsed,              \* time.Since(lastFailureTime) > Timeout
          running,              \* the requests whose handler runs
          up,                   \* does the upstream answer without 5xx?
          panics,               \* how many handlers have panicked
          probes,               \* history: running requests admitted in this half-open episode
          leaked                \* history: probes of this episode whose handler panicked

vars == <<state, failures, successes, halfOpenCount, elapsed, running, up,
          panics, probes, leaked>>

AtLeastOne(n) == IF n = 0 THEN 1 ELSE n

TypeOK ==
  /\ state \in {"closed", "open", "half-open"}
  /\ failures \in Nat
  /\ successes \in Nat
  /\ halfOpenCount \in Nat
  /\ elapsed \in BOOLEAN
  /\ running \subseteq Requests
  /\ up \in BOOLEAN
  /\ panics \in 0 .. MaxPanics
  /\ probes \subseteq Requests
  /\ leaked \in Nat

\* The zero time of lastFailureTime is long ago.
Init ==
  /\ state = "closed"
  /\ failures = 0
  /\ successes = 0
  /\ halfOpenCount = 0
  /\ elapsed = TRUE
  /\ running = {}
  /\ up \in BOOLEAN
  /\ panics = 0
  /\ probes = {}
  /\ leaked = 0

-----------------------------------------------------------------------------
(* Allow; a rejected request gets 503 and changes nothing *)

\* Mutant: every request is a probe in the half-open state.
HalfOpenAlways == TRUE

HalfOpenHasRoom == halfOpenCount < HalfOpenMaxRequests

AllowClosed(r) ==
  /\ state = "closed"
  /\ UNCHANGED <<state, halfOpenCount, probes, leaked>>

\* The first request after the timeout is counted as the first probe.
AllowOpen(r) ==
  /\ state = "open"
  /\ elapsed
  /\ state' = "half-open"
  /\ halfOpenCount' = 1
  /\ probes' = {r}
  /\ leaked' = 0

AllowHalfOpen(r) ==
  /\ state = "half-open"
  /\ HalfOpenHasRoom
  /\ halfOpenCount' = halfOpenCount + 1
  /\ probes' = probes \cup {r}
  /\ UNCHANGED <<state, leaked>>

Admit(r) ==
  /\ r \notin running
  /\ AllowClosed(r) \/ AllowOpen(r) \/ AllowHalfOpen(r)
  /\ running' = running \cup {r}
  /\ UNCHANGED <<failures, successes, elapsed, up, panics>>

-----------------------------------------------------------------------------
(* Record *)

\* uint32 counters: failures stops at the threshold and never wraps.
FailClosed ==
  /\ state = "closed"
  /\ failures' = failures + 1
  /\ elapsed' = FALSE
  /\ IF failures + 1 >= FailureThreshold THEN state' = "open" ELSE UNCHANGED state
  /\ UNCHANGED <<successes, halfOpenCount>>

\* Mutant: the counter is decremented below zero.
SucceedClosedUnderflows ==
  /\ state = "closed"
  /\ failures' = failures - 1
  /\ UNCHANGED <<state, successes, halfOpenCount, elapsed>>

SucceedClosed ==
  /\ state = "closed"
  /\ failures' = IF failures > 0 THEN failures - 1 ELSE 0
  /\ UNCHANGED <<state, successes, halfOpenCount, elapsed>>

\* "Should not happen if Allow() is checked first": the result of a request
\* that was admitted before the breaker opened.
IgnoreOpen ==
  /\ state = "open"
  /\ UNCHANGED <<state, failures, successes, halfOpenCount, elapsed>>

\* Mutant: a failing probe does not restart the timeout.
FailHalfOpenKeepsTime ==
  /\ state = "half-open"
  /\ state' = "open"
  /\ failures' = FailureThreshold
  /\ halfOpenCount' = 0
  /\ UNCHANGED <<successes, elapsed>>

\* Mutant: the failure counter is cleared when the breaker reopens.
FailHalfOpenClearsFailures ==
  /\ state = "half-open"
  /\ state' = "open"
  /\ failures' = 0
  /\ elapsed' = FALSE
  /\ halfOpenCount' = 0
  /\ UNCHANGED <<successes>>

\* `successes' is left as it is.
FailHalfOpen ==
  /\ state = "half-open"
  /\ state' = "open"
  /\ failures' = FailureThreshold
  /\ elapsed' = FALSE
  /\ halfOpenCount' = 0
  /\ UNCHANGED <<successes>>

\* Mutant: one success more than the threshold is asked for.
EnoughPlusOne == successes + 1 > SuccessThreshold

Enough == successes + 1 >= SuccessThreshold

SucceedHalfOpen ==
  /\ state = "half-open"
  /\ IF Enough
       THEN /\ state' = "closed"
            /\ failures' = 0
            /\ successes' = 0
            /\ halfOpenCount' = 0
       ELSE /\ successes' = successes + 1
            /\ UNCHANGED <<state, failures, halfOpenCount>>
  /\ UNCHANGED elapsed

\* The handler of r returns, with a status below 500 or not, and the
\* middleware records it.
Finish(r, ok) ==
  /\ r \in running
  /\ up => ok
  /\ running' = running \ {r}
  /\ \/ ok /\ (SucceedClosed \/ IgnoreOpen \/ SucceedHalfOpen)
     \/ ~ok /\ (FailClosed \/ IgnoreOpen \/ FailHalfOpen)
  /\ probes' = IF state' = "half-open" THEN probes \ {r} ELSE {}
  /\ leaked' = IF state' = "half-open" THEN leaked ELSE 0
  /\ UNCHANGED <<up, panics>>

\* A panicking handler leaves the middleware without a Record: the slot of a
\* probe is not given back.
Panic(r) ==
  /\ panics < MaxPanics
  /\ panics' = panics + 1
  /\ r \in running
  /\ running' = running \ {r}
  /\ probes' = probes \ {r}
  /\ leaked' = IF r \in probes THEN leaked + 1 ELSE leaked
  /\ UNCHANGED <<state, failures, successes, halfOpenCount, elapsed, up>>

-----------------------------------------------------------------------------
Reset ==
  /\ state' = "closed"
  /\ failures' = 0
  /\ successes' = 0
  /\ halfOpenCount' = 0
  /\ probes' = {}
  /\ leaked' = 0
  /\ UNCHANGED <<elapsed, running, up, panics>>

\* The environment: time passes, the upstream fails or recovers.
TimeoutPasses ==
  /\ ~elapsed
  /\ elapsed' = TRUE
  /\ UNCHANGED <<state, failures, successes, halfOpenCount, running, up, panics, probes, leaked>>

UpstreamChanges ==
  /\ up' = ~up
  /\ UNCHANGED <<state, failures, successes, halfOpenCount, elapsed, running, panics, probes, leaked>>

Next ==
  \/ \E r \in Requests : Admit(r) \/ Panic(r) \/ \E ok \in BOOLEAN : Finish(r, ok)
  \/ Reset
  \/ TimeoutPasses
  \/ UpstreamChanges

\* Clients keep sending, handlers return, time passes.  Nobody need Reset.
Fairness ==
  /\ WF_vars(TimeoutPasses)
  /\ \A r \in Requests : WF_vars(Admit(r)) /\ WF_vars(\E ok \in BOOLEAN : Finish(r, ok))

Spec == Init /\ [][Next]_vars /\ Fairness

-----------------------------------------------------------------------------
(* What is claimed *)

\* Every slot of a half-open episode that is taken belongs to a probe that
\* still runs, to one whose handler panicked, or has brought a success, also
\* when results of requests admitted in earlier states are recorded in between:
\* slots are lost by panics alone.  And never more are taken than configured
\* (one is always taken).
ProbesBounded ==
  /\ Cardinality(probes) + leaked <= halfOpenCount
  /\ halfOpenCount <= Cardinality(probes) + leaked + successes
  /\ state # "half-open" => halfOpenCount = 0
  /\ state = "half-open" => halfOpenCount \in 1 .. AtLeastOne(HalfOpenMaxRequests)

\* The counters and the state agree: a closed breaker is below its failure
\* threshold, an open or half-open one is at it, and there are never enough
\* successes for an open breaker to close.
CountersMatchState ==
  /\ state = "closed" => failures < AtLeastOne(FailureThreshold)
  /\ state # "closed" => failures >= FailureThreshold
  /\ successes < AtLeastOne(SuccessThreshold)
  /\ state = "closed" => successes = 0

\* Whatever result opens the breaker, no probe is admitted before the timeout
\* has passed again.
NoEarlyProbe ==
  [][/\ state # "open" /\ state' = "open" => ~elapsed'
     /\ state = "open" /\ state' = "half-open" => elapsed]_vars

\* Panicking probes have taken so many slots that those left, and the probes
\* that run, are fewer than the successes that are missing.  With as many slots
\* as successes asked for, as in DefaultConfig, one panic is enough.
SlotsLost ==
  /\ leaked > 0
  /\ AtLeastOne(HalfOpenMaxRequests) - halfOpenCount + Cardinality(probes)
       < SuccessThreshold - successes

\* An upstream that has recovered for good is used again: while clients keep
\* sending, the breaker closes, unless panics have cost it the slots it needs.
Recovers == <>[]up => []<>(state = "closed" \/ SlotsLost)

\* SPECIFICATION.md:367, "HALF-OPEN -> (probe succeeds) -> CLOSED": a half-open
\* breaker decides, it closes or opens again, unless panics have cost it the
\* slots it needs.
HalfOpenResolves == state = "half-open" ~> state # "half-open" \/ SlotsLost
=============================================================================
