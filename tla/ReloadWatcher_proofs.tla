------------------------ MODULE ReloadWatcher_proofs ------------------------
(***************************************************************************)
(* Proofs about ReloadWatcher for any contents, any validator, any number  *)
(* of callers of Reload and of calls of Start.                             *)
(***************************************************************************)
EXTENDS ReloadWatcher, TLAPS

\* A check is under way.
Under(c) == pc[c] \in {"compare", "apply", "record"}

\* What a check is about to apply, or has applied, was validated.
Validated == \A c \in Checkers : pc[c] \in {"apply", "record"} => data[c] \in Valid

\* While nothing has overlapped, one check or Start is under way at most, and
\* current and applied differ only between its apply and its record.
OneAtATime ==
  alone =>
    /\ \A c, d \in Checkers : Under(c) /\ Under(d) => c = d
    /\ starting => \A c \in Checkers : ~Under(c)
    /\ ~starting /\ (\A c \in Checkers : pc[c] # "record") => current = applied
    /\ \A c \in Checkers : pc[c] = "record" => applied = data[c]

IInv == TypeOK /\ OnlyValid /\ Validated /\ OneAtATime

USE ContentsAssumption, MayFailAssumption, MaxStartsAssumption

LEMMA InitIInv == Init => IInv
<1> SUFFICES ASSUME Init PROVE IInv
  OBVIOUS
<1>1. /\ \A c \in Checkers : pc[c] \in {"wait", "off"}
      /\ pc \in [Checkers -> {"off", "wait", "compare", "apply", "record"}]
  BY DEF Init
<1>2. data \in [Checkers -> Content]
  BY DEF Init, Content
<1>3. TypeOK
  <2>1. /\ running \in BOOLEAN /\ stopClosed \in BOOLEAN /\ starting \in BOOLEAN
        /\ crashed \in BOOLEAN /\ alone \in BOOLEAN
    BY DEF Init
  <2>2. /\ file \in Contents /\ current \in Content /\ applied \in Content
        /\ starts \in 0 .. MaxStarts /\ bare \subseteq Checkers
    BY DEF Init, Content
  <2> QED
    BY <1>1, <1>2, <2>1, <2>2 DEF TypeOK
<1> QED
  BY <1>1, <1>3 DEF Init, IInv, OnlyValid, Validated, OneAtATime, Under

\* The actions that leave the checks alone.
LEMMA StartStops ==
  ASSUME IInv,
         StartIgnored \/ StartRefused \/ StartLoads \/ StartApplies \/ StartApplyFails \/ Stop \/ Edit
  PROVE  IInv'
<1> USE DEF IInv
<1>1. CASE StartIgnored \/ StartRefused
  BY <1>1 DEF StartIgnored, StartRefused, TypeOK, OnlyValid, Validated, OneAtATime, Under
<1>2. CASE StartLoads
  <2>1. /\ file \in Valid /\ current' = file /\ starting' = TRUE /\ ~starting
        /\ alone' = (alone /\ ~Busy) /\ starts' = starts + 1 /\ starts < MaxStarts
        /\ UNCHANGED <<file, running, stopClosed, crashed, pc, data, applied, bare>>
    BY <1>2 DEF StartLoads, Accepted
  <2>2. TypeOK'
    <3>1. alone' \in BOOLEAN
      BY <2>1, Zenon
    <3> QED
      BY <2>1, <3>1 DEF TypeOK, Content
  <2>3. OnlyValid' /\ Validated'
    BY <2>1 DEF OnlyValid, Validated
  <2>4. OneAtATime'
    BY <2>1 DEF OneAtATime, Under, Busy
  <2> QED
    BY <2>2, <2>3, <2>4
<1>3. CASE StartApplies
  <2>1. /\ starting /\ starting' = FALSE /\ applied' = current /\ running' = TRUE
        /\ pc' = [pc EXCEPT ![starts] = "wait"]
        /\ UNCHANGED <<file, current, stopClosed, starts, crashed, data, alone, bare>>
    BY <1>3 DEF StartApplies
  <2>2. \A c \in Checkers : pc'[c] = pc[c] \/ pc'[c] = "wait"
    BY <2>1 DEF TypeOK
  <2>3. TypeOK'
    BY <2>1, <2>2 DEF TypeOK
  <2>4. OnlyValid' /\ Validated'
    BY <2>1, <2>2 DEF OnlyValid, Validated
  <2>5. OneAtATime'
    BY <2>1, <2>2 DEF OneAtATime, Under
  <2> QED
    BY <2>3, <2>4, <2>5
<1>4. CASE StartApplyFails
  BY <1>4 DEF StartApplyFails, TypeOK, OnlyValid, Validated, OneAtATime
<1>5. CASE Stop
  BY <1>5 DEF Stop, TypeOK, OnlyValid, Validated, OneAtATime, Under
<1>6. CASE Edit
  BY <1>6 DEF Edit, TypeOK, OnlyValid, Validated, OneAtATime, Under
<1> QED
  BY <1>1, <1>2, <1>3, <1>4, <1>5, <1>6

\* The steps of a check and of the loop that makes it.
LEMMA CheckSteps ==
  ASSUME IInv, NEW c \in Checkers, LoopEnds(c) \/ Load(c) \/ Check(c)
  PROVE  IInv'
<1> USE DEF IInv
<1>1. CASE LoopEnds(c)
  <2>1. \A d \in Checkers : pc'[d] = IF d = c THEN "off" ELSE pc[d]
    BY <1>1 DEF LoopEnds, TypeOK
  <2>2. pc' \in [Checkers -> {"off", "wait", "compare", "apply", "record"}] /\ pc[c] = "wait"
    BY <1>1 DEF LoopEnds, TypeOK
  <2>3. UNCHANGED <<file, current, running, stopClosed, starts, starting, crashed, data, applied, alone, bare>>
    BY <1>1 DEF LoopEnds
  <2> QED
    BY <2>1, <2>2, <2>3 DEF TypeOK, OnlyValid, Validated, OneAtATime, Under
<1>2. CASE Load(c)
  <2>1. /\ pc[c] = "wait" /\ alone' = (alone /\ ~Busy)
        /\ pc' = [pc EXCEPT ![c] = "compare"] /\ data' = [data EXCEPT ![c] = file]
        /\ UNCHANGED <<file, current, running, stopClosed, starts, starting, crashed, applied, bare>>
    BY <1>2 DEF Load, Loaded
  <2>2. /\ \A d \in Checkers : pc'[d] = IF d = c THEN "compare" ELSE pc[d]
        /\ \A d \in Checkers : data'[d] = IF d = c THEN file ELSE data[d]
    BY <2>1 DEF TypeOK
  <2>3. TypeOK'
    <3>1. alone' \in BOOLEAN
      BY <2>1, Zenon
    <3>2. pc' \in [Checkers -> {"off", "wait", "compare", "apply", "record"}]
      BY <2>1 DEF TypeOK
    <3>3. data' \in [Checkers -> Content]
      BY <2>1 DEF TypeOK, Content
    <3> QED
      BY <2>1, <2>2, <3>1, <3>2, <3>3 DEF TypeOK
  <2>4. OnlyValid' /\ Validated'
    BY <2>1, <2>2 DEF OnlyValid, Validated
  <2>5. OneAtATime'
    <3> SUFFICES ASSUME alone' PROVE OneAtATime'
      BY DEF OneAtATime
    <3>1. alone /\ ~starting /\ \A d \in Checkers : ~Under(d)
      BY <2>1 DEF Busy, Under
    <3>2. current = applied
      BY <3>1 DEF OneAtATime, Under
    <3> QED
      BY <2>1, <2>2, <3>1, <3>2 DEF OneAtATime, Under
  <2> QED
    BY <2>3, <2>4, <2>5
<1>3. ASSUME pc[c] # "record", Return(c),
             UNCHANGED <<file, current, running, stopClosed, starts, starting, crashed, applied, alone>>
      PROVE  IInv'
  <2>1. /\ \A d \in Checkers : pc'[d] = IF d = c THEN "wait" ELSE pc[d]
        /\ \A d \in Checkers : data'[d] = IF d = c THEN None ELSE data[d]
        /\ bare' \subseteq Checkers
    BY <1>3 DEF Return, TypeOK
  <2>2. /\ pc' \in [Checkers -> {"off", "wait", "compare", "apply", "record"}]
        /\ data' \in [Checkers -> Content]
    BY <1>3 DEF Return, TypeOK, Content
  <2> QED
    BY <1>3, <2>1, <2>2 DEF TypeOK, OnlyValid, Validated, OneAtATime, Under
<1>4. CASE Compare(c)
  <2>1. CASE data[c] = current \/ ~Accepted(data[c])
    BY <1>3, <1>4, <2>1 DEF Compare
  <2>2. CASE ~(data[c] = current \/ ~Accepted(data[c]))
    <3>1. /\ \A d \in Checkers : pc'[d] = IF d = c THEN "apply" ELSE pc[d]
          /\ pc' \in [Checkers -> {"off", "wait", "compare", "apply", "record"}]
          /\ bare' \subseteq Checkers /\ data[c] \in Valid /\ pc[c] = "compare" /\ ~starting
          /\ UNCHANGED <<file, current, running, stopClosed, starts, starting, crashed, applied, alone, data>>
      BY <1>4, <2>2 DEF Compare, TypeOK, Accepted
    <3> QED
      BY <3>1 DEF TypeOK, OnlyValid, Validated, OneAtATime, Under
  <2> QED
    BY <2>1, <2>2
<1>5. CASE Apply(c)
  <2>1. /\ \A d \in Checkers : pc'[d] = IF d = c THEN "record" ELSE pc[d]
        /\ pc' \in [Checkers -> {"off", "wait", "compare", "apply", "record"}]
        /\ pc[c] = "apply" /\ applied' = data[c]
        /\ UNCHANGED <<file, current, running, stopClosed, starts, starting, crashed, data, alone, bare>>
    BY <1>5 DEF Apply, TypeOK
  <2>2. TypeOK' /\ OnlyValid' /\ Validated'
    BY <2>1 DEF TypeOK, Content, OnlyValid, Validated
  <2>3. OneAtATime'
    BY <2>1 DEF OneAtATime, Under
  <2> QED
    BY <2>2, <2>3
<1>6. CASE ApplyFails(c)
  BY <1>3, <1>6 DEF ApplyFails, FailedIsForgotten
<1>7. CASE Record(c)
  <2>1. /\ \A d \in Checkers : pc'[d] = IF d = c THEN "wait" ELSE pc[d]
        /\ \A d \in Checkers : data'[d] = IF d = c THEN None ELSE data[d]
        /\ pc' \in [Checkers -> {"off", "wait", "compare", "apply", "record"}]
        /\ data' \in [Checkers -> Content]
        /\ bare' \subseteq Checkers /\ pc[c] = "record" /\ ~starting /\ current' = data[c]
        /\ UNCHANGED <<file, running, stopClosed, starts, starting, applied, alone>>
    BY <1>7 DEF Record, Return, TypeOK, Content
  <2>2. crashed' \in BOOLEAN
    <3>1. (c \in bare) \in BOOLEAN
      OBVIOUS
    <3> QED
      BY <1>7, <3>1 DEF Record
  <2>3. TypeOK' /\ OnlyValid' /\ Validated'
    BY <2>1, <2>2 DEF TypeOK, Content, OnlyValid, Validated
  <2>4. OneAtATime'
    BY <2>1 DEF OneAtATime, Under
  <2> QED
    BY <2>3, <2>4
<1> QED
  BY <1>1, <1>2, <1>4, <1>5, <1>6, <1>7 DEF Check

\* The inductive invariant holds in every reachable state.
THEOREM InductiveInvariant == Spec => []IInv
<1>1. IInv /\ [Next]_vars => IInv'
  <2>1. ASSUME IInv, UNCHANGED vars PROVE IInv'
    BY <2>1 DEF vars, IInv, TypeOK, OnlyValid, Validated, OneAtATime, Under
  <2> QED
    BY <2>1, StartStops, CheckSteps DEF Next
<1> QED
  BY <1>1, InitIInv, PTL DEF Spec

\* Watcher.Start, Reload and watch: only what the validator accepted is applied
\* or becomes current, whatever overlaps.
THEOREM OnlyValidIsApplied == Spec => []OnlyValid
  BY InductiveInvariant, PTL DEF IInv

\* applyIfChanged: while checks do not overlap, Current and Hash tell what is
\* applied whenever nothing is under way.
THEOREM CurrentTellsApplied == Spec => []CurrentIsApplied
<1>1. IInv => CurrentIsApplied
  BY DEF IInv, CurrentIsApplied, OneAtATime, Busy, Under
<1> QED
  BY <1>1, InductiveInvariant, PTL

\* The types of the watcher's variables.
THEOREM TypeCorrect == Spec => []TypeOK
  BY InductiveInvariant, PTL DEF IInv
=============================================================================
