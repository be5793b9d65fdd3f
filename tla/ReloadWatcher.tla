---------------------------- MODULE ReloadWatcher ----------------------------
(***************************************************************************)
(* gateway/reload.Watcher: Start loads, validates and applies a            *)
(* configuration and starts a goroutine that checks it on every tick;      *)
(* Reload checks it at once.  A check loads the file, compares its hash    *)
(* with the current one under the read lock, applies it without a lock and *)
(* records it under the write lock.                                        *)
(***************************************************************************)
EXTENDS Naturals, FiniteSets

CONSTANTS Contents,         \* what the file may hold; a hash is its content
          Valid,            \* those that the validator accepts
          Callers,          \* goroutines that call Reload
          MayFail,          \* may the loader and the applier fail?
          MaxStarts,        \* bound: calls of Start
          None

ASSUME ContentsAssumption == Valid \subseteq Contents /\ None \notin Contents
ASSUME MayFailAssumption == MayFail \in BOOLEAN
ASSUME MaxStartsAssumption == MaxStarts \in Nat

Loops == 1 .. MaxStarts     \* the watch goroutines, by the Start that made them
Checkers == Loops \cup Callers
ASSUME CheckersAssumption == Loops \cap Callers = {}

VARIABLES file,             \* the content of the file
          current,          \* w.currentData and w.currentHash, None if empty
          running,          \* w.running
          stopClosed,       \* is w.stop closed?
          starts,           \* how often Start was called
          starting,         \* does a Start hold w.mu, between its apply and its end?
          crashed,          \* did a panic end the process?
          pc,               \* pc[c]: where a check stands, or where the loop waits
          data,             \* data[c]: what it has loaded
          bare,             \* the checks that read an empty currentHash
          applied,          \* what the applier applied last
          alone             \* history: have applications never overlapped or failed?

vars == <<file, current, running, stopClosed, starts, starting, crashed, pc,
          data, bare, applied, alone>>

Content == Contents \cup {None}

TypeOK ==
  /\ file \in Contents
  /\ current \in Content
  /\ running \in BOOLEAN /\ stopClosed \in BOOLEAN /\ starting \in BOOLEAN
  /\ crashed \in BOOLEAN /\ alone \in BOOLEAN
  /\ starts \in 0 .. MaxStarts
  /\ pc \in [Checkers -> {"off", "wait", "compare", "apply", "record"}]
  /\ data \in [Checkers -> Content]
  /\ applied \in Content
  /\ bare \subseteq Checkers
  /\ \A c \in Checkers : pc[c] \in {"compare", "apply", "record"} => data[c] \in Contents

Init ==
  /\ file \in Contents
  /\ current = None
  /\ running = FALSE /\ stopClosed = FALSE /\ starting = FALSE
  /\ crashed = FALSE /\ alone = TRUE
  /\ starts = 0
  /\ pc = [c \in Checkers |-> IF c \in Callers THEN "wait" ELSE "off"]
  /\ data = [c \in Checkers |-> None]
  /\ bare = {}
  /\ applied = None

\* A check or a Start is under way.
Busy == starting \/ \E c \in Checkers : pc[c] \in {"compare", "apply", "record"}

\* Mutant: the validator's error is logged and ignored.
AcceptsAll(d) == TRUE

Accepted(d) == d \in Valid

-----------------------------------------------------------------------------
(* Start, which holds w.mu from its beginning to its end *)

StartIgnored ==
  /\ ~starting /\ running /\ starts < MaxStarts
  /\ starts' = starts + 1
  /\ UNCHANGED <<file, current, running, stopClosed, starting, crashed, pc, data, applied, alone, bare>>

\* The load fails or the validator rejects: nothing has changed.
StartRefused ==
  /\ ~starting /\ ~running /\ starts < MaxStarts
  /\ MayFail \/ ~Accepted(file)
  /\ starts' = starts + 1
  /\ UNCHANGED <<file, current, running, stopClosed, starting, crashed, pc, data, applied, alone, bare>>

\* currentData and currentHash are set before the applier is called.
StartLoads ==
  /\ ~starting /\ ~running /\ starts < MaxStarts
  /\ Accepted(file)
  /\ starts' = starts + 1
  /\ current' = file
  /\ starting' = TRUE
  /\ alone' = (alone /\ ~Busy)
  /\ UNCHANGED <<file, running, stopClosed, crashed, pc, data, applied, bare>>

StartApplies ==
  /\ starting
  /\ starting' = FALSE
  /\ applied' = current
  /\ running' = TRUE
  /\ pc' = [pc EXCEPT ![starts] = "wait"]
  /\ UNCHANGED <<file, current, stopClosed, starts, crashed, data, alone, bare>>

StartApplyFails ==
  /\ starting /\ MayFail
  /\ starting' = FALSE
  /\ alone' = FALSE
  /\ UNCHANGED <<file, current, running, stopClosed, starts, crashed, pc, data, applied, bare>>

-----------------------------------------------------------------------------
(* Stop *)

\* w.stop is closed and never made anew.
Stop ==
  /\ ~starting /\ running
  /\ IF stopClosed
       THEN crashed' = TRUE /\ UNCHANGED running
       ELSE running' = FALSE /\ UNCHANGED crashed
  /\ stopClosed' = TRUE
  /\ UNCHANGED <<file, current, starts, starting, pc, data, applied, alone, bare>>

\* The loop's select takes the closed channel; a tick that is ready as well may
\* be taken first, which is another check.
LoopEnds(c) ==
  /\ c \in Loops
  /\ pc[c] = "wait"
  /\ stopClosed
  /\ pc' = [pc EXCEPT ![c] = "off"]
  /\ UNCHANGED <<file, current, running, stopClosed, starts, starting, crashed, data, applied, alone, bare>>

-----------------------------------------------------------------------------
(* check, Reload, applyIfChanged *)

\* What a load gives to applyIfChanged; one that fails changes nothing.
Loaded == {file}

\* A tick of the loop, or a call of Reload.
Load(c) ==
  /\ pc[c] = "wait"
  /\ \E d \in Loaded : data' = [data EXCEPT ![c] = d]
  /\ pc' = [pc EXCEPT ![c] = "compare"]
  /\ alone' = (alone /\ ~Busy)
  /\ UNCHANGED <<file, current, running, stopClosed, starts, starting, crashed, applied, bare>>

Return(c) ==
  /\ pc' = [pc EXCEPT ![c] = "wait"]
  /\ data' = [data EXCEPT ![c] = None]
  /\ bare' = bare \ {c}

\* Under the read lock; then nothing to do, rejected by the validator, or on.
Compare(c) ==
  /\ pc[c] = "compare" /\ ~starting
  /\ IF data[c] = current \/ ~Accepted(data[c])
       THEN Return(c)
       ELSE /\ pc' = [pc EXCEPT ![c] = "apply"]
            /\ bare' = IF current = None THEN bare \cup {c} ELSE bare
            /\ UNCHANGED data
  /\ UNCHANGED <<file, current, running, stopClosed, starts, starting, crashed, applied, alone>>

Apply(c) ==
  /\ pc[c] = "apply"
  /\ applied' = data[c]
  /\ pc' = [pc EXCEPT ![c] = "record"]
  /\ UNCHANGED <<file, current, running, stopClosed, starts, starting, crashed, data, alone, bare>>

\* Mutant: the content is recorded although it could not be applied.
FailedIsRecorded(c) == current' = data[c]

FailedIsForgotten(c) == UNCHANGED current

ApplyFails(c) ==
  /\ pc[c] = "apply" /\ MayFail
  /\ Return(c)
  /\ FailedIsForgotten(c)
  /\ UNCHANGED <<file, running, stopClosed, starts, starting, crashed, applied, alone>>

\* Under the write lock.  The log line cuts the hash read by Compare to eight
\* characters, which panics if there was none: a Reload before any Start.
Record(c) ==
  /\ pc[c] = "record" /\ ~starting
  /\ current' = data[c]
  /\ Return(c)
  /\ crashed' = (c \in bare)
  /\ UNCHANGED <<file, running, stopClosed, starts, starting, applied, alone>>

\* The operator edits the file.
Edit ==
  /\ file' \in Contents \ {file}
  /\ UNCHANGED <<current, running, stopClosed, starts, starting, crashed, pc, data, applied, alone, bare>>

-----------------------------------------------------------------------------
Check(c) == Compare(c) \/ Apply(c) \/ ApplyFails(c) \/ Record(c)

Next ==
  \/ /\ ~crashed
     /\ \/ StartIgnored \/ StartRefused \/ StartLoads \/ StartApplies \/ StartApplyFails
        \/ Stop \/ Edit
        \/ \E c \in Checkers : LoopEnds(c) \/ Load(c) \/ Check(c)
  \/ crashed /\ UNCHANGED vars

\* Ticks keep coming, goroutines run on, Start returns; the applier does not
\* fail for ever.
Fairness ==
  /\ WF_vars(~crashed /\ StartApplies)
  /\ \A c \in Loops : WF_vars(~crashed /\ (Load(c) \/ LoopEnds(c)))
  /\ \A c \in Checkers :
       /\ WF_vars(~crashed /\ (Compare(c) \/ Record(c)))
       /\ SF_vars(~crashed /\ Apply(c))

Spec == Init /\ [][Next]_vars /\ Fairness

-----------------------------------------------------------------------------
(* What is claimed *)

\* As long as checks do not overlap and the first apply did not fail, Current
\* and Hash tell what is applied whenever nothing is under way.
CurrentIsApplied == alone /\ ~Busy => current = applied

\* Only what the validator accepted is applied or becomes current, also when
\* the file changes between the load, the validation and the apply.
OnlyValid == {current, applied} \subseteq Valid \cup {None}

\* As long as checks do not overlap, a valid content that stays in the file is
\* applied in the end, for as long as a watch goroutine lives.
FileIsApplied ==
  \A v \in Valid :
    [](alone /\ ~crashed) /\ <>[](file = v /\ \E c \in Loops : pc[c] # "off")
      => <>[](applied = v)

\* watcher.go:76, "Start begins watching for configuration changes": while the
\* watcher runs, a valid content that stays in the file is applied in the end.
StartWatches ==
  \A v \in Valid : <>[](file = v /\ running /\ ~crashed) => <>[](applied = v)
=============================================================================
