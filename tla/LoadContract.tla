---------------------------- MODULE LoadContract ----------------------------
(***************************************************************************)
(* What a caller of schema.DataLoader is promised, without batches, timers *)
(* or channels: a Load call that was opened is answered once; its key is   *)
(* handed to the batch function at most once, and only after the call was  *)
(* made; a batch result is returned only for a key that was handed over;   *)
(* "context" and "stopped" errors are returned only when there is cause.   *)
(* DataLoader.tla implements this module.                                  *)
(***************************************************************************)
EXTENDS Naturals

CONSTANT Loads            \* the Load calls

VARIABLES call,           \* call[l]: "idle", "open" or "returned"
          asked,          \* asked[l]: how often the batch function was given l's key
          got,            \* got[l]: why l returned
          cancelled,      \* the calls whose context is done
          stopped         \* has Stop run?

contractVars == <<call, asked, got, cancelled, stopped>>

Init ==
  /\ call = [l \in Loads |-> "idle"]
  /\ asked = [l \in Loads |-> 0]
  /\ got = [l \in Loads |-> "none"]
  /\ cancelled = {}
  /\ stopped = FALSE

Open(l) ==
  /\ call[l] = "idle"
  /\ call' = [call EXCEPT ![l] = "open"]
  /\ UNCHANGED <<asked, got, cancelled, stopped>>

\* A batch is a nonempty set of calls none of which was in a batch before.
Ask(S) ==
  /\ S # {}
  /\ \A l \in S : asked[l] = 0 /\ call[l] # "idle"
  /\ asked' = [l \in Loads |-> IF l \in S THEN 1 ELSE asked[l]]
  /\ UNCHANGED <<call, got, cancelled, stopped>>

Cause(l, why) ==
  CASE why = "result"   -> asked[l] = 1
    [] why = "ctx"     -> l \in cancelled
    [] why = "stopped" -> stopped

Return(l, why) ==
  /\ call[l] \in {"idle", "open"}
  /\ call[l] = "idle" => why = "ctx"
  /\ Cause(l, why)
  /\ call' = [call EXCEPT ![l] = "returned"]
  /\ got' = [got EXCEPT ![l] = why]
  /\ UNCHANGED <<asked, cancelled, stopped>>

Cancel(l) ==
  /\ cancelled' = cancelled \cup {l}
  /\ UNCHANGED <<call, asked, got, stopped>>

Stop ==
  /\ ~stopped
  /\ stopped' = TRUE
  /\ UNCHANGED <<call, asked, got, cancelled>>

Next ==
  \/ \E l \in Loads : Open(l) \/ Cancel(l)
  \/ \E l \in Loads, why \in {"result", "ctx", "stopped"} : Return(l, why)
  \/ \E S \in SUBSET Loads : Ask(S)
  \/ Stop

Spec == Init /\ [][Next]_contractVars

\* Every call that was opened is eventually answered.
EveryOpenCallReturns == \A l \in Loads : call[l] = "open" ~> call[l] = "returned"
=============================================================================
