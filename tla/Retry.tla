-------------------------------- MODULE Retry --------------------------------
(***************************************************************************)
(* upstream.Client.DoWithRetry: one request, sent again after an error or  *)
(* a 502, 503 or 504, with a growing delay.  The body is read whole before *)
(* each attempt; of the copy it gets the transport may read any part.      *)
(***************************************************************************)
EXTENDS Integers, Sequences, SequencesExt

CONSTANTS MaxRetries,                       \* negative: no attempt is made
          BaseDelay, MaxDelay, Multiplier,
          Body,                             \* the parts of a request's body
          None

\* Assumed by the modules that instantiate this one.
RetryAssumption ==
  /\ MaxRetries \in Int
  /\ {BaseDelay, MaxDelay, Multiplier} \subseteq Nat
BodyAssumption == Body \in Seq(Nat) /\ None \notin Seq(Nat) \cup {"final", "unavailable", "error", "context", "body"}

VARIABLES pc,               \* where DoWithRetry stands
          attempt, delay,
          body,             \* what is left to read of req.Body, or None
          lastErr,          \* was the last attempt an error?
          lastResp,         \* the last response to be tried again, or None
          result,           \* what is returned, or None
          cancelled,        \* is the context of the request done?
          offered,          \* history: the body of each attempt
          answers           \* history: the outcome of each attempt
retryVars == <<pc, attempt, delay, body, lastErr, lastResp, result, cancelled, offered, answers>>

\* A response that is none of 502, 503, 504; one that is; a network error.
Answer == {"final", "unavailable", "error"}
Original == IF body = None THEN None ELSE Body

TypeOK ==
  /\ pc \in {"attempt", "wait", "done"}
  /\ attempt \in Nat /\ delay \in Nat
  /\ body = None \/ body \in Seq(ToSet(Body))
  /\ lastErr \in BOOLEAN
  /\ lastResp \in {"unavailable", None}
  /\ result \in Answer \cup {None, "context", "body"}
  /\ cancelled \in BOOLEAN
  /\ answers \in Seq(Answer) /\ Len(offered) = Len(answers)

Init ==
  /\ pc = IF MaxRetries >= 0 THEN "attempt" ELSE "done"
  /\ attempt = 0
  /\ delay = BaseDelay
  /\ body \in {None, Body}
  /\ lastErr = FALSE /\ lastResp = None
  /\ result = None
  /\ cancelled = FALSE
  /\ offered = <<>> /\ answers = <<>>

-----------------------------------------------------------------------------
\* The client's own body fails while it is read, before the first attempt.
BodyFails ==
  /\ pc = "attempt" /\ attempt = 0 /\ body # None
  /\ pc' = "done" /\ result' = "body"
  /\ UNCHANGED <<attempt, delay, body, lastErr, lastResp, cancelled, offered, answers>>

\* What the reader holds when the transport has read k parts of it.
LeftToRead(data, k) == SubSeq(data, k + 1, Len(data))

\* Mutant: the reader that is restored is the one the transport has read from.
RestoreReader(data, k) == LeftToRead(data, k)

\* What req.Body is for the next attempt, when k parts of data were read.
Restored(data, k) == data

\* One attempt; an answer that is not to be tried again is returned.
Attempt(answer) ==
  /\ pc = "attempt"
  /\ cancelled => answer = "error"
  /\ offered' = Append(offered, body)
  /\ answers' = Append(answers, answer)
  /\ IF body = None
       THEN UNCHANGED body
       ELSE \E k \in 0 .. Len(body) :
              body' = IF answer = "final" THEN LeftToRead(body, k) ELSE Restored(body, k)
  /\ \/ /\ answer = "final"
        /\ pc' = "done" /\ result' = answer
        /\ UNCHANGED <<attempt, lastErr, lastResp>>
     \/ /\ answer # "final"
        /\ lastErr' = (answer = "error")
        /\ lastResp' = IF answer = "error" THEN None ELSE answer
        /\ attempt' = attempt + 1
        /\ IF attempt < MaxRetries
             THEN pc' = "wait" /\ UNCHANGED result
             ELSE pc' = "done" /\ result' = IF lastErr' THEN "error" ELSE lastResp'
  /\ UNCHANGED <<delay, cancelled>>

\* calculateNextDelay: a quarter up or down, then cut to the maximum.
NextDelays ==
  LET Cut(d) == IF d > MaxDelay THEN MaxDelay ELSE d
      next == Cut(delay * Multiplier)
      jitter == next \div 4
  IN IF jitter = 0 THEN {next} ELSE {Cut(next + offset) : offset \in (- jitter) .. (jitter - 1)}

\* The timer fires.  (When the context is done too, the select may take either.)
Waited ==
  /\ pc = "wait"
  /\ pc' = "attempt"
  /\ delay' \in NextDelays
  /\ UNCHANGED <<attempt, body, lastErr, lastResp, result, cancelled, offered, answers>>

GivesUp ==
  /\ pc = "wait" /\ cancelled
  /\ pc' = "done" /\ result' = "context"
  /\ UNCHANGED <<attempt, delay, body, lastErr, lastResp, cancelled, offered, answers>>

Cancel ==
  /\ pc # "done" /\ ~cancelled
  /\ cancelled' = TRUE
  /\ UNCHANGED <<pc, attempt, delay, body, lastErr, lastResp, result, offered, answers>>

Returned == pc = "done" /\ UNCHANGED retryVars

Next == BodyFails \/ (\E a \in Answer : Attempt(a)) \/ Waited \/ GivesUp \/ Cancel \/ Returned

Spec == Init /\ [][Next]_retryVars

-----------------------------------------------------------------------------
(* What is claimed *)

\* However much of it earlier attempts have read, each attempt carries the whole body;
\* no attempt follows an answer that is final; what is returned is the outcome of the
\* last attempt and not of an earlier one, unless the request was given up; and a
\* delay after the first is within the maximum.
RetriesAreWhole ==
  /\ \A i \in DOMAIN offered : offered[i] = Original
  /\ \A i \in DOMAIN answers : answers[i] = "final" => i = Len(answers) /\ pc = "done"
  /\ Len(answers) <= MaxRetries + 1 \/ answers = <<>>
  /\ pc = "done" /\ answers # <<>> /\ result # "context" => result = Last(answers)
  /\ attempt > 1 /\ pc = "attempt" => delay <= MaxDelay
=============================================================================
