--------------------------- MODULE MC_RateLimiter ---------------------------
(* RateLimiter with a count of the requests that were allowed, for TLC.      *)
EXTENDS RateLimiter

VARIABLE granted        \* how many requests were allowed

MCInit == Init /\ granted = 0

MCNext ==
  /\ Next
  /\ granted' = IF \E t \in Threads : pc[t] = "stamp" /\ pc'[t] = "idle"
                  THEN granted + 1 ELSE granted

MCSpec == MCInit /\ [][MCNext]_<<vars, granted>>

\* bucket.go:50, "lock-free and safe for concurrent use": no more requests are
\* allowed than the burst and the rate allow.
NoOverAdmission == granted * Cost <= Burst + Rate * clock
=============================================================================
