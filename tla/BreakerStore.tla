----------------------------- MODULE BreakerStore -----------------------------
(***************************************************************************)
(* breaker.Store: a map of breakers by key with double-checked creation.   *)
(* The middleware gets the breaker of its request once and uses it for     *)
(* Allow and, after the handler, for Record.                               *)
(***************************************************************************)
EXTENDS Naturals

CONSTANTS Keys, Callers, MaxBreakers, None

Breakers == 1 .. MaxBreakers        \* in the order they are made; a bound
StoreAssumption == MaxBreakers \in Nat /\ None \notin Breakers

VARIABLES breakers,         \* s.breakers: a breaker by key, or None
          made,             \* how many breakers there are
          step, key, held   \* of each request: where it stands, its key, its breaker
storeVars == <<breakers, made, step, key, held>>

TypeOK ==
  /\ breakers \in [Keys -> Breakers \cup {None}]
  /\ made \in 0 .. MaxBreakers
  /\ step \in [Callers -> {"idle", "begun", "missed", "holds"}]
  /\ key \in [Callers -> Keys]
  /\ held \in [Callers -> Breakers \cup {None}]

Init ==
  /\ breakers = [k \in Keys |-> None]
  /\ made = 0
  /\ step = [c \in Callers |-> "idle"]
  /\ key = [c \in Callers |-> CHOOSE k \in Keys : TRUE]
  /\ held = [c \in Callers |-> None]

Begin(c, k) ==
  /\ step[c] = "idle"
  /\ step' = [step EXCEPT ![c] = "begun"]
  /\ key' = [key EXCEPT ![c] = k]
  /\ UNCHANGED <<breakers, made, held>>

\* Get returns b.
Takes(c, b) ==
  /\ step' = [step EXCEPT ![c] = "holds"]
  /\ held' = [held EXCEPT ![c] = b]

\* The look-up under the read lock.
Find(c) ==
  /\ step[c] = "begun"
  /\ breakers[key[c]] # None
  /\ Takes(c, breakers[key[c]])
  /\ UNCHANGED <<breakers, made, key>>

Miss(c) ==
  /\ step[c] = "begun"
  /\ breakers[key[c]] = None
  /\ step' = [step EXCEPT ![c] = "missed"]
  /\ UNCHANGED <<breakers, made, key, held>>

\* Mutant: not looked up again under the write lock.
NeverThere(c) == FALSE

\* Is there a breaker by now?
MadeMeanwhile(c) == breakers[key[c]] # None

\* The section under the write lock.
Make(c) ==
  /\ step[c] = "missed"
  /\ IF MadeMeanwhile(c)
       THEN /\ Takes(c, breakers[key[c]])
            /\ UNCHANGED <<breakers, made>>
       ELSE /\ made < MaxBreakers
            /\ made' = made + 1
            /\ breakers' = [breakers EXCEPT ![key[c]] = made + 1]
            /\ Takes(c, made + 1)
  /\ UNCHANGED key

\* The handler has returned and its result was recorded.
Finish(c) ==
  /\ step[c] = "holds"
  /\ step' = [step EXCEPT ![c] = "idle"]
  /\ held' = [held EXCEPT ![c] = None]
  /\ UNCHANGED <<breakers, made, key>>

Delete(k) ==
  /\ breakers' = [breakers EXCEPT ![k] = None]
  /\ UNCHANGED <<made, step, key, held>>

Clear ==
  /\ breakers' = [k \in Keys |-> None]
  /\ UNCHANGED <<made, step, key, held>>

Next ==
  \/ \E c \in Callers :
       \/ \E k \in Keys : Begin(c, k)
       \/ Find(c) \/ Miss(c) \/ Make(c) \/ Finish(c)
  \/ \E k \in Keys : Delete(k)
  \/ Clear

Spec == Init /\ [][Next]_storeVars

-----------------------------------------------------------------------------
(* What is claimed *)

Contract == INSTANCE OncePerKey WITH Objects <- Breakers, object <- breakers, got <- held

\* Requests of one key meet one breaker until it is deleted, however their first
\* look-ups interleave.
OneBreakerPerKey == Contract!Spec
=============================================================================
