----------------------------- MODULE RateLimiter -----------------------------
(***************************************************************************)
(* gateway/ratelimit for one client: Store.Allow finds or makes the        *)
(* client's token bucket in a sync.Map and takes tokens from it with       *)
(* atomic loads, one compare-and-swap and a store; Cleanup deletes buckets *)
(* that were not used for a while.  No lock is taken anywhere.  Amounts    *)
(* are in units: a request costs Cost of them and a tick brings Rate.      *)
(***************************************************************************)
EXTENDS Integers, FiniteSets

CONSTANTS Threads,          \* goroutines that serve the client's requests
          Buckets,          \* addresses of ClientBuckets
          Burst, Rate, Cost,
          MaxAge,           \* of Cleanup
          MaxTime,          \* bound: ticks of the clock
          None

ASSUME RatesAssumption ==
  /\ Burst \in Nat /\ Rate \in Nat /\ Cost \in Nat \ {0}
  /\ MaxAge \in Nat /\ MaxTime \in Nat

Bucket == [tokens : 0 .. Burst, last : 0 .. MaxTime, access : 0 .. MaxTime]

ASSUME NoneAssumption == None \notin Buckets \cup Bucket

VARIABLES clock,
          stored,           \* the bucket the sync.Map holds for the client, or None
          bucket,           \* bucket[b]: its tokens, lastUpdate and lastAccess
          pc,               \* pc[t]: where t stands in Store.Allow
          mine,             \* mine[t]: the bucket t uses, or None
          now,              \* now[t], cur[t], next[t]: the locals now, currentTokens
          cur,              \* and newTokenCount of TokenBucket.Allow
          next,
          sweep,            \* has Cleanup found the client's bucket stale?
          alone,            \* history: have calls and sweeps never overlapped?
          ideal,            \* history: the level of an ideal bucket, while alone
          due,              \* history: due[t], would that one allow t's request?
          raced             \* history: the calls whose bucket has given tokens to
                            \* another call since they loaded it, or last failed

locals == <<mine, now, cur, next>>
history == <<alone, ideal, due>>
vars == <<clock, stored, bucket, pc, locals, sweep, history, raced>>

TypeOK ==
  /\ clock \in 0 .. MaxTime
  /\ stored \in Buckets \cup {None}
  /\ bucket \in [Buckets -> Bucket \cup {None}]
  /\ pc \in [Threads -> {"idle", "put", "enter", "load", "last", "cas", "stamp"}]
  /\ mine \in [Threads -> Buckets \cup {None}]
  /\ now \in [Threads -> 0 .. MaxTime]
  /\ cur \in [Threads -> 0 .. Burst]
  /\ next \in [Threads -> 0 .. Burst]
  /\ sweep \in BOOLEAN
  /\ alone \in BOOLEAN
  /\ ideal \in 0 .. Burst
  /\ due \in [Threads -> BOOLEAN]
  /\ raced \subseteq Threads

Init ==
  /\ clock = 0
  /\ stored = None
  /\ bucket = [b \in Buckets |-> None]
  /\ pc = [t \in Threads |-> "idle"]
  /\ mine = [t \in Threads |-> None]
  /\ now = [t \in Threads |-> 0]
  /\ cur = [t \in Threads |-> 0]
  /\ next = [t \in Threads |-> 0]
  /\ sweep = FALSE
  /\ alone = TRUE
  /\ ideal = Burst
  /\ due = [t \in Threads |-> FALSE]
  /\ raced = {}

AtMost(x, y) == IF x < y THEN x ELSE y

\* A bucket that nothing refers to is collected.
Collect(f, s, m) ==
  [b \in Buckets |-> IF b = s \/ (\E t \in Threads : m[t] = b) THEN f[b] ELSE None]

Free(b) == bucket[b] = None

Others(t) == \E u \in Threads \ {t} : pc[u] # "idle"

-----------------------------------------------------------------------------
(* Store.Allow *)

Overlap(yes) ==
  /\ alone' = (alone /\ ~yes)
  /\ ideal' = IF yes THEN 0 ELSE ideal

\* Load finds the client's bucket; lastAccess is a plain write.
Find(t) ==
  /\ pc[t] = "idle"
  /\ stored # None
  /\ bucket' = [bucket EXCEPT ![stored].access = clock]
  /\ mine' = [mine EXCEPT ![t] = stored]
  /\ pc' = [pc EXCEPT ![t] = "enter"]
  /\ Overlap(Others(t) \/ sweep)
  /\ UNCHANGED <<clock, stored, now, cur, next, sweep, due, raced>>

NewTokenBucket == [tokens |-> Burst, last |-> clock, access |-> clock]

\* Load finds none: a full bucket is made...
Make(t) ==
  /\ pc[t] = "idle"
  /\ stored = None
  /\ \E b \in Buckets :
       /\ Free(b)
       /\ bucket' = [bucket EXCEPT ![b] = NewTokenBucket]
       /\ mine' = [mine EXCEPT ![t] = b]
  /\ pc' = [pc EXCEPT ![t] = "put"]
  /\ Overlap(Others(t) \/ sweep)
  /\ UNCHANGED <<clock, stored, now, cur, next, sweep, due, raced>>

\* ...and stored, whatever the map holds by now.
Put(t) ==
  /\ pc[t] = "put"
  /\ stored' = mine[t]
  /\ bucket' = Collect(bucket, stored', mine)
  /\ pc' = [pc EXCEPT ![t] = "enter"]
  /\ UNCHANGED <<clock, locals, sweep, history, raced>>

-----------------------------------------------------------------------------
(* TokenBucket.Allow *)

\* now := time.Now(), which the ideal bucket takes as the time of the request.
Enter(t) ==
  /\ pc[t] = "enter"
  /\ now' = [now EXCEPT ![t] = clock]
  /\ pc' = [pc EXCEPT ![t] = "load"]
  /\ due' = [due EXCEPT ![t] = ideal >= Cost]
  /\ ideal' = IF ideal >= Cost THEN ideal - Cost ELSE ideal
  /\ UNCHANGED <<clock, stored, bucket, mine, cur, next, sweep, alone, raced>>

LoadTokens(t) ==
  /\ pc[t] = "load"
  /\ cur' = [cur EXCEPT ![t] = bucket[mine[t]].tokens]
  /\ pc' = [pc EXCEPT ![t] = "last"]
  /\ raced' = raced \ {t}
  /\ UNCHANGED <<clock, stored, bucket, mine, now, next, sweep, history>>

\* Mutant: the credit is not capped.
LevelUncapped(t) == cur[t] + (now[t] - bucket[mine[t]].last) * Rate

\* newTokens: the credit of an elapsed time that may be negative, capped.
Level(t) == AtMost(Burst, cur[t] + (now[t] - bucket[mine[t]].last) * Rate)

Leave(t) ==
  /\ pc' = [pc EXCEPT ![t] = "idle"]
  /\ mine' = [mine EXCEPT ![t] = None]
  /\ now' = [now EXCEPT ![t] = 0]
  /\ cur' = [cur EXCEPT ![t] = 0]
  /\ next' = [next EXCEPT ![t] = 0]
  /\ due' = [due EXCEPT ![t] = FALSE]
  /\ raced' = raced \ {t}

\* lastUpdate is loaded after tokens; a level below the cost denies.
Deny(t) ==
  /\ pc[t] = "last"
  /\ Level(t) < Cost
  /\ Leave(t)
  /\ bucket' = Collect(bucket, stored, mine')
  /\ UNCHANGED <<clock, stored, sweep, alone, ideal>>

Enough(t) ==
  /\ pc[t] = "last"
  /\ Level(t) >= Cost
  /\ next' = [next EXCEPT ![t] = Level(t) - Cost]
  /\ pc' = [pc EXCEPT ![t] = "cas"]
  /\ UNCHANGED <<clock, stored, bucket, mine, now, cur, sweep, history, raced>>

\* Mutant: a failed swap is tried again with the tokens that were loaded before.
RetryWithOldTokens == "cas"

Retry == "load"

\* The second load of tokens and the CompareAndSwap, which fails like it.
Swap(t) ==
  /\ pc[t] = "cas"
  /\ IF bucket[mine[t]].tokens = cur[t]
       THEN /\ bucket' = [bucket EXCEPT ![mine[t]].tokens = next[t]]
            /\ pc' = [pc EXCEPT ![t] = "stamp"]
            /\ raced' = raced \cup {u \in Threads \ {t} : mine[u] = mine[t]}
       ELSE /\ UNCHANGED bucket
            /\ pc' = [pc EXCEPT ![t] = Retry]
            /\ raced' = raced \ {t}
  /\ UNCHANGED <<clock, stored, locals, sweep, history>>

\* Mutant: lastUpdate is left alone.
StampedNot(t) == bucket

Stamped(t) == [bucket EXCEPT ![mine[t]].last = now[t]]

\* lastUpdate is stored only after the tokens were taken.
Grant(t) ==
  /\ pc[t] = "stamp"
  /\ Leave(t)
  /\ bucket' = Collect(Stamped(t), stored, mine')
  /\ UNCHANGED <<clock, stored, sweep, alone, ideal>>

-----------------------------------------------------------------------------
(* Cleanup, one client's step of the Range *)

\* Mutant: the age is taken from the last update of the tokens.
StaleByUpdate(b) == clock - bucket[b].last >= MaxAge

Stale(b) == clock - bucket[b].access > MaxAge

SweepFind ==
  /\ ~sweep
  /\ stored # None
  /\ Stale(stored)
  /\ sweep' = TRUE
  /\ Overlap(\E t \in Threads : pc[t] # "idle")
  /\ UNCHANGED <<clock, stored, bucket, pc, locals, due, raced>>

\* Delete(key) deletes whatever bucket the key has by now.
SweepDelete ==
  /\ sweep
  /\ sweep' = FALSE
  /\ stored' = None
  /\ bucket' = Collect(bucket, None, mine)
  /\ UNCHANGED <<clock, pc, locals, history, raced>>

\* A call that lasts for more than one tick does not count as alone either:
\* ticks are long for a call, which waits for nothing.
LongCall == \E t \in Threads : mine[t] # None /\ bucket[mine[t]].access < clock

Tick ==
  /\ clock < MaxTime
  /\ clock' = clock + 1
  /\ alone' = (alone /\ ~LongCall)
  /\ ideal' = IF alone' THEN AtMost(Burst, ideal + Rate) ELSE 0
  /\ UNCHANGED <<stored, bucket, pc, locals, sweep, due, raced>>

Step(t) ==
  Put(t) \/ Enter(t) \/ LoadTokens(t) \/ Deny(t) \/ Enough(t) \/ Swap(t) \/ Grant(t)

Next ==
  \/ \E t \in Threads : Find(t) \/ Make(t) \/ Step(t)
  \/ SweepFind
  \/ SweepDelete
  \/ Tick

Spec == Init /\ [][Next]_vars

-----------------------------------------------------------------------------
(* What is claimed *)

\* As long as calls of the client do not overlap with each other or with a
\* sweep (and are short), every request is allowed that an ideal bucket allows
\* and no other; also when Cleanup drops the bucket, if it refills within MaxAge
\* (the defaults are 1.5 seconds and 10 minutes).
ExactWhenAlone ==
  [][alone /\ alone' /\ MaxAge * Rate >= Burst =>
       \A t \in Threads : (Grant(t) => due[t]) /\ (Deny(t) => ~due[t])]_vars

\* The loop of Allow is lock-free: an attempt to swap fails only if another call
\* was granted tokens of the bucket since this call's last attempt, or since it
\* loaded them.  Neither a late store of lastUpdate, nor a sweep, nor a refusal
\* sends a call round again, and each grant does so once at most for each call.
RetriesAreProgress ==
  \A t \in Threads :
    pc[t] = "cas" /\ bucket[mine[t]].tokens # cur[t] => t \in raced
=============================================================================
