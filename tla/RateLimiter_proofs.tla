------------------------- MODULE RateLimiter_proofs -------------------------
(***************************************************************************)
(* Proofs about RateLimiter for any burst, rate, cost and age, any number  *)
(* of goroutines and any clock: a bucket's level stays between zero and    *)
(* the burst, calls that do not overlap are decided as by an ideal bucket, *)
(* and an attempt to swap fails only for another call's success.           *)
(***************************************************************************)
EXTENDS RateLimiter, TLAPS

USE RatesAssumption, NoneAssumption

Active(t) == pc[t] # "idle"

\* Buckets in use are not collected.
References ==
  /\ \A t \in Threads : Active(t) => mine[t] \in Buckets /\ bucket[mine[t]] \in Bucket
  /\ \A t \in Threads : ~Active(t) => mine[t] = None
  /\ stored # None => bucket[stored] \in Bucket

TInv == TypeOK /\ References

-----------------------------------------------------------------------------
(* Types *)

LEMMA InitTInv == Init => TInv
<1> SUFFICES ASSUME Init PROVE TInv
  OBVIOUS
<1>1. sweep \in BOOLEAN /\ alone \in BOOLEAN /\ due \in [Threads -> BOOLEAN]
  BY DEF Init
<1>2. /\ clock \in 0 .. MaxTime /\ ideal \in 0 .. Burst
      /\ now \in [Threads -> 0 .. MaxTime]
      /\ cur \in [Threads -> 0 .. Burst] /\ next \in [Threads -> 0 .. Burst]
  BY DEF Init
<1>3. /\ stored \in Buckets \cup {None} /\ mine \in [Threads -> Buckets \cup {None}]
      /\ bucket \in [Buckets -> Bucket \cup {None}]
      /\ pc \in [Threads -> {"idle", "put", "enter", "load", "last", "cas", "stamp"}]
      /\ raced \subseteq Threads
  BY DEF Init
<1>4. References
  BY DEF Init, References, Active
<1> QED
  BY <1>1, <1>2, <1>3, <1>4 DEF TInv, TypeOK

LEMMA LevelType ==
  ASSUME TInv, NEW t \in Threads, Active(t)
  PROVE  /\ Level(t) \in Int /\ Level(t) <= Burst
         /\ mine[t] \in Buckets /\ bucket[mine[t]] \in Bucket
<1>1. mine[t] \in Buckets /\ bucket[mine[t]] \in Bucket
  BY DEF TInv, References
<1>2. now[t] - bucket[mine[t]].last \in Int /\ cur[t] \in Int
  BY <1>1 DEF TInv, TypeOK, Bucket
<1>3. \A d \in Int : d * Rate \in Int
  OBVIOUS
<1> DEFINE x == cur[t] + (now[t] - bucket[mine[t]].last) * Rate
<1>4. x \in Int
  BY <1>2, <1>3
<1> HIDE DEF x
<1>5. AtMost(Burst, x) \in Int /\ AtMost(Burst, x) <= Burst
  BY <1>4 DEF AtMost
<1> QED
  BY <1>1, <1>5 DEF Level, x

\* Collecting keeps every bucket that is still referred to.
LEMMA CollectType ==
  ASSUME NEW f \in [Buckets -> Bucket \cup {None}], NEW s, NEW m
  PROVE  /\ Collect(f, s, m) \in [Buckets -> Bucket \cup {None}]
         /\ s \in Buckets => Collect(f, s, m)[s] = f[s]
         /\ \A t \in Threads : m[t] \in Buckets => Collect(f, s, m)[m[t]] = f[m[t]]
  BY DEF Collect

LEMMA FindTInv ==
  ASSUME TInv, NEW t \in Threads, Find(t)
  PROVE  TInv'
<1>1. /\ pc[t] = "idle" /\ stored \in Buckets /\ bucket[stored] \in Bucket
      /\ bucket' = [bucket EXCEPT ![stored].access = clock]
      /\ mine' = [mine EXCEPT ![t] = stored]
      /\ pc' = [pc EXCEPT ![t] = "enter"]
      /\ UNCHANGED <<clock, stored, now, cur, next, sweep, due, raced>>
  BY DEF Find, TInv, TypeOK, References
<1>2. [bucket[stored] EXCEPT !.access = clock] \in Bucket
  BY <1>1 DEF TInv, TypeOK, Bucket
<1>3. /\ bucket' \in [Buckets -> Bucket \cup {None}] /\ bucket'[stored] \in Bucket
      /\ \A b \in Buckets : b # stored => bucket'[b] = bucket[b]
  BY <1>1, <1>2 DEF TInv, TypeOK
<1>4. alone' \in BOOLEAN /\ ideal' \in 0 .. Burst
  <2>1. alone' \in BOOLEAN
    BY Zenon DEF Find, Overlap
  <2>2. ideal' \in 0 .. Burst
    BY DEF Find, Overlap, TInv, TypeOK
  <2> QED
    BY <2>1, <2>2
<1>5. TypeOK'
  BY <1>1, <1>3, <1>4 DEF TInv, TypeOK
<1>6. References'
  BY <1>1, <1>3 DEF TInv, TypeOK, References, Active
<1> QED
  BY <1>5, <1>6 DEF TInv

LEMMA MakeTInv ==
  ASSUME TInv, NEW t \in Threads, Make(t)
  PROVE  TInv'
<1>1. PICK b \in Buckets : /\ Free(b)
                           /\ bucket' = [bucket EXCEPT ![b] = NewTokenBucket]
                           /\ mine' = [mine EXCEPT ![t] = b]
  BY DEF Make
<1>2. /\ pc[t] = "idle" /\ stored = None /\ pc' = [pc EXCEPT ![t] = "put"]
      /\ UNCHANGED <<clock, stored, now, cur, next, sweep, due, raced>>
  BY DEF Make
<1>3. NewTokenBucket \in Bucket
  BY DEF NewTokenBucket, Bucket, TInv, TypeOK
<1>4. /\ bucket' \in [Buckets -> Bucket \cup {None}] /\ bucket'[b] \in Bucket
      /\ \A c \in Buckets : c # b => bucket'[c] = bucket[c]
  BY <1>1, <1>3 DEF TInv, TypeOK
<1>5. alone' \in BOOLEAN /\ ideal' \in 0 .. Burst
  <2>1. alone' \in BOOLEAN
    BY Zenon DEF Make, Overlap
  <2>2. ideal' \in 0 .. Burst
    BY DEF Make, Overlap, TInv, TypeOK
  <2> QED
    BY <2>1, <2>2
<1>6. TypeOK'
  BY <1>1, <1>2, <1>4, <1>5 DEF TInv, TypeOK
<1>7. References'
  BY <1>1, <1>2, <1>4 DEF TInv, TypeOK, References, Active
<1> QED
  BY <1>6, <1>7 DEF TInv

LEMMA PutEnterLoadTInv ==
  ASSUME TInv, NEW t \in Threads, Put(t) \/ Enter(t) \/ LoadTokens(t)
  PROVE  TInv'
<1>1. CASE Put(t)
  <2>1. /\ pc[t] = "put" /\ stored' = mine[t] /\ bucket' = Collect(bucket, mine[t], mine)
        /\ pc' = [pc EXCEPT ![t] = "enter"]
        /\ UNCHANGED <<clock, locals, sweep, history, raced>>
    BY <1>1 DEF Put
  <2>2. mine[t] \in Buckets /\ bucket[mine[t]] \in Bucket
    BY <2>1 DEF TInv, References, Active
  <2>3. /\ bucket' \in [Buckets -> Bucket \cup {None}]
        /\ \A u \in Threads : mine[u] \in Buckets => bucket'[mine[u]] = bucket[mine[u]]
    BY <2>1, CollectType DEF TInv, TypeOK
  <2>4. TypeOK'
    BY <2>1, <2>2, <2>3 DEF TInv, TypeOK, locals, history
  <2>5. References'
    BY <2>1, <2>2, <2>3 DEF TInv, TypeOK, References, Active, locals
  <2> QED
    BY <2>4, <2>5 DEF TInv
<1>2. CASE Enter(t)
  <2>1. /\ pc[t] = "enter" /\ now' = [now EXCEPT ![t] = clock] /\ pc' = [pc EXCEPT ![t] = "load"]
        /\ ideal' = IF ideal >= Cost THEN ideal - Cost ELSE ideal
        /\ due' = [due EXCEPT ![t] = ideal >= Cost]
        /\ UNCHANGED <<clock, stored, bucket, mine, cur, next, sweep, alone, raced>>
    BY <1>2 DEF Enter
  <2>2. due' \in [Threads -> BOOLEAN]
    <3>1. (ideal >= Cost) \in BOOLEAN
      OBVIOUS
    <3> QED
      BY <2>1, <3>1 DEF TInv, TypeOK
  <2>3. TypeOK'
    BY <2>1, <2>2 DEF TInv, TypeOK
  <2>4. References'
    BY <2>1 DEF TInv, TypeOK, References, Active
  <2> QED
    BY <2>3, <2>4 DEF TInv
<1>3. CASE LoadTokens(t)
  <2>1. /\ pc[t] = "load" /\ cur' = [cur EXCEPT ![t] = bucket[mine[t]].tokens]
        /\ pc' = [pc EXCEPT ![t] = "last"]
        /\ UNCHANGED <<clock, stored, bucket, mine, now, next, sweep, history>>
        /\ raced' = raced \ {t}
    BY <1>3 DEF LoadTokens
  <2>2. bucket[mine[t]].tokens \in 0 .. Burst
    BY <2>1 DEF TInv, References, Active, Bucket
  <2>3. TypeOK'
    BY <2>1, <2>2 DEF TInv, TypeOK, history
  <2>4. References'
    BY <2>1 DEF TInv, TypeOK, References, Active
  <2> QED
    BY <2>3, <2>4 DEF TInv
<1> QED
  BY <1>1, <1>2, <1>3

\* Deny and Grant end a call.
LEMMA LeaveTInv ==
  ASSUME TInv, NEW t \in Threads, Active(t), Leave(t),
         NEW f \in [Buckets -> Bucket \cup {None}],
         \A b \in Buckets : bucket[b] \in Bucket => f[b] \in Bucket,
         bucket' = Collect(f, stored, mine'),
         UNCHANGED <<clock, stored, sweep, alone, ideal>>
  PROVE  TInv'
<1>1. /\ pc' = [pc EXCEPT ![t] = "idle"] /\ mine' = [mine EXCEPT ![t] = None]
      /\ now' = [now EXCEPT ![t] = 0] /\ cur' = [cur EXCEPT ![t] = 0]
      /\ next' = [next EXCEPT ![t] = 0] /\ due' = [due EXCEPT ![t] = FALSE]
      /\ raced' = raced \ {t}
  BY DEF Leave
<1>2. /\ bucket' \in [Buckets -> Bucket \cup {None}]
      /\ stored \in Buckets => bucket'[stored] = f[stored]
      /\ \A u \in Threads : mine'[u] \in Buckets => bucket'[mine'[u]] = f[mine'[u]]
  BY CollectType
<1>3. TypeOK'
  <2>1. due' \in [Threads -> BOOLEAN]
    BY <1>1 DEF TInv, TypeOK
  <2>2. /\ now' \in [Threads -> 0 .. MaxTime]
        /\ cur' \in [Threads -> 0 .. Burst] /\ next' \in [Threads -> 0 .. Burst]
    BY <1>1 DEF TInv, TypeOK
  <2>3. /\ pc' \in [Threads -> {"idle", "put", "enter", "load", "last", "cas", "stamp"}]
        /\ mine' \in [Threads -> Buckets \cup {None}] /\ raced' \subseteq Threads
    BY <1>1 DEF TInv, TypeOK
  <2> QED
    BY <1>2, <2>1, <2>2, <2>3 DEF TInv, TypeOK
<1>4. References'
  BY <1>1, <1>2 DEF TInv, TypeOK, References, Active
<1> QED
  BY <1>3, <1>4 DEF TInv

LEMMA DecideTInv ==
  ASSUME TInv, NEW t \in Threads, Deny(t) \/ Enough(t) \/ Swap(t) \/ Grant(t)
  PROVE  TInv'
<1> USE DEF TInv
<1>1. CASE Deny(t)
  BY <1>1, LeaveTInv DEF Deny, Active, TypeOK
<1>2. CASE Enough(t)
  <2>1. /\ pc[t] = "last" /\ Level(t) >= Cost /\ next' = [next EXCEPT ![t] = Level(t) - Cost]
        /\ pc' = [pc EXCEPT ![t] = "cas"]
        /\ UNCHANGED <<clock, stored, bucket, mine, now, cur, sweep, history, raced>>
    BY <1>2 DEF Enough
  <2>2. Level(t) - Cost \in 0 .. Burst
    BY <2>1, LevelType DEF Active
  <2>3. TypeOK'
    BY <2>1, <2>2 DEF TypeOK, history
  <2>4. References'
    BY <2>1 DEF TypeOK, References, Active
  <2> QED
    BY <2>3, <2>4
<1>3. CASE Swap(t)
  <2>1. /\ pc[t] = "cas" /\ mine[t] \in Buckets /\ bucket[mine[t]] \in Bucket
        /\ UNCHANGED <<clock, stored, locals, sweep, history>>
        /\ raced' \subseteq Threads
    BY <1>3 DEF Swap, References, Active, TypeOK
  <2>2. CASE bucket[mine[t]].tokens = cur[t]
    <3>1. /\ bucket' = [bucket EXCEPT ![mine[t]].tokens = next[t]]
          /\ pc' = [pc EXCEPT ![t] = "stamp"]
      BY <1>3, <2>2 DEF Swap
    <3>2. [bucket[mine[t]] EXCEPT !.tokens = next[t]] \in Bucket
      BY <2>1 DEF TypeOK, Bucket
    <3>3. /\ bucket' \in [Buckets -> Bucket \cup {None}] /\ bucket'[mine[t]] \in Bucket
          /\ \A b \in Buckets : b # mine[t] => bucket'[b] = bucket[b]
      BY <2>1, <3>1, <3>2 DEF TypeOK
    <3>4. TypeOK'
      BY <2>1, <3>1, <3>3 DEF TypeOK, locals, history
    <3>5. References'
      BY <2>1, <3>1, <3>3 DEF TypeOK, References, Active, locals
    <3> QED
      BY <3>4, <3>5
  <2>3. CASE bucket[mine[t]].tokens # cur[t]
    BY <1>3, <2>1, <2>3 DEF Swap, Retry, TypeOK, References, Active, locals, history
  <2> QED
    BY <2>2, <2>3
<1>4. CASE Grant(t)
  <2>1. mine[t] \in Buckets /\ bucket[mine[t]] \in Bucket /\ Active(t)
    BY <1>4 DEF Grant, References, Active
  <2>2. [bucket[mine[t]] EXCEPT !.last = now[t]] \in Bucket
    BY <2>1 DEF TypeOK, Bucket
  <2>3. /\ Stamped(t) \in [Buckets -> Bucket \cup {None}]
        /\ \A b \in Buckets : bucket[b] \in Bucket => Stamped(t)[b] \in Bucket
    BY <2>1, <2>2 DEF Stamped, TypeOK
  <2> QED
    BY <1>4, <2>1, <2>3, LeaveTInv DEF Grant
<1> QED
  BY <1>1, <1>2, <1>3, <1>4

LEMMA SweepTickTInv ==
  ASSUME TInv, SweepFind \/ SweepDelete \/ Tick
  PROVE  TInv'
<1> USE DEF TInv
<1>1. CASE SweepFind
  <2>1. alone' \in BOOLEAN
    BY <1>1, Zenon DEF SweepFind, Overlap
  <2>2. ideal' \in 0 .. Burst
    BY <1>1 DEF SweepFind, Overlap, TypeOK
  <2> QED
    BY <1>1, <2>1, <2>2 DEF SweepFind, TypeOK, References, Active, locals
<1>2. CASE SweepDelete
  <2>1. /\ stored' = None /\ bucket' = Collect(bucket, None, mine) /\ sweep' = FALSE
        /\ UNCHANGED <<clock, pc, locals, history, raced>>
    BY <1>2 DEF SweepDelete
  <2>2. /\ bucket' \in [Buckets -> Bucket \cup {None}]
        /\ \A u \in Threads : mine[u] \in Buckets => bucket'[mine[u]] = bucket[mine[u]]
    BY <2>1, CollectType DEF TypeOK
  <2> QED
    BY <2>1, <2>2 DEF TypeOK, References, Active, locals, history
<1>3. CASE Tick
  <2>1. alone' \in BOOLEAN
    BY <1>3, Zenon DEF Tick
  <2>2. ideal' \in 0 .. Burst
    BY <1>3 DEF Tick, AtMost, TypeOK
  <2> QED
    BY <1>3, <2>1, <2>2 DEF Tick, TypeOK, References, Active, locals
<1> QED
  BY <1>1, <1>2, <1>3

LEMMA NextTInv == TInv /\ [Next]_vars => TInv'
<1>1. ASSUME TInv, UNCHANGED vars PROVE TInv'
  BY <1>1 DEF vars, locals, history, TInv, TypeOK, References, Active
<1> QED
  BY <1>1, FindTInv, MakeTInv, PutEnterLoadTInv, DecideTInv, SweepTickTInv DEF Next, Step

-----------------------------------------------------------------------------
(* Calls that do not overlap *)

\* A bucket that is full after MaxAge may be dropped.
Refills == MaxAge * Rate >= Burst

\* The level of bucket b at a time.
Credit(b, at) == AtMost(Burst, bucket[b].tokens + (at - bucket[b].last) * Rate)

\* lastUpdate is at most one tick younger than lastAccess.
Timely(b) ==
  bucket[b].access <= clock /\ bucket[b].last <= clock /\ bucket[b].last <= bucket[b].access + 1

\* The ideal level when t was decided.
Left(t) == IF due[t] THEN Credit(mine[t], now[t]) - Cost ELSE Credit(mine[t], now[t])

\* How the ideal bucket and the real one relate at each step of the only call.
Sole(t) ==
  /\ Timely(mine[t]) /\ clock <= bucket[mine[t]].access + 1
  /\ stored = IF pc[t] = "put" THEN None ELSE mine[t]
  /\ pc[t] \in {"put", "enter"} => ideal = Credit(mine[t], clock)
  /\ pc[t] \in {"load", "last", "cas", "stamp"} =>
       bucket[mine[t]].last <= now[t] /\ now[t] <= clock
  /\ pc[t] \in {"load", "last", "cas"} =>
       /\ due[t] <=> Credit(mine[t], now[t]) >= Cost
       /\ ideal = AtMost(Burst, Left(t) + (clock - now[t]) * Rate)
  /\ pc[t] \in {"last", "cas"} => cur[t] = bucket[mine[t]].tokens
  /\ pc[t] = "cas" => due[t] /\ next[t] = Credit(mine[t], now[t]) - Cost
  /\ pc[t] = "stamp" =>
       /\ due[t]
       /\ ideal = AtMost(Burst, bucket[mine[t]].tokens + (clock - now[t]) * Rate)

\* And between the calls.
Resting ==
  /\ stored = None => ideal = Burst
  /\ stored # None => ideal = Credit(stored, clock) /\ Timely(stored)
  /\ sweep => ideal = Burst

AloneInv ==
  alone /\ Refills =>
    /\ \A t, u \in Threads : Active(t) /\ Active(u) => t = u
    /\ \A t \in Threads : Active(t) => ~sweep /\ Sole(t)
    /\ (\A t \in Threads : ~Active(t)) => Resting

IInv == TInv /\ AloneInv

\* Refilling in two steps is refilling in one.
LEMMA RefillTwice ==
  ASSUME NEW x \in Int, NEW a \in Int, NEW d \in Nat
  PROVE  AtMost(Burst, AtMost(Burst, x + a * Rate) + d * Rate) = AtMost(Burst, x + (a + d) * Rate)
<1>1. (a + d) * Rate = a * Rate + d * Rate
  OBVIOUS
<1>2. a * Rate \in Int /\ d * Rate \in Nat
  OBVIOUS
<1> DEFINE y == a * Rate
           z == d * Rate
<1>3. y \in Int /\ z \in Nat /\ (a + d) * Rate = y + z
  BY <1>1, <1>2
<1> HIDE DEF y, z
<1>4. AtMost(Burst, AtMost(Burst, x + y) + z) = AtMost(Burst, x + (y + z))
  BY <1>3 DEF AtMost
<1> QED
  BY <1>3, <1>4 DEF y, z

LEMMA CreditType ==
  ASSUME NEW b \in Buckets, bucket[b] \in Bucket, NEW s \in Int
  PROVE  Credit(b, s) \in Int /\ Credit(b, s) <= Burst
<1>1. bucket[b].tokens \in Int /\ (s - bucket[b].last) \in Int
  BY DEF Bucket
<1> DEFINE y == (s - bucket[b].last) * Rate
<1>2. y \in Int
  BY <1>1
<1> HIDE DEF y
<1>3. AtMost(Burst, bucket[b].tokens + y) \in Int /\ AtMost(Burst, bucket[b].tokens + y) <= Burst
  BY <1>1, <1>2 DEF AtMost
<1> QED
  BY <1>3 DEF Credit, y

LEMMA CreditLater ==
  ASSUME NEW b \in Buckets, bucket[b] \in Bucket, NEW s \in Int, NEW e \in Int, s <= e
  PROVE  Credit(b, e) = AtMost(Burst, Credit(b, s) + (e - s) * Rate)
<1>1. bucket[b].tokens \in Int /\ s - bucket[b].last \in Int /\ e - s \in Nat
      /\ (s - bucket[b].last) + (e - s) = e - bucket[b].last
  BY DEF Bucket
<1> DEFINE x == bucket[b].tokens
           a == s - bucket[b].last
           d == e - s
<1>2. x \in Int /\ a \in Int /\ d \in Nat /\ a + d = e - bucket[b].last
  BY <1>1
<1>3. Credit(b, s) = AtMost(Burst, x + a * Rate) /\ Credit(b, e) = AtMost(Burst, x + (a + d) * Rate)
  BY <1>2 DEF Credit
<1> HIDE DEF x, a
<1>4. AtMost(Burst, AtMost(Burst, x + a * Rate) + d * Rate) = AtMost(Burst, x + (a + d) * Rate)
  BY <1>2, RefillTwice
<1> QED
  BY <1>3, <1>4

LEMMA NoRefill ==
  ASSUME NEW x \in Int, x <= Burst, NEW a \in Int
  PROVE  AtMost(Burst, x + (a - a) * Rate) = x
<1>1. (a - a) * Rate = 0
  OBVIOUS
<1> QED
  BY <1>1 DEF AtMost

LEMMA InitAlone == Init => AloneInv
  BY DEF Init, AloneInv, Active, Resting

LEMMA FindAlone ==
  ASSUME IInv, NEW t \in Threads, Find(t), alone', Refills
  PROVE  AloneInv'
<1>1. /\ pc[t] = "idle" /\ stored \in Buckets /\ bucket[stored] \in Bucket
      /\ bucket' = [bucket EXCEPT ![stored].access = clock]
      /\ mine' = [mine EXCEPT ![t] = stored] /\ pc' = [pc EXCEPT ![t] = "enter"]
      /\ alone /\ ~Others(t) /\ ~sweep /\ ideal' = ideal
      /\ UNCHANGED <<clock, stored, now, cur, next, sweep, due>>
  BY DEF Find, Overlap, IInv, TInv, TypeOK, References
<1>2. \A u \in Threads : ~Active(u) /\ (Active(u)' <=> u = t)
  BY <1>1 DEF Others, Active, IInv, TInv, TypeOK
<1>3. ideal = Credit(stored, clock) /\ Timely(stored)
  BY <1>1, <1>2 DEF IInv, AloneInv, Resting
<1>4. /\ bucket'[stored].access = clock /\ bucket'[stored].last = bucket[stored].last
      /\ bucket'[stored].tokens = bucket[stored].tokens
      /\ bucket[stored].last \in Nat /\ clock \in Nat
  BY <1>1 DEF IInv, TInv, TypeOK, Bucket
<1>5. mine'[t] = stored /\ pc'[t] = "enter"
  BY <1>1 DEF IInv, TInv, TypeOK
<1>6. Sole(t)'
  BY <1>1, <1>3, <1>4, <1>5 DEF Sole, Timely, Credit
<1> QED
  BY <1>1, <1>2, <1>6 DEF AloneInv

LEMMA MakeAlone ==
  ASSUME IInv, NEW t \in Threads, Make(t), alone', Refills
  PROVE  AloneInv'
<1>1. PICK b \in Buckets : /\ bucket' = [bucket EXCEPT ![b] = NewTokenBucket]
                           /\ mine' = [mine EXCEPT ![t] = b]
  BY DEF Make
<1>2. /\ pc[t] = "idle" /\ stored = None /\ pc' = [pc EXCEPT ![t] = "put"]
      /\ alone /\ ~Others(t) /\ ~sweep /\ ideal' = ideal
      /\ UNCHANGED <<clock, stored, now, cur, next, sweep, due>>
  BY DEF Make, Overlap, IInv, TInv, TypeOK
<1>3. \A u \in Threads : ~Active(u) /\ (Active(u)' <=> u = t)
  BY <1>2 DEF Others, Active, IInv, TInv, TypeOK
<1>4. ideal = Burst
  BY <1>2, <1>3 DEF IInv, AloneInv, Resting
<1>5. /\ bucket'[b].access = clock /\ bucket'[b].last = clock /\ bucket'[b].tokens = Burst
      /\ clock \in Nat /\ Burst \in Nat
  BY <1>1 DEF NewTokenBucket, IInv, TInv, TypeOK
<1>6. mine'[t] = b /\ pc'[t] = "put"
  BY <1>1, <1>2 DEF IInv, TInv, TypeOK
<1>7. Credit(b, clock)' = Burst
  BY <1>2, <1>5, NoRefill DEF Credit
<1>8. Sole(t)'
  BY <1>2, <1>4, <1>5, <1>6, <1>7 DEF Sole, Timely
<1> QED
  BY <1>2, <1>3, <1>8 DEF AloneInv

\* The call that is under way takes a step and stays under way.
LEMMA SoleStep ==
  ASSUME IInv, NEW t \in Threads, Active(t), alone, Refills,
         Active(t)', \A u \in Threads : u # t => pc'[u] = pc[u],
         UNCHANGED <<sweep, alone>>,
         Sole(t) => Sole(t)'
  PROVE  AloneInv'
<1>1. ~sweep /\ Sole(t) /\ \A u \in Threads : Active(u) => u = t
  BY DEF IInv, AloneInv
<1>2. \A u \in Threads : Active(u)' <=> u = t
  BY <1>1 DEF Active
<1> QED
  BY <1>1, <1>2 DEF AloneInv

LEMMA PutAlone ==
  ASSUME IInv, NEW t \in Threads, Put(t), alone', Refills
  PROVE  AloneInv'
<1>1. /\ pc[t] = "put" /\ stored' = mine[t] /\ bucket' = Collect(bucket, mine[t], mine)
      /\ pc' = [pc EXCEPT ![t] = "enter"]
      /\ UNCHANGED <<clock, mine, now, cur, next, sweep, alone, ideal, due>>
  BY DEF Put, locals, history
<1>2. mine[t] \in Buckets /\ bucket'[mine[t]] = bucket[mine[t]] /\ pc'[t] = "enter"
  BY <1>1, CollectType DEF IInv, TInv, TypeOK, References, Active
<1>3. Sole(t) => Sole(t)'
  BY <1>1, <1>2 DEF Sole, Timely, Credit
<1> QED
  BY <1>1, <1>2, <1>3, SoleStep DEF Active, IInv, TInv, TypeOK

LEMMA EnterAlone ==
  ASSUME IInv, NEW t \in Threads, Enter(t), alone', Refills
  PROVE  AloneInv'
<1>1. /\ pc[t] = "enter" /\ now' = [now EXCEPT ![t] = clock] /\ pc' = [pc EXCEPT ![t] = "load"]
      /\ ideal' = IF ideal >= Cost THEN ideal - Cost ELSE ideal
      /\ due' = [due EXCEPT ![t] = ideal >= Cost]
      /\ UNCHANGED <<clock, stored, bucket, mine, cur, next, sweep, alone>>
  BY DEF Enter
<1>2. /\ now'[t] = clock /\ pc'[t] = "load" /\ (due'[t] <=> ideal >= Cost)
      /\ clock \in Nat /\ ideal \in Nat /\ ideal <= Burst
  <2>1. due' = [due EXCEPT ![t] = ideal >= Cost] /\ t \in DOMAIN due
    BY <1>1 DEF IInv, TInv, TypeOK
  <2>2. due'[t] = (ideal >= Cost)
    BY <2>1, Zenon
  <2>3. /\ now'[t] = clock /\ pc'[t] = "load"
        /\ clock \in Nat /\ ideal \in Nat /\ ideal <= Burst
    BY <1>1 DEF IInv, TInv, TypeOK
  <2> QED
    BY <2>2, <2>3
<1>3. Sole(t) => Sole(t)'
  <2> SUFFICES ASSUME Sole(t) PROVE Sole(t)'
    OBVIOUS
  <2>1. ideal = Credit(mine[t], clock)
    BY <1>1 DEF Sole
  <2>2. Credit(mine[t], now[t])' = ideal
    BY <1>1, <1>2, <2>1 DEF Credit
  <2>3. Left(t)' = ideal' /\ ideal' \in Int /\ ideal' <= Burst
    BY <1>1, <1>2, <2>2 DEF Left
  <2>4. ideal' = AtMost(Burst, Left(t)' + (clock' - now'[t]) * Rate)
    BY <1>1, <1>2, <2>3, NoRefill
  <2> QED
    BY <1>1, <1>2, <2>2, <2>4 DEF Sole, Timely
<1> QED
  BY <1>1, <1>2, <1>3, SoleStep DEF Active, IInv, TInv, TypeOK

LEMMA LoadAlone ==
  ASSUME IInv, NEW t \in Threads, LoadTokens(t), alone', Refills
  PROVE  AloneInv'
<1>1. /\ pc[t] = "load" /\ cur' = [cur EXCEPT ![t] = bucket[mine[t]].tokens]
      /\ pc' = [pc EXCEPT ![t] = "last"]
      /\ UNCHANGED <<clock, stored, bucket, mine, now, next, sweep, alone, ideal, due>>
  BY DEF LoadTokens, history
<1>2. cur'[t] = bucket[mine[t]].tokens /\ pc'[t] = "last"
  BY <1>1 DEF IInv, TInv, TypeOK
<1>3. Sole(t) => Sole(t)'
  BY <1>1, <1>2 DEF Sole, Timely, Credit, Left
<1> QED
  BY <1>1, <1>2, <1>3, SoleStep DEF Active, IInv, TInv, TypeOK

\* What the call decides is the level of its bucket at its time.
LEMMA SoleLevel ==
  ASSUME IInv, NEW t \in Threads, alone, Refills, pc[t] = "last"
  PROVE  /\ Sole(t) /\ Level(t) = Credit(mine[t], now[t])
         /\ mine[t] \in Buckets /\ bucket[mine[t]] \in Bucket
         /\ Level(t) >= Cost <=> due[t]
<1>1. Sole(t) /\ mine[t] \in Buckets /\ bucket[mine[t]] \in Bucket
  BY DEF IInv, TInv, References, AloneInv, Active
<1>2. cur[t] = bucket[mine[t]].tokens
  BY <1>1 DEF Sole
<1>3. Level(t) = Credit(mine[t], now[t])
  BY <1>2 DEF Level, Credit
<1> QED
  BY <1>1, <1>3 DEF Sole

LEMMA EnoughAlone ==
  ASSUME IInv, NEW t \in Threads, Enough(t), alone', Refills
  PROVE  AloneInv'
<1>1. /\ pc[t] = "last" /\ next' = [next EXCEPT ![t] = Level(t) - Cost]
      /\ pc' = [pc EXCEPT ![t] = "cas"] /\ Level(t) >= Cost
      /\ UNCHANGED <<clock, stored, bucket, mine, now, cur, sweep, alone, ideal, due>>
  BY DEF Enough, history
<1>2. next'[t] = Level(t) - Cost /\ pc'[t] = "cas"
  BY <1>1 DEF IInv, TInv, TypeOK
<1>3. due[t] /\ Level(t) = Credit(mine[t], now[t])
  BY <1>1, SoleLevel
<1>4. Sole(t) => Sole(t)'
  BY <1>1, <1>2, <1>3 DEF Sole, Timely, Credit, Left
<1> QED
  BY <1>1, <1>2, <1>4, SoleStep DEF Active, IInv, TInv, TypeOK

LEMMA SwapAlone ==
  ASSUME IInv, NEW t \in Threads, Swap(t), alone', Refills
  PROVE  AloneInv'
<1>1. /\ pc[t] = "cas" /\ UNCHANGED <<clock, stored, mine, now, cur, next, sweep, alone, ideal, due>>
      /\ mine[t] \in Buckets /\ bucket[mine[t]] \in Bucket
  BY DEF Swap, locals, history, IInv, TInv, References, Active
<1>2. Sole(t)
  BY <1>1 DEF IInv, AloneInv, Active
<1>3. /\ bucket' = [bucket EXCEPT ![mine[t]].tokens = next[t]]
      /\ pc' = [pc EXCEPT ![t] = "stamp"]
  BY <1>1, <1>2 DEF Swap, Sole
<1>4. /\ bucket'[mine[t]].tokens = next[t] /\ bucket'[mine[t]].last = bucket[mine[t]].last
      /\ bucket'[mine[t]].access = bucket[mine[t]].access /\ pc'[t] = "stamp"
  BY <1>1, <1>3 DEF IInv, TInv, TypeOK, Bucket
<1>5. next[t] = Left(t) /\ due[t] /\ ideal = AtMost(Burst, Left(t) + (clock - now[t]) * Rate)
  BY <1>1, <1>2 DEF Sole, Left
<1>6. Sole(t)'
  BY <1>1, <1>2, <1>4, <1>5 DEF Sole, Timely
<1> QED
  BY <1>1, <1>3, <1>4, <1>6, SoleStep DEF Active, IInv, TInv, TypeOK

\* The call ends and the bucket rests.
LEMMA LeaveAlone ==
  ASSUME IInv, NEW t \in Threads, Active(t), Leave(t), alone, Refills,
         UNCHANGED <<clock, stored, sweep, alone, ideal>>,
         stored = mine[t], stored \in Buckets,
         ideal = Credit(stored, clock)', Timely(stored)'
  PROVE  AloneInv'
<1>1. ~sweep /\ \A u \in Threads : Active(u) => u = t
  BY DEF IInv, AloneInv
<1>2. pc' = [pc EXCEPT ![t] = "idle"]
  BY DEF Leave
<1>3. \A u \in Threads : ~Active(u)'
  BY <1>1, <1>2 DEF Active, IInv, TInv, TypeOK
<1>4. Resting'
  BY <1>1 DEF Resting
<1> QED
  BY <1>3, <1>4 DEF AloneInv

LEMMA DenyAlone ==
  ASSUME IInv, NEW t \in Threads, Deny(t), alone', Refills
  PROVE  ~due[t] /\ AloneInv'
<1>1. /\ pc[t] = "last" /\ Level(t) < Cost /\ Leave(t)
      /\ bucket' = Collect(bucket, stored, mine')
      /\ UNCHANGED <<clock, stored, sweep, alone, ideal>>
  BY DEF Deny
<1>2. /\ Sole(t) /\ Level(t) = Credit(mine[t], now[t])
      /\ mine[t] \in Buckets /\ bucket[mine[t]] \in Bucket /\ (Level(t) >= Cost <=> due[t])
  BY <1>1, SoleLevel
<1>3. Level(t) \in Int
  BY <1>1, LevelType DEF IInv, Active
<1>4. ~due[t]
  BY <1>1, <1>2, <1>3
<1>5. stored = mine[t] /\ bucket'[stored] = bucket[stored] /\ now[t] <= clock
  BY <1>1, <1>2, CollectType DEF Sole, IInv, TInv, TypeOK
<1>6. ideal = AtMost(Burst, Credit(mine[t], now[t]) + (clock - now[t]) * Rate)
  BY <1>1, <1>2, <1>4 DEF Sole, Left
<1>7. ideal = Credit(mine[t], clock)
  BY <1>2, <1>5, <1>6, CreditLater DEF IInv, TInv, TypeOK
<1>8. Credit(stored, clock)' = Credit(stored, clock) /\ Timely(stored)'
  BY <1>1, <1>2, <1>5 DEF Credit, Sole, Timely
<1>9. AloneInv'
  BY <1>1, <1>2, <1>5, <1>7, <1>8, LeaveAlone DEF Active
<1> QED
  BY <1>4, <1>9

LEMMA GrantAlone ==
  ASSUME IInv, NEW t \in Threads, Grant(t), alone', Refills
  PROVE  due[t] /\ AloneInv'
<1>1. /\ pc[t] = "stamp" /\ Leave(t)
      /\ bucket' = Collect(Stamped(t), stored, mine')
      /\ UNCHANGED <<clock, stored, sweep, alone, ideal>>
      /\ mine[t] \in Buckets /\ bucket[mine[t]] \in Bucket
  BY DEF Grant, IInv, TInv, References, Active
<1>2. Sole(t)
  BY <1>1 DEF IInv, AloneInv, Active
<1>3. stored = mine[t] /\ due[t] /\ now[t] <= clock /\ clock <= bucket[mine[t]].access + 1
      /\ bucket[mine[t]].access <= clock
      /\ ideal = AtMost(Burst, bucket[mine[t]].tokens + (clock - now[t]) * Rate)
  BY <1>1, <1>2 DEF Sole, Timely
<1>4. Stamped(t) \in [Buckets -> Bucket \cup {None}]
  <2>1. [bucket[mine[t]] EXCEPT !.last = now[t]] \in Bucket
    BY <1>1 DEF IInv, TInv, TypeOK, Bucket
  <2> QED
    BY <1>1, <2>1 DEF Stamped, IInv, TInv, TypeOK
<1>5. bucket'[stored] = Stamped(t)[stored]
  BY <1>1, <1>3, <1>4, CollectType
<1>6. /\ bucket'[stored].tokens = bucket[mine[t]].tokens /\ bucket'[stored].last = now[t]
      /\ bucket'[stored].access = bucket[mine[t]].access
  BY <1>1, <1>3, <1>5 DEF Stamped, IInv, TInv, TypeOK, Bucket
<1>7. now[t] \in Nat /\ clock \in Nat /\ bucket[mine[t]].access \in Nat
  BY <1>1 DEF IInv, TInv, TypeOK, Bucket
<1>8. ideal = Credit(stored, clock)' /\ Timely(stored)'
  BY <1>1, <1>3, <1>6, <1>7 DEF Credit, Timely
<1> QED
  BY <1>1, <1>3, <1>8, LeaveAlone DEF Active

LEMMA SweepAlone ==
  ASSUME IInv, SweepFind \/ SweepDelete, alone', Refills
  PROVE  AloneInv'
<1>1. CASE SweepFind
  <2>1. /\ stored \in Buckets /\ bucket[stored] \in Bucket /\ Stale(stored)
        /\ alone /\ ideal' = ideal /\ sweep' = TRUE /\ ~sweep /\ \A t \in Threads : ~Active(t)
        /\ UNCHANGED <<clock, stored, bucket, pc, mine, now, cur, next, due>>
    BY <1>1 DEF SweepFind, Overlap, locals, Active, IInv, TInv, TypeOK, References
  <2>2. ideal = Credit(stored, clock) /\ Timely(stored)
    BY <2>1 DEF IInv, AloneInv, Resting
  <2>3. /\ clock \in Nat /\ bucket[stored].last \in Nat /\ bucket[stored].access \in Nat
        /\ bucket[stored].tokens \in Nat
    BY <2>1 DEF IInv, TInv, TypeOK, Bucket
  <2>4. clock - bucket[stored].last \in Nat /\ clock - bucket[stored].last >= MaxAge
    BY <2>1, <2>2, <2>3 DEF Stale, Timely
  <2>5. ASSUME NEW d \in Nat, d >= MaxAge PROVE d * Rate \in Nat /\ d * Rate >= Burst
    <3>1. d - MaxAge \in Nat /\ d = MaxAge + (d - MaxAge)
      BY <2>5
    <3>2. d * Rate = MaxAge * Rate + (d - MaxAge) * Rate
      BY <3>1
    <3>3. (d - MaxAge) * Rate \in Nat /\ MaxAge * Rate \in Nat
      BY <3>1
    <3> QED
      BY <3>2, <3>3 DEF Refills
  <2>6. (clock - bucket[stored].last) * Rate \in Nat /\ (clock - bucket[stored].last) * Rate >= Burst
    BY <2>4, <2>5
  <2>7. ideal = Burst
    BY <2>2, <2>3, <2>6 DEF Credit, AtMost
  <2>8. Resting'
    BY <2>1, <2>2, <2>7 DEF Resting, Credit, Timely
  <2> QED
    BY <2>1, <2>8 DEF AloneInv, Active
<1>2. CASE SweepDelete
  <2>1. /\ sweep /\ sweep' = FALSE /\ stored' = None
        /\ UNCHANGED <<clock, pc, mine, alone, ideal>>
    BY <1>2 DEF SweepDelete, locals, history
  <2>2. (\A t \in Threads : ~Active(t)) /\ ideal = Burst
    BY <2>1 DEF IInv, AloneInv, Resting
  <2> QED
    BY <2>1, <2>2 DEF AloneInv, Active, Resting
<1> QED
  BY <1>1, <1>2

\* A tick refills the ideal bucket and the real one alike.
LEMMA TickAlone ==
  ASSUME IInv, Tick, alone', Refills
  PROVE  AloneInv'
<1>1. /\ alone /\ ~LongCall /\ clock' = clock + 1 /\ clock \in Nat
      /\ ideal' = AtMost(Burst, ideal + Rate)
      /\ UNCHANGED <<stored, bucket, pc, mine, now, cur, next, sweep, due>>
  <2>1. alone /\ ~LongCall
    BY Zenon DEF Tick
  <2> QED
    BY <2>1 DEF Tick, locals, IInv, TInv, TypeOK
<1>2. ASSUME NEW b \in Buckets, bucket[b] \in Bucket, ideal = Credit(b, clock)
      PROVE  ideal' = Credit(b, clock')
  <2>1. clock \in Int /\ clock + 1 \in Int /\ clock <= clock + 1
    BY <1>1
  <2>2. Credit(b, clock + 1) = AtMost(Burst, Credit(b, clock) + ((clock + 1) - clock) * Rate)
    BY <1>2, <2>1, CreditLater
  <2>3. ((clock + 1) - clock) * Rate = Rate
    BY <2>1
  <2> QED
    BY <1>1, <1>2, <2>2, <2>3
<1>3. ASSUME NEW x \in Int, NEW s \in Int, ideal = AtMost(Burst, x + (clock - s) * Rate)
      PROVE  ideal' = AtMost(Burst, x + (clock' - s) * Rate)
  <2>1. clock - s \in Int /\ 1 \in Nat /\ (clock - s) + 1 = clock' - s /\ 1 * Rate = Rate
    BY <1>1, <1>3
  <2>2. AtMost(Burst, AtMost(Burst, x + (clock - s) * Rate) + 1 * Rate)
          = AtMost(Burst, x + ((clock - s) + 1) * Rate)
    BY <2>1, RefillTwice
  <2> QED
    BY <1>1, <1>3, <2>1, <2>2
<1>4. ASSUME NEW t \in Threads, Active(t)
      PROVE  Sole(t)'
  <2>1. Sole(t) /\ mine[t] \in Buckets /\ bucket[mine[t]] \in Bucket
    BY <1>1, <1>4 DEF IInv, TInv, AloneInv, References
  <2>2. /\ bucket[mine[t]].access \in Nat /\ bucket[mine[t]].last \in Nat
        /\ bucket[mine[t]].tokens \in Nat /\ now[t] \in Nat /\ pc[t] # "idle"
    BY <1>4, <2>1 DEF Bucket, Active, IInv, TInv, TypeOK
  <2>3. bucket[mine[t]].access = clock
    BY <1>1, <2>1, <2>2 DEF LongCall, Sole, Timely
  <2>4. Timely(mine[t])' /\ clock' <= bucket[mine[t]].access + 1
    BY <1>1, <2>1, <2>2, <2>3 DEF Sole, Timely
  <2>5. pc[t] \in {"put", "enter"} => ideal' = Credit(mine[t], clock')
    BY <1>2, <2>1 DEF Sole
  <2>6. Left(t) \in Int /\ Left(t)' = Left(t)
    BY <1>1, <2>1, <2>2, CreditType DEF Left, Credit
  <2>7. pc[t] \in {"load", "last", "cas"} =>
          ideal' = AtMost(Burst, Left(t) + (clock' - now[t]) * Rate)
    BY <1>3, <2>1, <2>2, <2>6 DEF Sole
  <2>8. pc[t] = "stamp" =>
          ideal' = AtMost(Burst, bucket[mine[t]].tokens + (clock' - now[t]) * Rate)
    BY <1>3, <2>1, <2>2 DEF Sole
  <2> QED
    BY <1>1, <2>1, <2>2, <2>4, <2>5, <2>6, <2>7, <2>8 DEF Sole, Credit
<1>5. ASSUME \A t \in Threads : ~Active(t)
      PROVE  Resting'
  <2>1. Resting
    BY <1>1, <1>5 DEF IInv, AloneInv
  <2>2. ideal = Burst => ideal' = Burst
    BY <1>1 DEF AtMost
  <2>3. stored # None => stored \in Buckets /\ bucket[stored] \in Bucket
    BY DEF IInv, TInv, TypeOK, References
  <2>4. stored # None => ideal' = Credit(stored, clock') /\ Timely(stored)'
    BY <1>1, <1>2, <2>1, <2>3 DEF Resting, Timely, Bucket
  <2> QED
    BY <1>1, <2>1, <2>2, <2>4 DEF Resting, Credit
<1> QED
  BY <1>1, <1>4, <1>5 DEF IInv, AloneInv, Active

\* The inductive invariant holds in every reachable state.
THEOREM InductiveInvariant == Spec => []IInv
<1>1. Init => IInv
  BY InitTInv, InitAlone DEF IInv
<1>2. IInv /\ [Next]_vars => IInv'
  <2> SUFFICES ASSUME IInv, [Next]_vars PROVE AloneInv'
    BY NextTInv DEF IInv
  <2>1. CASE UNCHANGED vars
    <3>1. UNCHANGED <<clock, stored, bucket, pc, mine, now, cur, next, sweep, alone, ideal, due>>
      BY <2>1 DEF vars, locals, history
    <3>2. \A t \in Threads : (Sole(t) => Sole(t)') /\ (Active(t) <=> Active(t)')
      BY <3>1 DEF Sole, Credit, Timely, Left, Active
    <3>3. Resting => Resting'
      BY <3>1 DEF Resting, Credit, Timely
    <3> QED
      BY <3>1, <3>2, <3>3 DEF IInv, AloneInv
  <2>2. CASE Next /\ alone' /\ Refills
    BY <2>2, FindAlone, MakeAlone, PutAlone, EnterAlone, LoadAlone, EnoughAlone, SwapAlone,
       DenyAlone, GrantAlone, SweepAlone, TickAlone DEF Next, Step
  <2>3. CASE ~(alone' /\ Refills)
    BY <2>3 DEF AloneInv
  <2> QED
    BY <2>1, <2>2, <2>3
<1> QED
  BY <1>1, <1>2, PTL DEF Spec

\* TokenBucket: a level is between zero and the burst, whatever calls race.
THEOREM TypeCorrect == Spec => []TypeOK
<1>1. IInv => TypeOK
  BY DEF IInv, TInv
<1> QED
  BY <1>1, InductiveInvariant, PTL

\* TokenBucket.Allow: calls that do not overlap, with each other or with a
\* sweep, are decided as by an ideal bucket that refills continuously.
THEOREM AloneIsExact == Spec => ExactWhenAlone
<1>1. IInv /\ [Next]_vars =>
        [alone /\ alone' /\ MaxAge * Rate >= Burst =>
           \A t \in Threads : (Grant(t) => due[t]) /\ (Deny(t) => ~due[t])]_vars
  BY GrantAlone, DenyAlone DEF Refills
<1> QED
  BY <1>1, InductiveInvariant, PTL DEF Spec, ExactWhenAlone
-----------------------------------------------------------------------------
(* Retries *)

\* What a call has loaded is what its bucket has, unless another call was
\* granted some of it meanwhile.
Attempts ==
  \A t \in Threads :
    pc[t] \in {"last", "cas"} /\ t \notin raced => bucket[mine[t]].tokens = cur[t]

\* A step of t that leaves raced and the tokens of all others' buckets alone
\* keeps what is said of the others.
LEMMA OthersKeep ==
  ASSUME TInv, Attempts, NEW t \in Threads,
         \A u \in Threads \ {t} :
           /\ pc'[u] = pc[u] /\ mine'[u] = mine[u] /\ cur'[u] = cur[u]
           /\ u \in raced => u \in raced'
           /\ Active(u) /\ u \notin raced' => bucket'[mine[u]].tokens = bucket[mine[u]].tokens,
         pc'[t] \in {"last", "cas"} /\ t \notin raced' => bucket'[mine'[t]].tokens = cur'[t]
  PROVE  Attempts'
  BY DEF Attempts, Active

LEMMA CallAttempts ==
  ASSUME TInv, Attempts, NEW t \in Threads, Find(t) \/ Make(t) \/ Step(t)
  PROVE  Attempts'
<1> USE DEF TInv, TypeOK, References, Active
<1>1. CASE Find(t)
  <2>1. /\ stored \in Buckets /\ bucket[stored] \in Bucket
        /\ bucket' = [bucket EXCEPT ![stored].access = clock]
        /\ mine' = [mine EXCEPT ![t] = stored] /\ pc' = [pc EXCEPT ![t] = "enter"]
        /\ UNCHANGED <<cur, raced>>
    BY <1>1 DEF Find
  <2>2. \A b \in Buckets : bucket[b] \in Bucket => bucket'[b].tokens = bucket[b].tokens
    BY <2>1 DEF Bucket
  <2> QED
    BY <2>1, <2>2, OthersKeep
<1>2. CASE Make(t)
  <2>1. PICK b \in Buckets : /\ Free(b)
                             /\ bucket' = [bucket EXCEPT ![b] = NewTokenBucket]
                             /\ mine' = [mine EXCEPT ![t] = b]
    BY <1>2 DEF Make
  <2>2. pc' = [pc EXCEPT ![t] = "put"] /\ UNCHANGED <<cur, raced>>
    BY <1>2 DEF Make
  <2>3. None \notin Bucket
    BY NoneAssumption
  <2>4. \A c \in Buckets : bucket[c] \in Bucket => bucket'[c] = bucket[c]
    BY <2>1, <2>3 DEF Free
  <2> QED
    BY <2>1, <2>2, <2>4, OthersKeep
<1>3. CASE Put(t)
  <2>1. /\ mine[t] \in Buckets /\ bucket' = Collect(bucket, mine[t], mine)
        /\ pc' = [pc EXCEPT ![t] = "enter"] /\ UNCHANGED <<mine, cur, raced>>
    BY <1>3 DEF Put, locals
  <2>2. \A u \in Threads : mine[u] \in Buckets => bucket'[mine[u]] = bucket[mine[u]]
    BY <2>1, CollectType
  <2> QED
    BY <2>1, <2>2, OthersKeep
<1>4. CASE Enter(t)
  <2>1. pc' = [pc EXCEPT ![t] = "load"] /\ UNCHANGED <<bucket, mine, cur, raced>>
    BY <1>4 DEF Enter
  <2> QED
    BY <2>1, OthersKeep
<1>5. CASE LoadTokens(t)
  <2>1. /\ cur' = [cur EXCEPT ![t] = bucket[mine[t]].tokens]
        /\ pc' = [pc EXCEPT ![t] = "last"] /\ raced' = raced \ {t}
        /\ UNCHANGED <<bucket, mine>>
    BY <1>5 DEF LoadTokens
  <2> QED
    BY <2>1, OthersKeep
<1>6. CASE Deny(t)
  <2>1. /\ Leave(t) /\ bucket' = Collect(bucket, stored, mine')
    BY <1>6 DEF Deny
  <2>2. /\ pc' = [pc EXCEPT ![t] = "idle"] /\ mine' = [mine EXCEPT ![t] = None]
        /\ cur' = [cur EXCEPT ![t] = 0] /\ raced' = raced \ {t}
    BY <2>1 DEF Leave
  <2>3. \A u \in Threads : mine'[u] \in Buckets => bucket'[mine'[u]] = bucket[mine'[u]]
    BY <2>1, CollectType
  <2> QED
    BY <2>2, <2>3, OthersKeep
<1>7. CASE Enough(t)
  <2>1. /\ pc[t] = "last" /\ pc' = [pc EXCEPT ![t] = "cas"]
        /\ UNCHANGED <<bucket, mine, cur, raced>>
    BY <1>7 DEF Enough
  <2> QED
    BY <2>1, OthersKeep DEF Attempts
<1>8. CASE Swap(t)
  <2>1. /\ pc[t] = "cas" /\ mine[t] \in Buckets /\ bucket[mine[t]] \in Bucket
        /\ UNCHANGED <<mine, cur>>
    BY <1>8 DEF Swap, locals
  <2>2. CASE bucket[mine[t]].tokens = cur[t]
    <3>1. /\ bucket' = [bucket EXCEPT ![mine[t]].tokens = next[t]]
          /\ pc' = [pc EXCEPT ![t] = "stamp"]
          /\ raced' = raced \cup {u \in Threads \ {t} : mine[u] = mine[t]}
      BY <1>8, <2>2 DEF Swap
    <3>2. \A b \in Buckets \ {mine[t]} : bucket'[b] = bucket[b]
      BY <3>1
    <3> QED
      BY <2>1, <3>1, <3>2, OthersKeep
  <2>3. CASE bucket[mine[t]].tokens # cur[t]
    <3>1. pc' = [pc EXCEPT ![t] = "load"] /\ raced' = raced \ {t} /\ UNCHANGED bucket
      BY <1>8, <2>3 DEF Swap, Retry
    <3> QED
      BY <2>1, <3>1, OthersKeep
  <2> QED
    BY <2>2, <2>3
<1>9. CASE Grant(t)
  <2>1. /\ Leave(t) /\ bucket' = Collect(Stamped(t), stored, mine')
        /\ mine[t] \in Buckets /\ bucket[mine[t]] \in Bucket
    BY <1>9 DEF Grant
  <2>2. /\ pc' = [pc EXCEPT ![t] = "idle"] /\ mine' = [mine EXCEPT ![t] = None]
        /\ cur' = [cur EXCEPT ![t] = 0] /\ raced' = raced \ {t}
    BY <2>1 DEF Leave
  <2>3. [bucket[mine[t]] EXCEPT !.last = now[t]] \in Bucket
    BY <2>1 DEF Bucket
  <2>4. /\ Stamped(t) \in [Buckets -> Bucket \cup {None}]
        /\ \A b \in Buckets : bucket[b] \in Bucket => Stamped(t)[b].tokens = bucket[b].tokens
    BY <2>1, <2>3 DEF Stamped, Bucket
  <2>5. \A u \in Threads : mine'[u] \in Buckets => bucket'[mine'[u]] = Stamped(t)[mine'[u]]
    BY <2>1, <2>4, CollectType
  <2> QED
    BY <2>2, <2>4, <2>5, OthersKeep
<1> QED
  BY <1>1, <1>2, <1>3, <1>4, <1>5, <1>6, <1>7, <1>8, <1>9 DEF Step

LEMMA NextAttempts == TInv /\ Attempts /\ [Next]_vars => Attempts'
<1> SUFFICES ASSUME TInv, Attempts, [Next]_vars PROVE Attempts'
  OBVIOUS
<1>1. CASE SweepDelete
  <2>1. bucket' = Collect(bucket, None, mine) /\ UNCHANGED <<pc, mine, cur, raced>>
    BY <1>1 DEF SweepDelete, locals
  <2>2. \A u \in Threads : mine[u] \in Buckets => bucket'[mine[u]] = bucket[mine[u]]
    BY <2>1, CollectType DEF TInv, TypeOK
  <2> QED
    BY <2>1, <2>2 DEF Attempts, TInv, References, Active
<1>2. CASE SweepFind \/ Tick \/ UNCHANGED vars
  BY <1>2 DEF SweepFind, Tick, vars, locals, Attempts
<1> QED
  BY <1>1, <1>2, CallAttempts DEF Next

\* TokenBucket.Allow: for any number of calls, an attempt fails only if another
\* call of the bucket was granted its tokens since the last one.
THEOREM RetriesAreEarned == Spec => []RetriesAreProgress
<1>1. Init => TInv /\ Attempts
  BY InitTInv DEF Init, Attempts
<1>2. TInv /\ Attempts /\ [Next]_vars => (TInv /\ Attempts)'
  BY NextTInv, NextAttempts
<1>3. Attempts => RetriesAreProgress
  BY DEF Attempts, RetriesAreProgress
<1> QED
  BY <1>1, <1>2, <1>3, PTL DEF Spec
=============================================================================
