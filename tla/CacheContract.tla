---------------------------- MODULE CacheContract ----------------------------
(***************************************************************************)
(* What a caller may expect of the response cache: a map from keys to      *)
(* values.  A Put stores its value, and may make the map forget other      *)
(* keys, never its own; what is not being put is forgotten by a Forget of  *)
(* the key or by ForgetAll alone.                                          *)
(* A Get takes time.  If it finds its key it returns a value that was the  *)
(* key's value at some moment between its begin and its end.               *)
(***************************************************************************)
CONSTANTS Keys, Values, Callers, None

VARIABLES map,        \* map[k]: the value of k, or None
          last,       \* the last Put, or None after a Forget
          asked,      \* asked[c]: the key of c's Get under way, or None
          seen,       \* seen[c]: the values of that key since c's Get began
          got         \* got[c]: what c's last Get returned, while c has it

vars == <<map, last, asked, seen, got>>

Init ==
  /\ map = [k \in Keys |-> None]
  /\ last = None
  /\ asked = [c \in Callers |-> None]
  /\ seen = [c \in Callers |-> {}]
  /\ got = [c \in Callers |-> None]

\* The map changes; the Gets under way may return the new values too.
Noticed ==
  seen' = [c \in Callers |->
             IF asked[c] # None /\ map'[asked[c]] # None
               THEN seen[c] \cup {map'[asked[c]]}
               ELSE seen[c]]

\* `last' names the Put, so that none passes for a Forget of its own key: in
\* every state the key of `last' has its value.
Put(k, v) ==
  /\ last' = [key |-> k, value |-> v]
  /\ map' \in [Keys -> Values \cup {None}]
  /\ map'[k] = v
  /\ \A j \in Keys \ {k} : map'[j] \in {map[j], None}
  /\ Noticed
  /\ UNCHANGED <<asked, got>>

Forget(k) ==
  /\ last' = None
  /\ map' = [map EXCEPT ![k] = None]
  /\ UNCHANGED <<asked, seen, got>>

ForgetAll ==
  /\ last' = None
  /\ map' = [k \in Keys |-> None]
  /\ UNCHANGED <<asked, seen, got>>

Miss(c, k) ==
  /\ asked[c] = None
  /\ map[k] = None
  /\ got' = [got EXCEPT ![c] = None]
  /\ UNCHANGED <<map, last, asked, seen>>

Find(c, k) ==
  /\ asked[c] = None
  /\ map[k] # None
  /\ asked' = [asked EXCEPT ![c] = k]
  /\ seen' = [seen EXCEPT ![c] = {map[k]}]
  /\ UNCHANGED <<map, last, got>>

Return(c) ==
  /\ asked[c] # None
  /\ \E v \in seen[c] : got' = [got EXCEPT ![c] = v]
  /\ asked' = [asked EXCEPT ![c] = None]
  /\ seen' = [seen EXCEPT ![c] = {}]
  /\ UNCHANGED <<map, last>>

\* The caller is done with what its Get returned.
Take(c) ==
  /\ got' = [got EXCEPT ![c] = None]
  /\ UNCHANGED <<map, last, asked, seen>>

Next ==
  \/ \E k \in Keys : Forget(k) \/ \E v \in Values : Put(k, v)
  \/ ForgetAll
  \/ \E c \in Callers : Return(c) \/ Take(c) \/ \E k \in Keys : Miss(c, k) \/ Find(c, k)

Spec == Init /\ [][Next]_vars
=============================================================================
