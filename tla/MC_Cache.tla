------------------------------ MODULE MC_Cache ------------------------------
(***************************************************************************)
(* Instances of CacheMiddleware for TLC.  A behaviour either sends         *)
(* requests through the middleware, about two keys at a time, or calls the *)
(* cache directly, with enough keys and bytes to reach both limits of the  *)
(* shard.                                                                  *)
(***************************************************************************)
EXTENDS CacheMiddleware, TLC

VARIABLE mode

MCInit == Init /\ mode \in {"middleware", "direct"}

\* Get, Set, Delete and Clear by the callers of an exported Cache: one of them
\* is in the middle of a Get at any time.
DirectCall ==
  /\ LET c == CHOOSE r \in Requests : TRUE
     IN \/ Shard!ReadBack(c) \/ Shard!Take(c)
        \/ \E k \in Keys :
             \/ Shard!Lookup(c, k)
             \/ Shard!Delete(k)
             \/ \E st \in {"ok", "nostore", "large"} : Store([key |-> k, private |-> FALSE], st)
        \/ Shard!Clear
  /\ UNCHANGED <<now, pc, req, reval, ended, filled>>

MCNext ==
  /\ UNCHANGED mode
  /\ \/ mode = "middleware" /\ Next
     \/ mode = "direct" /\ DirectCall

MCSpec == MCInit /\ [][MCNext]_<<vars, mode>>

KeysInUse == {k \in Keys : \/ entries[k] # None \/ k \in filled
                           \/ \E r \in Requests : k = reval[r] \/ (req[r] # None /\ req[r].key = k)}

CONSTANT KeysAtOnce       \* bound: the keys requested, cached or filled
Bounded == mode = "middleware" => Cardinality(KeysInUse) <= KeysAtOnce

Symmetry == Permutations(Keys) \cup Permutations(Elems)
=============================================================================
