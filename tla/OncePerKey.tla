----------------------------- MODULE OncePerKey -----------------------------
(***************************************************************************)
(* What a registry that makes its objects on first use promises: a call    *)
(* returns the one object of its key, whoever made it, and a new object is *)
(* made only if there was none, or it was taken out.                       *)
(***************************************************************************)
CONSTANTS Keys, Objects, Callers, None

VARIABLES object,           \* object[k]: the object of key k, or None
          got               \* got[c]: what caller c's call has returned, or None
contractVars == <<object, got>>

Init ==
  /\ object = [k \in Keys |-> None]
  /\ got = [c \in Callers |-> None]

\* At one instant, c's call returns the object of k, or makes it.
Obtain(c, k, o) ==
  /\ object[k] \in {o, None}
  /\ object' = [object EXCEPT ![k] = o]
  /\ got' = [got EXCEPT ![c] = o]
  /\ object[k] = None => \A j \in Keys, d \in Callers : object[j] # o /\ got[d] # o

\* c forgets what it got, and may call again.
Release(c) ==
  /\ got' = [got EXCEPT ![c] = None]
  /\ UNCHANGED object

TakeOut(S) ==
  /\ object' = [k \in Keys |-> IF k \in S THEN None ELSE object[k]]
  /\ UNCHANGED got

Next ==
  \/ \E c \in Callers :
       Release(c) \/ \E k \in Keys, o \in Objects : Obtain(c, k, o)
  \/ \E S \in SUBSET Keys : TakeOut(S)

Spec == Init /\ [][Next]_contractVars
=============================================================================
