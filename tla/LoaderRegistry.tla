---------------------------- MODULE LoaderRegistry ----------------------------
(***************************************************************************)
(* schema.DataLoaderFactory and the RequestDataLoaders of one request: the *)
(* request copies the providers when it begins, makes a DataLoader for an  *)
(* upstream and field on first use, and stops them all at its end.         *)
(***************************************************************************)
EXTENDS Naturals

CONSTANTS Keys,             \* upstream:field
          Upstreams, UpstreamOf,
          Callers, MaxLoaders, None

Loaders == 1 .. MaxLoaders          \* in the order they are made; a bound
LoaderAssumption == MaxLoaders \in Nat /\ None \notin Loaders

VARIABLES registered,       \* f.providers of the factory
          providers,        \* r.providers, or None before CreateForRequest
          loaders,          \* r.loaders: a loader by key, or None
          made, stopped,
          step, key, held   \* of each GetLoader: where it stands, its key, its loader
loaderVars == <<registered, providers, loaders, made, stopped, step, key, held>>

TypeOK ==
  /\ registered \subseteq Upstreams
  /\ providers = None \/ providers \subseteq Upstreams
  /\ loaders \in [Keys -> Loaders \cup {None}]
  /\ made \in 0 .. MaxLoaders
  /\ stopped \subseteq Loaders
  /\ step \in [Callers -> {"idle", "begun", "missed", "refused", "holds"}]
  /\ key \in [Callers -> Keys]
  /\ held \in [Callers -> Loaders \cup {None}]

Init ==
  /\ registered = {} /\ providers = None
  /\ loaders = [k \in Keys |-> None]
  /\ made = 0 /\ stopped = {}
  /\ step = [c \in Callers |-> "idle"]
  /\ key = [c \in Callers |-> CHOOSE k \in Keys : TRUE]
  /\ held = [c \in Callers |-> None]

RegisterProvider(u) ==
  /\ registered' = registered \cup {u}
  /\ UNCHANGED <<providers, loaders, made, stopped, step, key, held>>

CreateForRequest ==
  /\ providers = None
  /\ providers' = registered
  /\ UNCHANGED <<registered, loaders, made, stopped, step, key, held>>

-----------------------------------------------------------------------------
(* GetLoader *)

Begin(c, k) ==
  /\ providers # None
  /\ step[c] = "idle"
  /\ step' = [step EXCEPT ![c] = "begun"]
  /\ key' = [key EXCEPT ![c] = k]
  /\ UNCHANGED <<registered, providers, loaders, made, stopped, held>>

Takes(c, l) ==
  /\ step' = [step EXCEPT ![c] = "holds"]
  /\ held' = [held EXCEPT ![c] = l]

\* The look-up under the read lock.
Find(c) ==
  /\ step[c] = "begun"
  /\ loaders[key[c]] # None
  /\ Takes(c, loaders[key[c]])
  /\ UNCHANGED <<registered, providers, loaders, made, stopped, key>>

Miss(c) ==
  /\ step[c] = "begun"
  /\ loaders[key[c]] = None
  /\ step' = [step EXCEPT ![c] = "missed"]
  /\ UNCHANGED <<registered, providers, loaders, made, stopped, key, held>>

\* Under the write lock: it was made meanwhile; or the upstream has no provider, or its
\* provider no batch function for the field; or it is made.
FindLate(c) ==
  /\ step[c] = "missed"
  /\ loaders[key[c]] # None
  /\ Takes(c, loaders[key[c]])
  /\ UNCHANGED <<registered, providers, loaders, made, stopped, key>>

Refuse(c) ==
  /\ step[c] = "missed"
  /\ loaders[key[c]] = None
  /\ step' = [step EXCEPT ![c] = "refused"]
  /\ UNCHANGED <<registered, providers, loaders, made, stopped, key, held>>

Make(c) ==
  /\ step[c] = "missed"
  /\ loaders[key[c]] = None
  /\ UpstreamOf[key[c]] \in providers
  /\ made < MaxLoaders
  /\ made' = made + 1
  /\ loaders' = [loaders EXCEPT ![key[c]] = made + 1]
  /\ Takes(c, made + 1)
  /\ UNCHANGED <<registered, providers, stopped, key>>

\* The caller is done with the loader.
Finish(c) ==
  /\ step[c] \in {"holds", "refused"}
  /\ step' = [step EXCEPT ![c] = "idle"]
  /\ held' = [held EXCEPT ![c] = None]
  /\ UNCHANGED <<registered, providers, loaders, made, stopped, key>>

Stop ==
  /\ providers # None
  /\ stopped' = stopped \cup ({loaders[k] : k \in Keys} \ {None})
  /\ loaders' = [k \in Keys |-> None]
  /\ UNCHANGED <<registered, providers, made, step, key, held>>

Next ==
  \/ \E u \in Upstreams : RegisterProvider(u)
  \/ CreateForRequest \/ Stop
  \/ \E c \in Callers :
       \/ \E k \in Keys : Begin(c, k)
       \/ Find(c) \/ Miss(c) \/ FindLate(c) \/ Refuse(c) \/ Make(c) \/ Finish(c)

Spec == Init /\ [][Next]_loaderVars

-----------------------------------------------------------------------------
(* What is claimed *)

Contract == INSTANCE OncePerKey WITH Objects <- Loaders, object <- loaders, got <- held

\* Loads of one field meet in one loader, or they would not be batched.
OneLoaderPerKey == Contract!Spec

\* A loader is stopped exactly if it is no longer in the map: Stop forgets none, whoever
\* was about to make one, and GetLoader, which looks into the map, returns none that
\* was stopped before.
LoadersAreStopped ==
  \A l \in 1 .. made : l \in stopped <=> \A k \in Keys : loaders[k] # l
=============================================================================
