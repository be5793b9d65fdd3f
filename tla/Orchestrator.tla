----------------------------- MODULE Orchestrator -----------------------------
(***************************************************************************)
(* orchestrator.Orchestrator: LoadConfig replaces the handlers of all      *)
(* upstreams under the mutex; a request looks its handler up under the     *)
(* read lock, by a loop over a map in any order, and is served by it later.*)
(* A path or a path prefix is a sequence of letters.                       *)
(***************************************************************************)
EXTENDS Naturals, Sequences, FiniteSets, SequencesExt

CONSTANTS Configs,          \* each a sequence of upstreams, [name, prefix]
          Paths, Requests,
          MaxLoads,         \* bound: how often a configuration is loaded
          None

\* Configurations, prefixes and paths are sequences, and nil is none of the handlers.
OrchestratorAssumption ==
  /\ MaxLoads \in Nat
  /\ None \notin Configs
  /\ \A p \in Paths : p \in Seq(ToSet(p))
  /\ \A c \in Configs :
       /\ c \in Seq(ToSet(c))
       /\ \A u \in ToSet(c) :
            /\ u.prefix \in Seq(ToSet(u.prefix))
            /\ \A n \in 1 .. MaxLoads : None # [load |-> n, upstream |-> u]

VARIABLES config,           \* o.config, or None
          loads,            \* how many were loaded
          handlers,         \* o.handlers: a function of prefixes
          at,               \* at[r]: where the request r stands
          path,             \* path[r]
          handler,          \* handler[r]: the handler found, or None
          reply,            \* reply[r]: whose answer r got, "404" or None
          history           \* history: history[n], the n-th configuration
orchestratorVars == <<config, loads, handlers, at, path, handler, reply, history>>

NoHandlers == [p \in {} |-> None]
Names == {u.name : u \in UNION {ToSet(c) : c \in Configs}}

TypeOK ==
  /\ config \in Configs \cup {None}
  /\ loads \in 0 .. MaxLoads /\ Len(history) = loads
  /\ \A p \in DOMAIN handlers : handlers[p].load = loads /\ handlers[p].upstream.name \in Names
  /\ at \in [Requests -> {"idle", "begun", "found", "done"}]
  /\ path \in [Requests -> Paths]
  /\ reply \in [Requests -> Names \cup {"404", None}]

Init ==
  /\ config = None /\ loads = 0 /\ history = <<>>
  /\ handlers = NoHandlers
  /\ at = [r \in Requests |-> "idle"]
  /\ path \in [Requests -> Paths]
  /\ handler = [r \in Requests |-> None]
  /\ reply = [r \in Requests |-> None]

-----------------------------------------------------------------------------
\* buildHandlers: one handler per prefix, in the order of the upstreams.
Built(c, load) ==
  FoldLeft(LAMBDA h, u : [p \in DOMAIN h \cup {u.prefix} |->
                            IF p = u.prefix THEN [load |-> load, upstream |-> u] ELSE h[p]],
           NoHandlers, c)

\* Mutant: the handlers of the old configuration stay in the map.
BuiltOver(c, load) ==
  [p \in DOMAIN handlers \cup DOMAIN Built(c, load) |->
     IF p \in DOMAIN Built(c, load) THEN Built(c, load)[p] ELSE [handlers[p] EXCEPT !.load = load]]

Rebuilt(c, load) == Built(c, load)

\* (A nil configuration is refused and changes nothing.)
LoadConfig(c) ==
  /\ loads < MaxLoads
  /\ loads' = loads + 1
  /\ config' = c
  /\ history' = Append(history, c)
  /\ handlers' = Rebuilt(c, loads + 1)
  /\ UNCHANGED <<at, path, handler, reply>>

-----------------------------------------------------------------------------
\* findHandler, with the map in the given order; an empty prefix is never better
\* than no match.
FindHandler(order, p) ==
  LET best == FoldLeft(LAMBDA b, prefix :
                         IF IsPrefix(prefix, p) /\ Len(prefix) > Len(b) THEN prefix ELSE b,
                       <<>>, order)
  IN IF best = <<>> THEN None ELSE handlers[best]

Arrive(r) ==
  /\ at[r] = "idle"
  /\ at' = [at EXCEPT ![r] = "begun"]
  /\ UNCHANGED <<config, loads, handlers, path, handler, reply, history>>

\* ServeHTTP finds the handler under the read lock; 404 if there is none.
Find(r) ==
  /\ at[r] = "begun"
  /\ \E order \in SetToSeqs(DOMAIN handlers) :
       LET h == FindHandler(order, path[r])
       IN /\ handler' = [handler EXCEPT ![r] = h]
          /\ at' = [at EXCEPT ![r] = IF h = None THEN "done" ELSE "found"]
          /\ reply' = [reply EXCEPT ![r] = IF h = None THEN "404" ELSE None]
  /\ UNCHANGED <<config, loads, handlers, path, history>>

\* The handler proxies to the upstream it was built for.
Serve(r) ==
  /\ at[r] = "found"
  /\ at' = [at EXCEPT ![r] = "done"]
  /\ reply' = [reply EXCEPT ![r] = handler[r].upstream.name]
  /\ UNCHANGED <<config, loads, handlers, path, handler, history>>

AllServed ==
  /\ \A r \in Requests : at[r] = "done"
  /\ loads = MaxLoads
  /\ UNCHANGED orchestratorVars

Next ==
  \/ \E c \in Configs : LoadConfig(c)
  \/ \E r \in Requests : Arrive(r) \/ Find(r) \/ Serve(r)
  \/ AllServed

Spec == Init /\ [][Next]_orchestratorVars

-----------------------------------------------------------------------------
(* What is claimed *)

\* The upstreams of c that a request for p may go to: those of the longest matching
\* prefix, of which the last one counts.
Target(c, p) ==
  LET fits == {i \in DOMAIN c : c[i].prefix # <<>> /\ IsPrefix(c[i].prefix, p)}
      best == {i \in fits : \A j \in fits : Len(c[j].prefix) <= Len(c[i].prefix)}
  IN IF fits = {} THEN "404" ELSE c[CHOOSE i \in best : \A j \in best : j <= i].name

\* A request that is looked up now finds what the current configuration says, in
\* whatever order the map is gone through, although the map was built upstream by
\* upstream; and a reply comes from one of the configurations there were, the one
\* that the handler was built for.
RequestsMeetOneConfig ==
  /\ config # None => \A r \in Requests, order \in SetToSeqs(DOMAIN handlers) :
       LET h == FindHandler(order, path[r])
       IN Target(config, path[r]) = IF h = None THEN "404" ELSE h.upstream.name
  /\ \A r \in Requests : at[r] = "done" /\ handler[r] # None =>
       reply[r] = Target(history[handler[r].load], path[r])
=============================================================================
