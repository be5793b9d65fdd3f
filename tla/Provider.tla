------------------------------ MODULE Provider ------------------------------
(***************************************************************************)
(* openapi.Provider: specifications of upstreams by name, each with a      *)
(* goroutine that refreshes it on a ticker until its stopChan is closed.   *)
(* Everything but the loop's select runs under the provider's mutex, the   *)
(* loading included.                                                       *)
(***************************************************************************)
EXTENDS Naturals

CONSTANTS Upstreams,        \* names of upstreams
          Sources,          \* where documents are loaded from
          Versions,         \* of the document at a source
          MaxRegistrations, \* bound: how often an upstream is registered
          None

Objects == 1 .. MaxRegistrations    \* the UpstreamSpecs, in order of registration

\* Assumed by the modules that instantiate this one.
ProviderAssumption ==
  /\ MaxRegistrations \in Nat
  /\ None \notin Objects

VARIABLES document,         \* document[src], None if it fails to load
          specs,            \* p.specs, an object or None
          made,             \* how many objects there are
          name,             \* name[o]: the upstream o was made for
          source,           \* source[o]: o's source
          spec,             \* spec[o]: o's document, or None
          stopped,          \* the objects whose stopChan is closed
          loop,             \* loop[o]: o's refresh goroutine
          panicked          \* was a closed channel closed again?
providerVars == <<document, specs, made, name, source, spec, stopped, loop, panicked>>

\* A document tells which source it was loaded from.
Document == [at : Sources, version : Versions]

TypeOK ==
  /\ document \in [Sources -> Document \cup {None}]
  /\ specs \in [Upstreams -> Objects \cup {None}]
  /\ made \in 0 .. MaxRegistrations
  /\ name \in [Objects -> Upstreams \cup {None}]
  /\ source \in [Objects -> Sources \cup {None}]
  /\ spec \in [Objects -> Document \cup {None}]
  /\ stopped \subseteq Objects
  /\ loop \in [Objects -> {"off", "wait", "refresh", "ended"}]
  /\ panicked \in BOOLEAN

Init ==
  /\ document = [src \in Sources |-> None]
  /\ specs = [n \in Upstreams |-> None]
  /\ made = 0
  /\ name = [o \in Objects |-> None]
  /\ source = [o \in Objects |-> None]
  /\ spec = [o \in Objects |-> None]
  /\ stopped = {}
  /\ loop = [o \in Objects |-> "off"]
  /\ panicked = FALSE

-----------------------------------------------------------------------------
\* Mutant: the result of a failing load is assigned all the same.
LoadedAnyway(old, src) == document[src]

\* loadSpec: a load that fails keeps what was there.
Loaded(old, src) == IF document[src] = None THEN old ELSE document[src]

\* RegisterUpstream; a first load that fails is only logged, a name in use is
\* refused.  (AutoRefresh is on, as in the default options.)
RegisterUpstream(n, src) ==
  LET o == made + 1
  IN /\ made < MaxRegistrations
     /\ specs[n] = None
     /\ made' = o
     /\ specs' = [specs EXCEPT ![n] = o]
     /\ name' = [name EXCEPT ![o] = n]
     /\ source' = [source EXCEPT ![o] = src]
     /\ spec' = [spec EXCEPT ![o] = Loaded(None, src)]
     /\ loop' = [loop EXCEPT ![o] = "wait"]
     /\ UNCHANGED <<document, stopped, panicked>>

\* Closing the stop channels of the objects in S.
CloseAll(S) ==
  /\ stopped' = stopped \cup S
  /\ panicked' = (panicked \/ S \cap stopped # {})

UnregisterUpstream(n) ==
  /\ specs[n] # None
  /\ CloseAll({specs[n]})
  /\ specs' = [specs EXCEPT ![n] = None]
  /\ UNCHANGED <<document, made, name, source, spec, loop>>

\* Mutant: Shutdown leaves the map as it is.
ShutdownKeepsMap ==
  /\ CloseAll({specs[n] : n \in Upstreams} \ {None})
  /\ UNCHANGED <<document, specs, made, name, source, spec, loop>>

Shutdown ==
  /\ CloseAll({specs[n] : n \in Upstreams} \ {None})
  /\ specs' = [n \in Upstreams |-> None]
  /\ UNCHANGED <<document, made, name, source, spec, loop>>

-----------------------------------------------------------------------------
(* refreshLoop *)

\* RefreshSpec, also called by hand: the name is looked up again, so that a
\* loop may refresh an object that was registered after its own.
RefreshSpec(n) ==
  spec' = IF specs[n] = None
            THEN spec
            ELSE [spec EXCEPT ![specs[n]] = Loaded(@, source[specs[n]])]

RefreshByHand(n) ==
  /\ RefreshSpec(n)
  /\ UNCHANGED <<document, specs, made, name, source, stopped, loop, panicked>>

\* The select takes a tick; when the channel is closed too it may take either.
TickTaken(o) ==
  /\ loop[o] = "wait"
  /\ loop' = [loop EXCEPT ![o] = "refresh"]
  /\ UNCHANGED <<document, specs, made, name, source, spec, stopped, panicked>>

\* Mutant: a loop whose refresh fails ends.
AfterRefreshEnds(o) ==
  IF specs[name[o]] = None \/ document[source[o]] = None THEN "ended" ELSE "wait"

AfterRefresh(o) == "wait"

LoopRefreshes(o) ==
  /\ loop[o] = "refresh"
  /\ RefreshSpec(name[o])
  /\ loop' = [loop EXCEPT ![o] = AfterRefresh(o)]
  /\ UNCHANGED <<document, specs, made, name, source, stopped, panicked>>

LoopEnds(o) ==
  /\ loop[o] = "wait"
  /\ o \in stopped
  /\ loop' = [loop EXCEPT ![o] = "ended"]
  /\ UNCHANGED <<document, specs, made, name, source, spec, stopped, panicked>>

\* The document at a source is edited, or cannot be loaded.
SourceChanges(src) ==
  /\ \/ \E v \in Versions : document' = [document EXCEPT ![src] = [at |-> src, version |-> v]]
     \/ document' = [document EXCEPT ![src] = None]
  /\ UNCHANGED <<specs, made, name, source, spec, stopped, loop, panicked>>

Loop(o) == LoopRefreshes(o) \/ TickTaken(o) \/ LoopEnds(o)

Next ==
  \/ \E n \in Upstreams : UnregisterUpstream(n) \/ RefreshByHand(n)
  \/ \E n \in Upstreams, src \in Sources : RegisterUpstream(n, src)
  \/ Shutdown
  \/ \E o \in Objects : TickTaken(o) \/ LoopRefreshes(o) \/ LoopEnds(o)
  \/ \E src \in Sources : SourceChanges(src)

\* Tickers tick and loads end; a select that is offered the closed channel again
\* and again takes it at some time.
Fairness ==
  \A o \in Objects : WF_providerVars(TickTaken(o) \/ LoopRefreshes(o)) /\ SF_providerVars(LoopEnds(o))

Spec == Init /\ [][Next]_providerVars /\ Fairness

-----------------------------------------------------------------------------
(* What is claimed *)

\* An upstream that has a specification keeps one through failing refreshes, and
\* it came from the upstream's own source, also when a loop of an earlier
\* registration refreshes it; no stop channel is closed twice.
KeepsSpec ==
  /\ [][\A o \in Objects : spec[o] # None => spec'[o] # None]_providerVars
  /\ [](\A o \in Objects : spec[o] # None => spec[o].at = source[o])
  /\ [](~panicked)

\* While an upstream stays registered it follows its source, and the loop of one
\* that was unregistered ends, whatever is registered under its name later.
RefreshesUntilUnregistered ==
  \A o \in Objects :
    /\ o \in stopped ~> loop[o] = "ended"
    /\ \A src \in Sources, v \in Versions :
         <>[](/\ \E n \in Upstreams : specs[n] = o
              /\ source[o] = src
              /\ document[src] = [at |-> src, version |-> v])
           => <>[](spec[o] # None /\ spec[o].version = v)
=============================================================================
