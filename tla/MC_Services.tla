----------------------------- MODULE MC_Services -----------------------------
(***************************************************************************)
(* Small instances of four services that do not call each other, for TLC:  *)
(* the health checker, the OpenAPI provider, the event-stream sessions of  *)
(* MCP and the subscription handler.  A behaviour is one of `focus'; the   *)
(* other services stay in their initial states.                            *)
(***************************************************************************)
EXTENDS Naturals

CONSTANTS None,
          Names, Checkers,                                          \* HealthChecker
          Upstreams, Sources, Versions, MaxRegistrations,           \* Provider
          Sessions, Broadcasts, QueueSize,                          \* SSETransport
          Requests, Ids, Capacity                                   \* Subscription

VARIABLES focus,
          checks, cache, fresh, running, results, overtaken,
          document, specs, made, name, source, spec, stopped, loop, panicked,
          session, sessions, messages, sent, call, todo, aimed, earlier,
          handler, activeSubs, subID, cancelled, ended, reader, reads, events,
          written, completed, interrupted, shared

healthVars == <<checks, cache, fresh, running, results, overtaken>>
providerVars == <<document, specs, made, name, source, spec, stopped, loop, panicked>>
sseVars == <<session, sessions, messages, sent, call, todo, aimed, earlier>>
subVars == <<handler, activeSubs, subID, cancelled, ended, reader, reads, events,
             written, completed, interrupted, shared>>
vars == <<focus, healthVars, providerVars, sseVars, subVars>>

\* One upstream sends two events, the others none.
EventsOf == [r \in Requests |-> IF r = CHOOSE q \in Requests : TRUE THEN 2 ELSE 0]

Health == INSTANCE HealthChecker
OpenAPI == INSTANCE Provider
SSE == INSTANCE SSETransport WITH handler <- session, written <- sent
Sub == INSTANCE Subscription WITH MaxEvents <- EventsOf

ASSUME HealthNone == Health!HealthAssumption
ASSUME OpenAPINone == OpenAPI!ProviderAssumption
ASSUME SSENumber == SSE!SSEAssumption
ASSUME SubscriptionNone == Sub!SubscriptionAssumption

Init ==
  /\ focus \in {"health", "openapi", "sse", "subscription"}
  /\ Health!Init /\ OpenAPI!Init /\ SSE!Init /\ Sub!Init

Next ==
  /\ UNCHANGED focus
  /\ \/ /\ focus = "health" /\ Health!Next
        /\ UNCHANGED <<providerVars, sseVars, subVars>>
     \/ /\ focus = "openapi" /\ OpenAPI!Next
        /\ UNCHANGED <<healthVars, sseVars, subVars>>
     \/ /\ focus = "sse" /\ SSE!Next
        /\ UNCHANGED <<healthVars, providerVars, subVars>>
     \/ /\ focus = "subscription" /\ Sub!Next
        /\ UNCHANGED <<healthVars, providerVars, sseVars>>

\* The fairness of each service, in its own behaviours.
Fairness ==
  /\ \A o \in OpenAPI!Objects :
       /\ WF_providerVars(focus = "openapi" /\ (OpenAPI!TickTaken(o) \/ OpenAPI!LoopRefreshes(o)))
       /\ SF_providerVars(focus = "openapi" /\ OpenAPI!LoopEnds(o))
  /\ \A b \in Broadcasts :
       WF_sseVars(focus = "sse" /\ (SSE!BroadcastSends(b) \/ SSE!BroadcastEnds(b)))
  /\ \A r \in Requests :
       /\ WF_subVars(focus = "subscription" /\ Sub!HandlerRuns(r))
       /\ WF_subVars(focus = "subscription" /\ (Sub!SendEvent(r) \/ Sub!ReaderEnds(r)))

Spec == Init /\ [][Next]_vars /\ Fairness

-----------------------------------------------------------------------------
(* The properties of the services, under one name each *)

\* A cached health response tells of the registered checks, unless a registration
\* overtook the Check that made it, and its status is the worst of its results.
HealthIsTruthful == Health!CacheCoversChecks /\ Health!StatusIsWorst

\* A loaded specification survives failing refreshes and is the upstream's own;
\* no stop channel is closed twice.
KeepsSpec == OpenAPI!KeepsSpec

\* Sessions get broadcast messages once, in order, and lose none but to a full queue.
\* Subscription events reach the client in order, without a gap, and all of them before
\* "complete"; Close reaches every stream, as long as the ids of streams differ.
StreamsAreFaithful == SSE!SessionsKeepOrder /\ Sub!EventsComplete /\ Sub!StreamsTracked

\* A registered upstream follows its source, and the loop of an unregistered one ends.
\* A slow or vanished session holds no broadcast up.  A stream that is cancelled or over
\* leaves no goroutine behind.
ServicesGoOn == OpenAPI!RefreshesUntilUnregistered /\ SSE!BroadcastsReturn /\ Sub!StreamsEnd
=============================================================================
