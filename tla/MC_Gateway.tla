----------------------------- MODULE MC_Gateway -----------------------------
(***************************************************************************)
(* Small instances, for TLC, of components that one request passes through *)
(* or that are built once and used by many: retries, the orchestrator, the *)
(* registries of breakers and of loaders, the MCP server with its tools,   *)
(* and the metrics.  A behaviour is one of `focus'; the others stay as     *)
(* they begin.                                                             *)
(***************************************************************************)
EXTENDS Integers, Sequences

CONSTANTS None,
          MaxRetries, BaseDelay, MaxDelay, Multiplier, Body,        \* Retry
          Requests, Configs, Paths, MaxLoads,                       \* Orchestrator
          Keys, Upstreams, UpstreamOf, Callers, MaxBreakers, MaxLoaders,    \* the registries
          Operations, BaseName, Excluded, Builders, MaxLen, MaxBuilds, Numeral, \* ToolRegistry
          Methods, Connections, Bodies,                             \* RPCServer
          Registries,                                               \* TypeRegistry
          Labels, Labelings, Scrapes, RankOf, Buckets               \* Metrics

VARIABLES focus,
          pc, attempt, delay, body, lastErr, lastResp, result, cancelled, offered, answers,
          config, loads, handlers, at, path, handler, reply, history,
          breakers, breakersMade, breakerStep, breakerKey, breakerHeld,
          registered, providers, loaders, made, stopped, step, key, held,
          tools, used, generated, op, name, builds, expected, overtaken,
          methods, rpcAt, rpcBody, next, running, responses, answer, absent,
          types, readers, writer, call, seen,
          label, values, amount, stage, lookup, object, bucket, scrape, during

retryVars == <<pc, attempt, delay, body, lastErr, lastResp, result, cancelled, offered, answers>>
orchestratorVars == <<config, loads, handlers, at, path, handler, reply, history>>
storeVars == <<breakers, breakersMade, breakerStep, breakerKey, breakerHeld>>
loaderVars == <<registered, providers, loaders, made, stopped, step, key, held>>
toolVars == <<tools, used, generated, op, name, builds, expected, overtaken>>
rpcVars == <<methods, rpcAt, rpcBody, next, running, responses, answer, absent>>
typeVars == <<types, readers, writer, call, seen>>
metricVars == <<label, values, amount, stage, lookup, object, bucket, scrape, during>>
vars == <<focus, retryVars, orchestratorVars, storeVars, loaderVars, toolVars, rpcVars, typeVars,
          metricVars>>

-----------------------------------------------------------------------------
(* The values of constants in the instance that TLC checks *)

TheBody == <<1, 2>>

\* Prefixes that contain each other, a repeated one, the empty one and none at all.
Up(n, p) == [name |-> n, prefix |-> p]
Configurations ==
  { <<Up("u", <<"a">>), Up("v", <<"a", "b">>)>>,
    <<Up("v", <<"a">>), Up("u", <<"a">>), Up("w", <<>>)>>,
    <<Up("u", <<"b">>), Up("w", <<"a", "b", "c">>)>>,
    <<>> }
AllPaths == {<<"a">>, <<"a", "b", "d">>, <<"a", "b", "c">>, <<"c">>}

\* Keys are fields of the upstreams "u" and "v".
UpstreamOfKey == [k \in Keys |-> IF k = CHOOSE j \in Keys : TRUE THEN "u" ELSE "v"]

\* Names that are equal, that look like a name with a count, and that are cut, to one with
\* a count of two digits too.
Base == [o1 |-> <<"a", "b">>, o2 |-> <<"a", "b">>, o3 |-> <<"a", "b", "_", "1">>,
         o4 |-> <<"a", "_", "1", "0", "c">>, o5 |-> <<"a", "b", "c", "_", "d">>]

\* Counts are written with the digits 0 and 1, so that few tools need counts of two lengths.
Bit(n) == IF n = 0 THEN "0" ELSE "1"
Binary[n \in Nat] == IF n < 2 THEN <<Bit(n)>> ELSE Append(Binary[n \div 2], Bit(n % 2))
Binaries == [c \in 1 .. MaxBuilds |-> Binary[c]]

Asked == [id |-> 1, method |-> "m1", version |-> TRUE]
Posted ==
  LET B(es) == [kind |-> "batch", elements |-> es]
      S(e) == [kind |-> "single", elements |-> <<e>>]
      Note == [Asked EXCEPT !.id = None]
      Nil == [method |-> "null"]
  IN { [kind |-> "garbage", elements |-> <<>>],
       B(<<>>), B(<<Note>>), B(<<Nil>>),
       B(<<Asked, Nil, [Asked EXCEPT !.id = 2, !.method = "m2"]>>),
       B(<<Note, [Asked EXCEPT !.version = FALSE], [Asked EXCEPT !.method = "m2"]>>),
       S(Asked), S(Note), S([Asked EXCEPT !.method = ""]) }

\* Requests of one label, or of labels of their own; the first takes less time than others.
First(S) == CHOOSE x \in S : TRUE
Alike == [r \in Requests |-> First(Labels)]
Apart == [Alike EXCEPT ![First(Requests)] = First(Labels \ {First(Labels)})]
AlikeOrApart == {Alike, Apart}
Rank == [r \in Requests |-> IF r = First(Requests) THEN 1 ELSE 2]

-----------------------------------------------------------------------------
Retries == INSTANCE Retry
Routes == INSTANCE Orchestrator
Breakers == INSTANCE BreakerStore WITH made <- breakersMade, step <- breakerStep,
              key <- breakerKey, held <- breakerHeld
Loaders == INSTANCE LoaderRegistry
Tools == INSTANCE ToolRegistry
RPC == INSTANCE RPCServer WITH handlers <- methods, at <- rpcAt, body <- rpcBody
SchemaTypes == INSTANCE TypeRegistry
Numbers == INSTANCE Metrics WITH next <- bucket

ASSUME RetryNumbers == Retries!RetryAssumption /\ Retries!BodyAssumption
ASSUME RouteNames == Routes!OrchestratorAssumption
ASSUME BreakerNone == Breakers!StoreAssumption
ASSUME LoaderNone == Loaders!LoaderAssumption
ASSUME ToolNames == Tools!ToolAssumption
ASSUME BodiesAreBodies == RPC!BodiesAssumption
ASSUME TypesNone == SchemaTypes!NoneAssumption
ASSUME MetricNumbers == Numbers!MetricsAssumption

Init ==
  /\ focus \in {"retry", "routes", "breakers", "loaders", "tools", "rpc", "types", "metrics"}
  /\ Retries!Init /\ Routes!Init /\ Breakers!Init /\ Loaders!Init /\ Tools!Init /\ RPC!Init
  /\ SchemaTypes!Init /\ Numbers!Init
  \* What the other services begin with does not matter.
  /\ focus # "retry" => body = None
  /\ focus # "routes" => path = [r \in Requests |-> First(Paths)]
  /\ focus # "rpc" => methods = {}
  /\ focus # "types" => types = [r \in Registries |-> None]
  /\ focus # "metrics" => label = First(Labelings)

Next ==
  /\ UNCHANGED focus
  /\ \/ /\ focus = "retry" /\ Retries!Next
        /\ UNCHANGED <<orchestratorVars, storeVars, loaderVars, toolVars, rpcVars, typeVars, metricVars>>
     \/ /\ focus = "routes" /\ Routes!Next
        /\ UNCHANGED <<retryVars, storeVars, loaderVars, toolVars, rpcVars, typeVars, metricVars>>
     \/ /\ focus = "breakers" /\ Breakers!Next
        /\ UNCHANGED <<retryVars, orchestratorVars, loaderVars, toolVars, rpcVars, typeVars, metricVars>>
     \/ /\ focus = "loaders" /\ Loaders!Next
        /\ UNCHANGED <<retryVars, orchestratorVars, storeVars, toolVars, rpcVars, typeVars, metricVars>>
     \/ /\ focus = "tools" /\ Tools!Next
        /\ UNCHANGED <<retryVars, orchestratorVars, storeVars, loaderVars, rpcVars, typeVars, metricVars>>
     \/ /\ focus = "rpc" /\ RPC!Next
        /\ UNCHANGED <<retryVars, orchestratorVars, storeVars, loaderVars, toolVars, typeVars, metricVars>>
     \/ /\ focus = "metrics" /\ Numbers!Next
        /\ UNCHANGED <<retryVars, orchestratorVars, storeVars, loaderVars, toolVars, rpcVars, typeVars>>
     \/ /\ focus = "types" /\ SchemaTypes!Next
        /\ UNCHANGED <<retryVars, orchestratorVars, storeVars, loaderVars, toolVars, rpcVars, metricVars>>

\* A request goes on, and the client of a scrape takes what is written.
Fairness ==
  /\ \A r \in Requests : WF_metricVars(focus = "metrics" /\ Numbers!Middleware(r))
  /\ \A s \in Scrapes : WF_metricVars(focus = "metrics" /\ Numbers!Writes(s))

Spec == Init /\ [][Next]_vars /\ Fairness

-----------------------------------------------------------------------------
(* The properties of the components, under one name each *)

\* Every attempt carries the whole body; the outcome is that of the last attempt.
RetriesAreWhole == Retries!RetriesAreWhole

\* A request is routed by one configuration, to the longest prefix that matches.
RequestsMeetOneConfig == Routes!RequestsMeetOneConfig

\* One breaker per key and one loader per key, until they are taken out; the loaders
\* taken out are stopped; merges of type registries read what does not change, and nobody
\* waits for ever unless merges lead from a registry back to it.
RegistriesAgree ==
  /\ Breakers!OneBreakerPerKey /\ Loaders!OneLoaderPerKey /\ []Loaders!LoadersAreStopped
  /\ [](SchemaTypes!ReadsAreStable /\ SchemaTypes!OnlyCyclesAreStuck)

\* No tool replaces another one, unless a Clear came in between.
ToolsAreKept == Tools!ToolsAreKept

\* Every element of a batch but a notification is answered, in order.
BatchesAreAnswered == RPC!BatchesAreAnswered

\* What requests do is counted once, in the numbers that scrapes show, and a scrape shows a
\* cumulative histogram, but for the requests that overlap it.
MetricsAreTrue == Numbers!NothingIsLost /\ Numbers!ScrapesAreCumulative

\* A request leaves the middleware of the metrics once its handler has returned, whatever
\* else is counted or scraped.
RequestsLeave == focus = "metrics" => Numbers!RequestsLeave
=============================================================================
