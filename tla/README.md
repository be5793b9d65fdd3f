# TentaServe in TLA+

TentaServe is an API gateway in Go: it serves REST upstreams as GraphQL and
GraphQL upstreams as REST, with a response cache, circuit breakers, rate limits,
authentication, health checks, configuration reload and an MCP endpoint. These
modules model two kinds of code. Where correctness depends on the order in which
goroutines, timers, requests and failures meet, a module is a state machine, with
one action for each step that others can see. Where code is sequential (the readers of GraphQL,
YAML and OpenAPI, the translations of the two proxies, the planner), a module is a set of
operators that mirror its functions, with a statement of what the
results are for. TLC checks both on small instances, and TLAPS
proves, for every value of the constants, the safety properties of the first kind, that the
detailed modules implement the abstract ones, and of the second kind what is said of the planner and
of the way of a request: the router, tokens, layers, panics and CORS.
Paths below are relative to `src/internal/`.

    tlasany DataLoader.tla                        # parse
    tlc -workers 2 -config DataLoader.cfg DataLoader
    tlc -workers 2 -config Cache.cfg MC_Cache     # some minutes; so do the runs
                                                  # dataloader, services and algorithms
    tlapm DataLoader_proofs.tla                   # likewise the other *_proofs.tla;
                                                  # Cache_, Gateway_ and Requests_proofs take longest

`PROJECT.json` lists the components, the runs, for each property a plausible bug
of the code that breaks it (a *mutant*), the source lines of each definition
(`map`), the hazards, the divergences found and the theorems.

## Inventory

| component | state | operations | what makes it correct |
|---|---|---|---|
| **DataLoader** `schema/dataloader.go` | pending requests, one timer, a stop channel, a result channel per call | `Load`, timer, `dispatch`, `Stop`, contexts | no request stranded, each answered once with its own value, no send under the mutex blocks |
| **Loader registry** `schema/dataloader_factory.go` | providers, loaders made on first use | `GetLoader`, `RegisterProvider`, `Stop` | one loader per provider and request, all stopped |
| **Circuit breaker** `gateway/breaker/breaker.go`, `middleware.go` | state, three counters, time of last failure | `Allow`, `Record`, `Reset`, handler between the first two | probes bounded, a timeout between them, it never sticks |
| **Breaker store** `gateway/breaker/store.go` | breakers by key | `Get`, `Delete`, `Clear`, cleanup | one breaker per key |
| **Cache shard** `gateway/cache/lru.go` | map, list in order of use, byte total | `Get` (two locks), `Set`, `Delete`, `Clear` | map, list and total agree; limits hold; least recently used goes first |
| **Cache middleware** `gateway/cache/middleware.go` | requests, background revalidations | lookup, hit, stale hit, fill, PURGE | what is served was an answer to a request without credentials that one of the two filters admits; a `Set` keeps what it set; stale entries are refreshed |
| **Rate limiter** `gateway/ratelimit/` | a bucket of two atomics per client in a `sync.Map` | `Allow`, `Cleanup` | burst + rate * time is not exceeded; a retry means that another call got on |
| **Reload watcher** `gateway/reload/watcher.go` | current content and hash, `running`, `stop` channel | `Start`, `Stop`, tick, `Reload`; a `Manager` by name | only valid content is applied; what is current is applied; an edit is noticed |
| **Health checker** `gateway/health/health.go` | checks, cached response | `Register`, `Unregister`, `Check`, `CheckByName` | the response covers the registered checks and is as bad as the worst |
| **OpenAPI provider** `openapi/provider.go` | specs by upstream, one refresh goroutine each | register, unregister, refresh, shut down | a failed refresh keeps the old spec, goroutines end |
| **OpenAPI parsing, references** `openapi/parser.go`, `refs.go` | caches of resolved references | `Parse`, `Resolve` | references are followed, a document that contains itself ends, damage stays local |
| **MCP server, SSE** `mcp/` | tools, sessions with queues of 100 | JSON-RPC dispatch, `Broadcast` | a slow session delays nobody, messages stay in order |
| **Upstream client** `upstream/` | none across requests | `DoWithRetry` | a bounded number of attempts, each with the whole body |
| **GraphQL engine** `graphql/` | none across requests | lex, parse, validate, execute, print | a printed document is read back, limits bound the work, each key has its answer |
| **REST to GraphQL** `proxy/rest2gql/` | generated schema, registry of resolvers | schema building, resolvers, pagination, relationships | the schema defines what it refers to, requests are whole, pages follow each other |
| **GraphQL to REST** `proxy/gql2rest/` | endpoints, active subscriptions | endpoints, translation, unwrapping, `ServeHTTP` of subscriptions, `Close` | a request reaches its field with its arguments; events in order, streams end |
| **Schema tools** `schema/planner.go`, `naming.go`, `mapping.go` | none | planning, naming, renaming of fields | steps after what they need, cycles refused, names and data read back |
| **Type registry** `schema/registry.go` | types by name behind a mutex | `Register`, `Lookup`, `Merge`, `Clone` | what is read is stable; no lock cycle |
| **Orchestrator** `gateway/orchestrator/` | handlers, breakers, caches | `LoadConfig`, `ServeHTTP` | requests meet one configuration |
| **Proxy front, router** `proxy/router`, `proxy/proxy.go` | translators, routes | route matching, registration of upstreams | the most specific route wins, in whatever order a map is walked |
| **Middleware, auth, CORS** `gateway/middleware`, `auth`, `cors` | none | tokens, strategies, chains, recovery, preflights | tokens are checked as they are made, each layer counts what it should |
| **Metrics** `gateway/metrics` | atomic numbers by label behind a mutex | `With`, inc, observe, the middleware, scrapes | nothing is lost; a scrape shows a histogram that adds up |
| **Configuration** `config/` | none | environment, YAML, defaults, validation, merge | a file is read as written, its parts do not depend on each other |
| **Server, admin, logging, llms.txt** | none of interest | - | - |
| **Command** `src/cmd/tentaserve` | assembled handler, with its layers | start, shutdown, `jwt` | order of the layers |

**How they interact.** `main.go` wraps the request multiplexer, from the outside in:
logging, request id, authentication, cache, breaker, rate limiter. So a cache hit
consumes no tokens and reaches no breaker, and a rejection by the limiter (429) counts
as a success of the breaker, for which only 5xx is a failure. (The cache of `main.go` is given no methods and so stores
nothing, see below.) The breaker and the
limiter are called around or before `next.ServeHTTP` on the goroutine of the
request; the cache also starts goroutines of its own. Resolvers call `Load` on
loaders kept for one request. The watcher calls a loader, a validator and an
applier that are passed in; `orchestrator.LoadConfig` is the natural applier.

**What is hard.** Code between two critical sections (`Load` and `dispatch`, the
halves of `Get`, `Allow` and `Record`, the compare and the apply of a reload);
two atomics that belong together (`tokens`, `lastUpdate`); timers nobody stops; a
goroutine that outlives the request whose context it uses; `Stop` at any moment;
handlers that panic; limits reached exactly. `PROJECT.json` gives each at its line.

## Modules

### DataLoader
`LoadContract.tla` states what a caller is promised, without batches, timers or
channels: an opened call is answered once, its key is handed to the batch function
at most once and not before the call, and a "context" or "stopped" error needs a cause.

`DataLoader.tla` is the code. One `Load` is one goroutine; a dispatch has the
name of the call that started it, as its timer or by filling the batch. Actions:
`LoadRefused` (the check of the context on entry), `LoadEnqueue` (the section under
`dl.mu`), `LoadReturn` (the `select`), `TimerFire`, `DispatchTake` (the section of
`dispatch` under `dl.mu`), `BatchReturn`, `SendResult` (one iteration of the loop),
`Stop`, `Cancel`. Every caller passes nil to `dispatch`, so it clears `dl.timer` but
never stops it: in the model a forgotten timer stays armed and fires in a later
window. `batchFunc` returns all values, errors or slices that are too short;
a value carries the name of its key, so mixed-up results are seen. `LoadMany` is
concurrent `Load`s.

### Circuit breaker
`Breaker.tla`: `Admit` is `Allow` under the mutex with its three cases, `Finish`
the return of the handler and `Record`, with one definition per case of `Record`;
`Panic` is a handler that panics, after which the middleware records nothing.
Results are recorded in whatever state the breaker has meanwhile. Time is the
Boolean `elapsed`; the environment makes the upstream fail and recover. `probes`
is history: the running requests that were admitted in this half-open episode; so is
`leaked`, how many of them have panicked.

### Response cache
`CacheContract.tla`: a map in which a `Put` stores its value and may forget *other* keys, where a `Forget`
or `ForgetAll` alone forgets anything else, and a `Get` that returns a value its key had between its begin
and its end. The contract sees the last `Put` (`last`), so that one which loses its own key is no step of it.

`Shard.tla` is one of the 256 shards. `Lookup` and `ReadBack` are the two
halves of `Get` (read lock, then write lock); a held element may meanwhile be
updated, evicted, deleted or dropped with its list. `Set` evicts as part of the
same step, `Delete` and `Clear` are one step each, as they are under one lock. The
list is a sequence of element identities; an element that nothing refers to is
collected and may be allocated again. `CacheMiddleware.tla` puts the middleware in front of
one shard: `Arrive` (the look-up, or a bypass), `Read`, `ServeFresh`, `ServeStale`
(which starts the revalidation), `TooOld`, `Fill`, `Revalidate`, `Purge`, and
`ContextEnds`, the server that cancels a request's context, which matters to its revalidation only. Responses
are of the five kinds that the two filters (`captureAndCache`, and `IsUncacheableResponse` in `revalidate`)
tell apart: 200, 301 or 302; the same with `no-store`; the same, too large; other successes and redirects, 404
and 410; errors. `filled` is history: the keys that a fill's handler has answered with one of the first three.
`MC_Cache.tla` composes two uses of the same shard in one run: through the
middleware, or called directly.

### Rate limiter
`RateLimiter.tla` is `Store.Allow` and `TokenBucket.Allow` for one client, one step
per atomic access: `Find` or `Make` and `Put` (`Load`, then `Store`, of the `sync.Map`),
`Enter` (`time.Now()`), `LoadTokens`, the load of `lastUpdate` with its decision
(`Deny`, `Enough`), `Swap` (compare-and-swap), `Grant` (the late store of `lastUpdate`);
`SweepFind` and `SweepDelete` are `Cleanup`. Amounts are integers: a request costs `Cost`
units and a tick brings `Rate`. `ideal`, `due` and `alone` are history: the level of an
ideal bucket and its verdict, for as long as calls have never overlapped; so is `raced`, the calls whose
bucket has given tokens to another call since their last attempt.
`MC_RateLimiter.tla` adds a count of the requests allowed.

### Reload watcher
`ReloadWatcher.tla`: `Start` in two steps, as it sets the current content before it calls
the applier, and holds `w.mu` throughout; `Stop`; `LoopEnds`; and a check (`Load`,
`Compare`, `Apply` or `ApplyFails`, `Record`) which a tick of a watch goroutine and a
call of `Reload` share. A hash is the content itself. `Record` panics when `Compare`
had read an empty hash, as the log line slices it; the model then stops.

### Services
Four services with goroutines of their own that do not call each other;
`MC_Services.tla` puts them into one run, and the variable `focus`, chosen at the
start, tells which of them a behaviour is about.

- `HealthChecker.tla`: `CheckStart` (the cache is not fresh; the checks are copied under
  the read lock), `CheckRuns` (one goroutine ends), `CheckEnds` (the status is folded from
  the results, the response stored), `Register`, `Unregister`, `Expire`. `overtaken` is
  history: the calls of `Check` which a registration came in between.
- `Provider.tla`: an `UpstreamSpec` is an object with its own stop channel and loop.
  `RegisterUpstream`, `UnregisterUpstream`, `RefreshByHand` and `Shutdown` are one step
  each, as each holds the mutex, loading included; a loop is `TickTaken`, `LoopRefreshes`,
  `LoopEnds`. `SourceChanges` is the environment.
- `SSETransport.tla`: `Connect`, `Greet`, `WriteMessage`, `Disconnect` are `handleSSE`;
  `BroadcastBegins` copies the sessions under the read lock, `BroadcastSends` is one
  iteration of the loop, the select with a default included.
- `Subscription.tla`: the goroutine of `HTTPSubscriptionClient.Subscribe` (`ReadEvent`,
  `SendEvent`, `ReaderEnds`), the handler (`Subscribe`, `Track`, `WriteEvent`, `Complete`,
  `SeeCancelled`, `Leave`) and `Close`. Events are numbered as they are read. Ids are
  times in nanoseconds, so that two may be equal (`shared`).

### What requests pass through or share
Eight components in one run, `MC_Gateway.tla`, again with a `focus`.

- `Retry.tla` is `DoWithRetry`: `Attempt` reads the body whole, sends it and decides
  (return, wait, exhausted); `Waited` and `GivesUp` are the select of the delay and the
  context. The transport reads any number of parts of the copy it is given. `offered` and
  `answers` are history.
- `Orchestrator.tla`: `LoadConfig` builds the handlers anew, upstream by upstream; `Find` is the
  look-up under the read lock, for every order in which Go may go through the map; `Serve`
  proxies with the handler found, whatever was loaded meanwhile. `history` keeps the
  configurations.
- `OncePerKey.tla` states what a registry with objects made on first use promises.
  `BreakerStore.tla` and `LoaderRegistry.tla` implement it, with the two sections of `Get` and
  `GetLoader` (`Find` or `Miss`, then the section under the write lock); breakers are taken out by
  `Delete` and `Clear`, loaders by `Stop`, at any moment.
- `ToolRegistry.tla`: a tool gets its name in one critical section (`GenerateName`) and is
  registered in another (`Register`, or `Skip` if excluded); `Clear` resets both. A name is a
  sequence of letters, so that cutting it (`Truncate`) and counting it are real; `expected` and
  `overtaken` are history.
- `RPCServer.tla`: `Post` (parsing and empty batches), then per element `HandleNull`, or
  `Handle` (validity and look-up) and `HandlerReturns`; `Finish` writes the answer.
- `TypeRegistry.tla`: the `RWMutex` of each registry, with writers that wait and keep new
  readers out; `Begin`, `ReadLock`, `AskForLock`, `Lock` and what is done inside. `Merge` takes the
  read lock of the other registry and then, inside, its own. What a reader saw when it came in
  (`seen`) is history. The registry is used by tests only.
- `Metrics.tla`: a request's way through the metrics middleware (`Look`, `AskForLock`, `Make`
  are the three steps of `With`; then one atomic addition per step), with a handler that
  returns or panics, and scrapes, which read the numbers of a series one by one and hold the read
  lock of a map while they write to a client. `during` is history: the requests whose `Observe`
  a scrape of the same series overlapped. Which request has which label is chosen at the start
  (`label`, one of `Labelings`): the run has requests of one label and of two.

### Readers and translations
These modules are operators, named for the functions they stand for. A state machine that takes one
topic and one input of it makes statements about them invariants. `Requests.tla` is the one for
`SchemaTools` (plans) and `RequestChain`, with its inputs as constants, so that the proofs are about any
operations, routes, tokens, requests and headers. `MC_Algorithms.tla` extends it by the other modules, whose inputs
it enumerates, and gives the constants of `Requests` their values in `Algorithms.cfg`. Characters are strings of one
letter, texts sequences of them, wherever a property tells characters apart; otherwise names are strings
and values are tagged.

| module | code | statement |
|---|---|---|
| `GraphQLLexer` | `graphql/lexer.go`, the printer's escapes | a printed string is read back, a block string exactly if it is laid out as the lexer leaves one: one that was read, unless it ends with a blank line or a quote; tokens of a text are those of its lines |
| `GraphQLParser` | `graphql/parser.go`, `printer.go` | what is printed is parsed to the same document, what is parsed can be printed, but for those block strings; after an error the next definition is found |
| `GraphQLExecutor` | `graphql/executor.go`, `validator.go`, `handler.go` | each key has the answer of its last selection; the limits bound depth and size without fragments, depth by definition with them; exactly the queries whose fragments lead back to themselves for one parent are evaluated for ever; a variable is its value |
| `SchemaTools` | `schema/planner.go`, `naming.go`, `mapping.go` | each field once, after what it needs, and layers that may run together, or there is a cycle; conventions and mappings of names undo each other where they can |
| `OpenAPIDocument` | `openapi/parser.go`, `refs.go`, `types.go` | references are followed and resolution ends; damage is refused or stays where it is |
| `YAMLReader` | `config/yaml/` | regular documents, and only those, are read back; reading ends, but on the lines that are named |
| `Config` | `config/config.go`, `defaults.go`, `loader.go`, `validator.go`, `yaml/marshal.go`, `yaml/parser.go` (environment) | two parts given together are judged and read as each on its own; spelling; which values a merge takes over; environment |
| `RESTEndpoints` | `proxy/gql2rest/` but subscriptions | a request reaches the first field of its method and path, with its selection, and with its arguments where the document describes that field; what the verbs and the selection of each depth are; the two unwrappers agree |
| `RESTSchema` | `proxy/rest2gql/` schema, resolvers, translator; `proxy/proxy.go` | the schema defines what it refers to; a request is whole; types read back |
| `RESTResources` | `proxy/rest2gql/relationships.go`, `pagination.go` | relationships do not depend on the order of a map; pages follow each other |
| `RequestChain` | `gateway/auth/`, `middleware/`, `cors/`, `proxy/router/`, `cmd/tentaserve/main.go`, `jwt.go` | tokens; what each layer is charged for, in the order of the code; panics, preflights; the router takes the longest prefix, in any order of a map |

Go's random order of maps is a set of results: an operator gives every one that some order
leads to, and a statement holds for all of them. So does the planner, which sorts the names of a layer:
`BuildPlans` is the set of plans for any order of them. Where a function calls itself the operator is
`RECURSIVE`, but in `SchemaTools` and `RequestChain`, whose loops are folds; a function that may not end
(the lexer of YAML, a fragment that spreads itself) has a result of its own for that.

## Runs

| run | checks | shows |
|---|---|---|
| `dataloader` | `PendingWillBeTaken` `FullBatchIsLeaving` `SendsNeverBlock` `OwnValue` `ImplementsContract` `EveryLoadReturns` | no request is stranded although anyone may clear `dl.timer`; a full batch never waits for its timer; no send blocks, also not under the mutex in `Stop`; values are not mixed up; the contract; every call returns |
| `breaker` | `ProbesBounded` `CountersMatchState` `NoEarlyProbe` `Recovers` `HalfOpenResolves` | with the thresholds of `DefaultConfig` and two panicking handlers: slots are lost by panics alone; the breaker decides, and a recovered upstream is used again, *as long as panics leave as many slots as successes are missing* (`SlotsLost`): the exception is the code's flaw, see below |
| `breaker_orchestrator` | `HalfOpenResolves`, violated | `HalfOpenMaxRequests` = 0, as the orchestrator leaves it, and two successes required |
| `cache` | `ShardConsistent` `HitsMayBeServed` `ShardImplementsContract` `ShardEvictsLeastRecent` | map, list and total agree; a racing `Get` and a `Set` that keeps what it set; eviction order at both limits; a hit was asked for without credentials, is no error, and is a kind that only `revalidate` admits (404, 410) only for a key that was filled before; `no-store` is served, see below |
| `cache_stale` | `StaleIsRefreshed`, violated | the revalidation runs under a cancelled context |
| `ratelimit` | `ExactWhenAlone` `RetriesAreProgress` | calls that do not overlap get what an ideal bucket gives, sweeps included; the loop is lock-free: a call goes round again only for another call's grant |
| `ratelimit_over` | `NoOverAdmission`, violated | two concurrent calls credit the same elapsed time twice |
| `reload` | `CurrentIsApplied` `OnlyValid` `FileIsApplied` | edits, failures, a second `Start` and a concurrent `Reload` |
| `services` | `HealthIsTruthful` `StreamsAreFaithful` `KeepsSpec` `ServicesGoOn` | cached health under registrations; refresh by name across registrations; order and loss of broadcasts, no gap in a stream of events, every stream tracked until it ends; broadcasts return, refresh loops go on until their upstream is gone, streams end |
| `gateway` | `RetriesAreWhole` `RequestsMeetOneConfig` `RegistriesAgree` `ToolsAreKept` `BatchesAreAnswered` `MetricsAreTrue` `RequestsLeave` | every attempt carries the whole body and the last answer is returned; longest prefix across reloads; one object per key, as a refinement, every loader stopped, and type registries that only a cycle of merges can block; no tool lost to a collision of names; every element answered in order; nothing counted is lost, and what no scrape overlapped adds up; requests leave the metrics |
| `algorithms` | `GraphQLReadsBack` `QueriesAreAnswered` `PlansAreOrdered` `RequestsAreTranslated` `RequestsAreAdmitted` `FilesAreLoaded` | the statements of the table above |
| `reload_restart` | `StartWatches`, violated | a restarted watcher does not watch |

The runs `dataloader`, `breaker` and `ratelimit` also check the `TypeOK` of their module; that of
the watcher is proved. A property of `services` or `gateway` is a conjunction of statements that
the modules name, one for each component it is about. `algorithms` has no deadlock check, as a
behaviour ends when its input has been chosen.

**Bounds.**
- `dataloader`: three calls, a batch limit of two, one that may be cancelled. A full
  batch, a batch overrun by a third call, a stale timer that fires in a later
  window and a call after `Stop` all need two or three calls.
- `breaker`: four clients with `DefaultConfig` (`FailureThreshold` 5, `SuccessThreshold` 3,
  `HalfOpenMaxRequests` 3), so that there can be one request more than probes; `MaxPanics` = 2, so
  that a slot is lost, and another one, or in another episode.
- `cache`: `MaxCount` = 3 with four keys and `MaxSize` = 5 with sizes 1 and 2 (5 is
  refused): both limits evict, also two entries at once. In the behaviours through the
  middleware there are two connections and one key at a time (`KeysAtOnce`); keys meet
  each other in the direct behaviours. `MaxTime` = 2 reaches fresh, stale and too
  old, and handlers give all five kinds of responses. A connection has one revalidation under way. Keys and elements are symmetric; no
  liveness property is checked under this symmetry.
- `ratelimit`: two threads, three buckets (one stored, one held by each thread), three
  ticks, burst 3, rate 2, cost 2, `MaxAge` 2: the level falls between multiples of
  the cost, is capped, and a swept bucket would have been full.
- `reload`: three contents, one of them invalid, `MaxStarts` = 2, one caller of `Reload`:
  the loop of the first `Start`, that of the second and the caller can all check at once.
- `services`: two of each: names and callers of `Check`; upstreams, sources, versions and
  registrations (so that a name is registered again); sessions and broadcasts, with
  queues of one; subscriptions, with channels of one and an upstream that sends two events,
  so that the goroutine has to wait for room.
- `gateway`: two retries with the delays 4 to 10 and a body of two parts, so that a body is read in
  part, and exhausted attempts happen; two requests, two loads of four configurations
  whose prefixes contain each other, repeat or are empty; two keys, two callers and four
  objects, so that both callers race and an object is made again after it was taken out; two
  builders, four builds, and names cut at four letters, among them two equal ones, one
  that looks like a counted one and one that is cut to such a name; counts are written in binary (`Binaries`), so
  that four builds need counts of two lengths, the longer of which cuts more of the name; two connections and nine bodies; two type registries and two callers,
  enough for both cycles of merges; two requests, a scrape and a histogram of two buckets.
  Records, sequences and functions are defined in `MC_Gateway` (`Configurations`, `Base`,
  `Posted`, ...) and given to the constants in `Gateway.cfg`, so that the proofs are about any others.
- `algorithms`: texts of up to four characters or block quotes, cut everywhere; block strings of up to
  three lines, or of five characters; documents of one definition, or that and a query, with block strings of each ending; a rich document with each token
  replaced, dropped or doubled; queries with two fragments, one of which may spread itself, nested several levels deep under limits of 1, 2 and 5 levels
  and of 30 and 1000 units, so that each limit refuses some of them and lets others through; plans of
  three fields, two of them maybe of one path; names of up to five characters; OpenAPI documents with
  references of each kind to components, references and nothing, and one document damaged in
  each place; YAML trees of three levels and texts of two lines; every field of the configuration with
  values of all kinds beside a value of another part; texts of six characters with variables;
  schemas with arguments of each kind; all sets of up to four paths from ten; chains
  of four requests on two paths, with thresholds and bursts of up to three. Each is the smallest in which
  two of the things that may disturb each other meet, with one more between them.

**Fairness.** A goroutine that can run is scheduled (weak fairness of its steps); an
armed timer fires, ticks keep coming; batch functions, handlers and appliers return.
Nobody need call `Load`, `Stop`, `Reset`, `Reload` or edit the file. `EveryLoadReturns`
needs the result, the context or `Stop` only as the code provides them.
`Recovers` and `HalfOpenResolves` assume that clients keep sending: a breaker changes
only when it is called; both except a breaker whose slots panics have taken (`SlotsLost`). `FileIsApplied` has strong fairness on the apply
succeeding: an applier that fails for ever never applies. The limiter
has no fairness and no liveness property: that its loop is lock-free is the safety property
`RetriesAreProgress`, and that each single call returns does not hold of such a loop under any fairness
of goroutines, as others may overtake it for ever.
In `services` a refresh loop runs on, and a select that is offered
the closed stop channel again and again takes it at some time (strong fairness: Go's select
chooses at random); a broadcast runs on, while the handlers of sessions get no fairness at
all, as a client may stop reading; subscription goroutines run on and an upstream sends
finitely many events. In `gateway` a request in the metrics middleware goes on, a scrape's client
takes what is written at some time, and handlers get no fairness: `RequestsLeave` speaks of
requests whose handler has returned.

## Proofs

| theorem | property |
|---|---|
| `DataLoader_proofs!TypeCorrect`, `PendingIsTaken`, `FullBatchLeaves`, `NoSendBlocks`, `ValuesAreNotMixed` | `TypeOK`, `PendingWillBeTaken`, `FullBatchIsLeaving`, `SendsNeverBlock`, `OwnValue` |
| `DataLoader_proofs!KeepsContract` | `ImplementsContract`: the refinement of `LoadContract` |
| `Breaker_proofs!TypeCorrect`, `ProbesAreBounded`, `CountersAgree`, `OpenWaits` | `TypeOK`, `ProbesBounded`, `CountersMatchState`, `NoEarlyProbe` |
| `Cache_proofs!CacheIsConsistent`, `CacheEvictsLeastRecent`, `HitsAreAllowed` | `ShardConsistent`, `ShardEvictsLeastRecent`, `HitsMayBeServed` |
| `Cache_proofs!CacheKeepsContract` | `ShardImplementsContract`: the refinement of `CacheContract` |
| `Cache_proofs!ShardAlone` | the same three of the shard, for a shard that is called directly |
| `RateLimiter_proofs!TypeCorrect`, `AloneIsExact`, `RetriesAreEarned` | `TypeOK`, `ExactWhenAlone`, `RetriesAreProgress` |
| `ReloadWatcher_proofs!TypeCorrect`, `OnlyValidIsApplied`, `CurrentTellsApplied` | `TypeOK`, `OnlyValid`, `CurrentIsApplied` |
| `Services_proofs!HealthTold`, `SpecIsKept`, `StreamsFaithful` | `HealthIsTruthful`, `KeepsSpec`, `StreamsAreFaithful` |
| `Gateway_proofs!RetriesHold`, `RoutesHold`, `ToolsHold`, `BatchesHold`, `MetricsHold` | `RetriesAreWhole`, `RequestsMeetOneConfig`, `ToolsAreKept`, `BatchesAreAnswered`, `MetricsAreTrue` |
| `Gateway_proofs!RegistriesHold` | `RegistriesAgree`: the refinements of `OncePerKey`, stopped loaders, type registries |
| `Requests_proofs!PlansOrdered` | `PlansAreOrdered` |
| `Requests_proofs!RequestsAdmitted` | `RequestsAreAdmitted` |

These are all the safety properties of the state machines that a passing run checks, and two of the six
of `algorithms`.
They hold for every set of calls, threads, clients, keys, sessions or contents and every limit that
satisfies the named assumptions of the modules: thresholds, limits, times and bounds
are naturals, a request costs at least one unit, a shard keeps at least one entry, `None` is none of
the other values, valid contents are contents, watch goroutines are not callers of `Reload`, prefixes
and bodies are sequences, a posted body that is no JSON has no elements, a single one has one that is not
null. `MaxRetries` may be negative. Fields of operations, prefixes, clocks, thresholds, programs and names of
headers have the types of the code, a map has finitely many prefixes, and a token that was made is not `None`.
`Requests` says of two strings that `None` is neither: this follows from `None \notin STRING`, but the provers do not
know that a string is in `STRING`. One assumption limits more than the code does: metrics
count finitely many requests. How `fmt.Sprintf` writes a count is a constant (`Numeral`): different counts are written
differently, without underscores, and shorter than a name may be, which with 64 letters is so for every `int`. The clients
of the breaker may be infinitely many: that the probes are a finite set is part of the invariant.

### The inductive invariants

- **DataLoader.** The checked properties are not inductive: that `dispatch` may clear any
  timer is harmless only because it takes the whole of `pending` in the same section. The
  invariant adds that a request has one owner (`OneOwner`) and is once in a batch
  (`DistinctInBatch`), that a dispatch owes only what is in the batch it took
  (`Dispatches`), and that a call which has not enqueued is nowhere yet (`Fresh`).
  The *contract* also needs where a request has been: `AskInv` adds that it was taken by one dispatch at
  most (`Once`) and is not pending again, that a dispatch has taken nothing before its section, and that
  a result in a channel comes from `Stop` or from a batch (`Caused`). Then a key is counted once or not
  at all (`TimesOf`), the section of `dispatch` with something pending is an `Ask`, and
  every other step is one of the contract or none that it can see.
- **Breaker.** The invariant joins types, the count of probes, leaked slots and successes, and the
  relation of counters and state. The step that matters is a result recorded in a later state than
  the one that admitted its request: it may change the state but not the set of probes.
- **Cache.** `ShardInv` says that the list has no element twice, that map and list name
  the same elements and each element its own key, that `size` is the sum over the list, and that an
  element which some `Get` has found keeps its key while it is held, and has a value that the key had since
  the `Get` began (`GetsHold`), also after its eviction. `Set` is the hard step: it moves or adds an element and cuts the list at the first
  place where both limits hold; `SetFacts` puts its result as a prefix of the new list (`SetBy`), from which
  each part follows. The sum over a set of elements is shown to be what adding and removing one
  element makes of it, without an induction theorem: sizes are turned into a set of pairs, whose
  cardinality is the sum. For eviction by least recent use the order of the list is the
  order of last uses (`UseOrder`). For the refinement, a `Get` that finds its element gone,
  updated or dropped meanwhile returns what its key had between the two locks (`seen`). `ServingInv` adds that
  every entry was stored for a public request, is not an error, and was stored by a revalidation alone only for a
  key that was filled before, and that only public requests look up.
- **Rate limiter.** While `alone` holds, at most one thread is in `Allow` and what it has
  loaded is what the bucket still has (`Sole`), and an idle bucket has a level that, with
  its uncredited ticks, equals `ideal` (`Resting`). A sweep keeps this because `MaxAge * Rate
  >= Burst` makes the deleted bucket full. The lemmas on capped refill say that refilling in two
  parts is the same as at once. For retries: what a call has loaded is what its bucket has, unless another
  call swapped (`Attempts`), through all interleavings of stores, sweeps and collected buckets.
- **Reload watcher.** While checks do not overlap one check at most is between its
  load and its end (`OneAtATime`), and what differs between `current` and `applied`
  is exactly what it is about to record.
- **Health checker.** A `Check` that no registration overtook has copied exactly what is
  registered (`HealthInv`), so the response it stores covers it; and the status, folded from the results
  in the order in which Go goes through a map, is the worst of them in any order.
- **Provider.** A document tells where it came from, and a loop refreshes whatever object
  has its name now, from that object's source; what is in the map was made, is there
  under one name and has an open stop channel (`Registered`), so that no call closes one twice.
- **Event streams.** What was written to a session, followed by what is queued, has no broadcast twice and
  one that ended before another began comes earlier (`InOrder`); a broadcast that is missing met a full queue, so that at
  least as many as the queue holds reached the session which had not ended before it began (`LostToFull`).
- **Subscriptions.** Until its context is done, what was written, what is in the channel and what the goroutine has in
  its hand are the events read so far, without a gap (`Faithful`); while no two requests have drawn one id, an entry of
  `activeSubs` is that of the stream with its id (`OwnIds`), and every stream is tracked (`StreamsTracked`).
- **Retry.** Between two attempts the reader holds the whole body again, whatever part of it
  the transport took; answers are as many as attempts, and none but the last is final
  (`RetryInv`). That a delay is cut to `MaxDelay` needs no more of the product than that it
  is a number (`DelaysAreCut`).
- **Registries.** A breaker or loader in the map or in use is one that was made, so that one that is made
  now is new, and `Find` and `Make` are an `Obtain` of `OncePerKey` (`BreakersInv`, `LoadersInv`). Type registries:
  whoever is inside for writing is alone and readers are counted (`TypesInv`), so that what a reader
  found stays until it leaves; and when nobody can go on, each registry that is waited for is
  read by a merge which waits for another one, so that the merges lead in a cycle.
- **Orchestrator.** The handlers are a function of the last configuration (`RoutesInv`). `Built` is a recursive
  function over a sequence and the look-up a loop over any order of a map. Both are
  shown to have a closed form, each prefix the last upstream that has it, and the longest prefix that
  fits. That two prefixes of one path with one length are equal makes the order irrelevant.
- **Tools.** A name is in use from the first section of a building to the next `Clear`
  (`ToolsInv`). The generator finds a free count because names in use are at most as many as buildings
  (`NamesInv`), and names with different counts differ even where the longer one cuts more of the base: the count is
  what follows the last underscore (`SuffixesDiffer`).
- **Batches.** The place of an element's response is the number of elements before it that are answered
  (`Place`), so that responses are in order and complete without a fold over the batch (`ConnectionInv`).
- **Metrics.** Which requests have added to a number is told by their stages; the numbers that are
  exposed for a label are the cardinalities of sets of requests (`IsTrue`), and each step
  adds one request to one of the sets. A request whose look-up found nothing looks again under the write
  lock, so that an object with numbers is never replaced (`Objects`, `Progress`). For scrapes
  (`ScrapesInv`), buckets and counts only grow; so what is read is between what was there at its beginning and
  what is there now, and a bucket can exceed a later one only by requests that overlap.

- **Requests.** The invariant is only that the input is one of its topic (`Taken`); the work is in what the
  operators compute, and their loops are folds. A fold is a recursive function that is *chosen*, so its
  existence comes first (`FoldExists`, by the cardinality of what is folded, without an induction theorem); then
  what it made of the first *k* elements follows from what it made of *k* - 1 (`FoldLeftSteps`), and induction
  over a set of numbers (`UpTo`) does the rest.
  - *Planner.* Layers are disjoint, and each upstream of a layer needs something of the layer before; rounds are
    enough because each adds an upstream (`LayersAre`). What is left without a layer is a set in which each
    needs another one, and no upstream of such a set ever gets a layer (`CompleteIs`): plans fail for cycles only. An
    order that takes the layers one after the other exists (`OrderExists`). In one pass every step learns its
    depth, as what it depends on is before it (`PassIs`), so further passes change nothing, and the depth is
    the number of the layer (`PlanDepths`).
  - *Router.* The first prefix that fits, in an order by falling length, is a longest one (`LongestIs`);
    two of the same length that fit are equal.
  - *Layers.* What is in the bucket is the burst less the requests handled (`TokensAreCharged`). What the breaker has
    counted for a path is the greatest lead of failures over other answers from any place on (`IsLead`, `LeadGrows`),
    a number that never falls below zero just as the counter is never below it.
  - *Writers.* From the inside out, a layer keeps that nothing but what the client gets was captured, and that no
    panic passes a Recovery (`Answered`). *Preflights*: the headers that are kept are those of an increasing
    function into the request, onto the ones that are configured (`KeptAre`).

A behaviour of `MC_Services` or `MC_Gateway` moves one component, and each invariant speaks of one
component's variables, so that it holds whatever the others are.

### What is only model-checked

- *Liveness*: `EveryLoadReturns`, `Recovers`, `HalfOpenResolves`, `FileIsApplied`,
  `ServicesGoOn`, `RequestsLeave`. Fairness and `ENABLED` are beyond the prover.
- *Readers and translations but for the two above*: `GraphQLReadsBack`, `QueriesAreAnswered`,
  `RequestsAreTranslated`, `FilesAreLoaded`. Their modules use recursive operators over trees and texts, which the
  prover does not take, and what such a definition does to every input needs induction over data, whose
  theorems have an operator as a parameter. (The facts about folds and recursive functions above
  are proved without: a least number at which one fails would have to be right after one
  at which it holds.)
- *The expected violations* are traces, not theorems.

## Where the code differs from what it says

Shown by a run (`findings` in `PROJECT.json`):
1. `gateway/orchestrator/orchestrator.go:163` leaves `HalfOpenMaxRequests` at zero: one probe
   is admitted, its slot is never given back, and with a success threshold above one
   the breaker rejects for ever.
2. `gateway/cache/middleware.go:155` revalidates under the context of the request that
   got the stale response, which the server cancels.
3. `gateway/ratelimit/bucket.go:88` stores `lastUpdate` after the swap of `tokens`, so that
   two calls credit one interval twice.
4. `gateway/reload/watcher.go:126` closes `stop`, which is never made again.

Seen while modelling, kept in the models as the code has it:
- A batch may exceed `maxBatchSize` by calls that arrive between the unlock in `Load`
  (`schema/dataloader.go:99`) and the lock in `dispatch`; `dispatch(nil)` does not stop a
  timer although the comment at 175 says so; after `Stop` a `Load` is still queued and
  reaches the batch function.
- The breaker's successes survive a failed half-open episode (`breaker.go:165`), a success
  of a request admitted earlier counts as a probe's (162), and failures need not be
  consecutive (154), unlike `SPECIFICATION.md:367-377`. A panic leaks a half-open slot
  (`middleware.go:52`). With the defaults, three slots for three successes, *one* panicking probe leaves
  two slots for three successes: the breaker rejects everything from then on, until `Reset`, which nothing
  calls, or a late result of a request admitted earlier. `Recovers` and `HalfOpenResolves` except this
  state by name (`SlotsLost`); without the exception TLC finds both violated in the run `breaker`.
- The two filters of the cache differ, and each is laxer than the documents. `captureAndCache` stores responses
  with `Cache-Control: no-store` or `private` (`gateway/cache/middleware.go:124`, against `SPECIFICATION.md:338-339`),
  so that such a response *is* served to others; `revalidate` stores 404 and 410 under the comment "Only cache
  successful responses" (168), and the successes that a fill does not store. `HitsMayBeServed` says what is left.
- `PURGE` is only reached when it is among the cacheable methods.
- Two first requests of a client get a bucket each (`store.go:103`).
- A tick and a `Reload` may apply in one order and record in the other; after a failed
  first apply `Current` tells a content that was never applied; `Reload` before `Start`
  panics in its log line (`watcher.go:222`).
- `main.go` puts the cache outside the breaker and the limiter innermost, `README.md` of
  the repository lists another order.
- An overtaken `Check` stores a response about the earlier set of checks and it is served
  for a time-to-live (`health.go:142`).
- Two subscriptions that draw the same nanosecond share an entry of `activeSubs`, and the one that
  ends first takes out the other's; a request between `Subscribe` and its entry is not
  reached by `Close` (`subscription.go:119`).
- A broken upstream connection, and a line longer than the scanner's 64 KB, end a subscription with
  `complete` like a regular end (`subscription.go:506`).
- `WithUpstreamKey` is called by tests only, so breakers are kept per URL path
  (`gateway/breaker/middleware.go:33`) where `SPECIFICATION.md:361` says per upstream.
- The orchestrator sets neither `Methods` nor `MaxSize` of its caches
  (`gateway/orchestrator/orchestrator.go:177`), so they store nothing; its comments call the
  breaker outermost and authentication innermost (161, 195), the wrapping makes it the
  other way round. An empty `PathPrefix` never matches (283).
- `Clear` of the tool registry between the two steps of building a tool frees its name, and
  another tool may replace it (`mcp/tools.go:142`); patterns are read without the lock (60).
- `MaxRetries` = 0 with `BaseDelay` = 0 becomes the default of three retries
  (`upstream/client.go:103`); the first delay is not cut to `MaxDelay`.
- The bodies of upstream responses that are retried are never closed (`upstream/client.go:156`).
- `main.go` gives its cache no methods, so `IsMethodCacheable` is never true and a configured cache stores
  nothing (`cmd/tentaserve/main.go:319`); the order of the layers is auth, cache, breaker, limiter,
  `SPECIFICATION.md:388` and
  `IMPLEMENTATION.md:495-498` have auth, rate limit, cache, breaker: what the breaker refuses costs no token here. A 429 of the inner limiter is a
  success that lowers a path's failures.
- The `jwt` command offers HS384 and HS512 and makes neither (`cmd/tentaserve/jwt.go:207`); its check ignores
  `nbf` and refuses lists of audiences, which the gateway takes, and takes a token to the end of the
  second at whose beginning the gateway refuses it. The strategy `apikey` passes everything through.

*GraphQL engine.*
- Lexer: an illegal escape swallows the next character, even a closing quote (`graphql/lexer.go:331`); a lone `-`
  is a number and `01` are two; the first line of a block string counts for its indentation.
- Printer: a block string is printed as it is (`graphql/printer.go:286-290`). A last line that is blank is lost
  when it is read again; a quote at the end makes four, of which the first three close the block.
- Parser: keywords are no field, alias, fragment, enum or type names, so that an introspection query with
  `type` fails; `... {` without a type is refused although it can be printed.
- Executor: nested fields never reach the resolvers registered for their type, the ones that
  `cmd/tentaserve/graphql.go` registers among them; of two selections with one key the later replaces the
  earlier; nested fragments on data without `__typename` are dropped; `operationName` and
  defaults of variables are not used; a fragment that spreads itself recurses for ever
  (`graphql/executor.go:141`), and neither the limit of depth nor that of complexity looks into fragments, which
  `SPECIFICATION.md:1317-1318` does not except.

*Schema tools and metrics.*
- The planner refuses fields that do not need each other in a cycle when their upstreams do, and ignores
  dependencies on unknown fields. `splitWords` says `HTMLParser` has the words HTML and Parser, and gives
  HTM and LParser. Two mappings with one target lose one of the values.
- `a.Merge(b)` beside `b.Merge(a)`, or `a.Merge(a)`, blocks for ever (`schema/registry.go:198`).
- Histograms are written without their labels; a scrape that overlaps `Observe` may show one that is
  not cumulative; a scrape whose client does not read blocks every request with a new label
  (`gateway/metrics/registry.go:379`). Nothing in `cmd` uses the middleware.

*OpenAPI, YAML, configuration.*
- A component that is itself a reference becomes an empty schema, or not, in the order of a map
  (`openapi/refs.go`); the detection of cycles is dead code; `additionalProperties` is never parsed.
- A line after the first that begins with `-` or `:` and goes on with text, as `---` does, makes the YAML
  lexer loop for ever (`config/yaml/lexer.go:166`). A key without a value swallows the keys behind it, and a list in
  a list the items behind it, though `IMPLEMENTATION.md:248-253` lists such forms as supported; a `#` within a word
  begins a comment (`config/yaml/lexer.go:226`);
  block texts (`|`, `>`) are read as empty; a quoted number is a number.
- The defaults that `Validate` sets in a copy of an upstream are lost; an upstream's `retry` is used by
  nothing; numbers given for texts are printed anew; an empty text cannot be given.
- `Merge` says that "values in the source take precedence" (`config/validator.go:501-502`). It takes those of the server, the
  paths of the gateway, the logging and, if enabled, the administration, three switches and the upstreams; the guards and the
  authentication of the gateway, pages, limits, tools, metrics, health and request ids of the source are dropped. A
  source that was loaded from a file has all the defaults, and these override what the target was given.

*GraphQL to REST.*
- The operation uses variables that it never declares (`proxy/gql2rest/translator.go:169`), and has an empty selection `{}`
  where nothing is asked for (259), neither of which is valid GraphQL. The two tables of verbs disagree: `InferMethod` gives PATCH for
  `patch`, GET for `get` and POST for `put` (`proxy/gql2rest/method_inference.go:25-52`, "follows SPECIFICATION.md §7.2"), the builder
  PUT, POST and PUT (`endpoint_builder.go:158-181`); in the table of `SPECIFICATION.md:572-577` they are PUT, POST and POST.
- `?fields=posts.title` drops `title` unless it is the first name of a path too, as the names are asked for at every depth;
  excluding a name with a dot does nothing, and `fields=,` selects everything (`proxy/gql2rest/fields.go:11-20`, 40-81).
  An `id` of a query becomes a part of the path, where `SPECIFICATION.md:560` has a parameter.
  Every argument with `id` in its name, `video` too, counts as part of the path, though only the first gets a
  segment; values in a path are not converted. Endpoints of one path: the document has the last, the
  look-up the first (`proxy/gql2rest/endpoint_builder.go:257`). The handler's translator has no schema, so
  that without a `fields` parameter it selects nothing.

*REST to GraphQL.*
- Fields have names in camel case, with a verb for their method, while the registry keeps resolvers under raw
  names: a field is resolved only if its name is the same in both; the same goes for arguments. POST, PUT,
  PATCH and DELETE of one path replace each other. `TypePrefix` renames types and not the references
  to them. Required objects are wrapped twice (`Object!!`). Beside an `input` other arguments of the body are
  dropped. Cursors restart at every page, and `before` becomes `after`. "types" becomes "typs".
- `BatchResolve` sends ids only and its answer is not parsed; the error codes of this proxy are unknown to
  the other's table, which makes them 500.
- `/apix` counts as below the prefix `/api` (`proxy/router`).

## Not modelled, and why

- *Text that nobody reads back*: SDL, `llms.txt`, error messages, log lines, the positions of errors, the format
  of the metrics. They are conversions of one input; unit tests fit them better.
- *Introspection* (`graphql/introspection.go`): it answers from the printed schema and keeps no state.
- *The network and the standard library*: HTTP, TLS, JSON, base64, timers and `sync` are taken to do what
  they promise. A client, an upstream or a file is an environment action or an input; a signature is
  something that only the secret can make.
- *Server, admin pages, logging* (`server/`, `admin/`, `observability/`): thin wrappers of the standard
  library without decisions of their own.
- *Parts of `cmd/tentaserve`*: the registration of handlers in a mux, start and shutdown, and the printing
  subcommands. The order of the layers and the tokens are modelled.
- *Passed-on headers*, `Skip`, `If` and `Combine` of the middleware package, and the API key plugin, which no
  configuration reaches.
- *The MCP stdio transport and the built-in handlers*: one request at a time over a pipe; a tool's call
  is a stub in the code.
- *Other clients and keys*: where the code treats clients or shards apart (the limiter's
  buckets, the 256 shards), one is modelled.
- `DataLoaderCache`, `CleanupManager`, `Backoff`, `BatchResolver`: nothing uses them, or they do nothing.
- Numbers beyond 64 bits in configurations, fractions of sizes, and Unicode: the readers' control
  does not depend on them.

## Plan

What is left, in order:

1. Proofs about further parts of translations that can be stated without recursive operators: pages, `Merge` of
   configurations, renaming of fields.
2. The layers of `RequestChain` over more than one timeout and refill, as a composition of `CacheMiddleware`,
   `Breaker` and `RateLimiter` with two requests at once.
3. The registration of handlers in `main.go`, with configurations that pass `Validate` and yet make two
   handlers claim one path (a panic of the mux).
4. Introspection, and SDL as what the parser reads back.
