---------------------------- MODULE RequestChain ----------------------------
(***************************************************************************)
(* Where a request goes, who is let in, and through what: the router, the  *)
(* tokens that the jwt command makes and the gateway checks, the layers    *)
(* that main.go puts around its handlers, the answer of a handler that     *)
(* panics, and CORS.  Paths and prefixes are sequences of characters.  A   *)
(* token is the header's algorithm, the claims and a signature that nobody *)
(* can make without its secret; a value is its JSON type and the value;    *)
(* clocks count half seconds, claims whole ones.                           *)
(***************************************************************************)
EXTENDS Integers, FiniteSets, Sequences, SequencesExt, FiniteSetsExt, Functions

CONSTANTS None

Hashes == {"HS256", "HS384", "HS512"}
Sign(hash, secret, alg, claims) == <<hash, secret, alg, claims>>
Has(claims, name, text) == name \in DOMAIN claims /\ claims[name] = <<"text", text>>

-----------------------------------------------------------------------------
(* The router: the kind of a request by its path, and the upstream of a    *)
(* REST request by the longest prefix.                                     *)

\* Mutant: the prefixes as the map gives them.
AnyPrefixes(upstreams) == SetToSeqs(DOMAIN upstreams)

\* The orders that may come of sorting the keys of the map by their length.
SortedPrefixes(upstreams) ==
  {order \in SetToSeqs(DOMAIN upstreams) :
     \A i, j \in DOMAIN order : i < j => Len(order[i]) >= Len(order[j])}

Clean(path, prefix) ==
  LET rest == SubSeq(path, Len(prefix) + 1, Len(path)) IN IF rest = <<>> THEN <<"/">> ELSE rest
\* The upstream of the first prefix that fits, <<>> if none does.
UpstreamOf(upstreams, order, path) ==
  LET i == SelectInSeq(order, LAMBDA prefix : IsPrefix(prefix, path))
  IN IF i = 0 THEN <<>> ELSE upstreams[order[i]]

\* The paths with a meaning of their own, in the order they are looked at.
Kinds == <<"graphql", "mcp", "health", "metrics">>
ClassifyRequest(config, order, path) ==
  LET i == SelectInSeq(Kinds, LAMBDA kind : path = config[kind])
      clean == Clean(path, config.rest)
  IN IF i # 0 THEN [type |-> Kinds[i]]
     ELSE IF config.admin # <<>> /\ (path = config.admin \/ IsPrefix(Append(config.admin, "/"), path))
       THEN [type |-> "admin"]
     ELSE IF config.rest # <<>> /\ IsPrefix(config.rest, path)
       THEN [type |-> "rest", path |-> clean, upstream |-> UpstreamOf(config.upstreams, order, clean)]
     ELSE [type |-> "unknown"]

MatchUpstream(config, order, path) ==
  UpstreamOf(config.upstreams, order, IF IsPrefix(config.rest, path) THEN Clean(path, config.rest) ELSE path)

-----------------------------------------------------------------------------
(* The jwt command *)

\* Some claims, in the place of others of their names.
Replacing(claims, others) ==
  [name \in DOMAIN claims \cup DOMAIN others |->
     IF name \in DOMAIN claims THEN claims[name] ELSE others[name]]

\* The claims of a new token; the additional ones replace those of the options.  (Nobody
\* looks at iat.)
GenerateClaims(options, additional, now) ==
  LET given == {name \in {"iss", "aud", "sub"} : options[name] # ""}
      expiry == [exp |-> <<"number", (now + options.expires) \div 2>>]
  IN Replacing(additional, Replacing([name \in given |-> <<"text", options[name]>>], expiry))

GenerateJWT(secret, alg, claims) ==
  IF alg = "HS256"
    THEN [alg |-> alg, claims |-> claims, signature |-> Sign(alg, secret, alg, claims)]
    ELSE None

\* The command's own check: always HS256, in whole seconds, without nbf.
ValidateJWT(token, secret, issuer, audience, now) ==
  LET claims == token.claims
  IN /\ token.alg # None
     /\ token.signature = Sign("HS256", secret, token.alg, claims)
     /\ ("exp" \in DOMAIN claims /\ claims.exp[1] = "number") => now \div 2 <= claims.exp[2]
     /\ issuer # "" => Has(claims, "iss", issuer)
     /\ audience # "" => Has(claims, "aud", audience)

-----------------------------------------------------------------------------
(* The plugins of package auth *)

Passthrough == [kind |-> "passthrough"]
JWTPlugin(jwt) ==
  [kind |-> "jwt", secret |-> jwt.secret, issuer |-> jwt.issuer, audience |-> jwt.audience,
   algorithms |-> IF jwt.algorithms = {} THEN Hashes ELSE jwt.algorithms]

\* The plugin that a configuration asks for, or None.  (There is one for API keys, but
\* it is not used: the strategy "apikey" passes everything through.)
CreateAuthMiddleware(config) ==
  IF ~config.jwt.enabled /\ ~config.apikey.enabled THEN None
  ELSE CASE config.strategy = "jwt" -> IF config.jwt.secret = "" THEN None ELSE JWTPlugin(config.jwt)
         [] config.strategy = "apikey" -> IF config.apikey.keys = {} THEN None ELSE Passthrough
         [] OTHER -> Passthrough

VerifySignature(plugin, token) ==
  token.alg \in Hashes /\ token.signature = Sign(token.alg, plugin.secret, token.alg, token.claims)

\* Mutant: the last moment of a token is the first one when it has expired.
ExpiresEarly(claims, now) ==
  /\ "exp" \in DOMAIN claims => claims.exp[1] = "number" /\ now < 2 * claims.exp[2]
  /\ "nbf" \in DOMAIN claims => claims.nbf[1] = "number" /\ now >= 2 * claims.nbf[2]

ValidateExpiration(claims, now) ==
  /\ "exp" \in DOMAIN claims => claims.exp[1] = "number" /\ now <= 2 * claims.exp[2]
  /\ "nbf" \in DOMAIN claims => claims.nbf[1] = "number" /\ now >= 2 * claims.nbf[2]

ValidateAudience(claims, audience) ==
  /\ "aud" \in DOMAIN claims
  /\ \/ Has(claims, "aud", audience)
     \/ claims.aud[1] = "list" /\ <<"text", audience>> \in ToSet(claims.aud[2])

ValidateToken(plugin, token, now) ==
  /\ token.alg \in plugin.algorithms
  /\ VerifySignature(plugin, token)
  /\ ValidateExpiration(token.claims, now)
  /\ plugin.issuer # "" => Has(token.claims, "iss", plugin.issuer)
  /\ plugin.audience # "" => ValidateAudience(token.claims, plugin.audience)

\* Is a request let in?  (None: there is no token behind the right prefix.)
Authenticate(plugin, token, now) ==
  plugin.kind = "jwt" => token # None /\ ValidateToken(plugin, token, now)

-----------------------------------------------------------------------------
(* The layers around the handlers of main.go *)

\* Mutant: the limiter is asked before the request is known to be let in.
LayersLimitFirst == <<"logging", "request id", "limit", "auth", "cache", "breaker">>

\* createHandler: each layer wraps what there is so far; here, outermost first.  The first
\* two are always there.  (SPECIFICATION.md:388 has the limiter between auth and cache.)
Layers == <<"logging", "request id", "auth", "cache", "breaker", "limit">>
Enabled(config) == {"logging", "request id"} \cup config.enabled

\* Breaker.Record in the closed state; a path at the threshold is open.
Record(n, answer) ==
  CASE answer = "panic" -> n                        \* nothing is recorded
    [] answer = "failed" -> n + 1
    [] OTHER -> IF n > 0 THEN n - 1 ELSE 0

\* The checks in the Wrap of the three layers that may refuse a request.
AuthRefuses(request) == ~request.known
LimitRefuses(state) == state.tokens = 0
BreakerRefuses(state, path, threshold) == state.failures[path] >= threshold
Refuses(layer, config, request, state) ==
  \/ layer = "auth" /\ AuthRefuses(request)
  \/ layer = "breaker" /\ BreakerRefuses(state, request.path, config.threshold)
  \/ layer = "limit" /\ LimitRefuses(state)
Refusal == [auth |-> "unauthorized", breaker |-> "unavailable", limit |-> "limited"]

\* What a request gets from the layers and the handler within, and what it leaves: the
\* tokens of the bucket, and the failures of each path, as long as neither a token is
\* refilled nor a breaker's timeout is over.  A request comes in up to the first layer that
\* refuses it, which takes a token if it passes the limiter; on its way out the breaker
\* records the answer.  The layers that log and name requests change no answer; nor does
\* the cache, which is given no methods and so stores nothing.
Serve(config, request, state) ==
  LET on == {i \in DOMAIN Layers : Layers[i] \in Enabled(config)}
      refusing == {i \in on : Refuses(Layers[i], config, request, state)}
      last == IF refusing = {} THEN Len(Layers) + 1 ELSE Min(refusing)
      answer == IF refusing = {} THEN request.outcome ELSE Refusal[Layers[last]]
      Passed(layer) == \E i \in on : i < last /\ Layers[i] = layer
  IN [answer |-> answer,
      state |-> [tokens |-> IF Passed("limit") THEN state.tokens - 1 ELSE state.tokens,
                 failures |-> IF Passed("breaker")
                                THEN [state.failures EXCEPT ![request.path] = Record(@, answer)]
                                ELSE state.failures]]

\* The answers to some requests, one after the other, and the state after them.
ServeNext(config, so, request) ==
  LET now == Serve(config, request, so.state)
  IN [answers |-> Append(so.answers, now.answer), state |-> now.state]
ServeAll(config, requests) ==
  LET start == [answers |-> <<>>,
                state |-> [tokens |-> config.burst, failures |-> [r \in {q.path : q \in ToSet(requests)} |-> 0]]]
  IN FoldLeft(LAMBDA so, r : ServeNext(config, so, r), start, requests)

-----------------------------------------------------------------------------
(* Writers, and a handler that panics *)

\* Mutant: the status is replaced although it has been sent.
RecoverAnyway(r) == IF r.panicked THEN [r EXCEPT !.status = "error", !.panicked = FALSE] ELSE r

\* Recovery: the status of what panicked, if none was sent before.
Recover(r) ==
  IF r.panicked
    THEN [r EXCEPT !.status = IF @ = None THEN "error" ELSE @, !.panicked = FALSE]
    ELSE r

\* Capture: its process function is called with the status, unless a panic passes.
Capture(r) ==
  IF r.panicked THEN r ELSE [r EXCEPT !.seen = Append(@, IF r.status = None THEN "ok" ELSE r.status)]

\* Chain.Then over a handler that does what its program says, until it panics; the
\* status that was written first stays.
Then(layers, program) ==
  LET stop == SelectInSeq(program, LAMBDA op : op = "panic")
      done == IF stop = 0 THEN program ELSE SubSeq(program, 1, stop - 1)
      handled == [status |-> IF done = <<>> THEN None ELSE done[1], panicked |-> stop # 0, seen |-> <<>>]
      Wrap(layer, r) == IF layer = "recovery" THEN Recover(r) ELSE Capture(r)
  IN FoldRight(Wrap, layers, handled)

-----------------------------------------------------------------------------
(* CORS: names are a word and whether it is in capitals *)

Wildcard == <<"*">>
AllowsAny(names) == Wildcard \in ToSet(names)
InSomeCase(name, names) == \E n \in ToSet(names) : n # Wildcard /\ n[1] = name[1]

IsOriginAllowed(config, origin) == AllowsAny(config.origins) \/ InSomeCase(origin, config.origins)

FilterAllowedHeaders(config, requested) ==
  FoldLeft(LAMBDA kept, h : IF InSomeCase(h, config.headers) THEN Append(kept, h) ELSE kept, <<>>, requested)

\* Access-Control-Allow-Headers of a preflight, <<>> if there is none.
AllowHeaders(config, requested) ==
  IF AllowsAny(config.headers) THEN requested
  ELSE IF requested # <<>> THEN FilterAllowedHeaders(config, requested)
  ELSE config.headers

\* Mutant: the answer names the origins as they are configured.
OriginConfigured(config, origin) == config.origins[1]
OriginNamed(config, origin) == origin

\* What the middleware answers: who may read it, what may be sent, and does the handler run?
CORS(config, method, origin, requested) ==
  LET allowed == config.enabled /\ origin # None /\ IsOriginAllowed(config, origin)
      preflight == config.enabled /\ method = "OPTIONS"
  IN [handled |-> ~preflight,
      origin |-> IF allowed THEN OriginNamed(config, origin) ELSE None,
      credentials |-> allowed /\ config.credentials,
      headers |-> IF allowed /\ preflight THEN AllowHeaders(config, requested) ELSE <<>>]

-----------------------------------------------------------------------------
(* What is claimed *)

\* In whatever order the map gives the prefixes, the upstream of a REST request is the one
\* with the longest prefix of the path that is left, and both ways to ask for it agree.
LongestPrefixWins(config, path) ==
  \A order \in SortedPrefixes(config.upstreams) :
    LET request == ClassifyRequest(config, order, path)
        fits == {prefix \in DOMAIN config.upstreams : IsPrefix(prefix, request.path)}
    IN request.type = "rest" =>
         /\ request.upstream = MatchUpstream(config, order, path)
         /\ IF fits = {} THEN request.upstream = <<>>
            ELSE \E prefix \in fits : /\ request.upstream = config.upstreams[prefix]
                                      /\ \A other \in fits : Len(other) <= Len(prefix)

\* A token that the command makes is let in by a gateway with its secret, issuer and
\* audience from nbf until exp, the last moment included, unless its own claims say otherwise;
\* what is let in was signed with the secret, and the command agrees, but for lists of audiences.
TokensAreChecked(config, options, additional, made, now) ==
  LET plugin == CreateAuthMiddleware(config)
      token == GenerateJWT("s", "HS256", GenerateClaims(options, additional, made))
      last == 2 * ((made + options.expires) \div 2)
  IN plugin # None /\ plugin.kind = "jwt" =>
     /\ (additional = <<>> /\ plugin.secret = "s" /\ "HS256" \in plugin.algorithms
           /\ plugin.issuer \in {"", options.iss} /\ plugin.audience \in {"", options.aud})
          => (Authenticate(plugin, token, now) <=> now <= last)
     /\ Authenticate(plugin, token, now) =>
          \/ ValidateJWT(token, plugin.secret, plugin.issuer, plugin.audience, now)
          \/ token.claims.aud[1] = "list"
     /\ \A other \in {"HS384", None}, claims \in {additional, token.claims} :
          LET forged == [token EXCEPT !.alg = other, !.claims = claims]
          IN forged # token => ~Authenticate(plugin, forged, now)

\* Each layer is charged for what it lets through and for nothing else.  An unknown caller
\* costs neither a token nor an answer of the breaker.  A token is taken by what reaches the
\* handler, until there are none left, and not by what the breaker refuses, which is outside of
\* the limiter, unlike in SPECIFICATION.md:388.  A path, where SPECIFICATION.md:361 says an
\* upstream, is refused when at some time its failures were ahead of its other answers by the
\* threshold: not only when they were consecutive, as in SPECIFICATION.md:376, and with the 429
\* of the limiter among the other answers.
LayersAreCharged(config, requests) ==
  LET run == ServeAll(config, requests)
      Is(i, answers) == run.answers[i] \in answers
      handled == {i \in DOMAIN requests : Is(i, {"ok", "failed", "panic"})}
      \* by how much failures are ahead after request n, counted from the best place on
      Ahead(path, n) ==
        LET Count(k, answers) ==
              Cardinality({i \in k .. n : requests[i].path = path /\ Is(i, answers)})
        IN Max({Count(k, {"failed"}) - Count(k, {"ok", "limited"}) : k \in 1 .. n + 1})
      Refused(i) ==
        \E n \in 0 .. i - 1 : Ahead(requests[i].path, n) >= config.threshold
  IN /\ "limit" \in config.enabled => run.state.tokens = config.burst - Cardinality(handled)
     /\ "breaker" \in config.enabled =>
          \A path \in DOMAIN run.state.failures :
            run.state.failures[path] = Ahead(path, Len(requests))
     /\ \A i \in DOMAIN requests :
          /\ Is(i, {"unauthorized"}) <=> "auth" \in config.enabled /\ ~requests[i].known
          /\ Is(i, {"unavailable"}) <=>
               "breaker" \in config.enabled /\ ~Is(i, {"unauthorized"}) /\ Refused(i)
          /\ Is(i, {"limited"}) <=>
               /\ "limit" \in config.enabled /\ ~Is(i, {"unauthorized", "unavailable"})
               /\ Cardinality({j \in handled : j < i}) = config.burst

\* With a Recovery anywhere in a chain the client gets what the handler sent first, or an
\* error if it had sent nothing, and whoever captures the answer sees what the client gets.
PanicsAreAnswered(layers, program) ==
  LET r == Then(layers, program)
      status == IF r.status = None THEN "ok" ELSE r.status
  IN /\ ToSet(r.seen) \subseteq {status}
     /\ "recovery" \in ToSet(layers) =>
          /\ ~r.panicked
          /\ status = IF program = <<>> THEN "ok"
                      ELSE IF program[1] = "panic" THEN "error" ELSE program[1]
     /\ ("recovery" \in ToSet(layers) \/ "panic" \notin ToSet(program)) =>
          \* a Capture outside of some Recovery, or over a handler that ends, has seen it
          (layers # <<>> /\ layers[1] = "capture" => r.seen # <<>>)

\* A browser that asks first and then sends is treated alike both times, whatever the case of
\* its origin; of the headers it asked for it is granted the configured ones, in its order.
PreflightsAgree(config, origin, requested) ==
  LET asked == CORS(config, "OPTIONS", origin, requested)
      sent == CORS(config, "GET", origin, <<>>)
      granted == {i \in DOMAIN requested : AllowsAny(config.headers) \/ InSomeCase(requested[i], config.headers)}
  IN /\ sent.handled
     /\ asked.origin = sent.origin /\ asked.credentials = sent.credentials
     /\ asked.origin \in {None, origin}
     /\ (config.enabled /\ asked.origin # None /\ requested # <<>>) =>
          \E f \in Injection(1 .. Len(asked.headers), DOMAIN requested) :
            /\ Range(f) = granted
            /\ \A i, j \in DOMAIN f : i < j => f[i] < f[j]
            /\ \A i \in DOMAIN f : asked.headers[i] = requested[f[i]]
=============================================================================
