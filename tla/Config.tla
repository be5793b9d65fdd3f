-------------------------------- MODULE Config --------------------------------
(***************************************************************************)
(* config.Load: the environment's values are put into the text, the YAML   *)
(* reader (see YAMLReader) makes a tree of it, yaml.Unmarshal writes the   *)
(* tree over the defaults, Validate accepts or refuses the result.  Also   *)
(* Config.Merge.  A document's values are tagged as those of YAMLReader,   *)
(* except that texts come apart: <<"duration", ms>> as "30s",              *)
(* <<"memory", bytes>> as "256MB", and <<"text", t>> for all others;       *)
(* <<"fraction", n>> is n and a half.  A duration is in milliseconds.      *)
(***************************************************************************)
EXTENDS Integers, Sequences, SequencesExt, FiniteSets, TLC

CONSTANTS None,
          EqualFold(_, _)       \* do two keys differ in upper and lower case only?

Second == 1000
Minute == 60 * Second
KB == 1024
MB == KB * KB

-----------------------------------------------------------------------------
(* The fields of every section, with their types *)

Struct(s) == <<"struct", s>>
Pointer(s) == <<"pointer", s>>
All(type, keys) == [k \in keys |-> <<type>>]

ServerFields ==
  [host |-> <<"string">>, tls |-> Pointer("tls")] @@ All("int", {"port", "max_header_bytes"})
    @@ All("duration", {"read_timeout", "write_timeout", "idle_timeout"})
GatewayFields ==
  All("string", {"rest_prefix", "graphql_path", "mcp_path"})
    @@ [rate_limit |-> Struct("rate_limit"), circuit_breaker |-> Struct("circuit_breaker"),
        cache |-> Struct("cache"), auth |-> Struct("gateway_auth")]
GuardFields ==
  [rate_limit |-> All("bool", {"enabled"}) @@ All("int", {"requests_per_second", "burst_size"}),
   circuit_breaker |-> All("bool", {"enabled"}) @@ All("duration", {"reset_timeout"})
                         @@ All("int", {"failure_threshold", "half_open_requests"}),
   cache |-> All("bool", {"enabled"}) @@ All("duration", {"ttl"})
               @@ All("int", {"max_size", "max_entry_size"})]
GatewayAuthFields ==
  [gateway_auth |-> [strategy |-> <<"string">>, jwt |-> Struct("jwt"), apikey |-> Struct("apikey")],
   jwt |-> All("bool", {"enabled"}) @@ [allowed_algorithms |-> <<"strings">>]
             @@ All("string", {"secret", "issuer", "audience", "header_name", "header_prefix"}),
   apikey |-> [enabled |-> <<"bool">>, keys |-> <<"strings">>, header_name |-> <<"string">>,
               key_map |-> <<"map">>]]
UpstreamFields ==
  [upstream |-> All("string", {"name", "type", "base_url", "endpoint"})
                  @@ [openapi |-> Pointer("openapi"), graphql |-> Pointer("graphql"),
                      timeout |-> <<"duration">>, retry |-> Struct("retry"),
                      auth |-> Struct("upstream_auth"), headers |-> <<"map">>],
   openapi |-> [source |-> <<"string">>, refresh_interval |-> <<"duration">>],
   graphql |-> [introspection |-> Struct("introspection")],
   introspection |-> [enabled |-> <<"bool">>, refresh_interval |-> <<"duration">>],
   retry |-> [max_attempts |-> <<"int">>, backoff |-> <<"string">>]
               @@ All("duration", {"base_delay", "max_delay"}),
   upstream_auth |-> All("string", {"strategy", "header", "token", "username", "password"})]
SchemaFields ==
  [schema |-> [rest2graphql |-> Struct("rest2graphql"), graphql2rest |-> Struct("graphql2rest"),
               pagination |-> Struct("pagination"), limits |-> Struct("limits")],
   rest2graphql |-> [enabled |-> <<"bool">>],
   graphql2rest |-> [enabled |-> <<"bool">>, endpoint_prefix |-> <<"string">>],
   pagination |-> All("int", {"default_limit", "max_limit"}),
   limits |-> All("int", {"max_depth", "max_complexity"}) @@ All("bool", {"introspection"})]
MCPFields ==
  [mcp |-> [enabled |-> <<"bool">>, tools |-> Struct("tools"), resources |-> Struct("resources"),
            prompts |-> Struct("prompts"), sampling |-> Struct("sampling")],
   tools |-> [auto_discover |-> <<"bool">>, prefix |-> <<"string">>],
   resources |-> [auto_expose |-> <<"bool">>],
   prompts |-> [enabled |-> <<"bool">>], sampling |-> [enabled |-> <<"bool">>]]
ObservabilityFields ==
  [observability |-> [logging |-> Struct("logging"), metrics |-> Struct("metrics"),
                      health |-> Struct("health"), request_id |-> Struct("request_id")],
   logging |-> All("string", {"level", "format", "output"}),
   metrics |-> [enabled |-> <<"bool">>, path |-> <<"string">>],
   health |-> [enabled |-> <<"bool">>, path |-> <<"string">>],
   request_id |-> [header |-> <<"string">>, propagate |-> <<"bool">>]]
AdminFields ==
  [admin |-> [enabled |-> <<"bool">>, path |-> <<"string">>, auth |-> Pointer("admin_auth")],
   admin_auth |-> All("string", {"type", "username", "password", "token"})]

Fields ==
  [config |-> [server |-> Struct("server"), gateway |-> Struct("gateway"),
               upstreams |-> <<"slice", "upstream">>, schema |-> Struct("schema"),
               mcp |-> Struct("mcp"), observability |-> Struct("observability"),
               admin |-> Struct("admin")],
   server |-> ServerFields, tls |-> All("string", {"cert_file", "key_file"}),
   gateway |-> GatewayFields]
    @@ GuardFields @@ GatewayAuthFields @@ UpstreamFields @@ SchemaFields @@ MCPFields
    @@ ObservabilityFields @@ AdminFields

RECURSIVE Zero(_)
Zero(type) ==
  CASE type[1] = "struct" -> [k \in DOMAIN Fields[type[2]] |-> Zero(Fields[type[2]][k])]
    [] type[1] = "pointer" -> None
    [] type[1] \in {"slice", "strings", "map"} -> <<>>
    [] type[1] = "string" -> ""
    [] type[1] = "bool" -> FALSE
    [] OTHER -> 0
Fresh(section) == Zero(Struct(section))

DefaultConfig ==
  [server |-> [host |-> "0.0.0.0", port |-> 8080, read_timeout |-> 30 * Second,
               write_timeout |-> 30 * Second, idle_timeout |-> 2 * Minute,
               max_header_bytes |-> MB, tls |-> None],
   gateway |->
     [rest_prefix |-> "/api", graphql_path |-> "/graphql", mcp_path |-> "/mcp",
      rate_limit |-> [enabled |-> TRUE, requests_per_second |-> 100, burst_size |-> 150],
      circuit_breaker |-> [enabled |-> TRUE, failure_threshold |-> 5, reset_timeout |-> 30 * Second,
                           half_open_requests |-> 3],
      cache |-> [enabled |-> TRUE, max_size |-> 256 * MB, ttl |-> 5 * Minute, max_entry_size |-> MB],
      auth |-> Fresh("gateway_auth")],
   upstreams |-> <<>>,
   schema |-> [rest2graphql |-> [enabled |-> TRUE],
               graphql2rest |-> [enabled |-> TRUE, endpoint_prefix |-> "/rest"],
               pagination |-> [default_limit |-> 20, max_limit |-> 100],
               limits |-> [max_depth |-> 10, max_complexity |-> 1000, introspection |-> TRUE]],
   mcp |-> [enabled |-> TRUE, tools |-> [auto_discover |-> TRUE, prefix |-> ""],
            resources |-> [auto_expose |-> TRUE], prompts |-> [enabled |-> TRUE],
            sampling |-> [enabled |-> TRUE]],
   observability |-> [logging |-> [level |-> "info", format |-> "json", output |-> "stdout"],
                      metrics |-> [enabled |-> TRUE, path |-> "/-/metrics"],
                      health |-> [enabled |-> TRUE, path |-> "/-/health"],
                      request_id |-> [header |-> "X-Request-ID", propagate |-> TRUE]],
   admin |-> [enabled |-> FALSE, path |-> "/-/admin", auth |-> None]]

-----------------------------------------------------------------------------
(* Unmarshal: what is absent or null stays as it was *)

Good(value) == [ok |-> TRUE, value |-> value]
Refused == [ok |-> FALSE, value |-> None]

\* Whatever it is, it is printed: a number or truth value that was meant as text is not
\* always printed as it was written.
UnmarshalString(v) ==
  CASE v[1] = "bool" -> IF v[2] THEN "true" ELSE "false"
    [] v[1] = "text" -> v[2]
    [] OTHER -> ToString(v)

UnmarshalInt(v) ==
  IF v[1] \in {"number", "fraction", "memory"} THEN Good(v[2]) ELSE Refused

UnmarshalDuration(v) ==
  CASE v[1] = "duration" -> Good(v[2])
    [] v[1] \in {"number", "fraction"} -> Good(v[2] * Second)
    [] OTHER -> Refused

UnmarshalBool(v) ==
  CASE v[1] = "bool" -> Good(v[2])
    [] v = <<"text", "t">> -> Good(TRUE)
    [] v = <<"text", "f">> -> Good(FALSE)
    [] OTHER -> Refused

\* The value of a key, in its spelling or in another one (of two others, any).
Given(data, name) ==
  IF name \in DOMAIN data THEN {name} ELSE {k \in DOMAIN data : EqualFold(k, name)}

Each(results) ==
  IF \A i \in DOMAIN results : results[i].ok
    THEN Good([i \in DOMAIN results |-> results[i].value] @@ <<>>) ELSE Refused

RECURSIVE Unmarshal(_, _, _), UnmarshalStruct(_, _, _)
Unmarshal(type, v, old) ==
  IF v[1] = "null" THEN Good(old)
  ELSE CASE type[1] = "struct" -> UnmarshalStruct(type[2], v, old)
         [] type[1] = "pointer" -> UnmarshalStruct(type[2], v, IF old = None THEN Fresh(type[2]) ELSE old)
         [] type[1] = "slice" ->
              IF v[1] # "list" THEN Refused
              ELSE Each([i \in DOMAIN v[2] |-> Unmarshal(Struct(type[2]), v[2][i], Fresh(type[2]))])
         [] type[1] = "strings" ->
              IF v[1] # "list" THEN Refused
              ELSE Each([i \in DOMAIN v[2] |-> Unmarshal(<<"string">>, v[2][i], "")])
         [] type[1] = "map" ->
              IF v[1] # "map" THEN Refused
              ELSE Each([k \in DOMAIN v[2] |-> Unmarshal(<<"string">>, v[2][k], "")])
         [] type[1] = "string" -> Good(UnmarshalString(v))
         [] type[1] = "int" -> UnmarshalInt(v)
         [] type[1] = "duration" -> UnmarshalDuration(v)
         [] type[1] = "bool" -> UnmarshalBool(v)

UnmarshalStruct(section, v, old) ==
  IF v[1] # "map" THEN Refused
  ELSE Each([k \in DOMAIN Fields[section] |->
               LET given == Given(v[2], k)
               IN IF given = {} THEN Good(old[k])
                  ELSE Unmarshal(Fields[section][k], v[2][CHOOSE g \in given : TRUE], old[k])])

\* Sizes that are texts are read once more, if the sections' names are in lower case.
FixConfigFields(config, document) ==
  LET In(data, k) == IF k \in DOMAIN data /\ data[k][1] = "map" THEN data[k][2] ELSE <<>>
      cache == In(In(document[2], "gateway"), "cache")
      fixed == {k \in {"max_size", "max_entry_size"} \cap DOMAIN cache : cache[k][1] = "memory"}
  IN [config EXCEPT !.gateway.cache = [k \in fixed |-> cache[k][2]] @@ @]

-----------------------------------------------------------------------------
(* Validate *)

ValidServer(s) ==
  /\ s.port \in 1 .. 65535
  /\ s.read_timeout > 0 /\ s.write_timeout > 0 /\ s.idle_timeout > 0
  /\ s.max_header_bytes >= KB
  /\ s.tls # None => s.tls.cert_file # "" /\ s.tls.key_file # ""

ValidRateLimit(r) == r.enabled => r.requests_per_second >= 1 /\ r.burst_size >= 1

ValidCircuitBreaker(c) ==
  c.enabled => c.failure_threshold >= 1 /\ c.reset_timeout > 0 /\ c.half_open_requests >= 1

ValidCache(c) == c.enabled => c.max_size >= KB /\ c.ttl > 0 /\ c.max_entry_size >= 1

ValidPaths(g) ==
  /\ "" \notin {g.rest_prefix, g.graphql_path, g.mcp_path}
  /\ g.rest_prefix \notin {g.graphql_path, g.mcp_path}

\* Mutant: without a rate limit the gateway is not looked at any further.
ValidGatewayEarly(g) ==
  ValidPaths(g) /\ (g.rate_limit.enabled =>
    ValidRateLimit(g.rate_limit) /\ ValidCircuitBreaker(g.circuit_breaker) /\ ValidCache(g.cache))

ValidGateway(g) ==
  /\ ValidPaths(g)
  /\ ValidRateLimit(g.rate_limit) /\ ValidCircuitBreaker(g.circuit_breaker) /\ ValidCache(g.cache)

\* What the code fills in here for an absent strategy, backoff or delay it fills into a copy.
ValidRetry(r) ==
  /\ r.max_attempts >= 0
  /\ r.max_attempts > 0 =>
       r.backoff \in {"", "exponential", "linear", "fixed"} /\ r.base_delay >= 0 /\ r.max_delay >= 0

ValidAuth(a) ==
  /\ a.strategy \in {"", "none", "forward", "bearer", "basic"}
  /\ a.strategy = "forward" => a.header # ""
  /\ a.strategy = "bearer" => a.token # ""
  /\ a.strategy = "basic" => a.username # "" /\ a.password # ""

ValidUpstream(u) ==
  /\ u.name \notin {"", "not a name"}
  /\ u.type \in {"rest", "graphql"}
  /\ u.type = "rest" => /\ u.base_url \notin {"", "not a URL"}
                        /\ u.openapi # None /\ u.openapi.source # ""
  /\ u.type = "graphql" => u.endpoint \notin {"", "not a URL"}
  /\ u.timeout > 0
  /\ ValidRetry(u.retry) /\ ValidAuth(u.auth)

ValidUpstreams(us) ==
  /\ \A i \in DOMAIN us : ValidUpstream(us[i])
  /\ \A i, j \in DOMAIN us : us[i].name = us[j].name => i = j

ValidSchema(s) ==
  /\ s.pagination.default_limit >= 1 /\ s.pagination.max_limit >= s.pagination.default_limit
  /\ s.limits.max_depth >= 1 /\ s.limits.max_complexity >= 1

ValidObservability(o) ==
  /\ o.logging.level \in {"debug", "info", "warn", "error"} /\ o.logging.format \in {"json", "text"}
  /\ o.metrics.enabled => o.metrics.path # ""
  /\ o.health.enabled => o.health.path # ""
  /\ o.request_id.header # ""

ValidAdmin(a) ==
  a.enabled =>
    /\ a.path # ""
    /\ a.auth # None => /\ a.auth.type \in {"basic", "bearer"}
                        /\ a.auth.type = "basic" => a.auth.username # "" /\ a.auth.password # ""
                        /\ a.auth.type = "bearer" => a.auth.token # ""

Validate(c) ==
  /\ ValidServer(c.server) /\ ValidGateway(c.gateway) /\ ValidSchema(c.schema)
  /\ ValidObservability(c.observability) /\ ValidAdmin(c.admin) /\ ValidUpstreams(c.upstreams)

Load(document) ==
  LET read == Unmarshal(Struct("config"), document, DefaultConfig)
      config == FixConfigFields(read.value, document)
  IN IF ~read.ok \/ ~Validate(config) THEN Refused ELSE Good(config)

-----------------------------------------------------------------------------
(* Merge and InterpolateEnv *)

\* Mutant: a value that is there already stays.
OverEmpty(fields, old, new) ==
  [k \in DOMAIN old |-> IF k \in fields /\ old[k] = Zero(<<"string">>) THEN new[k] ELSE old[k]]

\* Of some sections the values other than zero are taken, of some nothing; upstreams are
\* appended; the truth values named here are always the source's.
Over(fields, old, new) ==
  [k \in DOMAIN old |-> IF k \in fields /\ new[k] # Zero(<<"string">>) THEN new[k] ELSE old[k]]
OverNumbers(fields, old, new) ==
  [k \in DOMAIN old |-> IF k \in fields /\ new[k] # 0 THEN new[k] ELSE old[k]]
OverPointer(old, new) == IF new # None THEN new ELSE old

Merge(c, source) ==
  LET numbers == {"port", "read_timeout", "write_timeout", "idle_timeout", "max_header_bytes"}
      admin == source.admin
  IN [c EXCEPT
        !.server = [OverNumbers(numbers, Over({"host"}, @, source.server), source.server) EXCEPT
                      !.tls = OverPointer(@, source.server.tls)],
        !.gateway = Over({"rest_prefix", "graphql_path", "mcp_path"}, @, source.gateway),
        !.upstreams = @ \o source.upstreams,
        !.schema.rest2graphql.enabled = source.schema.rest2graphql.enabled,
        !.schema.graphql2rest.enabled = source.schema.graphql2rest.enabled,
        !.mcp.enabled = source.mcp.enabled,
        !.observability.logging = Over({"level", "format", "output"}, @, source.observability.logging),
        !.admin = IF ~admin.enabled THEN @
                  ELSE [enabled |-> TRUE, path |-> IF admin.path # "" THEN admin.path ELSE @.path,
                        auth |-> OverPointer(@.auth, admin.auth)]]

\* Texts as sequences of characters.  The first "${" with something in it, up to the first
\* "}" behind, is replaced, and so on behind it; what is put in is not looked at again.
RECURSIVE InterpolateEnv(_, _)
InterpolateEnv(env, text) ==
  LET close == SelectInSeq(text, LAMBDA c : c = "}")
      content == SubSeq(text, 3, close - 1)
      colon == SelectInSeq(content, LAMBDA c : c = ":")
      name == IF colon = 0 THEN content ELSE SubSeq(content, 1, colon - 1)
  IN IF text = <<>> THEN <<>>
     ELSE IF IsPrefix(<<"$", "{">>, text) /\ close > 3
       THEN (IF name \in DOMAIN env /\ env[name] # <<>> THEN env[name]
             ELSE IF colon > 0 THEN SubSeq(content, colon + 1, Len(content))
             ELSE SubSeq(text, 1, close))
            \o InterpolateEnv(env, SubSeq(text, close + 1, Len(text)))
     ELSE <<Head(text)>> \o InterpolateEnv(env, Tail(text))

-----------------------------------------------------------------------------
(* What is claimed *)

\* A document with a value at a path, and the value of a configuration at one.
RECURSIVE Put(_, _, _), ValueAt(_, _)
Put(document, path, v) ==
  IF path = <<>> THEN v
  ELSE LET k == Head(path)
           below == IF k \in DOMAIN document[2] THEN document[2][k] ELSE <<"map", <<>>>>
       IN <<"map", (k :> Put(below, Tail(path), v)) @@ document[2]>>
ValueAt(c, path) == IF path = <<>> THEN c ELSE ValueAt(c[Head(path)], Tail(path))

\* The parts of a configuration that are judged on their own.
Part(path) ==
  IF Len(path) > 2 /\ path[1] = "gateway" THEN SubSeq(path, 1, 2) ELSE SubSeq(path, 1, 1)
Parts == {<<s>> : s \in DOMAIN Fields.config} \cup {<<"gateway", s>> : s \in DOMAIN GatewayFields}

\* Merge's comment says that "values in the source take precedence" (validator.go:502).  They
\* do in the sections below, if they are not zero (in a source that was loaded, the defaults
\* too), in the administration only if the source enables it, and in three switches always.
\* Everything else, the guards of the gateway above all, stays as it was: the source's values
\* are dropped, in spite of the comment.
Switches ==
  {<<"mcp", "enabled">>} \cup {<<"schema", s, "enabled">> : s \in {"rest2graphql", "graphql2rest"}}
Precedes(p, type, value, source) ==
  \/ p \in Switches
  \/ /\ value # Zero(type)
     /\ \/ p[1] = "server"
        \/ p[1] = "gateway" /\ Len(p) = 2
        \/ p[1] = "observability" /\ p[2] = "logging"
        \/ p[1] = "admin" /\ source.admin.enabled

RECURSIVE Chosen(_, _, _, _, _)
Chosen(type, p, old, new, source) ==
  IF type[1] = "struct"
    THEN [k \in DOMAIN old |-> Chosen(Fields[type[2]][k], Append(p, k), old[k], new[k], source)]
    ELSE IF Precedes(p, type, new, source) THEN new ELSE old

\* What is accepted can be merged into what is accepted, unless they name an upstream alike.
Merges(first, second, merged) ==
  LET Names(c) == {c.upstreams[i].name : i \in DOMAIN c.upstreams}
  IN /\ Validate(merged) <=> Names(first) \cap Names(second) = {}
     /\ merged = [Chosen(Struct("config"), <<>>, first, second, second)
                    EXCEPT !.upstreams = first.upstreams \o second.upstreams]

\* Two values given in two parts: the document is accepted just when each of them is on its
\* own; then each part is what it is on its own, all others are the defaults, and the two can
\* be merged.  Reading the sizes again changes nothing.
Together(p, q, first, second, both) ==
  /\ both.ok <=> first.ok /\ second.ok
  /\ both.ok =>
       /\ \A part \in Parts :
            part # <<"gateway">> =>
              ValueAt(both.value, part) = ValueAt(IF IsPrefix(part, p) THEN first.value
                                                  ELSE IF IsPrefix(part, q) THEN second.value
                                                  ELSE DefaultConfig, part)
       /\ Merges(first.value, second.value, Merge(first.value, second.value))
FixedAlready(document, read) == FixConfigFields(read, document) = read
PartsAreIndependent(p, v, q, w) ==
  LET Empty == <<"map", <<>>>>
      Independent(document, both) ==
        /\ Together(p, q, Load(Put(Empty, p, v)), Load(Put(Empty, q, w)), both)
        /\ both.ok => FixedAlready(document, Unmarshal(Struct("config"), document, DefaultConfig).value)
  IN Independent(Put(Put(Empty, p, v), q, w), Load(Put(Put(Empty, p, v), q, w)))

\* A key's spelling does not matter.
SpellingIsFree(p, other, v) ==
  Load(Put(<<"map", <<>>>>, p, v)) = Load(Put(<<"map", <<>>>>, Front(p) \o <<other>>, v))

\* Texts are replaced piece by piece where no "${" is left open, and not at all without one.
Closed(text) ==
  \A i \in DOMAIN text :
    text[i] = "$" => /\ i < Len(text)
                     /\ text[i + 1] = "{" => \E j \in i + 2 .. Len(text) : text[j] = "}"
EnvIsPutIn(env, s, t) ==
  /\ Closed(s) => InterpolateEnv(env, s \o t) = InterpolateEnv(env, s) \o InterpolateEnv(env, t)
  /\ "$" \notin Range(s) => InterpolateEnv(env, s) = s
=============================================================================
