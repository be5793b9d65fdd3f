--------------------------- MODULE RESTEndpoints ---------------------------
(***************************************************************************)
(* proxy/gql2rest: the REST endpoints made of a GraphQL schema, a request  *)
(* for one of them turned into a query, and the answer turned back.        *)
(* Names are strings, Letters gives the characters of each; a path is a    *)
(* sequence of segments, a segment a sequence of characters.               *)
(***************************************************************************)
EXTENDS Naturals, FiniteSets, Sequences, SequencesExt, Functions

CONSTANTS None,
          Letters   \* The characters of each name in use

Text == INSTANCE SchemaTools
Parser == INSTANCE GraphQLParser WITH Names <- DOMAIN Letters

-----------------------------------------------------------------------------
(* The method and the path of a field *)

Creating == {<<"c", "r", "e", "a", "t", "e">>, <<"a", "d", "d">>, <<"n", "e", "w">>,
             <<"i", "n", "s", "e", "r", "t">>}
Updating == {<<"u", "p", "d", "a", "t", "e">>, <<"e", "d", "i", "t">>, <<"m", "o", "d", "i", "f", "y">>}
Patching == {<<"p", "a", "t", "c", "h">>}
Deleting == {<<"d", "e", "l", "e", "t", "e">>, <<"r", "e", "m", "o", "v", "e">>,
             <<"d", "e", "s", "t", "r", "o", "y">>, <<"d", "r", "o", "p">>}
Merging == {<<"u", "p", "s", "e", "r", "t">>, <<"m", "e", "r", "g", "e">>}
Reading == {<<"g", "e", "t">>, <<"f", "e", "t", "c", "h">>, <<"f", "i", "n", "d">>,
            <<"l", "i", "s", "t">>, <<"s", "e", "a", "r", "c", "h">>}
MethodRules == <<<<Creating, "POST">>, <<Updating, "PUT">>, <<Patching, "PATCH">>,
                 <<Deleting, "DELETE">>, <<Merging, "PUT">>, <<Reading, "GET">>>>

HasPrefix(name, verbs) == \E verb \in verbs : IsPrefix(verb, Text!ToLower(Letters[name]))

\* InferMethod, and the endpoint builder's own table.
InferMethod(name) ==
  LET i == SelectInSeq(MethodRules, LAMBDA rule : HasPrefix(name, rule[1]))
  IN IF i = 0 THEN "POST" ELSE MethodRules[i][2]
InferHTTPMethod(name, mutationsUse) ==
  IF mutationsUse = "POST" THEN "POST"
  ELSE IF HasPrefix(name, Creating \cup {<<"p", "o", "s", "t">>}) THEN "POST"
  ELSE IF HasPrefix(name, Updating \cup Patching \cup Merging \cup {<<"p", "u", "t">>}) THEN "PUT"
  ELSE IF HasPrefix(name, Deleting) THEN "DELETE"
  ELSE "POST"

IsCreateOperation(name) == HasPrefix(name, Creating)
IsUpdateOperation(name) == HasPrefix(name, Updating \cup Patching \cup Merging)
IsDeleteOperation(name) == HasPrefix(name, Deleting)
IsReadOperation(name) == HasPrefix(name, Reading)

\* What stands behind the verb.
ExtractResourceName(name) ==
  LET verbs == {v \in UNION {rule[1] : rule \in Range(MethodRules)} : HasPrefix(name, {v})}
  IN IF verbs = {} THEN Letters[name]
     ELSE SubSeq(Letters[name], Len(CHOOSE v \in verbs : TRUE) + 1, Len(Letters[name]))

\* A hyphen before every capital but the first, or only where a word begins.
Hyphenated(s, Begins(_)) ==
  FlattenSeq([i \in DOMAIN s |-> IF i > 1 /\ s[i] \in Text!Uppers /\ Begins(i)
                                   THEN <<"-", Text!Lower(s[i])>> ELSE <<Text!Lower(s[i])>>])
HyphenCapitals(s) == Hyphenated(s, LAMBDA i : TRUE)
ToKebabCase(s) ==
  Hyphenated(s, LAMBDA i : \/ s[i - 1] \notin Text!Uppers \cup Text!Separators
                           \/ s[i - 1] \in Text!Uppers /\ i < Len(s) /\ s[i + 1] \in Text!Lowers)

-----------------------------------------------------------------------------
(* The endpoints *)

\* "id" anywhere in the name, also in "video".
NamesID(name) ==
  LET s == Text!ToLower(Letters[name])
  IN \E i \in 1 .. Len(s) - 1 : s[i] = "i" /\ s[i + 1] = "d"
Braced(name) == <<"{">> \o Letters[name] \o <<"}">>

MapGraphQLTypeToJSON(type) ==
  CASE type \in {"String", "ID"} -> "string"
    [] type = "Int" -> "integer"
    [] type = "Float" -> "number"
    [] type = "Boolean" -> "boolean"
    [] OTHER -> "object"
BuildArgument(input, location) ==
  [name |-> input.name, type |-> MapGraphQLTypeToJSON(input.type), required |-> input.required,
   location |-> location]
BuildArguments(inputs, location) == [i \in DOMAIN inputs |-> BuildArgument(inputs[i], location)]
BuildMutationArguments(inputs, method) ==
  [i \in DOMAIN inputs |->
     BuildArgument(inputs[i], IF method \in {"PUT", "DELETE", "PATCH"} /\ NamesID(inputs[i].name)
                                THEN "path" ELSE "body")]

\* Mutant: the argument keeps its place although it has a segment.
ApplyPathParamsOnly(segment, args) ==
  LET i == SelectInSeq(args, LAMBDA arg : NamesID(arg.name) /\ arg.location # "body")
  IN [path |-> <<segment>> \o (IF i = 0 THEN <<>> ELSE <<Braced(args[i].name)>>), args |-> args]

\* Only the first such argument gets a segment of the path.
ApplyPathParams(segment, args) ==
  LET i == SelectInSeq(args, LAMBDA arg : NamesID(arg.name) /\ arg.location # "body")
  IN IF i = 0 THEN [path |-> <<segment>>, args |-> args]
     ELSE [path |-> <<segment, Braced(args[i].name)>>, args |-> [args EXCEPT ![i].location = "path"]]

Base == <<"a", "p", "i">>
Endpoint(field, method, type, args) ==
  LET applied == ApplyPathParams(ToKebabCase(Letters[field.name]), args)
  IN [path |-> <<Base>> \o applied.path, method |-> method, graphQLType |-> type,
      field |-> field.name, arguments |-> applied.args]
BuildQueryEndpoint(field) == Endpoint(field, "GET", "Query", BuildArguments(field.args, "query"))
BuildMutationEndpoint(field, mutationsUse) ==
  LET method == InferHTTPMethod(field.name, mutationsUse)
  IN Endpoint(field, method, "Mutation", BuildMutationArguments(field.args, method))
GenerateEndpoints(schema, mutationsUse) ==
  [i \in DOMAIN schema.queries |-> BuildQueryEndpoint(schema.queries[i])]
    \o [i \in DOMAIN schema.mutations |-> BuildMutationEndpoint(schema.mutations[i], mutationsUse)]

\* The document of the endpoints: of those with one path the last counts.
WithBody == {"POST", "PUT", "PATCH"}
BuildPathItem(endpoint) ==
  LET At(location) == {arg \in Range(endpoint.arguments) : arg.location = location}
      fields == IF endpoint.method \in WithBody THEN At("body") ELSE {}
  IN [method |-> endpoint.method, path |-> At("path"), query |-> At("query"), body |-> fields,
      required |-> {arg.name : arg \in {a \in fields : a.required}}]
GenerateOpenAPISpec(endpoints) ==
  [path \in {endpoints[i].path : i \in DOMAIN endpoints} |->
     BuildPathItem(endpoints[SelectLastInSeq(endpoints, LAMBDA e : e.path = path)])]

-----------------------------------------------------------------------------
(* The endpoint of a request *)

SplitPath(path) == SelectSeq(path, LAMBDA segment : segment # <<>>)
IsParameter(segment) == Head(segment) = "{" /\ Last(segment) = "}"
MatchPath(pattern, path) ==
  LET pp == SplitPath(pattern)
      parts == SplitPath(path)
      params == {n \in DOMAIN Letters : Braced(n) \in Range(pp)}
  IN IF Len(pp) = Len(parts) /\ \A i \in DOMAIN pp : IsParameter(pp[i]) \/ pp[i] = parts[i]
       THEN {[n \in params |-> parts[SelectLastInSeq(pp, LAMBDA s : s = Braced(n))]]}
       ELSE {}

\* The first endpoint that fits, with the parameters taken from the path.
FindEndpoint(endpoints, path, method) ==
  LET Params(e) == IF e.path = path THEN {<<>>} ELSE MatchPath(e.path, path)
      i == SelectInSeq(endpoints, LAMBDA e : e.method = method /\ Params(e) # {})
  IN IF i = 0 THEN [found |-> FALSE]
     ELSE [found |-> TRUE, endpoint |-> endpoints[i],
           params |-> CHOOSE p \in Params(endpoints[i]) : TRUE]

-----------------------------------------------------------------------------
(* The fields parameter: a sequence of dotted paths.  Selectors are a map from names to the *)
(* selectors below each.                                                                    *)

RECURSIVE ParseFieldPath(_), Merge(_, _)
ParseFieldPath(path) == Head(path) :> IF Len(path) = 1 THEN <<>> ELSE ParseFieldPath(Tail(path))

\* Mutant: of two paths with one root the later one counts.
MergeReplacing(a, b) == b @@ a

\* A name without selectors adds nothing to one with them.
Merge(a, b) ==
  [n \in DOMAIN a \cup DOMAIN b |->
     IF n \notin DOMAIN a \/ (n \in DOMAIN b /\ DOMAIN a[n] = {}) THEN b[n]
     ELSE IF n \notin DOMAIN b \/ DOMAIN b[n] = {} THEN a[n]
     ELSE Merge(a[n], b[n])]
ParseFieldsQuery(paths) == FoldLeft(LAMBDA s, p : Merge(s, ParseFieldPath(p)), <<>>, paths)

\* The tokens of a selection set; the fields come in the order of a map: any.
RECURSIVE BuildSelectionSet(_)
BuildSelectionSet(selectors) ==
  IF DOMAIN selectors = {} THEN {<<>>}
  ELSE LET below == [n \in DOMAIN selectors |-> BuildSelectionSet(selectors[n])]
           Parts(order) == {FlattenSeq([i \in DOMAIN order |-> <<order[i]>> \o pick[order[i]]]) :
                              pick \in {p \in [DOMAIN below -> UNION Range(below)] :
                                          \A n \in DOMAIN p : p[n] \in below[n]}}
       IN {<<"{">> \o parts \o <<"}">> :
             parts \in UNION {Parts(order) : order \in SetToSeqs(DOMAIN selectors)}}

-----------------------------------------------------------------------------
(* The query of a request *)

One == <<"1">>
True == <<"t", "r", "u", "e">>
Readable(type) == CASE type \in {"integer", "number"} -> {One}
                    [] type = "boolean" -> {One, True}
                    [] OTHER -> {}
CoerceValue(v, type) == IF v \in Readable(type) THEN <<type, v>> ELSE <<"string", v>>

\* The arguments that have a value, each with it; path and query values come from one map.
ArgumentsOf(req, endpoint) ==
  LET Given(arg) == arg.name \in DOMAIN (IF arg.location = "body" THEN req.body ELSE req.params)
      Value(arg) == CASE arg.location = "path" -> <<"string", req.params[arg.name]>>
                      [] arg.location = "query" -> CoerceValue(req.params[arg.name], arg.type)
                      [] arg.location = "body" -> req.body[arg.name]
      given == SelectSeq(endpoint.arguments, Given)
  IN [i \in DOMAIN given |-> <<given[i].name, Value(given[i])>>]

\* fields is the type's fields in the schema: the handler's translator has none.
BuildTypeSelection(fields) ==
  {<<"{">> \o [i \in DOMAIN SelectSeq(fields, LAMBDA f : ~f.hasArgs) |->
                 SelectSeq(fields, LAMBDA f : ~f.hasArgs)[i].name] \o <<"}">>}
Translate(req, endpoint, fields) ==
  LET args == ArgumentsOf(req, endpoint)
      list == FlattenSeq([i \in DOMAIN args |-> <<args[i][1], ":", "$", args[i][1]>>])
      arguments == IF args = <<>> THEN <<>> ELSE <<"(">> \o list \o <<")">>
      selection == IF DOMAIN req.fields # {} THEN BuildSelectionSet(req.fields)
                   ELSE BuildTypeSelection(fields)
      kind == IF endpoint.method = "GET" THEN "query" ELSE "mutation"
  IN [queries |-> {<<kind, "{", endpoint.field>> \o arguments \o s \o <<"}">> : s \in selection},
      variables |-> [n \in {args[i][1] : i \in DOMAIN args} |->
                       args[SelectLastInSeq(args, LAMBDA a : a[1] = n)][2]]]

-----------------------------------------------------------------------------
(* The answer: errors with a code or None and the pattern their message has, and data *)

StatusOf == [UNAUTHORIZED |-> 401, FORBIDDEN |-> 403, NOT_FOUND |-> 404, VALIDATION_FAILED |-> 400,
             INTERNAL_ERROR |-> 500, TIMEOUT |-> 504, RATE_LIMITED |-> 429]
MapErrorCodeToHTTPStatus(code) ==
  CASE code \in DOMAIN StatusOf -> StatusOf[code]
    [] code = "BAD_USER_INPUT" -> 400
    [] OTHER -> 500
MapErrorCodeToStatus(error) ==
  CASE error.code \in DOMAIN StatusOf -> StatusOf[error.code]
    [] OTHER -> CASE error.message = "not found" -> 404
                  [] error.message = "unauthorized" -> 401
                  [] error.message = "forbidden" -> 403
                  [] error.message = "invalid" -> 400
                  [] error.message = "timed out" -> 504
                  [] OTHER -> 500

Failed(status, code) == [status |-> status, code |-> code, data |-> None]
\* The unwrapping, with the status of the first error by either table.
Unwrapped(resp, field, Status(_)) ==
  IF resp.errors # <<>>
    THEN LET first == Head(resp.errors)
         IN Failed(Status(first), IF first.code = None THEN "GRAPHQL_ERROR" ELSE first.code)
  ELSE IF ~resp.isObject THEN Failed(500, "UNWRAP_ERROR")
  ELSE [status |-> 200, code |-> None,
        data |-> IF field \in DOMAIN resp.data THEN resp.data[field] ELSE None]
UnwrapForHandler(resp, field) == Unwrapped(resp, field, LAMBDA e : MapErrorCodeToHTTPStatus(e.code))
UnwrapResponse(resp, field) == Unwrapped(resp, field, MapErrorCodeToStatus)

\* ServeHTTP up to the call of the upstream: an answer, or the query with its variables.
ServeHTTP(endpoints, req) ==
  LET found == FindEndpoint(endpoints, req.path, req.method)
      body == IF req.method \in WithBody THEN req.body ELSE <<>>
  IN IF ~found.found THEN [answer |-> Failed(404, "NOT_FOUND")]
     ELSE IF req.method \in WithBody /\ ~req.validBody THEN [answer |-> Failed(400, "INVALID_BODY")]
     ELSE [call |-> Translate([params |-> found.params @@ req.query, body |-> body,
                               fields |-> ParseFieldsQuery(req.fields)], found.endpoint, <<>>),
           field |-> found.endpoint.field]

-----------------------------------------------------------------------------
(* fields.go: selections built from the fields of a type, each with its own fields *)

FieldParamParse(kind, paths) ==
  [all |-> kind # "only",
   exclusions |-> IF kind = "not" THEN {p[1] : p \in {p \in Range(paths) : Len(p) = 1}} ELSE {},
   selectors |-> IF kind = "only" THEN ParseFieldsQuery(paths) ELSE <<>>]
HasField(result, name) ==
  IF result.all THEN name \notin result.exclusions ELSE name \in DOMAIN result.selectors

RECURSIVE BuildType(_, _, _, _)
BuildType(fields, exclude, only, depth) ==
  LET Chosen(f) == f.name \notin exclude /\ (only = None \/ f.name \in only) /\ ~f.hasArgs
      chosen == SelectSeq(fields, Chosen)
      below == [i \in DOMAIN chosen |-> BuildType(chosen[i].fields, exclude, only, depth - 1)]
      Field(i) == <<chosen[i].name>>
                    \o IF chosen[i].fields = <<>> \/ below[i] = <<"{", "}">> THEN <<>> ELSE below[i]
  IN IF depth = 0 THEN <<>>
     ELSE <<"{">> \o FlattenSeq([i \in DOMAIN chosen |-> Field(i)]) \o <<"}">>

\* The names of the parameter hold at every depth.
ApplyFieldParam(fields, result, depth) ==
  BuildType(fields, result.exclusions,
            IF result.all \/ DOMAIN result.selectors = {} THEN None ELSE DOMAIN result.selectors, depth)

-----------------------------------------------------------------------------
(* What is claimed *)

\* The leaves of parsed selections, and the longest of a set of paths.
RECURSIVE Leaves(_)
Leaves(selections) ==
  UNION {IF s.selections \in {None, <<>>} THEN {<<s.name>>}
         ELSE {<<s.name>> \o leaf : leaf \in Leaves(s.selections)} : s \in Range(selections)}
Longest(paths) == {p \in paths : \A q \in paths : q # p => ~IsPrefix(p, q)}

\* The tables of verbs differ on three of them only: the builder's has no PATCH (as in
\* SPECIFICATION.md:575) and no verbs that read, the other one does not know "put".
VerbsAgree(name) ==
  LET method == InferMethod(name)
  IN /\ <<method, InferHTTPMethod(name, "heuristic")>> =
          CASE HasPrefix(name, Patching) -> <<"PATCH", "PUT">>
            [] HasPrefix(name, {<<"p", "u", "t">>}) -> <<"POST", "PUT">>
            [] HasPrefix(name, Reading) -> <<"GET", "POST">>
            [] OTHER -> <<method, method>>
     /\ IsUpdateOperation(name) <=> method \in {"PUT", "PATCH"}
     /\ IsDeleteOperation(name) <=> method = "DELETE"
     /\ IsReadOperation(name) <=> method = "GET"
     /\ IsCreateOperation(name) => method = "POST"
     /\ LET s == ExtractResourceName(name)
        IN /\ IsSuffix(s, Letters[name])
           /\ (\A i \in 2 .. Len(s) : ~{s[i - 1], s[i]} \subseteq Text!Uppers)
                => HyphenCapitals(s) = ToKebabCase(s)

\* The request that the document of an endpoint tells a client to make.
RequestFor(e, value, text, fields) ==
  LET At(locations) == {arg.name : arg \in {a \in Range(e.arguments) : a.location \in locations}}
  IN [method |-> e.method, path |-> [i \in DOMAIN e.path |-> IF IsParameter(e.path[i]) THEN value
                                                            ELSE e.path[i]],
      query |-> [n \in At({"path", "query"}) |-> text], validBody |-> TRUE,
      body |-> [n \in At({"body"}) |-> <<"json", n>>], fields |-> fields]

\* What the repository's own parser reads is one operation for the endpoint's field, with each
\* argument as a variable, none of which the operation declares; the selection is the longest
\* of the paths asked for, and empty if none are.
IsFor(parsed, e, names, fields) ==
  LET op == Head(parsed.definitions)
      field == Head(op.selections)
  IN /\ parsed.errors = 0 /\ Len(parsed.definitions) = 1 /\ Len(op.selections) = 1
     /\ op.kind = (IF e.graphQLType = "Query" THEN "query" ELSE "mutation")
     /\ op.variables = <<>>
     /\ field.name = e.field
     /\ ToSet(field.args) = {[name |-> n, value |-> <<"variable", n>>] : n \in names}
     /\ Len(field.args) = Cardinality(names)
     /\ Leaves(field.selections) = Longest(ToSet(fields))
     /\ fields = <<>> <=> field.selections = <<>>

\* The variables of the arguments that the document of an endpoint names have the values given.
AreBound(variables, documented, path, value, text) ==
  /\ DOMAIN variables = {arg.name : arg \in documented}
  /\ \A arg \in documented :
       variables[arg.name] =
         CASE arg.location = "path" -> <<"string", IF Braced(arg.name) \in Range(path) THEN value ELSE text>>
           [] arg.location = "query" -> CoerceValue(text, arg.type)
           [] arg.location = "body" -> <<"json", arg.name>>

\* The first endpoint that a request made for e fits.
FirstLike(endpoints, e) ==
  SelectInSeq(endpoints, LAMBDA other : /\ other.method = e.method /\ other.path[2] = e.path[2]
                                        /\ Len(other.path) = Len(e.path))

\* A request made for an endpoint reaches the first one of its method with that path: the
\* upstream gets an operation of that field and its kind, with the selection asked for.  The
\* document describes the last endpoint of a path, whatever its method; one that is both has
\* every documented argument bound to the value given.
EndpointsAnswer(endpoints, value, text, fields) ==
  LET spec == GenerateOpenAPISpec(endpoints)
  IN \A i \in DOMAIN endpoints :
       LET e == endpoints[i]
           first == FirstLike(endpoints, e)
           item == spec[e.path]
           result == ServeHTTP(endpoints, RequestFor(e, value, text, fields))
           last == \A j \in i + 1 .. Len(endpoints) : endpoints[j].path # e.path
       IN /\ "call" \in DOMAIN result /\ result.field = endpoints[first].field
          /\ \A query \in result.call.queries :
               IsFor(Parser!Parse(query), endpoints[first], DOMAIN result.call.variables, fields)
          /\ last => item.method = e.method
          /\ last /\ first = i =>
               AreBound(result.call.variables, item.path \cup item.query \cup item.body,
                        e.path, value, text)
RequestsReachTheirField(schema, mutationsUse, value, text, fields) ==
  EndpointsAnswer(GenerateEndpoints(schema, mutationsUse), value, text, fields)

\* The two unwrappers agree on every answer, but on a code that one of them does not know.
AnswersAgree(resp, field) ==
  LET one == UnwrapForHandler(resp, field)
      other == UnwrapResponse(resp, field)
  IN /\ (resp.errors # <<>> \/ ~resp.isObject) <=> one.status >= 400
     /\ one.status >= 400 <=> other.status >= 400
     /\ (resp.errors # <<>> /\ resp.errors[1].code \notin DOMAIN StatusOf) \/ one = other

\* The sequences of fields that lead into a type.
RECURSIVE Ways(_)
Ways(fields) ==
  UNION {{<<f>>} \cup {<<f>> \o way : way \in Ways(f.fields)} : f \in Range(fields)}

\* A selection made for a type has, at every depth down to the limit, the fields without
\* arguments that the first names of the parameter's paths let in: what stands behind a dot
\* is selected only if it is also the first name of a path, and excluded only if it is one
\* without dots.  A parameter without any path selects everything, though it has no field.
ParameterIsApplied(fields, kind, paths, depth) ==
  LET result == FieldParamParse(kind, paths)
      parsed == Parser!Parse(ApplyFieldParam(fields, result, depth))
      LetsIn(name) ==
        CASE kind = "only" -> paths = <<>> \/ \E p \in Range(paths) : p[1] = name
          [] kind = "not" -> <<name>> \notin Range(paths)
          [] OTHER -> TRUE
      open == {way \in Ways(fields) :
                 Len(way) <= depth /\ \A f \in Range(way) : ~f.hasArgs /\ LetsIn(f.name)}
  IN /\ parsed.errors = 0 /\ Len(parsed.definitions) = 1
     /\ Leaves(Head(parsed.definitions).selections) =
          Longest({[i \in DOMAIN way |-> way[i].name] : way \in open})
     /\ \A f \in Range(fields) :
          HasField(result, f.name) <=> LetsIn(f.name) /\ (kind = "only" => paths # <<>>)
=============================================================================
