----------------------------- MODULE RESTSchema -----------------------------
(***************************************************************************)
(* proxy/rest2gql: the GraphQL schema of an OpenAPI document, the          *)
(* resolvers of its operations, and the request that a resolver makes of a *)
(* field's arguments.  Names and the segments of paths are sequences of    *)
(* characters; a parameter stands in braces.                               *)
(***************************************************************************)
EXTENDS Naturals, FiniteSets, Sequences, SequencesExt, Functions

CONSTANTS None

Text == INSTANCE SchemaTools

-----------------------------------------------------------------------------
(* Types: <<"named", n>>, <<"list", t>>, <<"nonnull", t>>; a name that the code itself gives *)
(* is a sequence of one string.                                                              *)

Named(name) == <<"named", name>>
NonNull(type) == <<"nonnull", type>>
Builtins == {<<"String">>, <<"Int">>, <<"Float">>, <<"Boolean">>, <<"ID">>}

\* Mutant: the name of a reference is kept as it is.
LastPart(ref) == Last(ref)

\* ref is the reference's parts.
ExtractRefName(ref) == Text!ToPascalCase(Last(ref))

GenerateEnumName(s) == IF s.title # <<>> THEN Text!ToPascalCase(s.title) ELSE <<"Enum">>
MapStringType(s) ==
  IF s.enum # <<>> THEN Named(GenerateEnumName(s))
  ELSE Named(IF s.format = "uuid" THEN <<"ID">> ELSE <<"String">>)
MapObjectType(s) == Named(IF s.additional THEN <<"Map">> ELSE <<"Object">>)

\* None stands for an error: there is no schema, as for an array without items.
ListOrNone(item) == IF item = None THEN None ELSE <<"list", item>>
NonNullIf(required, type) ==
  IF type # None /\ required /\ type[1] # "nonnull" THEN NonNull(type) ELSE type
RECURSIVE MapOpenAPIType(_)
MapOpenAPIType(s) ==
  IF s = None THEN None
  ELSE IF s.ref # None THEN Named(ExtractRefName(s.ref))
  ELSE NonNullIf(s.required # {},
                 CASE s.type = "string" -> MapStringType(s)
                   [] s.type = "integer" -> Named(<<"Int">>)
                   [] s.type = "number" -> Named(<<"Float">>)
                   [] s.type = "boolean" -> Named(<<"Boolean">>)
                   [] s.type = "array" -> ListOrNone(MapOpenAPIType(s.items))
                   [] s.type = "object" -> MapObjectType(s)
                   [] OTHER -> Named(<<"String">>))
OrString(type) == IF type = None THEN Named(<<"String">>) ELSE type

OpenAPIToGraphQLType(type, format) ==
  CASE type = "string" /\ format = "uuid" -> "ID"
    [] type = "integer" -> "Int"
    [] type = "number" -> "Float"
    [] type = "boolean" -> "Boolean"
    [] type = "array" -> "List"
    [] type = "object" -> "Object"
    [] OTHER -> "String"
GraphQLToOpenAPIType(type) ==
  CASE type = "Int" -> <<"integer", "int32">>
    [] type = "Float" -> <<"number", "float64">>
    [] type = "Boolean" -> <<"boolean", "">>
    [] type = "ID" -> <<"string", "uuid">>
    [] OTHER -> <<"string", "">>

-----------------------------------------------------------------------------
(* The schema.  What depends on the order of a map is a set of what may come of it. *)

BuildField(name, prop, required) ==
  [name |-> Text!ToCamelCase(name), type |-> NonNullIf(name \in required, MapOpenAPIType(prop))]
BuildObjectType(s) ==
  [kind |-> "object", fields |-> {BuildField(n, s.properties[n], s.required) : n \in DOMAIN s.properties}]
BuildEnumType(s) == [kind |-> "enum", values |-> [i \in DOMAIN s.enum |-> Text!ToPascalCase(s.enum[i])]]

\* Aliases, arrays and plain strings define no type.
Defines(s) == s.ref = None /\ (s.type = "object" \/ (s.type = "string" /\ s.enum # <<>>))
ProcessSchema(s) == IF s.type = "object" THEN BuildObjectType(s) ELSE BuildEnumType(s)

\* The name of a path, of which the resolvers know the first form and the schema the second.
PathToFieldName(path) ==
  LET Clean(segment) == [i \in DOMAIN SelectSeq(segment, LAMBDA c : c \notin {"{", "}"}) |->
                           LET c == SelectSeq(segment, LAMBDA d : d \notin {"{", "}"})[i]
                           IN IF c = "-" THEN "_" ELSE c]
  IN Text!Joined([i \in DOMAIN path |-> Clean(path[i])], <<"_">>)

Create == <<"c", "r", "e", "a", "t", "e">>
Update == <<"u", "p", "d", "a", "t", "e">>
Delete == <<"d", "e", "l", "e", "t", "e">>
\* The words that a summary may hint by, and the verb of each.
Hints == <<<<{"create", "add"}, Create>>, <<{"update", "edit"}, Update>>, <<{"delete", "remove"}, Delete>>>>
FieldName(path, op, type) ==
  LET name == Text!ToCamelCase(PathToFieldName(path))
      hint == SelectInSeq(Hints, LAMBDA h : h[1] \cap op.summary # {})
      ends == SelectInSeq(Hints, LAMBDA h : IsSuffix(h[2], Last(path)))
      ended == ends # 0 /\ IsSuffix(Hints[ends][2], name)
      verb == IF hint # 0 THEN Hints[hint][2]
              ELSE IF ends # 0 THEN Hints[ends][2]
              ELSE IF Last(Last(path)) = "}" THEN Update ELSE Create
  IN IF type = "query" THEN name
     ELSE verb \o Text!ToPascalCase(IF hint = 0 /\ ended THEN Text!Cut(name, Len(verb)) ELSE name)

ArgumentType(in, type) == IF in = "path" THEN NonNull(type) ELSE type
BuildArgument(param) ==
  [name |-> Text!ToCamelCase(param.name),
   type |-> ArgumentType(param.in, OrString(MapOpenAPIType(param.schema)))]
Input == <<"i", "n", "p", "u", "t">>
\* body is None without JSON content, or its schema in a tuple.
BuildRequestBodyArgument(body) == [name |-> Input, type |-> NonNull(OrString(MapOpenAPIType(body[1])))]
OrObject(types) == IF types \ {None} = {} THEN {Named(<<"Object">>)} ELSE types \ {None}
DetermineReturnType(op) ==
  OrObject({MapOpenAPIType(op.responses[code]) : code \in {"200", "201"} \cap DOMAIN op.responses})
BuildOperationField(path, op, type) ==
  [name |-> FieldName(path, op, type), returns |-> DetermineReturnType(op),
   args |-> [i \in DOMAIN op.parameters |-> BuildArgument(op.parameters[i])]
              \o IF type = "mutation" /\ op.body # None THEN <<BuildRequestBodyArgument(op.body)>> ELSE <<>>]

\* The operations of a document that have the methods, a path with each.
Operations(spec, methods) ==
  UNION {{<<path, method>> : method \in methods \cap DOMAIN spec.paths[path]} : path \in DOMAIN spec.paths}
Mutating == <<"POST", "PUT", "DELETE", "PATCH">>
BuildFields(spec, methods, type) ==
  {BuildOperationField(o[1], spec.paths[o[1]][o[2]], type) : o \in Operations(spec, methods)}
BuildQueryFields(spec) == BuildFields(spec, {"GET"}, "query")
BuildMutationFields(spec) == BuildFields(spec, ToSet(Mutating), "mutation")

\* Of components with one name in capitals either may stay.
TypeNames(spec, prefix) ==
  [n \in {m \in DOMAIN spec.schemas : Defines(spec.schemas[m])} |-> prefix \o Text!ToPascalCase(n)]
TypesOf(spec, names) ==
  [t \in Range(names) |-> {ProcessSchema(spec.schemas[n]) : n \in {m \in DOMAIN names : names[m] = t}}]
Build(spec, prefix) ==
  [types |-> TypesOf(spec, TypeNames(spec, prefix)),
   query |-> BuildQueryFields(spec), mutation |-> BuildMutationFields(spec)]
\* One field in error fails the whole.
Failed(schema) ==
  \E d \in UNION Range(schema.types) : d.kind = "object" /\ (\E f \in d.fields : f.type = None)

-----------------------------------------------------------------------------
(* Resolvers *)

\* For each name of a type's field, what may be registered: of one path the last method, of
\* several paths any.
BuildFromSpec(spec) ==
  LET Key(o) == <<IF o[2] = "GET" THEN "Query" ELSE "Mutation", PathToFieldName(o[1])>>
      all == Operations(spec, {"GET"} \cup ToSet(Mutating))
      After(m, n) == \E i, j \in DOMAIN Mutating : i > j /\ Mutating[i] = m /\ Mutating[j] = n
      Stays(o) == \A p \in all : p[1] = o[1] => ~After(p[2], o[2])
  IN [key \in {Key(o) : o \in all} |-> {o \in all : Key(o) = key /\ Stays(o)}]

\* Every upstream's resolvers go into one registry: a later one replaces names there already.
RegisterUpstream(registry, upstream, spec) ==
  LET built == BuildFromSpec(spec)
  IN [key \in DOMAIN built |-> {<<upstream>> \o o : o \in built[key]}] @@ registry

Braced(name) == <<"{">> \o name \o <<"}">>
ParamsIn(op, places) == {p \in ToSet(op.parameters) : p.in \in places}

\* The path with the arguments in place of the parameters, and the query; None where an
\* argument is missing.  A value is one character, a name stands once in a segment.
BuildURL(path, op, args) ==
  LET Place(segments, p) ==
        IF p.in = "path" THEN [i \in DOMAIN segments |-> ReplaceFirstSubSeq(<<args[p.name]>>, Braced(p.name), segments[i])]
        ELSE segments
      inQuery == SelectSeq(op.parameters, LAMBDA p : p.in = "query" /\ p.name \in DOMAIN args)
  IN IF \E p \in ParamsIn(op, {"path"}) : p.name \notin DOMAIN args THEN None
     ELSE [path |-> FoldLeft(Place, path, op.parameters),
           query |-> [i \in DOMAIN inQuery |-> <<inQuery[i].name, args[inQuery[i].name]>>]]

\* Mutant: only what is in the path is left out of the body.
BuildBodyWithQuery(method, op, args) ==
  IF method \notin {"POST", "PUT", "PATCH"} THEN None
  ELSE IF Input \in DOMAIN args THEN <<"input", args[Input]>>
  ELSE LET rest == DOMAIN args \ {p.name : p \in ParamsIn(op, {"path"})}
       IN IF rest = {} THEN None ELSE <<"args", [n \in rest |-> args[n]]>>

\* The input as it is, or what is neither in the path nor in the query.
BuildBody(method, op, args) ==
  IF method \notin {"POST", "PUT", "PATCH"} THEN None
  ELSE IF Input \in DOMAIN args THEN <<"input", args[Input]>>
  ELSE LET rest == DOMAIN args \ {p.name : p \in ParamsIn(op, {"path", "query"})}
       IN IF rest = {} THEN None ELSE <<"args", [n \in rest |-> args[n]]>>

\* resp has a status, and a body: <<>> if empty, <<v>> if it is JSON, None otherwise.
ParseResponse(resp) ==
  IF resp.status \notin 200 .. 299 THEN <<"failed", resp.status>>
  ELSE IF resp.body = <<>> THEN <<"value", None>>
  ELSE IF resp.body = None THEN <<"failed", "JSON">>
  ELSE <<"value", Head(resp.body)>>

\* Resolve up to the call: a failure, or the request.
Resolve(path, method, op, args) ==
  LET url == BuildURL(path, op, args)
  IN IF url = None THEN <<"failed", "missing">>
     ELSE <<"request", [method |-> IF method = "" THEN "GET" ELSE method, url |-> url,
                        body |-> BuildBody(method, op, args)]>>

-----------------------------------------------------------------------------
(* What is claimed *)

RECURSIVE NameOf(_)
NameOf(type) == IF type[1] = "named" THEN type[2] ELSE NameOf(type[2])

\* The names of the types that a schema's fields and arguments refer to.
Referred(schema) ==
  LET objects == {d \in UNION Range(schema.types) : d.kind = "object"}
      ofTypes == {f.type : f \in UNION {d.fields : d \in objects}}
      ofFields == UNION {f.returns \cup {a.type : a \in ToSet(f.args)} : f \in schema.query \cup schema.mutation}
  IN {NameOf(t) : t \in ofTypes \cup ofFields}

\* In a document whose references lead to its own components, and without a prefix, every
\* type that the schema refers to is defined, but for components that define none and for
\* objects and enums in place: whatever the spelling and the order of the names.
RefersOnlyTo(schema, others) ==
  ~Failed(schema) => Referred(schema) \subseteq DOMAIN schema.types \cup others
TypesAreDefined(spec) ==
  LET hanging == {Text!ToPascalCase(n) : n \in {m \in DOMAIN spec.schemas : ~Defines(spec.schemas[m])}}
  IN RefersOnlyTo(Build(spec, <<>>), Builtins \cup hanging \cup {<<"Map">>, <<"Object">>, <<"Enum">>})

\* The required arguments of a field, by their names in the schema, each with a value.
RequiredArgs(field) ==
  [n \in {a.name : a \in {a \in ToSet(field.args) : a.type[1] = "nonnull"}} |-> "x"]

\* A query of a field with its required arguments is sent to its own path, without a parameter
\* left open, if the names of the path and of its parameters are the same in camel case and
\* no other path has the same name.
Stable(name) == Text!ToCamelCase(name) = name
ReachesItsPath(o, op, field, registry) ==
  LET result == Resolve(o[1], "GET", op, RequiredArgs(field))
  IN Stable(PathToFieldName(o[1])) /\ (\A p \in ToSet(op.parameters) : Stable(p.name)) =>
       /\ registry[<<"Query", field.name>>] = {<<"u">> \o o}
       /\ result[1] = "request" /\ result[2].body = None
       /\ \A p \in ParamsIn(op, {"path"}) : Braced(p.name) \notin ToSet(result[2].url.path)
QueriesReachTheirPath(spec) ==
  \A o \in Operations(spec, {"GET"}) :
    (\A p \in Operations(spec, {"GET"}) : PathToFieldName(p[1]) = PathToFieldName(o[1]) => p = o) =>
      ReachesItsPath(o, spec.paths[o[1]]["GET"],
                     BuildOperationField(o[1], spec.paths[o[1]]["GET"], "query"),
                     RegisterUpstream(<<>>, "u", spec))

\* A request is made if every path parameter has an argument.  Then each argument goes out
\* once: in the path, in the query, or in the body of a method that has one; but beside an
\* input only what is in the path or in the query goes out.
RequestsAreWhole(path, method, op, args) ==
  LET result == Resolve(path, method, op, args)
      request == result[2]
      inPath == {p.name : p \in ParamsIn(op, {"path"})}
      inQuery == {request.url.query[i][1] : i \in DOMAIN request.url.query}
      inBody == IF request.body # None /\ request.body[1] = "args" THEN DOMAIN request.body[2] ELSE {}
      bodied == method \in {"POST", "PUT", "PATCH"} /\ Input \notin DOMAIN args
  IN IF ~inPath \subseteq DOMAIN args THEN result[1] = "failed"
     ELSE /\ result[1] = "request"
          /\ Len(request.url.path) = Len(path)
          /\ \A i \in DOMAIN path : \A n \in inPath :
               path[i] = Braced(n) => request.url.path[i] = <<args[n]>>
          /\ inQuery = {p.name : p \in ParamsIn(op, {"query"})} \cap DOMAIN args
          /\ (inPath \cup inQuery) \cap inBody = {}
          /\ bodied => DOMAIN args \subseteq inPath \cup inQuery \cup inBody
          /\ Input \in DOMAIN args /\ method \in {"POST", "PUT", "PATCH"} => request.body = <<"input", args[Input]>>

\* The plain types are the same after both directions, and keep what their format says.
TypesReadBack(type, format) ==
  LET back == GraphQLToOpenAPIType(OpenAPIToGraphQLType(type, format))
  IN type \in {"string", "integer", "number", "boolean"} =>
       back[1] = type /\ OpenAPIToGraphQLType(back[1], back[2]) = OpenAPIToGraphQLType(type, format)
=============================================================================
