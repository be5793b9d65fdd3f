---------------------------- MODULE MC_Algorithms ----------------------------
(***************************************************************************)
(* The algorithms of the gateway, each over all inputs of a small set, for *)
(* TLC.  A behaviour takes one topic and one input of it; the invariants   *)
(* say that the algorithm's results are right for that input.              *)
(***************************************************************************)
EXTENDS Requests, SequencesExt, FiniteSetsExt, Functions, TLC

vars == <<topic, input>>

Lexer == INSTANCE GraphQLLexer
Parser == INSTANCE GraphQLParser WITH Names <- {"a", "b"}

\* The resolvers of Query: "a" answers with an object, or with its argument of that name.
Leaf == <<"map", [__typename |-> <<"scalar", "T">>, b |-> <<"scalar", "leaf">>]>>
Object == <<"map", [__typename |-> <<"scalar", "T">>, a |-> <<"list", <<None, Leaf>>>>,
                    b |-> <<"scalar", "b">>]>>
Resolve(type, field, args) ==
  CASE type = "Query" /\ field = "a" -> Object
    [] type = "Query" /\ field = "b" -> <<"scalar", "1">>
    [] type = "Query" /\ field = "c" -> <<"failed">>
    [] OTHER -> <<"unknown">>
Executor == INSTANCE GraphQLExecutor WITH Resolvers <- Resolve
YAML == INSTANCE YAMLReader

Topics == {"text", "value", "block", "lines", "document", "tokens", "query", "arguments",
           "name", "mapping", "openapi", "damage", "yaml", "yaml lines",
           "config", "spelling", "env", "request", "answer", "selection", "verb",
           "schema", "call", "types", "resources", "pages"} \cup RequestTopics

-----------------------------------------------------------------------------
(* The inputs *)

Characters == {"b", "e", "u", "0", "4", "-", ".", "#", "quote", "back", "nl"}
Quotes == <<"quote", "quote", "quote">>
Texts == {FlattenSeq(pieces) :
            pieces \in BoundedSeq({<<c>> : c \in Characters} \cup {Quotes}, 4)}
Values == BoundedSeq({"b", "quote", "back", "nl", Lexer!BackSpace}, 3)
Blocks == BoundedSeq({"b", "quote", "nl", " "}, 5)
Lines == BoundedSeq((0 .. 2) \X {<<>>, <<"e">>}, 3)

Args == {<<>>,
         <<[name |-> "type", value |-> <<"variable", "a">>],
           [name |-> "b",
            value |-> <<"object",
                        <<[name |-> "query",
                           value |-> <<"list", <<<<"literal", "null">>, <<"object", <<>>>>>>>>]>>>>]>>}
Directives == {<<>>} \cup {<<[name |-> "a", args |-> args]>> : args \in Args}
Leaves == [kind : {"field"}, alias : {None, "a", "b"}, name : {"a"}, args : Args,
           directives : Directives, selections : {None, <<>>}]
Plain == {l \in Leaves : l.args = <<>> /\ l.directives = <<>> /\ l.alias # "a"}
Spreads == [kind : {"spread"}, name : {"a"}, directives : Directives]
Fields == {[kind |-> "field", alias |-> alias, name |-> "b", args |-> <<>>, directives |-> <<>>,
            selections |-> <<s, t>>] : alias \in {None, "b"}, s \in Plain, t \in Spreads}
Inlines == {[kind |-> "inline", on |-> "b", directives |-> d, selections |-> <<s>>] :
              d \in Directives, s \in Leaves \cup Spreads}
Types == {<<"named", "a">>, <<"nonnull", <<"list", <<"nonnull", <<"named", "b">>>>>>>>,
          <<"list", <<"list", <<"named", "b">>>>>>}
Variables == {<<>>} \cup {<<[name |-> "a", type |-> type, default |-> default]>> :
                           type \in Types, default \in {None, <<"literal", "1">>}}
Sets == {<<>>} \cup {<<s>> : s \in Leaves \cup Spreads \cup Fields \cup Inlines}
SomeSets == {<<s, t>> : s \in Spreads, t \in Plain}
Definitions ==
  [kind : {"query", "subscription"}, name : {None}, variables : {<<>>}, directives : {<<>>},
   selections : Sets]
    \cup [kind : {"query", "mutation"}, name : {None, "b"}, variables : Variables,
          directives : Directives, selections : SomeSets]
    \cup [kind : {"fragment"}, name : {"a"}, on : {"b"}, directives : Directives,
          selections : SomeSets]
\* A block string as a default and one within an argument.
BlockDocuments ==
  {<<[kind |-> "query", name |-> None, directives |-> <<>>,
      variables |-> <<[name |-> "a", type |-> <<"named", "a">>, default |-> <<"literal", s>>]>>,
      selections |-> <<[kind |-> "field", alias |-> None, name |-> "a", directives |-> <<>>,
                        selections |-> None,
                        args |-> <<[name |-> "b", value |-> <<"list", <<<<"literal", t>>, <<"literal", "1">>>>>>]>>]>>]>> :
     s, t \in Parser!Blocks}
\* Documents of one definition, or of that one and a query without its keyword.
Documents == BlockDocuments \cup {<<d>> \o rest : d \in Definitions,
                rest \in {<<>>, <<[kind |-> "query", name |-> None, variables |-> <<>>,
                                  directives |-> <<>>, selections |-> <<>>]>>}}
Operation == [kind |-> "mutation", name |-> "b", variables |-> <<>>, directives |-> <<>>,
              selections |-> <<>>]
\* A document with everything in it, with one token replaced, dropped or doubled.
Rich == [kind |-> "query", name |-> "b",
         variables |-> <<[name |-> "a", type |-> <<"nonnull", <<"list", <<"named", "b">>>>>>,
                          default |-> <<"literal", "1">>]>>,
         directives |-> <<>>,
         selections |-> <<[kind |-> "field", alias |-> "b", name |-> "a",
                           args |-> CHOOSE args \in Args : Len(args) = 2,
                           directives |-> <<[name |-> "a", args |-> <<>>]>>,
                           selections |-> <<CHOOSE s \in Spreads : s.directives = <<>>>>],
                          CHOOSE i \in Inlines : i.directives = <<>> /\ i.selections[1].kind = "field">>]
Marks == {"a", "query", "fragment", "on", "type", "1", "block blank", "block quote", "{", "}", "(", ")", "[", "]", ":", "@", "$", "=",
          "!", "...", "illegal"}

\* Queries with two fragments.
Field(alias, name, set) == [kind |-> "field", alias |-> alias, name |-> name, args |-> <<>>,
                            directives |-> <<>>, selections |-> set]
Spread(name) == [kind |-> "spread", name |-> name, directives |-> <<>>]
Inline(type, set) == [kind |-> "inline", on |-> type, directives |-> <<>>, selections |-> set]
Small == {Field(None, "b", None), Field("b", "c", None), Spread("F"), Spread("G"),
          Inline("T", <<Field("a", "b", None), Spread("F")>>)}
Nested == {Field(None, "a", <<s, t>>) : s, t \in Small}
FragmentOn(name, type, set) == [kind |-> "fragment", name |-> name, on |-> type,
                                directives |-> <<>>, selections |-> set]
\* Deeper ones, each fragment in the depth of another one or on its own.
Deep(s) == Field(None, "a", <<Field(None, "a", <<s>>)>>)
DeepQueries ==
  {<<FragmentOn("F", "T", <<Deep(u)>>), [kind |-> "query", name |-> None, variables |-> <<>>,
                                        directives |-> <<>>, selections |-> <<t>>],
     FragmentOn("G", "T", <<v>>)>> :
     t, u \in {Deep(w) : w \in Small} \cup Small \cup {Spread("H")},
     v \in {Deep(Field("c", "b", None)), Field(None, "b", <<>>)}}
Queries == DeepQueries \cup
  {<<FragmentOn("F", on, <<u, v>>), [kind |-> "query", name |-> None, variables |-> <<>>,
                                    directives |-> <<>>, selections |-> <<s, t>>],
     FragmentOn("G", "T", <<w>>)>> :
     on \in {"Query", "T"}, s \in Nested \cup Small, t \in Small, u \in Small,
     v \in {Field(None, "a", <<Spread("F")>>), Field(None, "b", <<>>)},
     w \in {Spread("F"), Field("a", "b", None), Field("b", "a", <<Spread("G")>>)}}

\* Three fields, two of them maybe of one path.
NeedsOf == BoundedSeq({"p"}, 1) \cup {<<"q">>, <<"r">>, <<"nobody">>, <<"p", "q">>, <<"p", "r">>, <<"q", "r">>}
Planned(path, upstream, needs) == [path |-> path, upstream |-> upstream, dependencies |-> needs,
                                     mutation |-> path = "q"]
FieldsAskedMC == {<<Planned("p", "u", d), Planned("q", v, e), Planned(path, w, f)>> :
                  v, w \in {"", "u", "v"}, d, e, f \in NeedsOf, path \in {"p", "r"}}

NamesOf(letters, n) == BoundedSeq(letters, n)
Mapped == {<<"a", "_", "b">>, <<"a", "a">>, <<"a", "a", "_", "b", "b">>, <<"a", "a", "B", "b">>}
Mappings == BoundedSeq(Mapped \X Mapped, 2)
Records == {[k \in keys |-> k] : keys \in SUBSET Mapped}

\* Maps of one or two keys over values three levels deep, and two lines of text.
Over(S) ==
  LET Two == S \X S
  IN {<<"list", <<v>>>> : v \in S} \cup {<<"list", two>> : two \in Two}
       \cup {<<"map", [a |-> v]>> : v \in S} \cup {<<"map", [a |-> two[1], b |-> two[2]]>> : two \in Two}
YAMLLeaves == {<<"text", "x">>, <<"null">>, <<"number", "1">>}
YAMLNodes == YAMLLeaves \cup Over({<<"text", "x">>, <<"null">>})
YAMLTrees == {<<"map", [a |-> v]>> : v \in YAMLNodes \cup Over(YAMLNodes)}
               \cup {<<"map", [a |-> v, b |-> <<"list", <<<<"text", "x">>>>>>]>> : v \in YAMLNodes \cup Over(YAMLNodes)}
YAMLLines(n) == BoundedSeq({"a", ":", "-", " ", "#", "quote", "|"}, n)

-----------------------------------------------------------------------------
(* OpenAPI documents with references in all places, one with everything in *)
(* it that is damaged in each place, and configurations with values of all *)
(* kinds in every field of every section, with a value of another part.    *)

API == INSTANCE OpenAPIDocument

SchemaRef(name) == API!Ref(<<"components", "schemas", name>>)
ParameterRef(name) == API!Ref(<<"components", "parameters", name>>)
Typed(type) == API!Object([x \in {"type"} |-> API!Text(type)])
With(k, v) == API!Object([x \in {"type", k} |-> IF x = k THEN v ELSE API!Text("T")])
Holding(p) == With("properties", API!Object([p |-> p]))
InContent(schema) ==
  API!Object([content |-> API!Object([json |-> API!Object([schema |-> schema])])])
APIParameter(schema) ==
  API!Object([name |-> API!Text("q"), in |-> API!Text("query"), schema |-> schema])
Responses(response) == API!Object([ok |-> response])
APIDocument(path, components) ==
  API!Object([openapi |-> API!Text("3.0"),
              info |-> API!Object([title |-> API!Text("t"), version |-> API!Text("1")]),
              paths |-> API!Object([x |-> path]), components |-> components])

-----------------------------------------------------------------------------
(* References: schemas that contain themselves or each other, references   *)
(* to references, and references that lead nowhere or to something else    *)

ASchemas == {Typed("a"), Holding(SchemaRef("A")), With("items", SchemaRef("B")),
             With("allOf", API!List(<<SchemaRef("B"), Typed("c"), SchemaRef("A")>>)),
             SchemaRef("A"), SchemaRef("B")}
BSchemas == {With("not", SchemaRef("A")), SchemaRef("A"), Holding(Holding(SchemaRef("B")))}
\* The parameter of the path, and the component P.
APIParameters == {<<ParameterRef("P"), APIParameter(SchemaRef("A"))>>,
               <<APIParameter(SchemaRef("B")), ParameterRef("Q")>>,
               <<ParameterRef("P"), ParameterRef("Q")>>}
ResponsesOfGet == {InContent(SchemaRef("A")), InContent(Holding(SchemaRef("B"))),
                   InContent(ParameterRef("P")), InContent(SchemaRef("missing")),
                   API!Ref(<<"components", "responses", "R">>)}
APIPath(p, r) ==
  API!Object([parameters |-> API!List(<<p>>),
              get |-> API!Object([responses |-> Responses(r), parameters |-> API!List(<<p>>)]),
              post |-> API!Object([requestBody |-> API!Ref(<<"components", "requestBodies", "C">>)])])

WithComponents ==
  {APIDocument(APIPath(p[1], r),
            API!Object([schemas |-> API!Object([A |-> a, B |-> b]),
                        parameters |-> API!Object([P |-> p[2], Q |-> APIParameter(Typed("q"))]),
                        responses |-> API!Object([R |-> InContent(SchemaRef("B"))]),
                        requestBodies |-> API!Object([C |-> InContent(SchemaRef("A"))])])) :
     a \in ASchemas, b \in BSchemas, p \in APIParameters, r \in ResponsesOfGet}
WithoutComponents ==
  {APIDocument(path, <<"bool">>) :
     path \in {API!Object([parameters |-> API!List(<<APIParameter(s)>>)]) : s \in {SchemaRef("A"), Typed("x")}}
                \cup {API!Ref(<<"paths", "y">>), API!Ref(<<"paths">>)}}
APIDocuments == WithComponents \cup WithoutComponents

-----------------------------------------------------------------------------
(* Damage *)

WholeAPI ==
  LET schema == API!Object([type |-> API!Text("T"), nullable |-> <<"bool">>, maximum |-> <<"number">>,
                            required |-> API!List(<<API!Text("p")>>), enum |-> API!List(<<<<"number">>>>),
                            properties |-> API!Object([p |-> SchemaRef("A")]),
                            anyOf |-> API!List(<<Typed("a")>>)])
      get == API!Object([operationId |-> API!Text("o"), tags |-> API!List(<<API!Text("t")>>),
                         requestBody |-> InContent(schema), responses |-> Responses(InContent(Typed("r")))])
      path == API!Object([summary |-> API!Text("s"), get |-> get,
                          parameters |-> API!List(<<APIParameter(SchemaRef("A")), ParameterRef("P")>>)])
      variables == API!Object([v |-> API!Object([enum |-> API!List(<<API!Text("e")>>)])])
      components == API!Object([schemas |-> API!Object([A |-> schema]),
                                parameters |-> API!Object([P |-> APIParameter(Typed("q"))])])
  IN API!Object(APIDocument(path, components)[2]
                  @@ [servers |-> API!List(<<API!Object([url |-> API!Text("u"), variables |-> variables])>>),
                      tags |-> API!List(<<API!Object([name |-> API!Text("t")])>>)])
APIPlaces == API!Places(WholeAPI) \ {<<>>}
NewValues == {None, <<"bool">>, <<"number">>, <<"digits">>, API!Text("x"), API!List(<<>>), API!Object(<<>>)}

-----------------------------------------------------------------------------
(* Configurations *)

Spelling == [port |-> "PORT", ttl |-> "Ttl", enabled |-> "ENABLED", max_size |-> "Max_Size", level |-> "LEVEL"]
EqualFold(a, b) == b \in DOMAIN Spelling /\ a = Spelling[b]

Conf == INSTANCE Config

RECURSIVE ConfigLeaves(_)
ConfigLeaves(section) ==
  UNION {IF Conf!Fields[section][k][1] \in {"struct", "pointer"}
           THEN {<<k>> \o p : p \in ConfigLeaves(Conf!Fields[section][k][2])} ELSE {<<k>>} :
         k \in DOMAIN Conf!Fields[section]}
TextOf(t) == <<"text", t>>
MapOf(f) == <<"map", f>>
ConfigValues == {<<"null">>, <<"bool", FALSE>>, <<"number", 0>>, <<"number", -1>>, <<"number", 1>>,
           <<"number", 70000>>, <<"fraction", 0>>, <<"duration", 1000>>, <<"memory", 2048>>,
           TextOf("x"), TextOf("t"), MapOf([x |-> TextOf("x")]), <<"list", <<TextOf("x")>>>>}

Upstream == [name |-> TextOf("u"), type |-> TextOf("rest"), base_url |-> TextOf("http"), timeout |-> <<"number", 1>>,
             openapi |-> MapOf([source |-> TextOf("file")])]
Alike == [name |-> TextOf("v"), type |-> TextOf("graphql"), endpoint |-> TextOf("http"), timeout |-> <<"duration", 1>>]
SectionWith(f, k, v) == MapOf((k :> v) @@ f)
Upstreams == {MapOf(Upstream), MapOf(Alike), SectionWith(Upstream, "type", TextOf("graphql")), SectionWith(Upstream, "timeout", <<"null">>),
              SectionWith(Upstream, "openapi", MapOf([x |-> TextOf("x")])), SectionWith(Alike, "name", TextOf("not a name")),
              SectionWith(Alike, "retry", MapOf([max_attempts |-> <<"number", 3>>])),
              SectionWith(Alike, "retry", MapOf([max_attempts |-> <<"number", 3>>, backoff |-> TextOf("none")])),
              SectionWith(Alike, "auth", MapOf([strategy |-> TextOf("bearer")])),
              SectionWith(Alike, "auth", MapOf([strategy |-> TextOf("bearer"), token |-> <<"number", 7>>])),
              SectionWith(Alike, "headers", MapOf([x |-> <<"bool", TRUE>>]))}
UpstreamLists == {<<"list", us>> : us \in BoundedSeq(Upstreams, 1) \ {<<>>}} \cup
                 {<<"list", <<MapOf(Upstream), u>>>> : u \in Upstreams}

ConfigPaths == ConfigLeaves("config") \ {<<"upstreams">>}
GivenPairs == {<<p, v>> : p \in ConfigPaths, v \in ConfigValues} \cup {<<<<"upstreams">>, us>> : us \in UpstreamLists}
           \cup {<<<<s>>, v>> : s \in DOMAIN Conf!Fields.config, v \in {<<"null">>, TextOf("x")}}
OtherPairs == {<<<<"gateway", "rate_limit", "enabled">>, <<"bool", FALSE>>>>,
           <<<<"gateway", "circuit_breaker", "failure_threshold">>, <<"number", 0>>>>,
           <<<<"gateway", "cache", "max_size">>, <<"memory", 2048>>>>,
           <<<<"server", "tls">>, MapOf([cert_file |-> TextOf("x"), key_file |-> TextOf("y")])>>,
           <<<<"admin">>, MapOf([enabled |-> <<"bool", TRUE>>, path |-> TextOf("/x")])>>,
           <<<<"upstreams">>, <<"list", <<MapOf(Upstream)>>>>>>}
ConfigPairs == {pair \in GivenPairs \X OtherPairs : Conf!Part(pair[1][1]) # Conf!Part(pair[2][1])
            /\ ~IsPrefix(pair[1][1], pair[2][1]) /\ ~IsPrefix(pair[2][1], pair[1][1])}

Spellings == {<<p, v>> \in ConfigPaths \X ConfigValues : Last(p) \in DOMAIN Spelling}

Env == [x \in {<<"a">>, <<"a", "a">>} |-> IF x = <<"a">> THEN <<>> ELSE <<"$", "{", "a">>]
EnvTexts == BoundedSeq({"$", "{", "}", ":", "a"}, 6)

-----------------------------------------------------------------------------
(* GraphQL to REST *)

Letters == [user |-> <<"u", "s", "e", "r">>, getURL |-> <<"g", "e", "t", "U", "R", "L">>,
            getUrl |-> <<"g", "e", "t", "U", "r", "l">>,
            addUser |-> <<"a", "d", "d", "U", "s", "e", "r">>,
            editVideo |-> <<"e", "d", "i", "t", "V", "i", "d", "e", "o">>,
            dropUser |-> <<"d", "r", "o", "p", "U", "s", "e", "r">>,
            putABug |-> <<"p", "u", "t", "A", "B", "u", "g">>,
            patchX |-> <<"p", "a", "t", "c", "h", "X">>, mergeX1Y |-> <<"m", "e", "r", "g", "e", "X", "1", "Y">>,
            id |-> <<"i", "d">>, videoID |-> <<"v", "i", "d", "e", "o", "I", "D">>, b |-> <<"b">>]
FieldNames == DOMAIN Letters

Endpoints == INSTANCE RESTEndpoints

ArgLists == {<<>>} \cup {<<[name |-> first[1], type |-> first[2], required |-> TRUE]>> \o rest :
                first \in {<<"id", "ID">>, <<"b", "Int">>, <<"videoID", "Boolean">>},
                rest \in {<<>>, <<[name |-> "user", type |-> "Input", required |-> FALSE]>>}}
  \cup {<<[name |-> "b", type |-> "Float", required |-> TRUE], [name |-> "videoID", type |-> "Int", required |-> TRUE],
          [name |-> "id", type |-> "ID", required |-> FALSE]>>}
ArgFields(names) == [name : names, args : ArgLists]
FieldLists == {[queries |-> <<q>> \o r, mutations |-> <<m>>] :
              q \in ArgFields({"user", "getURL"}),
              r \in {<<>>, <<[name |-> "addUser", args |-> <<>>]>>}
                     \cup {<<f>> : f \in [name : {"getUrl"}, args : {<<>>, <<[name |-> "id", type |-> "ID", required |-> TRUE]>>}]},
              m \in ArgFields({"addUser", "editVideo", "dropUser", "patchX", "user"})}
FieldPaths == {<<"id">>, <<"user">>, <<"user", "id">>, <<"user", "b">>, <<"user", "user", "id">>}
Params == BoundedSeq(FieldPaths, 3)
Ways == {<<"heuristic", <<"1">>, <<<<"user", "b">>, <<"id">>, <<"user", "id">>>>>>,
         <<"heuristic", <<"t", "r", "u", "e">>, <<>>>>, <<"POST", <<"b">>, <<>>>>}
FieldRequests == (FieldLists \X Ways)
              \cup {<<[queries |-> <<[name |-> "user", args |-> <<>>]>>, mutations |-> <<>>],
                      <<"POST", <<"1">>, fields>>>> : fields \in Params}

ErrorCodes == {None, "UNAUTHORIZED", "TIMEOUT", "BAD_USER_INPUT", "OTHER"}
GraphQLErrors == [code : ErrorCodes, message : {"", "not found", "timed out"}]
GraphQLAnswers == [errors : BoundedSeq(GraphQLErrors, 2), isObject : BOOLEAN, data : {<<>>, [user |-> "x"], [b |-> "x"]}]

FieldLeaf(name, hasArgs) == [name |-> name, hasArgs |-> hasArgs, fields |-> <<>>]
TreesOver(S) == {<<FieldLeaf("id", FALSE), [name |-> "user", hasArgs |-> h, fields |-> s], FieldLeaf("b", g)>> :
                   s \in S, h, g \in BOOLEAN}
FieldTrees == TreesOver({<<>>, <<FieldLeaf("id", TRUE)>>} \cup TreesOver({<<>>, <<FieldLeaf("b", FALSE)>>}))
Selections == {<<type, kind, paths, depth>> : type \in FieldTrees, kind \in {"*", "not", "only"},
                  paths \in BoundedSeq(FieldPaths \ {<<"user", "b">>}, 2), depth \in {1, 3}}

-----------------------------------------------------------------------------
(* REST to GraphQL *)

Schema == INSTANCE RESTSchema
Resources == INSTANCE RESTResources

AB == <<"a", "_", "b">>
ABCapital == <<"a", "B">>
Id == <<"i", "d">>
Q == <<"q">>
Braced(name) == <<"{">> \o name \o <<"}">>

-----------------------------------------------------------------------------
(* Documents *)

SchemaOf(type) == [ref |-> None, type |-> type, enum |-> <<>>, title |-> <<>>, format |-> "", items |-> None,
             additional |-> FALSE, required |-> {}, properties |-> <<>>]
SchemaTo(name) == [SchemaOf("") EXCEPT !.ref = <<"components", "schemas", name>>]
ListOf(s) == [SchemaOf("array") EXCEPT !.items = s]
Enum == [SchemaOf("string") EXCEPT !.enum = <<AB>>]
Props == {SchemaTo(AB), SchemaTo(ABCapital), ListOf(SchemaTo(AB)), ListOf(None), Enum, SchemaOf("number")}
Objects == {[SchemaOf("object") EXCEPT !.properties = (AB :> p), !.required = r] : p \in Props, r \in {{}, {AB}}}
\* Every reference leads to one of these.
Schemas == {AB :> s @@ ABCapital :> t @@ Id :> SchemaOf("string") :
              s \in Objects \cup {Enum, SchemaTo(ABCapital), SchemaOf("string")},
              t \in {Enum, ListOf(SchemaTo(AB)), [SchemaOf("object") EXCEPT !.properties = (Q :> SchemaTo(AB))]}}

Param(name, in) == [name |-> name, in |-> in, schema |-> SchemaOf("integer")]
OperationOf(parameters, summary, body, responses) ==
  [parameters |-> parameters, summary |-> summary, body |-> body, responses |-> responses]
GetOp(parameters) == OperationOf(parameters, {}, None, "200" :> ListOf(SchemaTo(AB)) @@ "201" :> None @@ "404" :> SchemaTo(Id))
PostOps == {OperationOf(<<>>, s, b, <<>>) : s \in {{}, {"add"}, {"delete", "edit"}}, b \in {None, <<SchemaOf("object")>>, <<SchemaTo(AB)>>}}
RESTPaths == {<<Q>>, <<Braced(Id)>>, <<AB>>, <<<<"a", "-", "b">>>>, <<<<"a">>, <<"b">>>>, <<Q, Braced(Id)>>,
          <<Q, Schema!Create>>}
GetsAt(path) == "GET" :> GetOp(IF Braced(Id) \in ToSet(path) THEN <<Param(Id, "path"), Param(Q, "query")>>
                           ELSE <<Param(Q, "query")>>)
MethodSets == {{"GET"}, {"POST", "DELETE"}, {"GET", "PUT", "PATCH"}}
PathItem(path, methods, post) == [m \in methods |-> IF m = "GET" THEN GetsAt(path)["GET"] ELSE post]
RESTDocuments ==
  {[schemas |-> s, paths |-> (path :> PathItem(path, m, post))] :
     s \in Schemas, path \in {<<Q, Schema!Create>>, <<Q, Braced(Id)>>}, m \in {{"POST", "DELETE"}}, post \in PostOps}
    \cup {[schemas |-> CHOOSE s \in Schemas : TRUE, paths |-> [path \in pair |-> PathItem(path, m, CHOOSE p \in PostOps : TRUE)]] :
            pair \in kSubset(2, RESTPaths), m \in MethodSets}

Calls == {<<path, method, OperationOf(ps, {}, None, <<>>), args>> :
             path \in {<<Q, Braced(Id)>>, <<Braced(Id), Q, Braced(AB)>>},
             method \in {"", "GET", "POST", "DELETE"},
             ps \in BoundedSeq({Param(Id, "path"), Param(AB, "path"), Param(AB, "query"), Param(Q, "query"),
                                Param(Q, "header")}, 2),
             args \in UNION {[names -> {"x", "y"}] : names \in SUBSET {Id, AB, Q, Schema!Input}}}

-----------------------------------------------------------------------------
(* Paths, pages and routes *)

Boxes == <<"b", "o", "x", "e", "s">>
Posted == <<"p", "o", "s", "t", "s">>
PathPool == {<<>>, <<Posted>>, <<Posted, Braced(Id)>>, <<Posted, Braced(Id), Boxes>>, <<Braced(Id)>>,
             <<Posted, Braced(Id), <<"t", "y", "p", "e">>>>, <<Posted, Boxes>>,
             <<Posted, Braced(Id), Boxes, Braced(Q)>>, <<Boxes>>, <<<<"p">>, Braced(Id)>>}
PathSets == UNION {kSubset(n, PathPool) : n \in 1 .. 4}

Counts == {<<"int", n>> : n \in {-1, 0, 1, 2, 3, 9}} \cup {<<"float", 2>>, <<"text", "t">>}
ArgsOf(names, values) == UNION {[s -> values] : s \in SUBSET names}
PageArgs == ArgsOf({"page", "limit", "offset"}, Counts)
              \cup ArgsOf({"after", "before", "limit", "first", "last"}, {<<"int", 3>>, <<"text", "t">>})
Translators == [default : {2, 7}, max : {5}]
Listed == [i \in 1 .. 8 |-> i]

APITypes == {"string", "integer", "number", "boolean", "array", "object", "other"} \X {"", "uuid", "date"}

Slash(name) == <<"/">> \o name
RouteConfig(rest, admin, upstreams) ==
  [graphql |-> Slash(<<"g">>), mcp |-> Slash(<<"m">>), health |-> Slash(<<"h">>), metrics |-> Slash(<<"s">>),
   admin |-> admin, rest |-> rest, upstreams |-> upstreams]
RoutePrefixes == {<<"/">>, Slash(<<"a">>), Slash(<<"b">>), Slash(<<"a", "/", "b">>), Slash(<<"a", "a">>)}
RouteConfigs == {RouteConfig(rest, admin, [p \in s |-> <<"u", p>>]) :
                   rest \in {<<>>, Slash(<<"a">>)}, admin \in {<<>>, Slash(<<"a", "/", "b">>)},
                   s \in {t \in SUBSET RoutePrefixes : Cardinality(t) <= 4}}
RoutePaths == {Slash(s) : s \in BoundedSeq({"a", "b", "g", "/"}, 4)}

-----------------------------------------------------------------------------
(* Tokens, layers, writers and origins *)

AuthConfigs == {[strategy |-> strategy, jwt |-> jwt, apikey |-> [enabled |-> FALSE, keys |-> {}]] :
                  strategy \in {"jwt", "passthrough"},
                  jwt \in [enabled : {TRUE}, secret : {"s", "t"}, issuer : {"", "i"}, audience : {"", "a"},
                           algorithms : {{}, {"HS256", "HS384"}, {"HS512"}}]}
TokenOptions == [iss : {"", "i"}, aud : {"", "a"}, sub : {"u"}, expires : {0, 2, 3}]
MoreClaims == {<<>>, [aud |-> <<"list", <<<<"text", "x">>, <<"text", "a">>>>>>], [exp |-> <<"text", "x">>],
               [nbf |-> <<"number", 2>>], [iss |-> <<"text", "x">>], [exp |-> <<"number", 2>>]}

Visits == {[path |-> path, known |-> kind # "stranger",
            outcome |-> IF kind = "stranger" THEN "ok" ELSE kind] :
             path \in {"p", "q"}, kind \in {"ok", "failed", "panic", "stranger"}}
ChainConfigs == [enabled : {{"auth", "cache", "breaker", "limit"}, {"auth", "breaker"}, {"breaker", "limit"},
                            {"auth", "limit"}},
                 threshold : 1 .. 2, burst : 2 .. 3]

Programs == BoundedSeq({"ok", "missing", "panic"}, 3)
LayerLists == BoundedSeq({"recovery", "capture"}, 3)

CORSNames == {<<"x", TRUE>>, <<"x", FALSE>>, <<"y", FALSE>>}
CORSLists == BoundedSeq(CORSNames \cup {Chain!Wildcard}, 2)
CORSConfigs == [enabled : BOOLEAN, origins : CORSLists, headers : CORSLists, credentials : {TRUE}]

RoutesMC == RouteConfigs \X RoutePaths
TokensMC == AuthConfigs \X TokenOptions \X MoreClaims \X (0 .. 1) \X (0 .. 5)
ChainsMC == ChainConfigs \X BoundedSeq(Visits, 4)
WritersMC == LayerLists \X Programs
OriginsMC == CORSConfigs \X (CORSNames \cup {None}) \X BoundedSeq(CORSNames, 2)

-----------------------------------------------------------------------------
(* The behaviours *)

Init == topic \in Topics /\ input = None

Next ==
  /\ input = None
  /\ UNCHANGED topic
  /\ \/ TakeRequest
     \/ topic = "text" /\ input' \in Texts
     \/ topic = "value" /\ input' \in Values \X BoundedSeq(Characters, 1)
     \/ topic = "block" /\ input' \in Blocks
     \/ topic = "lines" /\ input' \in Lines
     \/ topic = "document" /\ input' \in Documents
     \/ topic = "query" /\ input' \in Queries
     \/ topic = "arguments" /\ input' \in Args \X [{"a"} -> {None, <<"scalar", "x">>}]
     \/ topic = "name" /\ input' \in NamesOf({"a", "A", "1", "_", "-"}, 5) \cup NamesOf({"a", "c", "e", "h", "i", "s", "x", "y"}, 4)
     \/ topic = "mapping" /\ input' \in Mappings \X Records
     \/ topic = "openapi" /\ input' \in {"up", "down"} \X APIDocuments
     \/ topic = "damage" /\ input' \in APIPlaces \X NewValues
     \/ topic = "yaml" /\ input' \in YAMLTrees \X {0, 2}
     \/ topic = "yaml lines" /\ input' \in YAMLLines(3) \X YAMLLines(2)
     \/ topic = "config" /\ input' \in ConfigPairs
     \/ topic = "spelling" /\ input' \in Spellings
     \/ topic = "env" /\ input' \in EnvTexts
     \/ topic = "request" /\ input' \in FieldRequests
     \/ topic = "answer" /\ input' \in GraphQLAnswers
     \/ topic = "selection" /\ input' \in Selections
     \/ topic = "verb" /\ input' \in FieldNames
     \/ topic = "schema" /\ input' \in RESTDocuments
     \/ topic = "call" /\ input' \in Calls
     \/ topic = "types" /\ input' \in APITypes
     \/ topic = "resources" /\ input' \in PathSets
     \/ topic = "pages" /\ input' \in Translators \X PageArgs
     \/ /\ topic = "tokens"
        /\ \E ts \in {Parser!PrintDocument(<<d, Rich>>) :
                       d \in {d \in Definitions : d.kind = "fragment" /\ d.directives = <<>>
                                                /\ d.selections[2] \in Plain}} :
             \E i \in DOMAIN ts : \E piece \in {<<m>> : m \in Marks} \cup {<<>>, <<ts[i], ts[i]>>} :
               input' = SubSeq(ts, 1, i - 1) \o piece \o SubSeq(ts, i + 1, Len(ts))

Spec == Init /\ [][Next]_vars

-----------------------------------------------------------------------------
(* The properties, each with what it takes from the modules *)

\* The tokens of a text are those of its parts, wherever it is cut between two tokens; a
\* string is read as what was printed, and a block string exactly if it does not end with a
\* blank line or a quote.  A printed document is parsed to itself, what is accepted is printed
\* and parsed to itself, again but for such blocks, and after an error the parser finds the
\* next definition (graphql/lexer.go, parser.go, printer.go).
GraphQLReadsBack ==
  input # None =>
    /\ topic = "text" =>
         \A k \in 0 .. Len(input) :
           Lexer!TokensCompose(SubSeq(input, 1, k), SubSeq(input, k + 1, Len(input)))
    /\ topic = "value" => Lexer!StringReadsBack(input[1], input[2])
    /\ topic = "block" => Lexer!BlockReadsBack(input) /\ Lexer!BlockStaysTheSame(input)
    /\ topic = "lines" => Lexer!IndentationIsRelative(input)
    /\ topic = "document" =>
         LET ts == Parser!PrintDocument(input)
         IN /\ Parser!PrintReadsBack(input)
            /\ \A k \in 0 .. Len(ts) : Parser!SurvivesCut(SubSeq(ts, 1, k), Operation)
    /\ topic = "tokens" => Parser!AcceptedReadsBack(input) /\ Parser!SurvivesCut(input, Operation)

\* The executor answers each key with its last selection, through fragments; what the limits
\* of depth and complexity let through is bounded by them as far as they look, which is not
\* into fragments: of the accepted queries exactly those whose fragments lead back to
\* themselves are never answered; arguments get the values of variables (graphql/executor.go,
\* validator.go).
QueriesAreAnswered ==
  input # None =>
    /\ topic = "query" =>
         /\ \A parent \in {Executor!Root("Query"), Object} :
              Executor!AnswersLastOfEachKey(input, input[2].selections, parent, <<>>)
         /\ Executor!AcceptedIsBounded(input, {1, 2, 5}, {30, 1000})
    /\ topic = "arguments" =>
         /\ Executor!VariablesAreValues(input[1], input[2])
         /\ Executor!VariablesAreValues(input[1], <<>>)

\* Names read back from each convention and mapping (schema/naming.go, mapping.go); a REST
\* request made for an endpoint of a schema reaches the first of its path and method, with the
\* arguments and the selection asked for, by an operation that declares no variables; of the
\* tables of verbs and the makers of selections it is said what each of them does; answers are
\* unwrapped alike (proxy/gql2rest); the schema of a REST document defines what it refers to, its fields are
\* sent whole to their own path, pages follow each other, and relationships do not depend on
\* the order of a map (proxy/rest2gql).
RequestsAreTranslated ==
  input # None =>
    /\ topic = "name" => Tools!ConventionsReadBack(input)
    /\ topic = "mapping" => Tools!MappingsReadBack(input[1], input[2])
    /\ topic = "verb" => Endpoints!VerbsAgree(input)
    /\ topic = "request" =>
         Endpoints!RequestsReachTheirField(input[1], input[2][1], <<"a", "1">>, input[2][2], input[2][3])
    /\ topic = "answer" => Endpoints!AnswersAgree(input, "user")
    /\ topic = "selection" => Endpoints!ParameterIsApplied(input[1], input[2], input[3], input[4])
    /\ topic = "schema" => Schema!TypesAreDefined(input) /\ Schema!QueriesReachTheirPath(input)
    /\ topic = "call" => Schema!RequestsAreWhole(input[1], input[2], input[3], input[4])
    /\ topic = "types" => Schema!TypesReadBack(input[1], input[2])
    /\ topic = "resources" => Resources!RelationshipsAreFound(input)
    /\ topic = "pages" => Resources!PagesAreContiguous(input[1], input[2], Listed)

\* An OpenAPI document is loaded with its references followed, and a damaged part of it
\* disturbs no other (openapi/parser.go, refs.go).  A YAML document is read as it was written,
\* but for the three forms that the reader mistakes or never finishes, which are named; the
\* parts of a configuration do not depend on each other, it is said which of them a merge
\* takes over, and variables of the environment are put in where they are named (config).
FilesAreLoaded ==
  input # None =>
    /\ topic = "openapi" => API!ReferencesAreFollowed(input[1], input[2])
    /\ topic = "damage" => API!DamageIsLocal(WholeAPI, input[1], input[2])
    /\ topic = "yaml" => YAML!ReadsBack(input[1], input[2])
    /\ topic = "yaml lines" => YAML!LinesAreRead(input[1], input[2])
    /\ topic = "config" =>
         Conf!PartsAreIndependent(input[1][1], input[1][2], input[2][1], input[2][2])
    /\ topic = "spelling" =>
         Conf!SpellingIsFree(input[1], Spelling[Last(input[1])], input[2])
    /\ topic = "env" =>
         \A k \in 0 .. Len(input) :
           Conf!EnvIsPutIn(Env, SubSeq(input, 1, k), SubSeq(input, k + 1, Len(input)))
=============================================================================
