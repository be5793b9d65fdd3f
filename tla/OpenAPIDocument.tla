--------------------------- MODULE OpenAPIDocument ---------------------------
(***************************************************************************)
(* openapi.Parse, which takes an OpenAPI document out of what a YAML or    *)
(* JSON parser has read, and openapi.Resolver, which replaces the          *)
(* references in it.  A value is tagged: a text is <<"text", parts>>, an   *)
(* object <<"map", f>>, a list <<"list", s>>; "number" and "bool" stand    *)
(* for all others.  The parts of a text that is a reference are those      *)
(* between the slashes of "#/components/schemas/A".                        *)
(***************************************************************************)
EXTENDS Naturals, Sequences, SequencesExt, TLC

CONSTANTS None

Text(s) == <<"text", <<s>>>>
Ref(parts) == <<"map", [x \in {"$ref"} |-> <<"text", parts>>]>>
Object(f) == <<"map", f>>
List(s) == <<"list", s>>
Has(data, k, tag) == k \in DOMAIN data /\ data[k][1] = tag

-----------------------------------------------------------------------------
(* Parse.  The fields that each kind of object may have *)

Plain(tag, keys) == [k \in keys |-> <<tag>>]
One(kind) == <<"one", kind>>
ListOf(kind) == <<"list", kind>>
MapOf(kind) == <<"map", kind>>
Methods == <<"get", "put", "post", "delete", "options", "head", "patch", "trace">>

SpecFields ==
  [openapi |-> <<"text">>, info |-> One("info"), servers |-> ListOf("server"),
   paths |-> MapOf("pathItem"), components |-> One("components"), tags |-> ListOf("tag")]
InfoFields ==
  Plain("text", {"title", "version", "description", "termsOfService"})
    @@ [contact |-> One("contact"), license |-> One("license")]
ContactFields == Plain("text", {"name", "url", "email"})
LicenseFields == Plain("text", {"name", "url"})
ServerFields == Plain("text", {"url", "description"}) @@ [variables |-> MapOf("variable")]
VariableFields == Plain("text", {"default", "description"}) @@ [enum |-> <<"texts">>]
TagFields == Plain("text", {"name", "description"})
PathItemFields ==
  Plain("text", {"$ref", "summary", "description"})
    @@ [parameters |-> ListOf("parameter"), servers |-> ListOf("server")]
    @@ [m \in Range(Methods) |-> One("operation")]
OperationFields ==
  Plain("text", {"operationId", "summary", "description"})
    @@ [deprecated |-> <<"bool">>, tags |-> <<"texts">>, parameters |-> ListOf("parameter"),
        requestBody |-> One("requestBody"), responses |-> MapOf("response")]
ParameterFields ==
  Plain("text", {"name", "in", "description"})
    @@ Plain("bool", {"required", "deprecated", "allowEmptyValue"}) @@ [schema |-> One("schema")]
RequestBodyFields ==
  [description |-> <<"text">>, required |-> <<"bool">>, content |-> MapOf("mediaType")]
ResponseFields == [description |-> <<"text">>, content |-> MapOf("mediaType")]
MediaTypeFields == [schema |-> One("schema"), example |-> <<"any">>]
SchemaFields ==
  Plain("text", {"title", "type", "description", "format", "pattern"})
    @@ Plain("bool", {"nullable", "readOnly", "writeOnly", "deprecated", "uniqueItems",
                      "exclusiveMaximum", "exclusiveMinimum"})
    @@ Plain("number", {"multipleOf", "maximum", "minimum", "maxLength", "minLength",
                        "maxItems", "minItems", "maxProperties", "minProperties"})
    @@ [required |-> <<"texts">>, enum |-> <<"anys">>, items |-> One("schema"),
        properties |-> MapOf("schema"), allOf |-> ListOf("schema"), oneOf |-> ListOf("schema"),
        anyOf |-> ListOf("schema"), not |-> One("schema")]
ComponentsFields ==
  [schemas |-> MapOf("schema"), responses |-> MapOf("response"),
   parameters |-> MapOf("parameter"), requestBodies |-> MapOf("requestBody")]

Shape ==
  [spec |-> SpecFields, info |-> InfoFields, contact |-> ContactFields, license |-> LicenseFields,
   server |-> ServerFields, variable |-> VariableFields, tag |-> TagFields,
   pathItem |-> PathItemFields, operation |-> OperationFields, parameter |-> ParameterFields,
   requestBody |-> RequestBodyFields, response |-> ResponseFields, mediaType |-> MediaTypeFields,
   schema |-> SchemaFields, components |-> ComponentsFields]

\* The texts without which an object is refused; the info object, too, must be there.
Required(kind) ==
  CASE kind = "spec" -> {"openapi"}
    [] kind = "info" -> {"title", "version"}
    [] kind = "license" -> {"name"}
    [] kind = "server" -> {"url"}
    [] kind = "parameter" -> {"name", "in"}
    [] OTHER -> {}

\* What may be a reference; then nothing else of it is read.
Referable == {"parameter", "requestBody", "response", "schema"}

\* Fields that are there when the document has none.
Defaults(kind) ==
  CASE kind = "spec" -> [paths |-> Object(<<>>)]
    [] kind = "operation" -> [responses |-> Object(<<>>)]
    [] OTHER -> <<>>

\* A field of another type counts as absent; a text may stand for a number.
Fits(type, v) ==
  CASE type[1] \in {"any"} -> TRUE
    [] type[1] = "one" -> v[1] = "map"
    [] type[1] \in {"list", "texts", "anys"} -> v[1] = "list"
    [] type[1] = "number" -> v[1] \in {"number", "digits"}
    [] type[1] = "text" -> v[1] \in {"text", "digits"}
    [] OTHER -> v[1] = type[1]

Good(value) == [ok |-> TRUE, value |-> value]
Refused == [ok |-> FALSE, value |-> None]

RECURSIVE ParseObject(_, _)

\* An element of a list or a map of objects has to be an object.
ParseElement(kind, v) == IF v[1] = "map" THEN ParseObject(kind, v[2]) ELSE Refused

ParseField(type, v) ==
  LET parsed == [i \in DOMAIN v[2] |-> ParseElement(type[2], v[2][i])]
  IN CASE type[1] = "one" -> ParseElement(type[2], v)
       [] type[1] \in {"list", "map"} ->
            IF \A i \in DOMAIN parsed : parsed[i].ok
              THEN Good(<<v[1], [i \in DOMAIN parsed |-> parsed[i].value]>>) ELSE Refused
       [] type[1] = "texts" -> Good(List(SelectSeq(v[2], LAMBDA e : Fits(<<"text">>, e))))
       [] OTHER -> Good(v)

Taken(kind, data) ==
  {k \in DOMAIN Shape[kind] \cap DOMAIN data : Fits(Shape[kind][k], data[k])}

ParseObject(kind, data) ==
  LET fields == [k \in Taken(kind, data) |-> ParseField(Shape[kind][k], data[k])]
  IN IF kind \in Referable /\ Has(data, "$ref", "text")
       THEN Good(Ref(data["$ref"][2]))
     ELSE IF ~(Required(kind) \subseteq DOMAIN fields) \/ (kind = "spec" /\ "info" \notin DOMAIN fields)
               \/ (\E k \in DOMAIN fields : ~fields[k].ok)
       THEN Refused
     ELSE Good(Object([k \in DOMAIN fields |-> fields[k].value] @@ Defaults(kind)))

Parse(document) == ParseElement("spec", document)

-----------------------------------------------------------------------------
(* The objects of a parsed document as memory: each at its own place, with *)
(* the places of those it points to, in the order in which the resolver    *)
(* comes to them.  Maps are gone through in any order; two are tried.      *)

VisitedFields ==
  [spec |-> <<"paths", "components">>,
   components |-> <<"schemas", "responses", "parameters", "requestBodies">>,
   pathItem |-> Methods \o <<"parameters">>,
   operation |-> <<"parameters", "requestBody", "responses">>,
   parameter |-> <<"schema">>, requestBody |-> <<"content">>, response |-> <<"content">>,
   mediaType |-> <<"schema">>,
   schema |-> <<"items", "properties", "allOf", "oneOf", "anyOf", "not">>]

MapOrder(order, keys) == IF order = "up" THEN SetToSeq(keys) ELSE Reverse(SetToSeq(keys))

\* What an object points to: labels, kinds and values.
Children(order, kind, data) ==
  LET Of(k) ==
        LET type == Shape[kind][k]
            v == data[k]
        IN IF k \notin DOMAIN data THEN <<>>
           ELSE IF type[1] = "one" THEN <<[label |-> <<k>>, kind |-> type[2], value |-> v]>>
           ELSE IF type[1] = "list"
             THEN [i \in DOMAIN v[2] |->
                     [label |-> <<k, ToString(i)>>, kind |-> type[2], value |-> v[2][i]]]
           ELSE LET keys == MapOrder(order, DOMAIN v[2])
                IN [i \in DOMAIN keys |->
                      [label |-> <<k, keys[i]>>, kind |-> type[2], value |-> v[2][keys[i]]]]
  IN FlattenSeq([i \in DOMAIN VisitedFields[kind] |-> Of(VisitedFields[kind][i])])

RECURSIVE Placed(_, _, _, _)
Placed(order, kind, place, data) ==
  LET children == Children(order, kind, data)
      object == [kind |-> kind,
                 ref |-> IF Has(data, "$ref", "text") THEN data["$ref"][2] ELSE None,
                 plain |-> {<<k, data[k]>> : k \in
                              {k \in DOMAIN data : k # "$ref" /\ k \notin Range(VisitedFields[kind])}},
                 children |-> [i \in DOMAIN children |->
                                 [label |-> children[i].label, place |-> place \o children[i].label]]]
  IN FoldLeft(LAMBDA all, c : all @@ Placed(order, c.kind, place \o c.label, c.value[2]),
              place :> object, children)
Memory(order, spec) == Placed(order, "spec", <<>>, spec[2])

-----------------------------------------------------------------------------
(* Resolver *)

\* Where a reference leads: a place, "other" for what is no object, or an error.  Without
\* components a reference into them dereferences a nil pointer.
Lookup(objects, parts) ==
  LET sections == Range(VisitedFields.components)
  IN IF parts \in {<<"components">>, <<"paths">>} THEN <<"other">>
     ELSE IF parts = <<>> \/ Head(parts) # "components" THEN <<"error">>
     ELSE IF <<"components">> \notin DOMAIN objects THEN <<"panic">>
     ELSE IF parts[2] \in sections \cup {"headers"} /\ Len(parts) = 2 THEN <<"other">>
     ELSE IF parts[2] \in sections /\ Len(parts) = 3 /\ parts \in DOMAIN objects
       THEN <<"place", parts>>
     ELSE <<"error">>

ResolveRef(st, ref) ==
  IF ref \in DOMAIN st.resolved THEN <<"place", st.resolved[ref]>> ELSE Lookup(st.objects, ref)

\* Mutant: the copy points to nothing.
ReplacedFlat(st, place, target) ==
  [st EXCEPT !.objects[place] = [@ EXCEPT !.plain = st.objects[target].plain, !.ref = None]]

Replaced(st, place, target) ==
  LET ref == st.objects[place].ref
      copy == st.objects[target]
      schema == copy.kind = "schema"
  IN IF copy.kind # st.objects[place].kind THEN [st EXCEPT !.resolved = (ref :> target) @@ @]
     ELSE [st EXCEPT !.objects[place] = IF schema THEN [copy EXCEPT !.ref = None] ELSE copy,
                     !.resolved = (ref :> (IF schema THEN place ELSE target)) @@ @]

\* An object that is a reference becomes a copy of what its target is now; a schema is no
\* reference any more, the others are one if their target is.  What the copy points to is not
\* visited.  A place that is reached again from itself would be visited for ever.
RECURSIVE ResolveObject(_, _, _)
ResolveObject(st, place, above) ==
  LET o == st.objects[place]
      target == ResolveRef(st, o.ref)
      Inside(s) == FoldLeft(LAMBDA acc, c : ResolveObject(acc, c.place, above \cup {place}),
                            s, o.children)
  IN IF st.status # "ok" THEN st
     ELSE IF place \in above THEN [st EXCEPT !.status = "loops"]
     ELSE IF o.ref = None THEN Inside(st)
     ELSE IF target[1] \in {"error", "panic"} THEN [st EXCEPT !.status = target[1]]
     ELSE IF o.kind = "pathItem" THEN Inside(st)
     ELSE IF target[1] = "other" THEN st
     ELSE Replaced(st, place, target[2])

ResolveAll(order, spec) ==
  ResolveObject([objects |-> Memory(order, spec), resolved |-> <<>>, status |-> "ok"], <<>>, {})

-----------------------------------------------------------------------------
(* What is claimed *)

\* What an object says, down to a depth: its plain fields and what it points to.
RECURSIVE Unfolded(_, _, _)
Unfolded(objects, place, depth) ==
  LET o == objects[place]
  IN IF depth = 0 THEN <<>>
     ELSE <<o.kind, o.plain, o.ref,
            {<<c.label, Unfolded(objects, c.place, depth - 1)>> : c \in Range(o.children)}>>

\* The same with every reference standing for its target.
RECURSIVE Meant(_, _, _)
Meant(objects, place, depth) ==
  LET o == objects[place]
  IN IF depth = 0 THEN <<>>
     ELSE IF o.ref # None THEN Meant(objects, o.ref, depth)
     ELSE <<o.kind, o.plain, None,
            {<<c.label, Meant(objects, c.place, depth - 1)>> : c \in Range(o.children)}>>

\* Resolution ends, in whatever order maps are gone through, also for schemas that contain
\* themselves.  If all references lead to objects of their kind that are no references
\* themselves, then it succeeds, no reference is left, and every object says what was meant;
\* a reference that leads nowhere is an error.  Behind a reference to a reference there may be
\* an empty schema, or the reference (but nothing else).
Followed(before, result) ==
  LET after == result.objects
      refs == {p \in DOMAIN before : before[p].ref # None}
      Leads(p) == /\ before[p].ref \in DOMAIN before
                  /\ before[before[p].ref].kind = before[p].kind
      Direct(p) == Leads(p) /\ before[before[p].ref].ref = None
  IN /\ result.status # "loops"
     /\ (\A p \in refs : Direct(p)) => /\ result.status = "ok"
                  /\ \A p \in DOMAIN before : /\ after[p].ref = None
                                              /\ Unfolded(after, p, 4) = Meant(before, p, 4)
     /\ (\E p \in refs : Lookup(before, before[p].ref)[1] \in {"error", "panic"}) =>
          result.status # "ok"
     /\ result.status = "ok" =>
          \A p \in refs : Leads(p) =>
            \/ after[p].plain = {} /\ after[p].children = <<>>
            \/ \E q \in DOMAIN before \ refs :
                 after[p].plain = before[q].plain /\ after[p].children = before[q].children
ReferencesAreFollowed(order, document) ==
  LET spec == Parse(document).value IN Followed(Memory(order, spec), ResolveAll(order, spec))

-----------------------------------------------------------------------------
\* A value at a place of a document: taken out, or replaced.
RECURSIVE Replace(_, _, _)
Replace(v, place, new) ==
  LET k == IF v[1] = "list" THEN CHOOSE i \in DOMAIN v[2] : ToString(i) = Head(place) ELSE Head(place)
  IN IF Len(place) > 1 THEN <<v[1], [v[2] EXCEPT ![k] = Replace(@, Tail(place), new)]>>
     ELSE IF new # None THEN <<v[1], [v[2] EXCEPT ![k] = new]>>
     ELSE IF v[1] = "list" THEN <<v[1], RemoveAt(v[2], k)>>
     ELSE <<v[1], [x \in DOMAIN v[2] \ {k} |-> v[2][x]]>>

RECURSIVE Places(_)
Places(v) ==
  IF v[1] \notin {"map", "list"} THEN {<<>>}
  ELSE {<<>>} \cup UNION {{<<IF v[1] = "list" THEN ToString(k) ELSE k>> \o p : p \in Places(v[2][k])} :
                            k \in DOMAIN v[2]}

\* Must the document be refused when the value at the place does not fit?
RECURSIVE Essential(_, _)
Essential(kind, place) ==
  LET k == Head(place)
      type == Shape[kind][k]
  IN IF k \notin DOMAIN Shape[kind] THEN kind = "parameter" /\ k = "$ref"
     ELSE IF Len(place) = 1 THEN k \in Required(kind) \/ (kind = "spec" /\ k = "info")
     ELSE IF type[1] = "one" THEN Essential(type[2], Tail(place))
     ELSE type[1] \in {"list", "map"} /\ (Len(place) = 2 \/ Essential(type[2], SubSeq(place, 3, Len(place))))

\* What does not fit is refused where it is essential; elsewhere it is as if it were not
\* there, and nothing else of the document is lost.  What has been parsed is parsed again
\* without a change.
DamageIsLocal(document, place, new) ==
  LET Same(damaged, without) ==
        /\ damaged.ok => Parse(damaged.value) = damaged
        /\ ~damaged.ok => Essential("spec", place)
        /\ Essential("spec", place) /\ new = <<"bool">> => ~damaged.ok
        /\ damaged.ok /\ ~Essential("spec", place) =>
             \/ damaged = without
             \/ Parse(document).ok /\ place \in Places(damaged.value)
                  /\ Parse(Replace(damaged.value, place, None)) = without
  IN Same(Parse(Replace(document, place, new)), Parse(Replace(document, place, None)))
=============================================================================
