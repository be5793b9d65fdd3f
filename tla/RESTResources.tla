---------------------------- MODULE RESTResources ----------------------------
(***************************************************************************)
(* proxy/rest2gql, what it knows of resources: the RelationshipDetector,   *)
(* which tells which resources of an OpenAPI document belong to which      *)
(* others, and the PaginationTranslator, which turns page arguments of     *)
(* GraphQL into query parameters of REST, and results into connections.    *)
(* A path is a sequence of segments, a segment a sequence of characters; a *)
(* parameter stands in braces.  Paths begin with a slash and have no empty *)
(* segment.  Arguments are a map from names to <<"int", n>>, <<"float", n>>*)
(* where n is what int() makes of it, or <<"text", t>>; parameters are     *)
(* texts, <<"digits", n>> where Atoi reads n.                              *)
(***************************************************************************)
EXTENDS Integers, FiniteSets, Sequences, SequencesExt, Functions

CONSTANTS None

Text == INSTANCE SchemaTools

IsParam(segment) == Head(segment) = "{"
Inner(segment) == SubSeq(segment, 2, Len(segment) - 1)

-----------------------------------------------------------------------------
(* Names of resources *)

EndsIn(s, suffixes) == \E suffix \in suffixes : IsSuffix(suffix, s)

SimpleSingularize(s) ==
  IF EndsIn(s, {<<"i", "e", "s">>}) /\ Len(s) > 3 THEN Append(Text!Cut(s, 3), "y")
  ELSE IF EndsIn(s, {<<"e", "s">>}) /\ Len(s) > 2 THEN Text!Cut(s, 2)
  ELSE IF EndsIn(s, {<<"s">>}) /\ ~EndsIn(s, {<<"s", "s">>}) /\ Len(s) > 1 THEN Text!Cut(s, 1)
  ELSE s
SimplePluralize(s) ==
  IF EndsIn(s, {<<"s">>}) THEN s
  ELSE IF EndsIn(s, {<<"y">>}) /\ ~EndsIn(s, {<<v, "y">> : v \in {"a", "e", "o", "u"}})
    THEN Front(s) \o <<"i", "e", "s">>
  ELSE IF EndsIn(s, {<<"x">>, <<"c", "h">>, <<"s", "h">>}) THEN s \o <<"e", "s">>
  ELSE Append(s, "s")

\* Each part behind a hyphen or an underscore begins with a capital, or only the first is small.
ToPascalCase(s) ==
  LET marked == [i \in DOMAIN s |-> IF s[i] \in Text!Separators THEN <<>>
                                    ELSE IF i = 1 \/ s[i - 1] \in Text!Separators THEN <<Text!Upper(s[i])>>
                                    ELSE <<s[i]>>]
  IN FlattenSeq(marked)
ToCamelCase(s) == IF s = <<>> THEN s ELSE <<Text!Lower(Head(s))>> \o Tail(s)

\* The resource is that of the last segment which is not a parameter.
ExtractResourceName(path) ==
  LET i == SelectLastInSeq(path, LAMBDA segment : ~IsParam(segment))
  IN IF i = 0 THEN <<>> ELSE ToPascalCase(SimpleSingularize(path[i]))
ExtractLastParam(path) ==
  LET i == SelectLastInSeq(path, IsParam) IN IF i = 0 THEN <<>> ELSE Inner(path[i])

-----------------------------------------------------------------------------
(* Relationships *)

\* Mutant: the paths as the map gives them.
AnyOrder(paths) == SetToSeqs(paths)

\* The orders that may come of sorting the keys of a map by their length alone.
SortedPaths(paths) ==
  LET Length(path) == FoldLeft(LAMBDA n, segment : n + 1 + Len(segment), 0, path)
  IN {order \in SetToSeqs(paths) :
        \A i, j \in DOMAIN order : i < j => Length(order[i]) <= Length(order[j])}

\* One segment more, or a parameter and a word.
IsChildPath(parent, child) ==
  LET more == SubSeq(child, Len(parent) + 1, Len(child))
  IN /\ IsPrefix(parent, child)
     /\ \/ Len(more) = 1
        \/ Len(more) = 2 /\ IsParam(more[1]) /\ ~IsParam(more[2])

DetermineRelationshipType(parent, child) ==
  IF IsParam(Last(parent)) \/ (\A i \in DOMAIN child : ~IsParam(child[i]))
    THEN "oneToMany" ELSE "manyToOne"
DetermineFieldName(resource, type) ==
  ToCamelCase(IF type = "oneToMany" THEN SimplePluralize(resource) ELSE resource)

BuildRelationship(parent, child) ==
  LET type == DetermineRelationshipType(parent, child)
  IN [parentPath |-> parent, childPath |-> child, type |-> type,
      parentResource |-> ExtractResourceName(parent), childResource |-> ExtractResourceName(child),
      parentParam |-> ExtractLastParam(parent),
      fieldName |-> DetermineFieldName(ExtractResourceName(child), type)]

\* Only later paths are looked at as children of a path.
DetectRelationships(order) ==
  LET Related(i, j) == /\ i < j /\ order[i] # <<>> /\ IsChildPath(order[i], order[j])
                       /\ <<>> \notin {ExtractResourceName(order[i]), ExtractResourceName(order[j])}
      pairs == {p \in (DOMAIN order) \X (DOMAIN order) : Related(p[1], p[2])}
  IN {BuildRelationship(order[p[1]], order[p[2]]) : p \in pairs}

-----------------------------------------------------------------------------
(* What is claimed *)

\* A plural that the two conversions of words lead back to.
Regular(word) ==
  /\ Len(word) > 2 /\ \A i \in DOMAIN word : word[i] \in Text!Lowers
  /\ \E stem \in {SubSeq(word, 1, n) : n \in 2 .. Len(word)} :
       SimplePluralize(stem) = word /\ Last(stem) \notin {"e", "s"}

\* In whatever order the map gives its paths, each path is found to belong to the path that
\* it continues by one segment; below a resource's item its collections are fields of their
\* own name, by the item's parameter; an item belongs to its own collection; and nothing
\* belongs to what it does not continue.
RelationshipsAreFound(paths) ==
  \A order \in SortedPaths(paths) :
    LET found == DetectRelationships(order)
        Named(path) == ExtractResourceName(path) # <<>>
    IN /\ \A child \in {p \in paths : Len(p) > 1} :
            LET parent == Front(child)
                own == {r \in found : r.parentPath = parent /\ r.childPath = child}
            IN parent \in paths /\ Named(parent) /\ Named(child) =>
                 /\ Cardinality(own) = 1
                 /\ \A r \in own :
                      IF IsParam(Last(child)) THEN r.parentResource = r.childResource
                      ELSE IsParam(Last(parent)) /\ Regular(Last(child)) =>
                             /\ r.type = "oneToMany" /\ r.fieldName = Last(child)
                             /\ Last(parent) = <<"{">> \o r.parentParam \o <<"}">>
       /\ \A r \in found : IsPrefix(r.parentPath, r.childPath) /\ r.parentPath # r.childPath

-----------------------------------------------------------------------------
(* Page arguments of GraphQL *)

Has(map, name, kind) == name \in DOMAIN map /\ map[name][1] = kind
\* The value of a name where it has the kind, or another value.
ValueOf(map, name, kind, else) == IF Has(map, name, kind) THEN map[name][2] ELSE else
Number(args, name, else) == ValueOf(args, name, "int", ValueOf(args, name, "float", else))

ClampLimit(pt, limit) ==
  IF limit <= 0 THEN pt.default ELSE IF limit > pt.max THEN pt.max ELSE limit

DetectStyle(args) ==
  IF {"first", "last"} \cap DOMAIN args # {} THEN "relay"
  ELSE IF {"after", "before"} \cap DOMAIN args # {} THEN "cursor"
  ELSE "offset"

\* The limit by the last of the names that has a number.
LimitBy(pt, args, names) ==
  LET i == SelectLastInSeq(names, LAMBDA n : Has(args, n, "int"))
  IN IF i = 0 THEN pt.default ELSE ClampLimit(pt, args[names[i]][2])
Params(style, page, limit, offset, args) ==
  [style |-> style, page |-> page, limit |-> limit, offset |-> offset,
   after |-> ValueOf(args, "after", "text", ""), before |-> ValueOf(args, "before", "text", "")]

ParseRelayArgs(pt, args) == Params("relay", None, LimitBy(pt, args, <<"first", "last">>), 0, args)
ParseCursorArgs(pt, args) == Params("cursor", None, LimitBy(pt, args, <<"limit", "first">>), 0, args)

\* Mutant: the offset of a page is that of pages of the default limit.
ParseOffsetArgsEarly(pt, args) ==
  LET page == Number(args, "page", None)
      limit == IF Number(args, "limit", None) = None THEN pt.default
               ELSE ClampLimit(pt, Number(args, "limit", None))
      offset == IF page # None /\ page > 0 THEN (page - 1) * pt.default ELSE Number(args, "offset", 0)
  IN Params("offset", page, limit, offset, <<>>)

\* A page counts more than an offset, with the limit that is given.
ParseOffsetArgs(pt, args) ==
  LET page == Number(args, "page", None)
      given == Number(args, "limit", None)
      limit == IF given = None THEN pt.default ELSE ClampLimit(pt, given)
      offset == IF page # None /\ page > 0 THEN (page - 1) * limit ELSE Number(args, "offset", 0)
  IN Params("offset", page, limit, offset, <<>>)

FromGraphQLArgs(pt, args) ==
  CASE DetectStyle(args) = "relay" -> ParseRelayArgs(pt, args)
    [] DetectStyle(args) = "cursor" -> ParseCursorArgs(pt, args)
    [] OTHER -> ParseOffsetArgs(pt, args)

-----------------------------------------------------------------------------
(* Parameters of REST *)

Digits(n) == <<"digits", n>>
Given(name, text) == IF text = "" THEN <<>> ELSE name :> <<"text", text>>

ToRESTParams(params, style) ==
  LET limit == "limit" :> Digits(params.limit)
  IN CASE style = "offset" -> ("offset" :> Digits(params.offset)) @@ limit
                                @@ IF params.page = None THEN <<>> ELSE "page" :> Digits(params.page)
       [] style = "cursor" ->
            Given("cursor", IF params.after # "" THEN params.after ELSE params.before) @@ limit
       [] style = "relay" -> Given("after", params.after) @@ Given("before", params.before) @@ limit

\* The parameters of names which hold numbers, as arguments.
Numbers(rest, names) ==
  [n \in {n \in names : Has(rest, n, "digits")} |-> <<"int", rest[n][2]>>]
ToGraphQLArgs(rest) ==
  IF {"page", "offset"} \cap DOMAIN rest # {} THEN Numbers(rest, {"page", "offset", "limit"})
  ELSE IF "cursor" \in DOMAIN rest
    THEN ("after" :> rest["cursor"])
           @@ IF Has(rest, "limit", "digits") THEN "first" :> <<"int", rest["limit"][2]>> ELSE <<>>
  ELSE <<>>

-----------------------------------------------------------------------------
(* Connections *)

\* Mutant: every page counts from its own start.
EncodeCursorOfPage(index, params) == <<"cursor", index>>

EncodeCursor(index, params) == <<"cursor", params.offset + index>>
DecodeCursor(cursor) == IF cursor[1] = "cursor" THEN cursor[2] ELSE None

BuildConnection(items, params, more) ==
  LET edges == [i \in DOMAIN items |-> [node |-> items[i], cursor |-> EncodeCursor(i - 1, params)]]
  IN [edges |-> edges, hasNextPage |-> more,
      hasPreviousPage |-> params.after # "" \/ params.offset > 0,
      startCursor |-> IF edges = <<>> THEN None ELSE Head(edges).cursor,
      endCursor |-> IF edges = <<>> THEN None ELSE Last(edges).cursor]

-----------------------------------------------------------------------------
(* What is claimed *)

\* The items of a list from an offset on, as an upstream returns a page of them.
PageOf(list, params) ==
  LET end == params.offset + params.limit
  IN SubSeq(list, params.offset + 1, IF end > Len(list) THEN Len(list) ELSE end)

\* The page after one of full length begins where that one ends, in items and in cursors.
Continues(list, this, next) ==
  LET Follows(one, two) ==
        /\ two.hasPreviousPage
        /\ two.edges # <<>> => DecodeCursor(two.startCursor) = DecodeCursor(one.endCursor) + 1
  IN /\ PageOf(list, this) \o PageOf(list, next) = PageOf(list, [this EXCEPT !.limit = 2 * @])
     /\ Follows(BuildConnection(PageOf(list, this), this, TRUE),
                BuildConnection(PageOf(list, next), next, FALSE))
NextArgs(args, page) == ("page" :> <<"int", page + 1>>) @@ args

\* With a default that is itself a limit, limits are within their bounds, pages follow each
\* other without gap or overlap, and what goes out to REST in offset or cursor style comes
\* back as it was: a cursor keeps its place and its limit.
PagesAreContiguous(pt, args, list) ==
  LET page == Number(args, "page", None)
      Returns(params, back) ==
        /\ params.style = "offset" => back = params
        /\ params.style = "cursor" /\ params.after # "" => back.after = params.after /\ back.limit = params.limit
      Right(params) ==
        /\ params.limit \in 1 .. pt.max
        /\ page # None /\ page > 0 /\ params.style = "offset" =>
             Continues(list, params, FromGraphQLArgs(pt, NextArgs(args, page)))
        /\ params.style \in {"offset", "cursor"} =>
             Returns(params, FromGraphQLArgs(pt, ToGraphQLArgs(ToRESTParams(params, params.style))))
  IN pt.default \in 1 .. pt.max => Right(FromGraphQLArgs(pt, args))
=============================================================================
