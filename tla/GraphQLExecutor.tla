--------------------------- MODULE GraphQLExecutor ---------------------------
(***************************************************************************)
(* graphql.Executor, Validator and Handler: how a parsed document (see     *)
(* GraphQLParser) is checked against the limits and answered.  A value is  *)
(* None (nil), a scalar, a list, or a map, which is a function.            *)
(***************************************************************************)
EXTENDS Integers, FiniteSets, Sequences, SequencesExt, Functions, TLC

CONSTANTS None,
          Resolvers(_, _, _)    \* The answer of the resolver of a type's field to arguments:
                                \* a value, <<"failed">>, or <<"unknown">> without a resolver

Scalar(x) == <<"scalar", x>>
List(s) == <<"list", s>>
Map(f) == <<"map", f>>
IsKind(value, kind) == value # None /\ value[1] = kind

-----------------------------------------------------------------------------
(* Validator *)

Larger(m, n) == IF m > n THEN m ELSE n

\* Depth and complexity of a selection set at a depth.  Spreads are not followed, inline
\* fragments cost as much as the set they hold.
RECURSIVE AnalyzeSelectionSet(_, _)
AnalyzeSelection(s, depth) ==
  CASE s.kind = "spread" -> [depth |-> depth - 1, complexity |-> 1]
    [] s.kind = "inline" -> AnalyzeSelectionSet(s.selections, depth)
    [] s.kind = "field" ->
         LET own == depth + 1 + Len(s.args)
             nested == AnalyzeSelectionSet(s.selections, depth)
         IN IF s.selections \in {None, <<>>} THEN [depth |-> depth, complexity |-> own]
            ELSE [depth |-> Larger(nested.depth, depth), complexity |-> own + nested.complexity]

AnalyzeSelectionSet(set, depth) ==
  IF set \in {None, <<>>} THEN [depth |-> depth, complexity |-> 0]
  ELSE FoldLeft(LAMBDA acc, s :
                  LET below == AnalyzeSelection(s, depth + 1)
                  IN [depth |-> Larger(acc.depth, below.depth),
                      complexity |-> acc.complexity + below.complexity],
                [depth |-> depth, complexity |-> Len(set) * (depth + 1)], set)

\* The deepest definition, and all definitions together.
AnalyzeDocument(doc) ==
  FoldLeft(LAMBDA acc, d :
             LET one == AnalyzeSelectionSet(d.selections, 0)
             IN [depth |-> Larger(acc.depth, one.depth),
                 complexity |-> acc.complexity + one.complexity],
           [depth |-> 0, complexity |-> 0], doc)

-----------------------------------------------------------------------------
(* Executor *)

\* The value of an argument; of two fields of one name the last one counts.
RECURSIVE CoerceValue(_, _)
BuildArguments(args, variables) ==
  FoldLeft(LAMBDA f, a : (a.name :> CoerceValue(a.value, variables)) @@ f, <<>>, args)
CoerceValue(v, variables) ==
  CASE v[1] = "variable" -> IF v[2] \in DOMAIN variables THEN variables[v[2]] ELSE None
    [] v[1] = "list" -> List([i \in DOMAIN v[2] |-> CoerceValue(v[2][i], variables)])
    [] v[1] = "object" -> Map(BuildArguments(v[2], variables))
    [] OTHER -> IF v[2] = "null" THEN None ELSE Scalar(v[2])

\* What selections come to: data, errors, and whether their evaluation never ends.
Nothing == [data |-> <<>>, errors |-> {}, loops |-> FALSE]

\* Mutant: what is there already is kept.
MergeKeeping(r, s) == [data |-> r.data @@ s.data, errors |-> r.errors \cup s.errors,
                       loops |-> r.loops \/ s.loops]

\* Later selections overwrite earlier ones of the same key.
Merge(r, s) == [data |-> s.data @@ r.data, errors |-> r.errors \cup s.errors,
                loops |-> r.loops \/ s.loops]

GetFieldKey(field) == IF field.alias # None THEN field.alias ELSE field.name

\* A parent is the root type, or a map that a resolver has returned.
Root(type) == <<"root", type>>
ActualType(parent) ==
  IF parent[1] = "root" THEN parent[2]
  ELSE IF "__typename" \in DOMAIN parent[2] /\ IsKind(parent[2]["__typename"], "scalar")
    THEN parent[2]["__typename"][2] ELSE ""

FindFragment(doc, name) ==
  LET i == SelectInSeq(doc, LAMBDA d : d.kind = "fragment" /\ d.name = name)
  IN IF i = 0 THEN None ELSE doc[i]

RECURSIVE ExecuteSelectionSet(_, _, _, _, _), ResolveNested(_, _, _)

\* Only root fields have resolvers; the fields of a map are taken from it.
FieldValue(field, parent, variables) ==
  IF parent[1] = "root"
    THEN Resolvers(parent[2], field.name, BuildArguments(field.args, variables))
  ELSE IF field.name \in DOMAIN parent[2] THEN parent[2][field.name] ELSE None

ExecuteField(doc, field, parent, variables) ==
  LET key == GetFieldKey(field)
      value == FieldValue(field, parent, variables)
      nested == ResolveNested(doc, field.selections, value)
  IN IF IsKind(value, "failed") \/ IsKind(value, "unknown")
       THEN [data |-> key :> None, errors |-> {<<field.name, value[1]>>}, loops |-> FALSE]
     ELSE IF field.selections \in {None, <<>>} THEN [Nothing EXCEPT !.data = key :> value]
     ELSE [nested EXCEPT !.data = key :> nested.data]

\* A fragment counts where its type is the parent's.  One that is reached again from
\* itself, for the same parent, is reached for ever.
ExecuteFragment(doc, fragment, parent, variables, active) ==
  IF fragment.on # ActualType(parent) THEN Nothing
  ELSE ExecuteSelectionSet(doc, fragment.selections, parent, variables, active)

ExecuteFragmentSpread(doc, spread, parent, variables, active) ==
  LET fragment == FindFragment(doc, spread.name)
  IN IF fragment = None THEN [Nothing EXCEPT !.errors = {<<spread.name, "undefined">>}]
     ELSE IF spread.name \in active THEN [Nothing EXCEPT !.loops = TRUE]
     ELSE ExecuteFragment(doc, fragment, parent, variables, active \cup {spread.name})

ExecuteSelectionSet(doc, set, parent, variables, active) ==
  FoldLeft(LAMBDA result, s :
             Merge(result,
                   CASE s.kind = "field" -> ExecuteField(doc, s, parent, variables)
                     [] s.kind = "spread" ->
                          ExecuteFragmentSpread(doc, s, parent, variables, active)
                     [] s.kind = "inline" ->
                          ExecuteFragment(doc, s, parent, variables, active)),
           Nothing, set)

\* Selections of a value: of every element of a list; a scalar stays as it is.
ResolveNested(doc, set, value) ==
  IF IsKind(value, "list")
    THEN LET items == [i \in DOMAIN value[2] |-> ResolveNested(doc, set, value[2][i])]
         IN [data |-> List([i \in DOMAIN items |-> items[i].data]),
             errors |-> UNION {items[i].errors : i \in DOMAIN items},
             loops |-> \E i \in DOMAIN items : items[i].loops]
  ELSE IF IsKind(value, "map")
    THEN LET r == ExecuteSelectionSet(doc, set, value, <<>>, {}) IN [r EXCEPT !.data = Map(@)]
  ELSE [Nothing EXCEPT !.data = value]

\* The first operation is executed, whichever was asked for.
FindOperation(doc) ==
  LET i == SelectInSeq(doc, LAMBDA d : d.kind # "fragment") IN IF i = 0 THEN None ELSE doc[i]
GetOperationType(op) ==
  CASE op.kind = "mutation" -> "Mutation" [] op.kind = "subscription" -> "Subscription"
    [] OTHER -> "Query"
Execute(doc, variables) ==
  LET op == FindOperation(doc)
  IN IF op = None THEN [data |-> None, errors |-> {<<"no operation">>}, loops |-> FALSE]
     ELSE ExecuteSelectionSet(doc, op.selections, Root(GetOperationType(op)), variables, {})

\* Mutant: the limit itself is taken for one level less.
ValidateOffByOne(doc, maxDepth, maxComplexity) ==
  LET cost == AnalyzeDocument(doc)
  IN cost.depth - 1 <= maxDepth /\ cost.complexity <= maxComplexity

\* Handler: a document over a limit is answered without being executed.
Validate(doc, maxDepth, maxComplexity) ==
  LET cost == AnalyzeDocument(doc)
  IN cost.depth <= maxDepth /\ cost.complexity <= maxComplexity
ServeHTTP(doc, variables, maxDepth, maxComplexity) ==
  LET result == IF Validate(doc, maxDepth, maxComplexity) THEN Execute(doc, variables)
                ELSE [data |-> None, errors |-> {<<"limit">>}, loops |-> FALSE]
  IN [status |-> IF result.errors # {} /\ result.data = None THEN 400 ELSE 200,
      result |-> result]

-----------------------------------------------------------------------------
(* What is claimed *)

\* The fields that count for a parent, in their order, with all fragments opened, but none
\* inside of itself.
RECURSIVE Collected(_, _, _, _)
Collected(doc, set, parent, opened) ==
  LET Fragment(s) == IF s.kind = "inline" THEN s ELSE FindFragment(doc, s.name)
      Counts(s) == Fragment(s) # None /\ Fragment(s).on = ActualType(parent)
      Opened(s) ==
        CASE s.kind = "field" -> <<s>>
          [] s.kind = "inline" /\ Counts(s) -> Collected(doc, s.selections, parent, opened)
          [] s.kind = "spread" /\ s.name \notin opened /\ Counts(s) ->
               Collected(doc, Fragment(s).selections, parent, opened \cup {s.name})
          [] OTHER -> <<>>
  IN FlattenSeq([i \in DOMAIN set |-> Opened(set[i])])

\* The answer to a selection set has the keys of the fields that count and no other, and
\* under each key what the last field of that key comes to.
AnswersLastOfEachKey(doc, set, parent, variables) ==
  LET result == ExecuteSelectionSet(doc, set, parent, variables, {})
      fields == Collected(doc, set, parent, {})
      Key(i) == GetFieldKey(fields[i])
      last == {i \in DOMAIN fields : \A j \in i + 1 .. Len(fields) : Key(j) # Key(i)}
      LastOf(k) == fields[CHOOSE i \in last : Key(i) = k]
  IN ~result.loops =>
       result.data = [k \in {Key(i) : i \in last} |->
                        ExecuteField(doc, LastOf(k), parent, variables).data[k]]

\* The fragments named in a selection set: at any depth, or for the same parent, which is
\* not inside of fields.
RECURSIVE Spreads(_), SpreadsFor(_, _, _)
Spreads(set) ==
  UNION {CASE set[i].kind = "spread" -> {set[i].name}
           [] set[i].selections = None -> {}
           [] OTHER -> Spreads(set[i].selections) : i \in DOMAIN set}
SpreadsFor(doc, set, parent) ==
  LET Counts(fragment) == fragment # None /\ fragment.on = ActualType(parent)
      Named(s) ==
        CASE s.kind = "spread" -> IF Counts(FindFragment(doc, s.name)) THEN {s.name} ELSE {}
          [] s.kind = "inline" ->
               IF Counts(s) THEN SpreadsFor(doc, s.selections, parent) ELSE {}
          [] s.kind = "field" -> {}
  IN UNION {Named(set[i]) : i \in DOMAIN set}

\* The fragments that are led to from a set of them, where <<m, n>> is in leads if n is
\* spread in m.
RECURSIVE LedTo(_, _)
LedTo(from, leads) ==
  LET more == {p[2] : p \in {q \in leads : q[1] \in from}} \ from
  IN IF more = {} THEN from ELSE LedTo(from \cup more, leads)

Leads(doc, Below(_)) ==
  UNION {{<<d.name, n>> : n \in Below(d)} : d \in {e \in Range(doc) : e.kind = "fragment"}}

\* Does one of the fragments lead back to itself?
Cyclic(from, leads) ==
  \E n \in LedTo(from, leads) : n \in LedTo({p[2] : p \in {q \in leads : q[1] = n}}, leads)

Acyclic(doc) ==
  LET Below(fragment) == Spreads(fragment.selections)
      leads == Leads(doc, Below)
  IN ~Cyclic({p[1] : p \in leads}, leads)

\* The maps in a value.
RECURSIVE MapsIn(_)
MapsIn(value) ==
  IF IsKind(value, "map") THEN {value}
  ELSE IF IsKind(value, "list") THEN UNION {MapsIn(value[2][i]) : i \in DOMAIN value[2]}
  ELSE {}

\* A fragment leads back to itself for one parent, here or for a parent that the data has.
RECURSIVE NeverEnds(_, _, _, _)
NeverEnds(doc, set, parent, variables) ==
  LET Below(fragment) == SpreadsFor(doc, fragment.selections, parent)
      fields == Range(Collected(doc, set, parent, {}))
  IN \/ Cyclic(SpreadsFor(doc, set, parent), Leads(doc, Below))
     \/ \E f \in fields :
          /\ f.selections # None
          /\ \E map \in MapsIn(FieldValue(f, parent, variables)) :
               NeverEnds(doc, f.selections, map, <<>>)

\* How deep fields are nested, and how many there are, with the fragments opened.
RECURSIVE Unfolded(_, _)
Unfolded(doc, set) ==
  LET Inside(s) ==
        LET holder == IF s.kind = "spread" THEN FindFragment(doc, s.name) ELSE s
        IN IF holder = None \/ holder.selections = None THEN <<>> ELSE holder.selections
      Add(acc, s) ==
        LET inner == Unfolded(doc, Inside(s))
            own == IF s.kind = "field" THEN 1 ELSE 0
        IN [depth |-> Larger(acc.depth, inner.depth + own), fields |-> acc.fields + inner.fields + own]
  IN FoldLeft(Add, [depth |-> 0, fields |-> 0], set)

\* The limits refuse no document for its fragments: one that leads back to itself for one
\* parent is accepted and evaluated for ever, and there is no other evaluation that does
\* not end.  What is accepted without spreads is as deep and has as many fields as the
\* limits say at most; with spreads it is as deep as the limit once for each definition,
\* unless a fragment is inside of itself (then the data alone bounds it), and nothing
\* bounds its fields.
AcceptedIsBounded(doc, depths, complexities) ==
  LET op == FindOperation(doc)
      endless == NeverEnds(doc, op.selections, Root(GetOperationType(op)), <<>>)
      spread == \E i \in DOMAIN doc : Spreads(doc[i].selections) # {}
      opened == Unfolded(doc, op.selections)
      Bounded(depth, complexity) ==
        /\ ServeHTTP(doc, <<>>, depth, complexity).result.loops <=> endless
        /\ ~spread => opened.depth <= depth /\ opened.fields <= complexity
        /\ Acyclic(doc) => opened.depth <= depth * Len(doc)
  IN \A depth \in depths, complexity \in complexities :
       Validate(doc, depth, complexity) => Bounded(depth, complexity)

\* A variable stands for its value: to write the value in its place, or null for a variable
\* that has none, gives the same answer.
RECURSIVE SubstituteValue(_, _)
SubstituteValue(v, variables) ==
  CASE v[1] = "variable" -> IF v[2] \in DOMAIN variables /\ variables[v[2]] # None
                              THEN <<"literal", variables[v[2]][2]>> ELSE <<"literal", "null">>
    [] v[1] = "list" -> <<"list", [i \in DOMAIN v[2] |-> SubstituteValue(v[2][i], variables)]>>
    [] v[1] = "object" ->
         <<"object", [i \in DOMAIN v[2] |->
                        [v[2][i] EXCEPT !.value = SubstituteValue(@, variables)]]>>
    [] OTHER -> v
VariablesAreValues(args, variables) ==
  LET plain == SubstituteValue(<<"object", args>>, variables)[2]
  IN BuildArguments(args, variables) = BuildArguments(plain, <<>>)
=============================================================================
