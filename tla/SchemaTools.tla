----------------------------- MODULE SchemaTools -----------------------------
(***************************************************************************)
(* Package schema.  The planner: the fields of an operation become steps,  *)
(* one for each upstream, in layers; a field is a record of its path, its  *)
(* upstream ("" for the default one), the paths it depends on and whether  *)
(* its path names a mutation.  Names in the two directions: conventions,   *)
(* and a mapper that renames the fields of data and back; a name is a      *)
(* sequence of characters.                                                 *)
(***************************************************************************)
EXTENDS Integers, FiniteSets, Sequences, SequencesExt, Functions

CONSTANTS None

-----------------------------------------------------------------------------
(* PlanBuilder and QueryPlan *)

Fields(fields) == {fields[i] : i \in DOMAIN fields}
UpstreamOf(field) == IF field.upstream = "" THEN "default" ELSE field.upstream

\* groupFieldsByUpstream, in the order of the fields.
GroupFields(fields, upstream) == SelectSeq(fields, LAMBDA f : UpstreamOf(f) = upstream)
Upstreams(fields) == {UpstreamOf(f) : f \in Fields(fields)}

\* The upstream of the first field of a path, if any.
FindUpstreamForField(path, fields) ==
  LET i == SelectInSeq(fields, LAMBDA f : f.path = path)
  IN IF i = 0 THEN {} ELSE {UpstreamOf(fields[i])}

\* Mutant: only the first need of a field counts.
BuildDependencyGraphOfFirst(fields) ==
  [u \in Upstreams(fields) |->
     (UNION {FindUpstreamForField(f.dependencies[1], fields) :
               f \in {f \in Fields(fields) : UpstreamOf(f) = u /\ f.dependencies # <<>>}}) \ {u}]

\* The upstreams each upstream needs; what it needs of itself, or of nobody, is left out.
BuildDependencyGraph(fields) ==
  [u \in Upstreams(fields) |->
     (UNION {FindUpstreamForField(d, fields) :
               d \in UNION {Fields(f.dependencies) : f \in {f \in Fields(fields) : UpstreamOf(f) = u}}})
       \ {u}]

\* Layer by layer, all upstreams whose needs are met; those of a cycle are never reached.
\* There are no more layers than upstreams.
NextLayer(graph, visited) == {u \in DOMAIN graph \ visited : graph[u] \subseteq visited}
AddLayer(graph, layers) ==
  LET layer == NextLayer(graph, UNION Fields(layers))
  IN IF layer = {} THEN layers ELSE Append(layers, layer)
LayersOf(graph) ==
  FoldLeft(LAMBDA layers, i : AddLayer(graph, layers), <<>>, [i \in 1 .. Cardinality(DOMAIN graph) |-> i])
Complete(graph, layers) == UNION Fields(layers) = DOMAIN graph

\* The orders of all upstreams, one layer after the other.  (Names order a layer; here,
\* in any way.)
TopologicalSort(graph) ==
  LET layers == LayersOf(graph)
  IN {order \in SetToSeqs(DOMAIN graph) :
        /\ Complete(graph, layers)
        /\ \A i, j \in DOMAIN order, m, n \in DOMAIN layers :
             i < j /\ order[i] \in layers[m] /\ order[j] \in layers[n] => m <= n}

\* The steps that exist already and that the upstream needs.
StepDependencies(order, i, graph) == {j \in 1 .. i - 1 : order[j] \in graph[order[i]]}

InferOperationType(fields) ==
  IF \E f \in Fields(fields) : f.mutation THEN "mutation" ELSE "query"

Paths(fields) == [i \in DOMAIN fields |-> fields[i].path]
StepFor(fields, graph, order, i) ==
  LET group == GroupFields(fields, order[i])
  IN [upstream |-> order[i], paths |-> Paths(group),
      parallel |-> \E layer \in Fields(LayersOf(graph)) : order[i] \in layer /\ Cardinality(layer) > 1,
      dependencies |-> StepDependencies(order, i, graph), type |-> InferOperationType(group)]

\* BuildPlan: the steps, for each order of them; there is none when upstreams need each other.
BuildPlans(fields) ==
  LET graph == BuildDependencyGraph(fields)
  IN {[i \in DOMAIN order |-> StepFor(fields, graph, order, i)] : order \in TopologicalSort(graph)}

-----------------------------------------------------------------------------
(* Depths of steps *)

\* One pass: a step without a depth gets one more than the largest that is known of its
\* dependencies.
DepthPass(steps, depths) ==
  FoldLeft(LAMBDA known, i :
             LET below == {known[d] : d \in steps[i].dependencies} \ {-1}
             IN IF known[i] > 0 \/ below = {} THEN known
                ELSE [known EXCEPT ![i] = 1 + CHOOSE m \in below : \A n \in below : n <= m],
           depths, [i \in DOMAIN steps |-> i])

\* Passes are made until one changes nothing; each before it gives a depth to some step.
CalculateStepDepths(steps) ==
  FoldLeft(LAMBDA depths, step : DepthPass(steps, depths),
           [i \in DOMAIN steps |-> IF steps[i].dependencies = {} THEN 0 ELSE -1], steps)

StepsAtDepth(steps, depth) == {i \in DOMAIN steps : CalculateStepDepths(steps)[i] = depth}
MaxDepth(steps) ==
  LET Greatest(depths) == CHOOSE m \in depths : \A n \in depths : n <= m
  IN Greatest(Fields(CalculateStepDepths(steps)) \cup {0})

-----------------------------------------------------------------------------
(* The conventions *)

\* Letters, each with its capital; other characters are digits and separators.
Capital == [a |-> "A", b |-> "B", c |-> "C", d |-> "D", e |-> "E", f |-> "F", g |-> "G",
            h |-> "H", i |-> "I", j |-> "J", k |-> "K", l |-> "L", m |-> "M", n |-> "N",
            o |-> "O", p |-> "P", q |-> "Q", r |-> "R", s |-> "S", t |-> "T", u |-> "U",
            v |-> "V", w |-> "W", x |-> "X", y |-> "Y", z |-> "Z"]
Lowers == DOMAIN Capital
Uppers == {Capital[c] : c \in Lowers}
Separators == {"_", "-"}
Vowels == {"a", "e", "i", "A", "E", "I"}

Lower(c) == IF c \in Uppers THEN CHOOSE l \in Lowers : Capital[l] = c ELSE c
Upper(c) == IF c \in Lowers THEN Capital[c] ELSE c
ToLower(s) == [i \in DOMAIN s |-> Lower(s[i])]
Capitalize(s) == IF s = <<>> THEN s ELSE <<Upper(Head(s))>> \o Tail(s)

\* A capital begins a word behind a small letter.  Before a small letter the last character
\* of the word so far goes over to the next word together with the capital.
NextWord(words, word, s, i) ==
  LET capital == i > 1 /\ s[i] \in Uppers
      beforeLower == i < Len(s) /\ s[i + 1] \in Lowers
  IN IF s[i] \in Separators THEN IF word = <<>> THEN <<words, word>> ELSE <<Append(words, word), <<>>>>
     ELSE IF capital /\ s[i - 1] \in Lowers THEN <<Append(words, word), <<s[i]>>>>
     ELSE IF capital /\ beforeLower /\ Len(word) > 1
       THEN <<Append(words, Front(word)), <<Last(word), s[i]>>>>
     ELSE <<words, Append(word, s[i])>>
SplitWords(s) ==
  LET Ended(acc) == IF acc[2] = <<>> THEN acc[1] ELSE Append(acc[1], acc[2])
  IN Ended(FoldLeft(LAMBDA acc, i : NextWord(acc[1], acc[2], s, i), <<<<>>, <<>>>>, [i \in DOMAIN s |-> i]))

Joined(words, separator) ==
  FoldLeft(LAMBDA s, w : IF s = <<>> THEN w ELSE s \o separator \o w, <<>>, words)
LowerAll(words) == [i \in DOMAIN words |-> ToLower(words[i])]
CapitalizeAll(words) == [i \in DOMAIN words |-> Capitalize(words[i])]
LowerWords(s) == LowerAll(SplitWords(s))

ToSnakeCase(s) == Joined(LowerWords(s), <<"_">>)
ToKebabCase(s) == Joined(LowerWords(s), <<"-">>)
ToPascalCase(s) == FlattenSeq(CapitalizeAll(SplitWords(s)))

\* Mutant: the words behind the first keep their first letter.
ToCamelCaseFlat(s) == FlattenSeq(LowerWords(s))

\* Only the first word is made small.
FirstLower(words) ==
  [i \in DOMAIN words |-> IF i = 1 THEN ToLower(words[i]) ELSE Capitalize(words[i])]
ToCamelCase(s) == FlattenSeq(FirstLower(SplitWords(s)))

SanitizeName(s) == SelectSeq(s, LAMBDA c : c # "-")
EnsureValidIdentifier(s) ==
  LET clean == SanitizeName(s)
  IN IF clean = <<>> THEN <<"_">>
     ELSE IF Head(clean) \in Lowers \cup Uppers \cup {"_"} THEN clean ELSE <<"_">> \o clean

EndsWith(s, suffix) == IsSuffix(suffix, s)
Cut(s, n) == SubSeq(s, 1, Len(s) - n)
Pluralize(s) ==
  IF s = <<>> THEN s
  ELSE IF \E suffix \in {<<"s">>, <<"x">>, <<"c", "h">>, <<"s", "h">>} : EndsWith(s, suffix)
    THEN s \o <<"e", "s">>
  ELSE IF Last(s) = "y" /\ Len(s) > 1 /\ s[Len(s) - 1] \notin Vowels
    THEN Front(s) \o <<"i", "e", "s">>
  ELSE Append(s, "s")
Singularize(s) ==
  IF EndsWith(s, <<"i", "e", "s">>) /\ Len(s) > 3 THEN Append(Cut(s, 3), "y")
  ELSE IF EndsWith(s, <<"e", "s">>) /\ Len(s) > 2 THEN Cut(s, 2)
  ELSE IF EndsWith(s, <<"s">>) /\ Len(s) > 1 THEN Cut(s, 1)
  ELSE s

-----------------------------------------------------------------------------
(* FieldMapper: mappings is a sequence of pairs, in the order they are added *)

Applied(convention, s) ==
  CASE convention = "snake" -> ToSnakeCase(s)
    [] convention = "pascal" -> ToPascalCase(s)
    [] convention = "kebab" -> ToKebabCase(s)
    [] OTHER -> ToCamelCase(s)
AppliedReverse(convention, s) ==
  IF convention \in {"snake", "kebab"} THEN ToCamelCase(s) ELSE ToSnakeCase(s)

\* Of two mappings of one name the later one counts; empty names are not added.
LastOf(mappings, from, s) ==
  LET hits == {i \in DOMAIN mappings :
                 mappings[i][from] = s /\ <<>> \notin {mappings[i][1], mappings[i][2]}}
  IN IF hits = {} THEN 0 ELSE CHOOSE i \in hits : \A j \in hits : j <= i
Map(mappings, convention, s) ==
  LET i == LastOf(mappings, 1, s) IN IF i = 0 THEN Applied(convention, s) ELSE mappings[i][2]
MapReverse(mappings, convention, s) ==
  LET i == LastOf(mappings, 2, s)
  IN IF i = 0 THEN AppliedReverse(convention, s) ELSE mappings[i][1]

\* The results of renaming the fields of a map, in the order of any iteration: where names
\* meet, one of the values is lost.
MapFields(rename, data) ==
  {[n \in Range(rename) |-> data[pick[n]]] :
     pick \in {p \in [Range(rename) -> DOMAIN data] : \A n \in Range(rename) : rename[p[n]] = n}}

-----------------------------------------------------------------------------
(* What is claimed *)

\* A field of the first upstream takes something from the second, which provides it.
Needs(fields, u, v) ==
  \E f, g \in Fields(fields) :
    /\ UpstreamOf(f) = u /\ UpstreamOf(g) = v /\ u # v
    /\ g.path \in Fields(f.dependencies)
    /\ FindUpstreamForField(g.path, fields) = {v}

\* Some upstreams, each of which needs another one of them.
IsCyclic(fields) ==
  \E cycle \in (SUBSET Upstreams(fields)) \ {{}} : \A u \in cycle : \E v \in cycle : Needs(fields, u, v)

\* A plan has every field in exactly one step; what a field takes from another upstream is
\* provided by a step before its own, on which its step depends and which is at a lower
\* depth; and steps of one depth, which may run together, do not need each other, while each
\* needs one of the depth before.  A step is marked parallel if others have its depth.
IsOrdered(fields, steps, depths) ==
  LET names == Upstreams(fields)
      StepOf(u) == CHOOSE i \in DOMAIN steps : steps[i].upstream = u
  IN /\ Len(steps) = Cardinality(names)
     /\ \A u \in names : steps[StepOf(u)].paths = Paths(GroupFields(fields, u))
     /\ \A u, v \in names : Needs(fields, u, v) =>
          /\ StepOf(v) < StepOf(u) /\ StepOf(v) \in steps[StepOf(u)].dependencies
          /\ depths[StepOf(v)] < depths[StepOf(u)]
     /\ \A i \in DOMAIN steps :
          /\ \A d \in steps[i].dependencies : Needs(fields, steps[i].upstream, steps[d].upstream)
          /\ depths[i] = 0 \/ \E d \in steps[i].dependencies : depths[d] = depths[i] - 1
          /\ steps[i].parallel <=> \E j \in DOMAIN steps \ {i} : depths[j] = depths[i]
     /\ UNION {StepsAtDepth(steps, d) : d \in 0 .. MaxDepth(steps)} = DOMAIN steps

\* There is a plan unless upstreams need each other in a cycle, and each is ordered.
PlansAreOrdered(fields) ==
  /\ BuildPlans(fields) = {} <=> IsCyclic(fields)
  /\ \A steps \in BuildPlans(fields) : IsOrdered(fields, steps, CalculateStepDepths(steps))

\* Names of small words with two letters or more: what the conventions can undo.
Plain(s) ==
  \A i \in DOMAIN s :
    /\ s[i] \in Lowers \cup {"_"}
    /\ s[i] = "_" => i \notin {1, Len(s)}
    /\ s[i] # "_" => \E j \in {i - 1, i + 1} \cap DOMAIN s : s[j] # "_"
    /\ s[i] = "_" => s[i - 1] # "_"

\* Snake and kebab case name the same words as the name itself.  Any convention leads back
\* to a plain name.  An identifier is one, and stays it.  A plural leads back to the
\* singular, but for words that end in e.
ConventionsReadBack(s) ==
  /\ ToSnakeCase(ToKebabCase(s)) = ToSnakeCase(s)
  /\ ToSnakeCase(ToSnakeCase(s)) = ToSnakeCase(s)
  /\ Plain(s) => /\ ToSnakeCase(ToCamelCase(s)) = s /\ ToSnakeCase(ToPascalCase(s)) = s
                 /\ ToCamelCase(ToPascalCase(s)) = ToCamelCase(s)
  /\ LET id == EnsureValidIdentifier(s)
     IN EnsureValidIdentifier(id) = id /\ id # <<>> /\ "-" \notin Range(id)
  /\ s # <<>> /\ Last(s) # "e" => Singularize(Pluralize(s)) = s

\* Data of plain and of mapped names is the same after both directions, if each target
\* belongs to one mapping and is no other name's own.
MappingsReadBack(mappings, data) ==
  LET There(s) == Map(mappings, "camel", s)
      there == [k \in DOMAIN data |-> There(k)]
      Back(renamed) == [k \in DOMAIN renamed |-> MapReverse(mappings, "camel", k)]
      sources == {mappings[i][1] : i \in DOMAIN mappings}
      unambiguous ==
        /\ \A i, j \in DOMAIN mappings : i # j => \A side \in {1, 2} :
             mappings[i][side] # mappings[j][side]
        /\ \A k \in DOMAIN data :
             \/ k \in sources
             \/ Plain(k) /\ (\A i \in DOMAIN mappings : mappings[i][2] # There(k))
  IN unambiguous =>
       \A renamed \in MapFields(there, data) : MapFields(Back(renamed), renamed) = {data}
=============================================================================
