---------------------------- MODULE GraphQLParser ----------------------------
(***************************************************************************)
(* graphql.Parser and graphql.Printer: from tokens to documents and back.  *)
(* A token is a string: a name, a keyword, a literal or a punctuation      *)
(* mark; what is absent from a document is None or an empty sequence.      *)
(***************************************************************************)
EXTENDS Naturals, Sequences, SequencesExt

CONSTANTS None,
          Names     \* The names that are used

Operations == {"query", "mutation", "subscription"}
Starts == Operations \cup {"fragment", "{"}
Keywords == Operations \cup {"fragment", "on", "true", "false", "null", "type"}

\* Block strings, by what their values end with: a quote, a blank line or something else.
Blocks == {"block", "block blank", "block quote"}
Literals == {"1", "2.0", "string", "true", "false", "null"} \cup Blocks

Peek(ts) == IF ts = <<>> THEN "EOF" ELSE Head(ts)

\* What is parsed: its value and the tokens behind it, or the tokens at the error.
Done(value, rest) == [ok |-> TRUE, value |-> value, rest |-> rest]
Fail(rest) == [ok |-> FALSE, value |-> None, rest |-> rest]
Then(r, F(_, _)) == IF r.ok THEN F(r.value, r.rest) ELSE r

Expect(kinds, ts) == IF Peek(ts) \in kinds THEN Done(Head(ts), Tail(ts)) ELSE Fail(ts)

\* Mutant: a keyword names no argument.
ExpectNameOnly(ts) == Expect(Names, ts)

ExpectNameOrKeyword(ts) == Expect(Names \cup Keywords, ts)

-----------------------------------------------------------------------------
RECURSIVE Items(_, _, _, _)
RECURSIVE ParseValue(_)
RECURSIVE ParseType(_)
RECURSIVE ParseDirectives(_, _)

\* Items of one sort, up to the closing mark.
Bracketed(open, item, close, ts) ==
  Then(Expect({open}, ts), LAMBDA t, rest : Items(item, close, rest, <<>>))

\* An argument, or a field of an object.
ParseArgument(ts) ==
  Then(ExpectNameOrKeyword(ts), LAMBDA name, r1 :
    Then(Expect({":"}, r1), LAMBDA t, r2 :
      Then(ParseValue(r2), LAMBDA value, rest :
        Done([name |-> name, value |-> value], rest))))

OptionalArguments(ts) ==
  IF Peek(ts) = "(" THEN Bracketed("(", "argument", ")", ts) ELSE Done(<<>>, ts)

ParseDirectives(ts, done) ==
  IF Peek(ts) # "@" THEN Done(done, ts)
  ELSE Then(Expect(Names, Tail(ts)), LAMBDA name, r1 :
         Then(OptionalArguments(r1), LAMBDA args, rest :
           ParseDirectives(rest, Append(done, [name |-> name, args |-> args]))))

ParseType(ts) ==
  LET inner == IF Peek(ts) = "["
                 THEN Then(ParseType(Tail(ts)), LAMBDA type, r1 :
                        Then(Expect({"]"}, r1), LAMBDA t, rest : Done(<<"list", type>>, rest)))
                 ELSE Then(Expect(Names, ts), LAMBDA name, rest : Done(<<"named", name>>, rest))
  IN Then(inner, LAMBDA type, rest :
       IF Peek(rest) = "!" THEN Done(<<"nonnull", type>>, Tail(rest)) ELSE Done(type, rest))

ParseValue(ts) ==
  LET As(kind, r) == Then(r, LAMBDA value, rest : Done(<<kind, value>>, rest))
  IN CASE Peek(ts) = "$" -> As("variable", Expect(Names, Tail(ts)))
       [] Peek(ts) = "[" -> As("list", Bracketed("[", "value", "]", ts))
       [] Peek(ts) = "{" -> As("object", Bracketed("{", "argument", "}", ts))
       [] OTHER -> As("literal", Expect(Literals \cup Names, ts))

ParseVariableDefinition(ts) ==
  Then(Expect({"$"}, ts), LAMBDA t1, r1 :
    Then(Expect(Names, r1), LAMBDA name, r2 :
      Then(Expect({":"}, r2), LAMBDA t2, r3 :
        Then(ParseType(r3), LAMBDA type, r4 :
          Then(IF Peek(r4) = "=" THEN ParseValue(Tail(r4)) ELSE Done(None, r4),
               LAMBDA default, rest :
            Done([name |-> name, type |-> type, default |-> default], rest))))))

ParseSelectionSet(ts) == Bracketed("{", "selection", "}", ts)

\* Directives and the selections a definition or an inline fragment must have.
Body(ts, Make(_, _)) ==
  Then(ParseDirectives(ts, <<>>), LAMBDA directives, r1 :
    Then(ParseSelectionSet(r1), LAMBDA selections, rest :
      Done(Make(directives, selections), rest)))

\* A first name is the alias when a colon follows.
ParseField(ts) ==
  Then(Expect(Names, ts), LAMBDA first, r1 :
    Then(IF Peek(r1) = ":" THEN Expect(Names, Tail(r1)) ELSE Done(None, r1),
         LAMBDA second, r2 :
      Then(OptionalArguments(r2), LAMBDA args, r3 :
        Then(ParseDirectives(r3, <<>>), LAMBDA directives, r4 :
          Then(IF Peek(r4) = "{" THEN ParseSelectionSet(r4) ELSE Done(None, r4),
               LAMBDA selections, rest :
            Done([kind |-> "field",
                  alias |-> IF second = None THEN None ELSE first,
                  name |-> IF second = None THEN first ELSE second,
                  args |-> args, directives |-> directives, selections |-> selections],
                 rest))))))

\* Behind the three dots.
ParseFragment(ts) ==
  IF Peek(ts) = "on"
    THEN Then(Expect(Names, Tail(ts)), LAMBDA type, r1 :
           Body(r1, LAMBDA directives, selections :
             [kind |-> "inline", on |-> type, directives |-> directives,
              selections |-> selections]))
    ELSE Then(Expect(Names, ts), LAMBDA name, r1 :
           Then(ParseDirectives(r1, <<>>), LAMBDA directives, rest :
             Done([kind |-> "spread", name |-> name, directives |-> directives], rest)))

Item(item, ts) ==
  CASE item = "value" -> ParseValue(ts)
    [] item = "argument" -> ParseArgument(ts)
    [] item = "variable" -> ParseVariableDefinition(ts)
    [] item = "selection" -> IF Peek(ts) = "..." THEN ParseFragment(Tail(ts)) ELSE ParseField(ts)

Items(item, close, ts, done) ==
  IF Peek(ts) = close THEN Done(done, Tail(ts))
  ELSE Then(Item(item, ts), LAMBDA value, rest :
         Items(item, close, rest, Append(done, value)))

ParseOperation(ts) ==
  LET named == Peek(Tail(ts)) \in Names
      r1 == IF named THEN Tail(Tail(ts)) ELSE Tail(ts)
  IN Then(IF Peek(r1) = "(" THEN Bracketed("(", "variable", ")", r1) ELSE Done(<<>>, r1),
          LAMBDA variables, r2 :
       Body(r2, LAMBDA directives, selections :
         [kind |-> Head(ts), name |-> IF named THEN ts[2] ELSE None,
          variables |-> variables, directives |-> directives, selections |-> selections]))

ParseFragmentDefinition(ts) ==
  Then(Expect(Names, Tail(ts)), LAMBDA name, r1 :
    Then(Expect({"on"}, r1), LAMBDA t, r2 :
      Then(Expect(Names, r2), LAMBDA type, r3 :
        Body(r3, LAMBDA directives, selections :
          [kind |-> "fragment", name |-> name, on |-> type, directives |-> directives,
           selections |-> selections]))))

ParseDefinition(ts) ==
  CASE Peek(ts) \in Operations -> ParseOperation(ts)
    [] Peek(ts) = "fragment" -> ParseFragmentDefinition(ts)
    [] Peek(ts) = "{" ->
         Then(ParseSelectionSet(ts), LAMBDA selections, rest :
           Done([kind |-> "query", name |-> None, variables |-> <<>>, directives |-> <<>>,
                 selections |-> selections], rest))
    [] OTHER -> Fail(ts)

\* Mutant: the token at the error is skipped, although a definition may start with it.
SkipPastDefinition(ts) ==
  SubSeq(ts, SelectInSeq(Append(SubSeq(ts, 2, Len(ts)), "{"), LAMBDA t : t \in Starts) + 1, Len(ts))

\* To the first token that can start a definition.
SkipToDefinition(ts) ==
  SubSeq(ts, SelectInSeq(Append(ts, "{"), LAMBDA t : t \in Starts), Len(ts))

\* The definitions without an error, and the number of errors.
RECURSIVE ParseFrom(_, _, _), ParseAfter(_, _, _)
ParseFrom(ts, definitions, errors) ==
  IF ts = <<>> THEN [definitions |-> definitions, errors |-> errors]
  ELSE ParseAfter(ParseDefinition(ts), definitions, errors)
ParseAfter(r, definitions, errors) ==
  IF r.ok THEN ParseFrom(r.rest, Append(definitions, r.value), errors)
  ELSE ParseFrom(SkipToDefinition(r.rest), definitions, errors + 1)
Parse(ts) == ParseFrom(ts, <<>>, 0)

-----------------------------------------------------------------------------
(* The printer; commas and whitespace, which the lexer skips, are left out. *)
(* A block string is printed as it is (see Reread).                         *)

All(Tokens(_), items) == FlattenSeq([i \in DOMAIN items |-> Tokens(items[i])])

RECURSIVE PrintValue(_)
PrintArgument(arg) == <<arg.name, ":">> \o PrintValue(arg.value)
PrintValue(value) ==
  CASE value[1] = "variable" -> <<"$", value[2]>>
    [] value[1] = "list" -> <<"[">> \o All(PrintValue, value[2]) \o <<"]">>
    [] value[1] = "object" -> <<"{">> \o All(PrintArgument, value[2]) \o <<"}">>
    [] OTHER -> <<value[2]>>

PrintArguments(args) ==
  IF args = <<>> THEN <<>> ELSE <<"(">> \o All(PrintArgument, args) \o <<")">>

PrintDirectives(directives) ==
  All(LAMBDA d : <<"@", d.name>> \o PrintArguments(d.args), directives)

RECURSIVE PrintType(_)
PrintType(type) ==
  CASE type[1] = "named" -> <<type[2]>>
    [] type[1] = "list" -> <<"[">> \o PrintType(type[2]) \o <<"]">>
    [] type[1] = "nonnull" -> PrintType(type[2]) \o <<"!">>

PrintVariableDefinition(v) ==
  <<"$", v.name, ":">> \o PrintType(v.type)
    \o (IF v.default = None THEN <<>> ELSE <<"=">> \o PrintValue(v.default))

\* An alias that is the name itself is dropped.
RECURSIVE PrintSelection(_)
PrintSelectionSet(set) == <<"{">> \o All(PrintSelection, set) \o <<"}">>
PrintSelection(s) ==
  CASE s.kind = "field" ->
         (IF s.alias \in {None, s.name} THEN <<>> ELSE <<s.alias, ":">>)
           \o <<s.name>> \o PrintArguments(s.args) \o PrintDirectives(s.directives)
           \o (IF s.selections = None THEN <<>> ELSE PrintSelectionSet(s.selections))
    [] s.kind = "spread" -> <<"...", s.name>> \o PrintDirectives(s.directives)
    [] s.kind = "inline" ->
         <<"...", "on", s.on>> \o PrintDirectives(s.directives)
           \o PrintSelectionSet(s.selections)

\* Only a query without name, variables and directives goes without its keyword.
PrintOperation(op) ==
  LET name == IF op.name = None THEN <<>> ELSE <<op.name>>
      variables == IF op.variables = <<>> THEN <<>>
                   ELSE <<"(">> \o All(PrintVariableDefinition, op.variables) \o <<")">>
      head == name \o variables \o PrintDirectives(op.directives)
  IN (IF op.kind = "query" /\ head = <<>> THEN <<>> ELSE <<op.kind>> \o head)
       \o PrintSelectionSet(op.selections)

PrintDefinition(d) ==
  IF d.kind # "fragment" THEN PrintOperation(d)
  ELSE <<"fragment", d.name, "on", d.on>> \o PrintDirectives(d.directives)
         \o PrintSelectionSet(d.selections)

PrintDocument(definitions) == All(PrintDefinition, definitions)

-----------------------------------------------------------------------------
(* What is claimed *)

\* A field under its own name is that field; otherwise aliases matter.
RECURSIVE Canonical(_)
Canonical(x) ==
  LET below == [x EXCEPT !.selections = [i \in DOMAIN @ |-> Canonical(@[i])]]
  IN CASE x.kind = "spread" -> x
       [] x.kind = "field" ->
            [(IF x.selections = None THEN x ELSE below)
               EXCEPT !.alias = IF @ = x.name THEN None ELSE @]
       [] OTHER -> below
CanonicalDocument(definitions) == [i \in DOMAIN definitions |-> Canonical(definitions[i])]

\* What the lexer reads of printed tokens: a blank last line of a block is lost, and
\* a quote at its end closes it too early, so that a stray quote follows, from which a
\* string runs to the end of the line (GraphQLLexer!BlockReadsBack).
Reread(ts) ==
  FlattenSeq([i \in DOMAIN ts |->
    CASE ts[i] = "block blank" -> <<"block">>
      [] ts[i] = "block quote" -> <<"block", "illegal">>
      [] OTHER -> <<ts[i]>>])

\* A printed document is read as that document if, and only if, no block string in it
\* ends with a blank line or a quote.
PrintReadsBack(definitions) ==
  LET ts == PrintDocument(definitions)
  IN Parse(Reread(ts)) = [definitions |-> CanonicalDocument(definitions), errors |-> 0]
       <=> \A i \in DOMAIN ts : ts[i] \notin {"block blank", "block quote"}

\* Whatever parses, even from tokens nobody printed, prints as what parses the same, with
\* the same two exceptions.
AcceptedReadsBack(ts) == PrintReadsBack(Parse(ts).definitions)

\* An operation survives what stands before it, be it cut in the middle, unless its keyword
\* is taken for the name of an argument.
Open(ts) == Cardinality({i \in DOMAIN ts : ts[i] = "("})
              > Cardinality({i \in DOMAIN ts : ts[i] = ")"})
SurvivesCut(ts, op) ==
  ~Open(ts) => IsSuffix(<<Canonical(op)>>, Parse(ts \o PrintDefinition(op)).definitions)
=============================================================================
