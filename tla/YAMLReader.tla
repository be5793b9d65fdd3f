----------------------------- MODULE YAMLReader -----------------------------
(***************************************************************************)
(* The reader of config/yaml, for configurations and OpenAPI documents:    *)
(* its Lexer, from characters to tokens, and its Parser, from tokens to    *)
(* values.  A value is <<"null">>, <<"text", t>>, <<"bool", b>>,           *)
(* <<"number", n>>, <<"list", s>> or <<"map", f>>.                         *)
(***************************************************************************)
EXTENDS Naturals, Sequences, SequencesExt, FiniteSets, TLC

-----------------------------------------------------------------------------
(* Lexer: "nl" is a newline, "quote" a quotation mark *)

At(text, i) == IF i \in DOMAIN text THEN text[i] ELSE "EOF"
Blank == {" ", "nl", "EOF"}
Before(text, i) == IF i > 1 THEN i - 1 ELSE i

\* Column of a position: how many characters of its line come before it.
Column(text, i) ==
  LET breaks == {j \in 1 .. i - 1 : text[j] = "nl"}
  IN IF breaks = {} THEN i - 1 ELSE i - 1 - CHOOSE j \in breaks : \A k \in breaks : k <= j

Token(kind, value, next) == [kind |-> kind, value |-> value, next |-> next]

Trimmed(s) ==
  LET kept == {i \in DOMAIN s : s[i] # " "}
  IN IF kept = {} THEN <<>>
     ELSE SubSeq(s, CHOOSE i \in kept : \A j \in kept : i <= j, CHOOSE i \in kept : \A j \in kept : j <= i)

\* Mutant: a comment belongs to the value that it stands behind.
EndsValueAtLine(text, i) == At(text, i) = "nl"

\* Any "#" begins a comment, also within a word, as in an address with a fragment.
EndsValue(text, i) == At(text, i) \in {"nl", "#"}

\* A key, which is in front of a colon and a blank, or a value, up to the end of the line
\* or a comment.  Quotation marks are dropped; in between, everything is read.
RECURSIVE ReadValue(_, _, _, _)
ReadValue(text, i, read, quoted) ==
  LET c == At(text, i)
      value == Trimmed(read)
  IN IF c = "EOF" THEN Token("value", value, i)
     ELSE IF c = "quote" /\ (quoted \/ read = <<>>) THEN ReadValue(text, i + 1, read, ~quoted)
     ELSE IF ~quoted /\ c = ":" /\ At(text, i + 1) \in Blank THEN Token("key", read, i)
     ELSE IF ~quoted /\ EndsValue(text, i) THEN Token("value", value, i)
     ELSE ReadValue(text, i + 1, Append(read, c), quoted)

\* A dash or a colon with no blank behind it is put back twice: what is read then begins
\* one character before it.
NextToken(text, i) ==
  LET c == At(text, i)
      end == CHOOSE j \in i .. Len(text) + 1 :
               At(text, j) \in {"nl", "EOF"} /\ \A k \in i .. j - 1 : text[k] # "nl"
      margin == CHOOSE j \in i .. Len(text) + 1 :
                  At(text, j) # " " /\ \A k \in i .. j - 1 : text[k] = " "
  IN CASE c = "EOF" -> Token("EOF", <<>>, i)
       [] c = "nl" -> Token("newline", <<>>, i + 1)
       [] c = " " -> Token("indent", <<>>, margin)
       [] c = "#" -> Token("comment", <<>>, IF end > Len(text) THEN end ELSE end + 1)
       [] c \in {"-", ":"} /\ At(text, i + 1) \in Blank -> Token(c, <<>>, i + 1)
       [] c = "|" -> Token("block", <<>>, i + 1)
       [] c \in {"-", ":"} /\ At(text, i + 1) \notin Blank -> ReadValue(text, Before(text, i), <<>>, FALSE)
       [] OTHER -> ReadValue(text, i, <<>>, FALSE)

\* All tokens with their columns.  The next token depends on the position only: a position
\* that comes again comes for ever.
RECURSIVE TokensFrom(_, _, _)
TokensFrom(text, i, seen) ==
  LET t == NextToken(text, i)
  IN IF i \in seen THEN <<[kind |-> "for ever", value |-> <<>>, column |-> 0]>>
     ELSE IF t.kind = "EOF" THEN <<>>
     ELSE <<[kind |-> t.kind, value |-> t.value, column |-> Column(text, i)]>>
            \o TokensFrom(text, t.next, seen \cup {i})
Tokenize(text) == TokensFrom(text, 1, {})

-----------------------------------------------------------------------------
(* Parser: the tokens are those of Tokenize without comments *)

Kind(ts) == IF ts = <<>> THEN "EOF" ELSE Head(ts).kind
Skip(ts, kinds) ==
  LET n == SelectInSeq(ts, LAMBDA t : t.kind \notin kinds)
  IN IF n = 0 THEN <<>> ELSE SubSeq(ts, n, Len(ts))
SkipIndentsAndNewlines(ts) == Skip(ts, {"indent", "newline"})

Done(value, rest) == [ok |-> TRUE, value |-> value, rest |-> rest]
Fail == [ok |-> FALSE, value |-> <<"null">>, rest |-> <<>>]
Then(r, F(_, _)) == IF r.ok THEN F(r.value, r.rest) ELSE r

\* Of a plain word; the quotation marks around it are gone already.
ParseScalar(word) ==
  CASE word \in {<<>>, "null"} -> <<"null">>
    [] word \in {"true", "false"} -> <<"bool", word>>
    [] word \in {"1", "2"} -> <<"number", word>>
    [] OTHER -> <<"text", word>>

RECURSIVE ParseValue(_), ParseMap(_, _, _), ParseList(_, _)

\* The value behind a key or a dash, wherever it stands.  Of a block nothing is read.
ParseValue(tokens) ==
  LET ts == SkipIndentsAndNewlines(tokens)
  IN CASE Kind(ts) = "block" -> Done(<<"text", <<>>>>, Skip(Tail(ts), {"newline"}))
       [] Kind(ts) = "-" -> ParseList(ts, <<>>)
       [] Kind(ts) = "key" -> ParseMap(ts, <<>>, Head(ts).column)
       [] Kind(ts) = "value" -> Done(ParseScalar(Head(ts).value), Tail(ts))
       [] OTHER -> Done(<<"null">>, ts)

\* A key and its value.
ParseEntry(ts) ==
  IF Kind(Tail(ts)) # ":" THEN Fail
  ELSE Then(ParseValue(Tail(Tail(ts))), LAMBDA value, rest : Done(Head(ts).value :> value, rest))

\* Mutant: any key goes on with the map.
BelongsAnyhow(ts, column) == Kind(ts) = "key"

\* A key to the left ends a map, one to the right does not.
Belongs(ts, column) == Kind(ts) = "key" /\ Head(ts).column >= column

ParseMap(tokens, entries, column) ==
  LET ts == SkipIndentsAndNewlines(tokens)
  IN IF ~Belongs(ts, column) THEN Done(<<"map", entries>>, ts)
     ELSE Then(ParseEntry(ts), LAMBDA entry, rest : ParseMap(rest, entry @@ entries, column))

\* A list goes on with every dash, whatever list it belongs to.
ParseList(tokens, items) ==
  LET ts == SkipIndentsAndNewlines(tokens)
  IN IF Kind(ts) # "-" THEN Done(<<"list", items>>, ts)
     ELSE Then(ParseValue(Tail(ts)), LAMBDA item, rest : ParseList(rest, Append(items, item)))

RECURSIVE ParseEntries(_, _)
ParseEntries(tokens, entries) ==
  LET ts == IF Kind(tokens) = "indent" THEN Tail(tokens) ELSE tokens
  IN CASE Kind(ts) = "EOF" -> Done(<<"map", entries>>, <<>>)
       [] Kind(ts) = "key" -> Then(ParseEntry(ts), LAMBDA entry, rest :
                                ParseEntries(SkipIndentsAndNewlines(rest), entry @@ entries))
       [] OTHER -> Fail
ParseDocument(tokens) ==
  ParseEntries(Skip(SelectSeq(tokens, LAMBDA t : t.kind # "comment"), {"newline"}), <<>>)

-----------------------------------------------------------------------------
(* What is claimed *)

\* How YAML writes a value: a map's entries and a list's items on lines of their own, at a
\* column; the dashes of a list in a map may stand under its key or to the right of it.
Tok(kind, value, column) == [kind |-> kind, value |-> value, column |-> column]
NewLine == <<Tok("newline", <<>>, 0), Tok("indent", <<>>, 0)>>

RECURSIVE Written(_, _, _)
Written(v, column, dash) ==
  LET keys == SetToSeq(DOMAIN v[2])
      Entry(k) ==
        NewLine \o <<Tok("key", k, column), Tok(":", <<>>, 0)>>
          \o Written(v[2][k], IF v[2][k][1] = "list" THEN column + dash ELSE column + 2, dash)
      Item(i) == NewLine \o <<Tok("-", <<>>, column)>> \o Written(v[2][i], column + 2, dash)
  IN CASE v[1] = "null" -> <<>>
       [] v[1] = "map" -> FlattenSeq([i \in DOMAIN keys |-> Entry(keys[i])])
       [] v[1] = "list" -> FlattenSeq([i \in DOMAIN v[2] |-> Item(i)])
       [] OTHER -> <<Tok("value", v[2], column + 1)>>

\* Is nothing written for the value's end, or a list?
RECURSIVE EndsIn(_, _)
EndsIn(kind, v) ==
  LET keys == SetToSeq(DOMAIN v[2])
  IN CASE v[1] = "null" -> kind = "nothing"
       [] v[1] = "list" -> kind = "list" \/ EndsIn(kind, Last(v[2]))
       [] v[1] = "map" -> EndsIn(kind, v[2][Last(keys)])
       [] OTHER -> FALSE

\* What the reader can tell: nothing stands behind a null, and no item behind one that
\* ends in a list.  (IMPLEMENTATION.md:248-253 lists empty values, lists and nested maps as
\* supported, without such an exception.)
RECURSIVE Regular(_)
Regular(v) ==
  LET values == IF v[1] = "list" THEN v[2]
                ELSE IF v[1] = "map" THEN [i \in 1 .. Cardinality(DOMAIN v[2]) |-> v[2][SetToSeq(DOMAIN v[2])[i]]]
                ELSE <<>>
  IN /\ \A i \in DOMAIN values : Regular(values[i])
     /\ \A i \in 1 .. Len(values) - 1 :
          ~EndsIn("nothing", values[i]) /\ (v[1] = "list" => ~EndsIn("list", values[i]))

\* Regular documents are read back as they were meant.  No other is: contrary to the list of
\* what is supported, the keys behind an empty value become its value, and the items behind a
\* list its items, without an error.
ReadsBack(v, dash) ==
  LET r == ParseDocument(Written(v, 0, dash))
  IN r.ok /\ (r.value = v <=> Regular(v))

\* Reading ends, but for the one flaw that this names: a line other than the first which
\* begins with a dash or a colon that text follows (as "---" or "-x" does) is begun again for
\* ever.  Lines without quotation marks are read on their own, and a "#" behind one and what
\* follows it change nothing unless a dash or a colon touches it.
StartsBadly(line) == At(line, 1) \in {"-", ":"} /\ At(line, 2) \notin Blank
LinesAreRead(s, t) ==
  LET Ends(tokens) == \A i \in DOMAIN tokens : tokens[i].kind # "for ever"
      NoNewline(tokens) == SelectSeq(tokens, LAMBDA x : x.kind # "newline")
      NoComment(tokens) == SelectSeq(tokens, LAMBDA x : x.kind # "comment")
      Apart(first, second, joined, commented) ==
        /\ Ends(first) /\ Ends(second)
        /\ "quote" \notin Range(s) =>
             /\ StartsBadly(t) <=> ~Ends(joined)
             /\ ~StartsBadly(t) => NoNewline(joined) = NoNewline(first) \o second
             /\ At(s, Len(s)) \notin {"-", ":"} => NoComment(commented) = NoComment(first)
  IN Apart(Tokenize(s), Tokenize(t), Tokenize(s \o <<"nl">> \o t), Tokenize(s \o <<"#">> \o t))
=============================================================================
