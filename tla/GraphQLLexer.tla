---------------------------- MODULE GraphQLLexer ----------------------------
(***************************************************************************)
(* graphql.Lexer: the tokens of a text, and the printer's escapes, which   *)
(* it has to undo.  A character is a string of one letter or a name:       *)
(* "quote", "back" (a backslash), "nl" (a newline).                        *)
(***************************************************************************)
EXTENDS Naturals, Sequences, SequencesExt

Digits == {"0", "4"}
HexDigits == Digits \cup {"b", "e"}
Letters == {"b", "e", "n", "u"}
Ignored == {" ", ",", "nl"}
Punctuation == {"{", "}", "$", "@"}
Char == Digits \cup Letters \cup Ignored \cup Punctuation
          \cup {"quote", "back", "#", ".", "-"}

\* Characters that only a value can hold: what the escapes \b and \u44be stand for.
BackSpace == "BS"
Unicode(code) == <<"code", code>>

\* The character at i; behind the text it is EOF, whatever i is.
At(text, i) == IF i \in DOMAIN text THEN text[i] ELSE "EOF"

\* The first position from i on whose character is not in S.
After(text, i, S) ==
  CHOOSE j \in i .. Len(text) + 1 :
    At(text, j) \notin S /\ \A k \in i .. j - 1 : text[k] \in S

\* A token: its kind, its value, and the position after it.
Token(kind, value, next) == [kind |-> kind, value |-> value, next |-> next]
Slice(text, i, j) == SubSeq(text, i, j - 1)

-----------------------------------------------------------------------------
(* Block strings: a line is its indentation and what follows it, maybe nothing *)

Blank(line) == line[2] = <<>>

\* Without a blank first and a blank last line, the indentation that all other lines have
\* is taken away; blank lines become empty.
BlockLines(lines) ==
  LET first == IF lines # <<>> /\ Blank(Head(lines)) THEN Tail(lines) ELSE lines
      kept == IF first # <<>> /\ Blank(Last(first)) THEN Front(first) ELSE first
      indents == {kept[i][1] : i \in {j \in DOMAIN kept : ~Blank(kept[j])}}
      least == IF indents = {} THEN 0 ELSE CHOOSE n \in indents : \A m \in indents : n <= m
  IN [i \in DOMAIN kept |-> IF Blank(kept[i]) THEN <<0, <<>>>>
                            ELSE <<kept[i][1] - least, kept[i][2]>>]

\* A line without the blanks at its end.
Line(text) ==
  LET letters == {i \in DOMAIN text : text[i] # " "}
  IN IF letters = {} THEN <<Len(text), <<>>>>
     ELSE <<After(text, 1, {" "}) - 1, SubSeq(text, After(text, 1, {" "}), Max(letters))>>

RECURSIVE Split(_)
Split(text) ==
  LET i == After(text, 1, Char \ {"nl"})
  IN IF i > Len(text) THEN <<text>>
     ELSE <<SubSeq(text, 1, i - 1)>> \o Split(SubSeq(text, i + 1, Len(text)))

ProcessBlockString(text) ==
  LET split == Split(text)
      lines == BlockLines([i \in DOMAIN split |-> Line(split[i])])
  IN FlattenSeq([i \in DOMAIN lines |->
                   (IF i = 1 THEN <<>> ELSE <<"nl">>) \o [k \in 1 .. lines[i][1] |-> " "] \o lines[i][2]])

-----------------------------------------------------------------------------
\* Mutant: a comment ends the text.
SkipCommentToEnd(text, i) == Len(text) + 1

SkipComment(text, i) == After(text, i, Char \ {"nl"})

\* Whitespace, commas and comments, until there is none.
RECURSIVE Skip(_, _)
Skip(text, i) ==
  LET j == After(text, i, Ignored)
  IN IF At(text, j) = "#" THEN Skip(text, SkipComment(text, j)) ELSE j

ReadName(text, i) ==
  LET j == After(text, i, Letters \cup Digits) IN Token("name", Slice(text, i, j), j)

\* A number begins at i; what follows the mark e is at j, what follows the digits is at j too.
Illegal(text, i, j) == Token("illegal", Slice(text, i, j), j)
ReadPower(text, i, j) ==
  IF At(text, j) \notin Digits THEN Illegal(text, i, j)
  ELSE Token("float", Slice(text, i, After(text, j, Digits)), After(text, j, Digits))
ReadExponent(text, i, j, kind) ==
  IF At(text, j) # "e" THEN Token(kind, Slice(text, i, j), j)
  ELSE ReadPower(text, i, IF At(text, j + 1) = "-" THEN j + 2 ELSE j + 1)
ReadFraction(text, i, j) ==
  IF At(text, j) # "." THEN ReadExponent(text, i, j, "int")
  ELSE IF At(text, j + 1) \notin Digits THEN Illegal(text, i, j + 1)
  ELSE ReadExponent(text, i, After(text, j + 1, Digits), "float")

\* Digits after a zero start a token of their own; a lone minus is an integer.
ReadNumber(text, i) ==
  LET start == IF At(text, i) = "-" THEN i + 1 ELSE i
  IN ReadFraction(text, i, IF At(text, start) = "0" THEN start + 1 ELSE After(text, start, Digits))

\* The escape whose letter is at i: its character, or "invalid", and the position after
\* what was read of it.
ReadEscapeSequence(text, i) ==
  LET hex == After(text, i + 1, HexDigits)
  IN CASE At(text, i) = "quote" -> <<"quote", i + 1>>
       [] At(text, i) = "back" -> <<"back", i + 1>>
       [] At(text, i) = "n" -> <<"nl", i + 1>>
       [] At(text, i) = "b" -> <<BackSpace, i + 1>>
       [] At(text, i) = "u" ->
            IF hex >= i + 5 THEN <<Unicode(SubSeq(text, i + 1, i + 4)), i + 5>>
            ELSE <<"invalid", hex>>
       [] OTHER -> <<"invalid", i + 1>>

\* Inside of a string: up to the closing quote, or the end of the line.  An invalid escape
\* becomes a backslash and the character behind what was read of it, whatever that is.
RECURSIVE ReadString(_, _, _)
ReadString(text, i, value) ==
  LET Escaped(escape) ==
        IF escape[1] # "invalid" THEN ReadString(text, escape[2], Append(value, escape[1]))
        ELSE IF At(text, escape[2]) = "EOF" THEN ReadString(text, escape[2], Append(value, "back"))
        ELSE ReadString(text, escape[2] + 1, value \o <<"back", text[escape[2]]>>)
      c == At(text, i)
  IN CASE c = "quote" -> Token("string", value, i + 1)
       [] c \in {"EOF", "nl"} -> Token("illegal", value, i)
       [] c = "back" -> Escaped(ReadEscapeSequence(text, i + 1))
       [] OTHER -> ReadString(text, i + 1, Append(value, c))

\* Between three quotes, without escapes.
Quotes(text, i) == \A k \in i .. i + 2 : At(text, k) = "quote"

ReadBlockString(text, i) ==
  LET ends == {j \in i + 3 .. Len(text) : Quotes(text, j)}
      end == CHOOSE j \in ends : \A k \in ends : j <= k
  IN IF ends = {} THEN Token("illegal", Slice(text, i + 3, Len(text) + 1), Len(text) + 1)
     ELSE Token("block", ProcessBlockString(Slice(text, i + 3, end)), end + 3)

ReadToken(text, i, c) ==
  CASE c = "EOF" -> Token("EOF", <<>>, i)
    [] c \in Punctuation -> Token(c, <<c>>, i + 1)
    [] c = "." -> IF At(text, i + 1) = "." /\ At(text, i + 2) = "."
                    THEN Token("...", <<".", ".", ".">>, i + 3)
                    ELSE Token("illegal", <<c>>, i + 1)
    [] c = "quote" -> IF Quotes(text, i) THEN ReadBlockString(text, i)
                      ELSE ReadString(text, i + 1, <<>>)
    [] c \in Digits \cup {"-"} -> ReadNumber(text, i)
    [] c \in Letters -> ReadName(text, i)
    [] OTHER -> Token("illegal", <<c>>, i + 1)
TokenAt(text, i) == ReadToken(text, i, At(text, i))
NextToken(text, from) == TokenAt(text, Skip(text, from))

\* All tokens up to the end of the text, or the first illegal one.
RECURSIVE TokensFrom(_, _)
TokensFrom(text, t) ==
  IF t.kind = "EOF" THEN <<>>
  ELSE IF t.kind = "illegal" THEN <<<<"illegal", t.value>>>>
  ELSE <<<<t.kind, t.value>>>> \o TokensFrom(text, NextToken(text, t.next))
Tokenize(text) == TokensFrom(text, NextToken(text, 1))

-----------------------------------------------------------------------------
(* The printer *)

\* Characters that are escaped, with the letters of the escape.
EscapeString(value) ==
  LET Escape(c) == CASE c = "back" -> <<"back", "back">>
                     [] c = "quote" -> <<"back", "quote">>
                     [] c = "nl" -> <<"back", "n">>
                     [] c = BackSpace -> <<"back", "b">>
                     [] OTHER -> <<c>>
  IN FlattenSeq([i \in DOMAIN value |-> Escape(value[i])])

PrintString(value) == <<"quote">> \o EscapeString(value) \o <<"quote">>

ThreeQuotes == <<"quote", "quote", "quote">>
PrintBlockString(value) == ThreeQuotes \o <<"nl">> \o value \o ThreeQuotes

-----------------------------------------------------------------------------
(* What is claimed *)

Legal(tokens) == \A i \in DOMAIN tokens : tokens[i][1] # "illegal"

\* A printed string is read back as the same value, also inside of other text.
StringReadsBack(value, text) ==
  LET Inside(tokens, whole) == Legal(tokens) => whole = Append(tokens, <<"string", value>>)
  IN /\ Tokenize(PrintString(value)) = <<<<"string", value>>>>
     /\ Inside(Tokenize(text), Tokenize(text \o <<"nl">> \o PrintString(value)))

\* A printed block string is read back if, and only if, nothing in its value looks like
\* the end of the block, and the value is laid out as the lexer leaves one: its last line
\* is not blank, no line ends with blanks, and the text is not indented as a whole.
BlockReadsBack(value) ==
  LET lines == Split(value)
      LaidOut ==
        /\ Last(lines) # <<>>
        /\ \A i \in DOMAIN lines : lines[i] # <<>> => Last(lines[i]) # " "
        /\ \E i \in DOMAIN lines : lines[i] # <<>> /\ Head(lines[i]) # " "
      Encloses == \A i \in DOMAIN value : ~Quotes(value \o ThreeQuotes, i)
  IN Tokenize(PrintBlockString(value)) = <<<<"block", value>>>>
       <=> value = <<>> \/ (LaidOut /\ Encloses)

\* A block string that was read is read back once it is printed, unless its value ends
\* with a line that was blank or with a quote.  (Then the line is lost, or the printed
\* block ends before its last quote.)
BlockStaysTheSame(text) ==
  LET read == Tokenize(ThreeQuotes \o text \o ThreeQuotes)
      value == read[1][2]
  IN Len(read) = 1 /\ read[1][1] = "block" =>
       (Tokenize(PrintBlockString(value)) = read
          <=> value = <<>> \/ Last(value) \notin {"nl", "quote"})

\* Legal text does not reach into the next line: a newline between two texts separates
\* their tokens, whatever quotes, comments, numbers or escapes they end and begin with.
TokensCompose(s, t) ==
  LET Composes(first, second, whole) == Legal(first) => whole = first \o second
  IN Composes(Tokenize(s), Tokenize(t), Tokenize(s \o <<"nl">> \o t))

\* Where a block string stands does not matter: to indent all of its lines, or to put
\* its quotes on lines of their own, changes nothing; its lines keep their indentation
\* relative to each other.
IndentationIsRelative(lines) ==
  LET deeper == [i \in DOMAIN lines |-> <<lines[i][1] + 2, lines[i][2]>>]
      value == BlockLines(lines)
  IN /\ BlockLines(deeper) = value
     /\ lines # <<>> /\ ~Blank(Head(lines)) /\ ~Blank(Last(lines)) =>
          /\ BlockLines(<<<<0, <<>>>>>> \o lines \o <<<<3, <<>>>>>>) = value
          /\ BlockLines(value) = value
          /\ \A i, j \in DOMAIN lines : ~Blank(lines[i]) /\ ~Blank(lines[j]) =>
               lines[i][1] - lines[j][1] = value[i][1] - value[j][1]
=============================================================================
