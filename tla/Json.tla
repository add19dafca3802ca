-------------------------------- MODULE Json ---------------------------------
(***************************************************************************)
(* json::parser and json::object::dumps.  A text is a sequence of lexemes: *)
(* a run of letters, of number characters or of white space, or one other  *)
(* character.  No two runs of one kind are neighbours outside a string.    *)
(* A value is a lexeme, a string (its lexemes, escapes kept), an array or  *)
(* a map; each kind is a record with a field of its own.                   *)
(***************************************************************************)
EXTENDS Integers, Sequences, SequencesExt

Keywords == {"true", "false", "null", "undefined"}
Numbers == {"int", "double", "part"}    \* "part" is one that was cut

\* The parser of a text: index is the next lexeme, open the arrays and maps begun
\* and not closed, the innermost first; a map carries the key that waits for its
\* value.  at is "value" in parseValue and "loop" in the loop of open[1].
Begin == [index |-> 1, open |-> <<>>, at |-> "value", status |-> "parsing",
          out |-> [lex |-> "undefined"]]

Array(items) == [arr |-> items]
Map(fields) == [obj |-> fields]
NoKey == <<>>
EmptyMap == [k \in {} |-> NoKey]

Char(text, i) == IF i <= Len(text) THEN text[i] ELSE "end"

\* skipWhitespace
Skipped(text, i) == IF Char(text, i) = " " THEN i + 1 ELSE i

\* Names ending in "Bug" are faulty variants of the definition after them,
\* used to see that the properties notice.

\* Any quote with no backslash right before it.
ClosesBug(text, i) == text[i] = "\"" /\ (i > 1 => text[i - 1] # "\\")

\* shouldStringBeEscaped: an even number of backslashes is right before the
\* quote.
Closes(text, i) ==
    /\ text[i] = "\""
    /\ \E n \in 0 .. i - 1 :
          /\ n % 2 = 0
          /\ \A j \in i - n .. i - 1 : text[j] = "\\"
          /\ i - n > 1 => text[i - n - 1] # "\\"

\* Where the string whose opening quote is at i ends.  Its first character is
\* taken before the closing quote is looked for; 0 if there is none.
StringEnd(text, i) ==
    IF Char(text, i + 1) = "\"" THEN i + 1
    ELSE LET ends == {j \in i + 2 .. Len(text) : Closes(text, j)}
         IN  IF ends = {} THEN 0 ELSE CHOOSE j \in ends : \A k \in ends : j <= k

Raised(p) == [p EXCEPT !.status = "raised"]

\* A string without an end is read on and on past the text.
Looping(p) == [p EXCEPT !.status = "looping"]

\* Value v has been read, the parser is at index i.
Deliver(p, v, i) ==
    IF p.open = <<>> THEN [p EXCEPT !.index = i, !.out = v, !.status = "done"]
    ELSE LET c == Head(p.open)
             filled == IF "arr" \in DOMAIN c THEN Array(Append(c.arr, v))
                       ELSE [obj |-> [k \in DOMAIN c.obj \cup {c.key} |->
                                        IF k = c.key THEN v ELSE c.obj[k]],
                             key |-> NoKey]
         IN  [p EXCEPT !.index = i, !.at = "loop",
                       !.open = <<filled>> \o Tail(p.open)]

Enter(p, container, i) == [p EXCEPT !.index = i + 1, !.at = "loop",
                                    !.open = <<container>> \o p.open]

\* A keyword, a number or a string; a number out of range, which is "huge", ends
\* the process, because parseNumber is noexcept.
ParseValue(text, p) ==
    LET i == Skipped(text, p.index)
        c == Char(text, i)
        e == StringEnd(text, i)
    IN  CASE c \in Keywords \cup Numbers -> Deliver(p, [lex |-> c], i + 1)
          [] c = "huge" -> [p EXCEPT !.status = "terminated"]
          [] c = "[" -> Enter(p, Array(<<>>), i)
          [] c = "{" -> Enter(p, [obj |-> EmptyMap, key |-> NoKey], i)
          [] c = "\"" /\ e = 0 -> Looping(p)
          [] c = "\"" /\ e # 0 ->
               Deliver(p, [str |-> SubSeq(text, i + 1, e - 1)], e + 1)
          [] OTHER -> Raised(p)

\* The bracket of the innermost container closes it, and it is a value.
Close(p, i) ==
    LET c == Head(p.open)
    IN  Deliver([p EXCEPT !.open = Tail(p.open)],
                IF "arr" \in DOMAIN c THEN c ELSE Map(c.obj), i + 1)

\* The end of the text closes an array.
ParseArrayBug(text, p) ==
    LET i == Skipped(text, p.index)
    IN  CASE Char(text, i) \in {"]", "end"} -> Close(p, i)
          [] Char(text, i) = "," -> [p EXCEPT !.index = i + 1]
          [] OTHER -> ParseValue(text, p)

\* Commas are skipped wherever they stand.
ParseArray(text, p) ==
    LET i == Skipped(text, p.index)
    IN  CASE Char(text, i) = "]" -> Close(p, i)
          [] Char(text, i) = "," -> [p EXCEPT !.index = i + 1]
          [] OTHER -> ParseValue(text, p)

\* A key is a string of at least one character, followed by a colon.
ParseMap(text, p) ==
    LET i == Skipped(text, p.index)
        e == StringEnd(text, i)
        colon == Skipped(text, e + 1)
    IN  CASE Char(text, i) = "}" -> Close(p, i)
          [] Char(text, i) = "," -> [p EXCEPT !.index = i + 1]
          [] Char(text, i) = "\"" /\ e = 0 -> Looping(p)
          [] Char(text, i) = "\"" /\ e > i + 1 /\ Char(text, colon) = ":" ->
               [p EXCEPT !.index = colon + 1, !.at = "value",
                         !.open[1].key = SubSeq(text, i + 1, e - 1)]
          [] OTHER -> Raised(p)

\* One turn of the loop the parser is in.
Step(text, p) ==
    CASE p.at = "value" -> ParseValue(text, p)
      [] p.at = "loop" /\ "arr" \in DOMAIN Head(p.open) -> ParseArray(text, p)
      [] OTHER -> ParseMap(text, p)

\* The parser after each number of turns.
Turns(text) ==
    LET after[n \in Nat] ==
          IF n = 0 THEN Begin
          ELSE LET p == after[n - 1]
               IN  IF p.status = "parsing" THEN Step(text, p) ELSE p
    IN  after

\* loads, from begin to end: a turn that is not the last one takes a lexeme.
Loads(text) == Turns(text)[Len(text) + 1]

-----------------------------------------------------------------------------
(* Reading a value that was parsed                                         *)

\* assertIsMap: an undefined value becomes an empty map, any other raises.
IsMap(v) == "obj" \in DOMAIN v \/ v = [lex |-> "undefined"]

\* find
HasField(v, k) == "obj" \in DOMAIN v /\ k \in DOMAIN v.obj

\* operator std::string and operator int raise on a value of another type.
Converts(v, type) == CASE type = "string" -> "str" \in DOMAIN v
                       [] type = "int" -> v = [lex |-> "int"]

-----------------------------------------------------------------------------
\* Escapes are not restored.
DumpsStringBug(s) == <<"\"">> \o SelectSeq(s, LAMBDA c : c # "\\") \o <<"\"">>

\* A string between quotes, as it is.
DumpsString(s) == <<"\"">> \o s \o <<"\"">>

\* The texts of elements or fields, with a comma and a space between them.
Separated(texts) ==
    LET upTo[n \in Nat] == CASE n = 0 -> <<>>
                             [] n = 1 -> texts[1]
                             [] OTHER -> upTo[n - 1] \o <<",", " ">> \o texts[n]
    IN  upTo[Len(texts)]

\* dumps of a value whose elements and fields are written by Inner.
DumpsWith(Inner(_), v) ==
    CASE "lex" \in DOMAIN v -> <<v.lex>>
      [] "str" \in DOMAIN v -> DumpsString(v.str)
      [] "arr" \in DOMAIN v ->
           <<"[">> \o Separated([i \in DOMAIN v.arr |-> Inner(v.arr[i])]) \o <<"]">>
      [] OTHER ->
           LET keys == SetToSeq(DOMAIN v.obj)
           IN  <<"{">> \o Separated([i \in DOMAIN keys |->
                                       DumpsString(keys[i]) \o <<":", " ">>
                                         \o Inner(v.obj[keys[i]])])
                       \o <<"}">>

\* dumps(0) of values that nest up to Depth = 3 deep, as the lists the handlers
\* answer do: a map of an array of maps of leaves.
DumpsLeaf(v) == IF "lex" \in DOMAIN v THEN <<v.lex>> ELSE DumpsString(v.str)
DumpsRow(v) == DumpsWith(DumpsLeaf, v)
DumpsRows(v) == DumpsWith(DumpsRow, v)
Dumps(v) == DumpsWith(DumpsRows, v)

\* Reading the text from its start, where inside strings a backslash takes the
\* character after it along: are all strings closed?
QuotesClosed(text) ==
    LET after[i \in 0 .. Len(text)] ==
          IF i = 0 THEN "out"
          ELSE LET s == after[i - 1]
                   c == text[i]
               IN  CASE s = "out" -> IF c = "\"" THEN "in" ELSE "out"
                     [] s = "in" /\ c = "\"" -> "out"
                     [] s = "in" /\ c = "\\" -> "escape"
                     [] OTHER -> "in"
    IN  after[Len(text)] = "out"
=============================================================================
