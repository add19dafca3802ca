------------------------------- MODULE FormData -------------------------------
(***************************************************************************)
(* How makeRequest reads a body that is no JSON: a text, the fields of an  *)
(* urlencoded form, or those of a multipart form.  The lexemes are those   *)
(* of Json and the marks of forms: "&" and "="; "%22" and "%5C", which are *)
(* a quote and a backslash, and "+", a space; the "boundary" that          *)
(* content-type names, "cd" for the words of Content-Disposition up to the *)
(* quote before the name, "line" and "blank" for one and two line ends,    *)
(* and "end" for the line end and the dashes before a boundary.            *)
(***************************************************************************)
EXTENDS Json, FiniteSets

CONSTANT Leftovers  \* what a string behind the end of a vector may hold

\* The second conjunct holds of every literal; the provers do not know it.
ASSUME FormDataAssumption ==
    /\ Leftovers \subseteq Seq(STRING)
    /\ Keywords \cup {"part", "huge", "word", "\"", "\\", " "} \subseteq STRING

-----------------------------------------------------------------------------
(* A text that arrived in part                                             *)

Indivisible == {"{", "}", "[", "]", ",", ":", "\"", "\\", " ",
          "&", "=", "+", "boundary", "cd", "line", "blank", "end"}

\* What may be left of a lexeme.  A part of a number is a number, unless it is
\* the digits before the point of one that is too large for an integer.
Torn(c) == CASE c \in Indivisible -> {}
             [] c = "int" -> {"part"}
             [] c \in {"double", "huge"} -> {"part", "huge"}
             [] OTHER -> Keywords \cup {"word"}

\* The beginnings of a text.
Beginnings(text) ==
    {SubSeq(text, 1, n) : n \in 0 .. Len(text)} \cup
    UNION {{Append(SubSeq(text, 1, n - 1), c) : c \in Torn(text[n])} :
              n \in DOMAIN text}

-----------------------------------------------------------------------------
(* split                                                                   *)

\* The pieces of a text between marks, by the places of the marks around each.
Pieces(text, marks) ==
    LET ends == {0, Len(text) + 1} \cup {i \in DOMAIN text : text[i] \in marks}
    IN  {p \in ends \X ends :
            p[1] < p[2] /\ \A e \in ends : e <= p[1] \/ e >= p[2]}

Piece(text, p) == SubSeq(text, p[1] + 1, p[2] - 1)

\* Elements 0 and 1 of the pieces.  Where there is only one, what is read lies
\* behind the end of the vector.
First(text, marks) ==
    {Piece(text, p) : p \in {p \in Pieces(text, marks) : p[1] = 0}}

Second(text, marks) ==
    LET second == {p \in Pieces(text, marks) : <<0, p[1]>> \in Pieces(text, marks)}
    IN  IF second = {} THEN Leftovers ELSE {Piece(text, p) : p \in second}

-----------------------------------------------------------------------------
(* The fields of a form: name, value, and the place of the part.  A part   *)
(* has several where its value is left open.                               *)

Unescaped(text) ==
    [i \in DOMAIN text |-> CASE text[i] = "%22" -> "\""
                             [] text[i] = "%5C" -> "\\"
                             [] text[i] = "+" -> " "
                             [] OTHER -> text[i]]

FormFields(text) ==
    UNION {[at : {p[1]},
            name : {Unescaped(s) : s \in First(Piece(text, p), {"="})},
            value : {Unescaped(s) : s \in Second(Piece(text, p), {"="})}] :
              p \in Pieces(text, {"&"})}

\* The texts without the white space at their ends.
Trimmed(texts) ==
    UNION {{SubSeq(s, r[1], r[2]) :
              r \in {r \in (1 .. Len(s) + 1) \X (0 .. Len(s)) :
                        /\ \A i \in DOMAIN s : i \in r[1] .. r[2] \/ s[i] = " "
                        /\ r[1] <= r[2] => s[r[1]] # " " /\ s[r[2]] # " "}} :
            s \in texts}

\* Three characters at the end of a value are dropped.  They are the dashes and
\* part of the line end, unless no boundary arrived.
Cut(s) == IF s # <<>> /\ Last(s) = "end" THEN {Front(s)} ELSE Beginnings(s)

\* The parts of a multipart body that have a name, which a quote ends.
NamedParts(text) ==
    {p \in Pieces(text, {"boundary"}) : Cardinality(Pieces(Piece(text, p), {"cd"})) = 2}

PartFields(text) ==
    UNION {UNION {[at : {p[1]},
                   name : {Front(s) : s \in First(rest, {"line", "blank"})},
                   value : Trimmed(UNION {Cut(s) : s \in Second(rest, {"blank"})})] :
                      rest \in Second(Piece(text, p), {"cd"})} :
             p \in NamedParts(text)}

\* A later part replaces an earlier one of its name.
Filled(fields) ==
    LET names == {f.name : f \in fields}
        last(f) == \A g \in fields : g.name = f.name => g.at <= f.at
    IN  {Map([k \in names |-> [str |-> chosen[k].value]]) :
            chosen \in {c \in [names -> fields] :
                          \A k \in names : c[k].name = k /\ last(c[k])}}

\* The body a text is read as, by its type.
ReadAs(type, text) == CASE type = "text" -> {[str |-> text]}
                        [] type = "form" -> Filled(FormFields(text))
                        [] OTHER -> Filled(PartFields(text))

\* A part without a value: reading behind the end of the vector may end the
\* process.
Overruns(type, text) ==
    CASE type = "text" -> FALSE
      [] type = "form" ->
           \E p \in Pieces(text, {"&"}) : "=" \notin Range(Piece(text, p))
      [] OTHER -> \E p \in NamedParts(text) :
                     \E rest \in Second(Piece(text, p), {"cd"}) :
                        "blank" \notin Range(rest)
=============================================================================
