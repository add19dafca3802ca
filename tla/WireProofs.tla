----------------------------- MODULE WireProofs ------------------------------
(***************************************************************************)
(* What holds of a request on the wire for every set of workers, every     *)
(* workload, all contents of the file system and every routing table that  *)
(* extends the program's.                                                  *)
(***************************************************************************)
EXTENDS Wire, FiniteSetTheorems, WellFoundedInduction, TLAPS

-----------------------------------------------------------------------------
(* Induction over a set of natural numbers.                                *)

LEMMA NatRule ==
    ASSUME NEW S, 0 \in S, \A n \in Nat : n \in S => n + 1 \in S
    PROVE  \A n \in Nat : n \in S
  <1> SUFFICES ASSUME NEW k \in Nat, k \notin S PROVE FALSE
    OBVIOUS
  <1> DEFINE T == Nat \ S
  <1>1. \E x \in T : \A y \in T : ~ (<<y, x>> \in OpToRel(<, Nat))
    <2>1. T \subseteq Nat /\ T # {}
      OBVIOUS
    <2> HIDE DEF T
    <2>2. QED
      BY <2>1, WFMin, NatLessThanWellFounded
  <1>2. PICK x \in T : \A y \in T : ~ (<<y, x>> \in OpToRel(<, Nat))
    BY <1>1
  <1>3. \A y \in T : ~ (y < x)
    BY <1>2 DEF OpToRel
  <1>4. x # 0 /\ x - 1 \in Nat /\ x - 1 < x
    OBVIOUS
  <1>5. x - 1 \in S
    BY <1>3, <1>4
  <1>6. QED
    BY <1>4, <1>5

-----------------------------------------------------------------------------
(* The parser's turns, as the recursive function they are.                 *)

\* One turn of a parser that has not stopped.
Turn(text, p) == IF p.status = "parsing" THEN Step(text, p) ELSE p

LEMMA TurnsRecursion ==
    ASSUME NEW text
    PROVE  /\ Turns(text)[0] = Begin
           /\ \A n \in Nat : Turns(text)[n + 1] = Turn(text, Turns(text)[n])
  <1> DEFINE Good(g, n) == /\ g[0] = Begin
                           /\ \A i \in 1 .. n : g[i] = Turn(text, g[i - 1])
             S == {n \in Nat : \E g : Good(g, n)}
  <1>1. \A n \in Nat : n \in S
    <2>1. 0 \in S
      <3>1. Good([i \in {0} |-> Begin], 0)
        OBVIOUS
      <3>2. QED
        BY <3>1
    <2>2. ASSUME NEW n \in Nat, n \in S
          PROVE  n + 1 \in S
      <3>1. PICK g : Good(g, n)
        BY <2>2
      <3> DEFINE h == [i \in 0 .. n + 1 |->
                         IF i <= n THEN g[i] ELSE Turn(text, g[n])]
      <3>2. Good(h, n + 1)
        BY <3>1
      <3> HIDE DEF Good, h
      <3>3. QED
        BY <3>2
    <2> HIDE DEF S
    <2>3. QED
      BY <2>1, <2>2, NatRule
  <1>2. ASSUME NEW m \in Nat, NEW n \in Nat, NEW g, NEW h,
               Good(g, m), Good(h, n), m <= n
        PROVE  g[m] = h[m]
    <2> DEFINE E == {i \in Nat : i <= m => g[i] = h[i]}
    <2>1. 0 \in E
      BY <1>2
    <2>2. ASSUME NEW i \in Nat, i \in E PROVE i + 1 \in E
      <3> SUFFICES ASSUME i + 1 <= m PROVE g[i + 1] = h[i + 1]
        OBVIOUS
      <3>1. i + 1 \in 1 .. m /\ i + 1 \in 1 .. n /\ (i + 1) - 1 = i
        BY <1>2
      <3>2. g[i] = h[i]
        BY <2>2
      <3>3. g[i + 1] = Turn(text, g[i]) /\ h[i + 1] = Turn(text, h[i])
        BY <1>2, <3>1
      <3>4. QED
        BY <3>2, <3>3
    <2> HIDE DEF E
    <2>3. \A i \in Nat : i \in E
      BY <2>1, <2>2, NatRule
    <2>4. QED
      BY <2>3 DEF E
  <1> DEFINE F == [n \in Nat |-> (CHOOSE g : Good(g, n))[n]]
             Body(f) == [n \in Nat |-> IF n = 0 THEN Begin
                                       ELSE Turn(text, f[n - 1])]
  <1>3. \A n \in Nat : Good(CHOOSE g : Good(g, n), n)
    BY <1>1
  <1>4. F[0] = Begin
    BY <1>3
  <1>5. ASSUME NEW n \in Nat PROVE F[n + 1] = Turn(text, F[n])
    <2> DEFINE g == CHOOSE k : Good(k, n)
               h == CHOOSE k : Good(k, n + 1)
    <2>1. Good(g, n) /\ Good(h, n + 1)
      BY <1>3
    <2>2. F[n] = g[n] /\ F[n + 1] = h[n + 1]
      OBVIOUS
    <2>3. h[n + 1] = Turn(text, h[n])
      BY <2>1
    <2> HIDE DEF g, h, F, Good
    <2>4. g[n] = h[n]
      BY <1>2, <2>1
    <2>5. QED
      BY <2>2, <2>3, <2>4
  <1>6. F = Body(F)
    BY <1>4, <1>5
  <1>7. Turns(text) = Body(Turns(text))
    <2>1. Turns(text) = CHOOSE f : f = Body(f)
      BY DEF Turns, Turn
    <2> HIDE DEF F, Body
    <2>2. QED
      BY <1>6, <2>1
  <1>8. QED
    BY <1>7

-----------------------------------------------------------------------------
(* The parser takes a lexeme with every turn that is not its last.         *)

LEMMA Least ==
    ASSUME NEW S, S \subseteq Nat, S # {}
    PROVE  \E i \in S : \A j \in S : i <= j
  <1>1. PICK i \in S : \A j \in S : ~ (<<j, i>> \in OpToRel(<, Nat))
    BY WFMin, NatLessThanWellFounded
  <1>2. \A j \in S : ~ (j < i)
    BY <1>1 DEF OpToRel
  <1>3. QED
    BY <1>2

\* A closing quote lies in the text, after the opening one.
LEMMA StringEndType ==
    ASSUME NEW text \in Seq(STRING), NEW i \in Nat, StringEnd(text, i) # 0
    PROVE  StringEnd(text, i) \in i + 1 .. Len(text)
  <1> DEFINE ends == {j \in i + 2 .. Len(text) : Closes(text, j)}
  <1>0. Len(text) \in Nat
    OBVIOUS
  <1>1. CASE Char(text, i + 1) = "\""
    <2>1. i + 1 <= Len(text)
      BY <1>1 DEF Char
    <2>2. StringEnd(text, i) = i + 1
      BY <1>1 DEF StringEnd
    <2>3. QED
      BY <1>0, <2>1, <2>2
  <1>2. CASE Char(text, i + 1) # "\""
    <2>1. StringEnd(text, i) = IF ends = {} THEN 0
                               ELSE CHOOSE j \in ends : \A k \in ends : j <= k
      BY <1>2 DEF StringEnd
    <2>2. ends # {} /\ ends \subseteq i + 2 .. Len(text) /\ ends \subseteq Nat
      BY <2>1
    <2> HIDE DEF ends
    <2>3. \E j \in ends : \A k \in ends : j <= k
      BY <2>2, Least
    <2>4. StringEnd(text, i) \in ends
      BY <2>1, <2>2, <2>3
    <2>5. StringEnd(text, i) \in i + 2 .. Len(text)
      BY <2>2, <2>4
    <2>6. QED
      BY <1>0, <2>5
  <1>3. QED
    BY <1>1, <1>2

Statuses == {"parsing", "done", "raised", "looping", "terminated"}

\* A parser that can take a turn.
CanTurn(p) == /\ DOMAIN p = DOMAIN Begin
              /\ p.index \in Nat \ {0}
              /\ p.status = "parsing"

\* What a turn from p to q does to the place in the text and to the status.
Advances(text, p, q) ==
    /\ DOMAIN q = DOMAIN Begin
    /\ q.index \in Nat \ {0}
    /\ q.status \in Statuses
    /\ q.status \in {"parsing", "done"} => q.index \in p.index + 1 .. Len(text) + 1

LEMMA DeliverAdvances ==
    ASSUME NEW text \in Seq(STRING), NEW p, CanTurn(p),
           NEW v, NEW i \in p.index + 1 .. Len(text) + 1
    PROVE  Advances(text, p, Deliver(p, v, i))
  <1>1. i \in Nat \ {0}
    BY DEF CanTurn
  <1>2. QED
    BY <1>1 DEF CanTurn, Advances, Deliver, Begin, Statuses

LEMMA SkippedType ==
    ASSUME NEW text \in Seq(STRING), NEW i \in Nat \ {0}
    PROVE  /\ Skipped(text, i) \in Nat \ {0}
           /\ Skipped(text, i) >= i
           /\ Char(text, Skipped(text, i)) # "end" => Skipped(text, i) <= Len(text)
  <1>1. Len(text) \in Nat /\ \A k \in Nat : Char(text, k) # "end" => k <= Len(text)
    BY DEF Char
  <1>2. Skipped(text, i) \in {i, i + 1}
    BY DEF Skipped
  <1>3. QED
    BY <1>1, <1>2

LEMMA ParseValueAdvances ==
    ASSUME NEW text \in Seq(STRING), NEW p, CanTurn(p)
    PROVE  Advances(text, p, ParseValue(text, p))
  <1> DEFINE i == Skipped(text, p.index)
             c == Char(text, i)
             e == StringEnd(text, i)
  <1>1. i \in Nat \ {0} /\ i >= p.index /\ (c # "end" => i <= Len(text))
    BY SkippedType DEF CanTurn
  <1>2. Len(text) \in Nat /\ p.index \in Nat \ {0}
    BY DEF CanTurn
  <1>3. CASE c \in Keywords \cup Numbers
    <2>1. c # "end"
      BY <1>3 DEF Keywords, Numbers
    <2>2. i + 1 \in p.index + 1 .. Len(text) + 1
      BY <1>1, <1>2, <2>1
    <2>3. ParseValue(text, p) = Deliver(p, [lex |-> c], i + 1)
      BY <1>3 DEF ParseValue, Keywords, Numbers
    <2>4. QED
      BY <2>2, <2>3, DeliverAdvances
  <1>4. CASE c \notin Keywords \cup Numbers /\ c = "\"" /\ e # 0
    <2>1. e \in i + 1 .. Len(text)
      BY <1>1, <1>4, StringEndType
    <2>2. e + 1 \in p.index + 1 .. Len(text) + 1
      BY <1>1, <1>2, <2>1
    <2>3. ParseValue(text, p) = Deliver(p, [str |-> SubSeq(text, i + 1, e - 1)], e + 1)
      BY <1>4 DEF ParseValue
    <2>4. QED
      BY <2>2, <2>3, DeliverAdvances
  <1>5. CASE c \in {"[", "{"}
    <2>1. i + 1 \in p.index + 1 .. Len(text) + 1
      <3>1. c # "end"
        BY <1>5
      <3>2. QED
        BY <1>1, <1>2, <3>1
    <2>2. PICK new : ParseValue(text, p) = Enter(p, new, i)
      BY <1>5 DEF ParseValue, Keywords, Numbers
    <2>3. QED
      BY <2>1, <2>2 DEF CanTurn, Advances, Enter, Begin, Statuses
  <1>6. CASE /\ c \notin Keywords \cup Numbers \cup {"[", "{"}
             /\ ~ (c = "\"" /\ e # 0)
    <2>1. ParseValue(text, p) \in {[p EXCEPT !.status = "terminated"],
                                  [p EXCEPT !.status = "looping"],
                                  [p EXCEPT !.status = "raised"]}
      BY <1>6 DEF ParseValue, Looping, Raised
    <2>2. QED
      BY <2>1 DEF CanTurn, Advances, Begin, Statuses
  <1>7. QED
    BY <1>3, <1>4, <1>5, <1>6

LEMMA CloseAdvances ==
    ASSUME NEW text \in Seq(STRING), NEW p, CanTurn(p),
           NEW i \in p.index .. Len(text)
    PROVE  Advances(text, p, Close(p, i))
  <1> DEFINE q == [p EXCEPT !.open = Tail(p.open)]
  <1>1. CanTurn(q) /\ q.index = p.index
    BY DEF CanTurn, Begin
  <1>2. PICK v : Close(p, i) = Deliver(q, v, i + 1)
    BY DEF Close
  <1>3. i + 1 \in p.index + 1 .. Len(text) + 1
    BY DEF CanTurn
  <1> HIDE DEF q
  <1>4. Advances(text, q, Deliver(q, v, i + 1))
    BY <1>1, <1>3, DeliverAdvances
  <1>5. QED
    BY <1>1, <1>2, <1>4 DEF Advances

LEMMA ParseArrayAdvances ==
    ASSUME NEW text \in Seq(STRING), NEW p, CanTurn(p)
    PROVE  Advances(text, p, ParseArray(text, p))
  <1> DEFINE i == Skipped(text, p.index)
             c == Char(text, i)
  <1>1. i \in Nat \ {0} /\ i >= p.index /\ (c # "end" => i <= Len(text))
    BY SkippedType DEF CanTurn
  <1>2. Len(text) \in Nat /\ p.index \in Nat \ {0}
    BY DEF CanTurn
  <1>0. ASSUME c # "end"
        PROVE  /\ i \in p.index .. Len(text)
               /\ i + 1 \in p.index + 1 .. Len(text) + 1
    <2> HIDE DEF i, c
    <2>1. QED
      BY <1>0, <1>1, <1>2
  <1>3. CASE c = "]"
    <2>0. c # "end"
      BY <1>3
    <2>1. i \in p.index .. Len(text)
      BY <1>0, <2>0
    <2>2. ParseArray(text, p) = Close(p, i)
      BY <1>3 DEF ParseArray
    <2>3. QED
      BY <2>1, <2>2, CloseAdvances
  <1>4. CASE c = ","
    <2>0. c # "end"
      BY <1>4
    <2>1. i + 1 \in p.index + 1 .. Len(text) + 1
      BY <1>0, <2>0
    <2>2. ParseArray(text, p) = [p EXCEPT !.index = i + 1]
      BY <1>4 DEF ParseArray
    <2>3. QED
      BY <2>1, <2>2 DEF CanTurn, Advances, Begin, Statuses
  <1>5. CASE c \notin {"]", ","}
    <2>1. ParseArray(text, p) = ParseValue(text, p)
      BY <1>5 DEF ParseArray
    <2>2. QED
      BY <2>1, ParseValueAdvances
  <1>6. QED
    BY <1>3, <1>4, <1>5

LEMMA ParseMapAdvances ==
    ASSUME NEW text \in Seq(STRING), NEW p, CanTurn(p)
    PROVE  Advances(text, p, ParseMap(text, p))
  <1> DEFINE i == Skipped(text, p.index)
             c == Char(text, i)
             e == StringEnd(text, i)
             colon == Skipped(text, e + 1)
  <1>1. i \in Nat \ {0} /\ i >= p.index /\ (c # "end" => i <= Len(text))
    BY SkippedType DEF CanTurn
  <1>2. Len(text) \in Nat /\ p.index \in Nat \ {0}
    BY DEF CanTurn
  <1>0. ASSUME c # "end"
        PROVE  /\ i \in p.index .. Len(text)
               /\ i + 1 \in p.index + 1 .. Len(text) + 1
    <2> HIDE DEF i, c
    <2>1. QED
      BY <1>0, <1>1, <1>2
  <1>3. CASE c = "}"
    <2>0. c # "end"
      BY <1>3
    <2>1. i \in p.index .. Len(text)
      BY <1>0, <2>0
    <2>2. ParseMap(text, p) = Close(p, i)
      BY <1>3 DEF ParseMap
    <2>3. QED
      BY <2>1, <2>2, CloseAdvances
  <1>4. CASE c = ","
    <2>0. c # "end"
      BY <1>4
    <2>1. i + 1 \in p.index + 1 .. Len(text) + 1
      BY <1>0, <2>0
    <2>2. ParseMap(text, p) = [p EXCEPT !.index = i + 1]
      BY <1>4 DEF ParseMap
    <2>3. QED
      BY <2>1, <2>2 DEF CanTurn, Advances, Begin, Statuses
  <1>5. CASE /\ c = "\"" /\ e # 0 /\ e > i + 1
             /\ Char(text, colon) = ":"
    <2>1. e \in i + 1 .. Len(text)
      BY <1>1, <1>5, StringEndType
    <2>2. e + 1 \in Nat \ {0}
      BY <1>1, <2>1
    <2>3. colon >= e + 1 /\ colon <= Len(text) /\ colon \in Nat
      BY <1>5, <2>2, SkippedType
    <2>4. colon + 1 \in p.index + 1 .. Len(text) + 1
      BY <1>1, <1>2, <2>1, <2>3
    <2>5. ParseMap(text, p) = [p EXCEPT !.index = colon + 1, !.at = "value",
                                  !.open[1].key = SubSeq(text, i + 1, e - 1)]
      BY <1>5 DEF ParseMap
    <2>6. DOMAIN ParseMap(text, p) = DOMAIN p
      BY <2>5
    <2>7. ParseMap(text, p).index = colon + 1 /\ ParseMap(text, p).status = p.status
      BY <2>5 DEF CanTurn, Begin
    <2> HIDE DEF i, e, colon
    <2>8. QED
      BY <2>4, <2>6, <2>7, <1>2 DEF CanTurn, Advances, Statuses
  <1>6. CASE /\ c \notin {"}", ","}
             /\ ~ (c = "\"" /\ e # 0 /\ e > i + 1 /\ Char(text, colon) = ":")
    <2>1. ParseMap(text, p) \in {Looping(p), Raised(p)}
      <3>1. e \in Int /\ (e # 0 => e > i)
        BY <1>1, StringEndType
      <3> HIDE DEF i, c, e, colon
      <3>0. e > i + 1 => e # 0
        BY <1>1
      <3>2. ~ (c = "\"" /\ e > i + 1 /\ Char(text, colon) = ":")
        BY <1>6, <3>0
      <3>3. QED
        BY <1>6, <3>2 DEF ParseMap, i, c, e, colon
    <2>2. QED
      BY <2>1 DEF CanTurn, Advances, Begin, Statuses, Looping, Raised
  <1>7. QED
    BY <1>3, <1>4, <1>5, <1>6

LEMMA StepAdvances ==
    ASSUME NEW text \in Seq(STRING), NEW p, CanTurn(p)
    PROVE  Advances(text, p, Step(text, p))
  <1>1. Step(text, p) \in {ParseValue(text, p), ParseArray(text, p), ParseMap(text, p)}
    BY DEF Step
  <1>2. QED
    BY <1>1, ParseValueAdvances, ParseArrayAdvances, ParseMapAdvances

\* A turn changes the fields of a parser, of no matter which text.
LEMMA StepDomain ==
    ASSUME NEW text, NEW p, DOMAIN p = DOMAIN Begin
    PROVE  DOMAIN Step(text, p) = DOMAIN Begin
  <1>1. \A v, i : DOMAIN Deliver(p, v, i) = DOMAIN Begin
    BY DEF Deliver
  <1>2. \A i : DOMAIN Close(p, i) = DOMAIN Begin
    BY DEF Close, Deliver
  <1>3. DOMAIN ParseValue(text, p) = DOMAIN Begin
    BY <1>1 DEF ParseValue, Enter, Looping, Raised
  <1>4. DOMAIN ParseArray(text, p) = DOMAIN Begin
    BY <1>2, <1>3 DEF ParseArray
  <1>5. DOMAIN ParseMap(text, p) = DOMAIN Begin
    BY <1>2 DEF ParseMap, Looping, Raised
  <1>6. QED
    BY <1>3, <1>4, <1>5 DEF Step

\* What a parser never stops being.
IsParser(p) == /\ DOMAIN p = DOMAIN Begin
               /\ p.index \in Nat \ {0}
               /\ p.status \in Statuses

LEMMA TurnsType ==
    ASSUME NEW text \in Seq(STRING)
    PROVE  \A n \in Nat : LET p == Turns(text)[n]
                          IN  /\ IsParser(p)
                              /\ p.status = "parsing" => p.index \in n + 1 .. Len(text) + 1
  <1> DEFINE P(n) == LET p == Turns(text)[n]
                     IN  /\ IsParser(p)
                         /\ p.status = "parsing" => p.index \in n + 1 .. Len(text) + 1
             S == {n \in Nat : P(n)}
  <1>1. 0 \in S
    BY TurnsRecursion DEF IsParser, Begin, Statuses
  <1>2. ASSUME NEW n \in Nat, n \in S PROVE n + 1 \in S
    <2> DEFINE p == Turns(text)[n]
               q == Turns(text)[n + 1]
    <2>1. q = Turn(text, p)
      BY TurnsRecursion
    <2>2. IsParser(p) /\ (p.status = "parsing" => p.index \in n + 1 .. Len(text) + 1)
      BY <1>2
    <2> HIDE DEF p, q
    <2>3. CASE p.status # "parsing"
      BY <2>1, <2>2, <2>3 DEF Turn, q, p
    <2>4. CASE p.status = "parsing"
      <3>1. CanTurn(p)
        BY <2>2, <2>4 DEF CanTurn, IsParser
      <3>2. Advances(text, p, q)
        BY <2>1, <2>4, <3>1, StepAdvances DEF Turn
      <3>3. /\ IsParser(q)
            /\ q.status = "parsing" => q.index \in (n + 1) + 1 .. Len(text) + 1
        BY <2>2, <2>4, <3>2 DEF Advances, IsParser
      <3>4. QED
        BY <3>3 DEF q
    <2>5. QED
      BY <2>3, <2>4
  <1> HIDE DEF S
  <1>3. \A n \in Nat : n \in S
    BY <1>1, <1>2, NatRule
  <1>4. QED
    BY <1>3 DEF S

\* A parser that has stopped stays as it is.
LEMMA Stopped ==
    ASSUME NEW text, NEW k \in Nat, Turns(text)[k].status # "parsing"
    PROVE  \A m \in Nat : Turns(text)[k + m] = Turns(text)[k]
  <1> DEFINE S == {m \in Nat : Turns(text)[k + m] = Turns(text)[k]}
  <1>1. 0 \in S
    OBVIOUS
  <1>2. ASSUME NEW m \in Nat, m \in S PROVE m + 1 \in S
    <2>1. k + m \in Nat /\ k + (m + 1) = (k + m) + 1
      OBVIOUS
    <2>2. Turns(text)[(k + m) + 1] = Turn(text, Turns(text)[k + m])
      BY <2>1, TurnsRecursion
    <2>3. QED
      BY <1>2, <2>1, <2>2 DEF Turn
  <1> HIDE DEF S
  <1>3. \A m \in Nat : m \in S
    BY <1>1, <1>2, NatRule
  <1>4. QED
    BY <1>3 DEF S

\* loads comes to an end on every text: with a value, an error, or in a string
\* that does not end.
THEOREM LoadsStops ==
    ASSUME NEW text \in Seq(STRING)
    PROVE  /\ Loads(text).status # "parsing"
           /\ \A k \in Nat : Turns(text)[k].status # "parsing" =>
                               Turns(text)[k] = Loads(text)
  <1> DEFINE last == Len(text) + 1
  <1>1. last \in Nat /\ last \notin last + 1 .. Len(text) + 1
    OBVIOUS
  <1>2. Turns(text)[last].status # "parsing"
    BY <1>1, TurnsType
  <1>3. ASSUME NEW k \in Nat, Turns(text)[k].status # "parsing"
        PROVE  Turns(text)[k] = Turns(text)[last]
    <2> HIDE DEF last
    <2>1. CASE k <= last
      <3>1. last - k \in Nat /\ k + (last - k) = last
        BY <1>1, <2>1
      <3>2. QED
        BY <1>3, <3>1, Stopped
    <2>2. CASE k > last
      <3>1. k - last \in Nat /\ last + (k - last) = k
        BY <1>1, <2>2
      <3>2. QED
        BY <1>1, <1>2, <3>1, Stopped
    <2>3. QED
      BY <1>1, <2>1, <2>2
  <1>4. QED
    BY <1>2, <1>3 DEF Loads

-----------------------------------------------------------------------------
(* A turn that does not fail on the part of a body that was received is the *)
(* turn it takes on the whole body, unless it took the lexeme that was cut.  *)

Quote == "\""
Backslash == "\\"

LEMMA ClosesIs ==
    ASSUME NEW text, NEW j
    PROVE  Closes(text, j) <=>
             /\ text[j] = Quote
             /\ \E n \in 0 .. j - 1 :
                   /\ n % 2 = 0
                   /\ \A x \in j - n .. j - 1 : text[x] = Backslash
                   /\ j - n > 1 => text[j - n - 1] # Backslash
  BY Zenon DEF Closes, Quote, Backslash

LEMMA QuoteIsOther == Quote # Backslash
  BY Zenon DEF Quote, Backslash

\* What may be left of a lexeme.
Shreds == Keywords \cup Numbers \cup {"word", "huge"}

\* The last lexeme of a part may have been cut; no quote is, and no backslash.
Part(text, whole) == /\ text \in Seq(STRING) /\ whole \in Seq(STRING)
                     /\ Len(text) <= Len(whole)
                     /\ \A k \in 1 .. Len(text) :
                           \/ whole[k] = text[k]
                           \/ /\ k = Len(text) /\ text[k] \in Shreds
                              /\ whole[k] \notin {Quote, Backslash}

\* The lexeme at i was not cut.
Uncut(text, i) == i = Len(text) => Char(text, i) \notin Shreds

LEMMA PartChar ==
    ASSUME NEW text, NEW whole, Part(text, whole), NEW i \in Nat \ {0},
           Char(text, i) # "end", Uncut(text, i)
    PROVE  i <= Len(text) /\ Char(whole, i) = Char(text, i)
  <1>1. Len(text) \in Nat /\ Len(whole) \in Nat
    BY DEF Part
  <1>2. i <= Len(text)
    BY <1>1 DEF Char
  <1>3. Char(text, i) = text[i] /\ Char(whole, i) = whole[i]
    BY <1>1, <1>2 DEF Char, Part
  <1>4. whole[i] = text[i]
    BY <1>1, <1>2, <1>3 DEF Part, Uncut
  <1>5. QED
    BY <1>2, <1>3, <1>4

\* Quotes and backslashes stand where they stand in the whole.
LEMMA PartQuotes ==
    ASSUME NEW text, NEW whole, Part(text, whole), NEW k \in 1 .. Len(text)
    PROVE  /\ whole[k] = Quote <=> text[k] = Quote
           /\ whole[k] = Backslash <=> text[k] = Backslash
  <1>1. Quote \notin Shreds
    BY DEF Shreds, Keywords, Numbers, Quote
  <1>2. Backslash \notin Shreds
    BY Zenon DEF Shreds, Keywords, Numbers, Backslash
  <1>3. QED
    BY <1>1, <1>2 DEF Part

LEMMA PartSkipped ==
    ASSUME NEW text, NEW whole, Part(text, whole), NEW i \in Nat \ {0},
           Char(text, Skipped(text, i)) # "end", Uncut(text, Skipped(text, i))
    PROVE  /\ Skipped(whole, i) = Skipped(text, i)
           /\ Char(whole, Skipped(text, i)) = Char(text, Skipped(text, i))
  <1>0. Skipped(text, i) \in {i, i + 1}
    BY DEF Skipped
  <1>1. Skipped(text, i) \in Nat \ {0}
    BY <1>0
  <1>2. CASE Char(text, i) = " "
    <2>1. Skipped(text, i) = i + 1
      BY <1>2 DEF Skipped
    <2>0. " " \notin Shreds
      BY DEF Shreds, Keywords, Numbers
    <2>2. Char(whole, i) = " " /\ Char(whole, i + 1) = Char(text, i + 1)
      BY <1>1, <1>2, <2>0, <2>1, PartChar DEF Uncut
    <2>3. QED
      BY <2>1, <2>2 DEF Skipped
  <1>3. CASE Char(text, i) # " "
    <2>1. Skipped(text, i) = i
      BY <1>3 DEF Skipped
    <2>2. Char(whole, i) = Char(text, i)
      BY <2>1, PartChar
    <2>3. QED
      BY <1>3, <2>1, <2>2 DEF Skipped
  <1>4. QED
    BY <1>2, <1>3

LEMMA PartCloses ==
    ASSUME NEW text, NEW whole, Part(text, whole), NEW j \in 1 .. Len(text)
    PROVE  Closes(whole, j) <=> Closes(text, j)
  <1>1. Len(text) \in Nat
    BY DEF Part
  <1>2. \A k \in 1 .. j : /\ whole[k] = Quote <=> text[k] = Quote
                          /\ whole[k] = Backslash <=> text[k] = Backslash
    BY <1>1, PartQuotes
  <1>3. \A n \in 0 .. j - 1 :
           /\ \A k \in j - n .. j - 1 : k \in 1 .. j
           /\ j - n > 1 => j - n - 1 \in 1 .. j
    BY <1>1
  <1>4. whole[j] = Quote <=> text[j] = Quote
    BY <1>1, <1>2
  <1>5. QED
    BY <1>2, <1>3, <1>4, ClosesIs

LEMMA PartStringEnd ==
    ASSUME NEW text, NEW whole, Part(text, whole), NEW i \in Nat \ {0},
           StringEnd(text, i) # 0
    PROVE  StringEnd(whole, i) = StringEnd(text, i)
  <1>1. Len(text) \in Nat /\ Len(whole) \in Nat /\ Len(text) <= Len(whole)
    BY DEF Part
  <1>2. CASE Char(text, i + 1) = "\""
    <2>1. Char(whole, i + 1) = "\""
      <3>1. i + 1 \in Nat \ {0}
        OBVIOUS
      <3>2. Char(text, i + 1) # "end" /\ Uncut(text, i + 1)
        BY <1>2 DEF Uncut, Shreds, Keywords, Numbers
      <3>3. QED
        BY <1>2, <3>1, <3>2, PartChar
    <2>2. QED
      BY <1>2, <2>1 DEF StringEnd
  <1>3. CASE Char(text, i + 1) # "\""
    <2> DEFINE ends == {j \in i + 2 .. Len(text) : Closes(text, j)}
               all == {j \in i + 2 .. Len(whole) : Closes(whole, j)}
               Initial(S) == CHOOSE j \in S : \A k \in S : j <= k
    <2>0. StringEnd(text, i) = IF ends = {} THEN 0 ELSE Initial(ends)
      BY <1>3 DEF StringEnd
    <2>1. StringEnd(text, i) = Initial(ends) /\ ends # {}
      BY <2>0
    <2>2. i + 1 \in 1 .. Len(text)
      BY <1>1, <2>1
    <2>3. Char(whole, i + 1) # "\""
      <3>1. i + 1 <= Len(text) /\ i + 1 <= Len(whole)
        BY <1>1, <2>2
      <3>2. Char(text, i + 1) = text[i + 1] /\ Char(whole, i + 1) = whole[i + 1]
        BY <3>1 DEF Char
      <3>3. whole[i + 1] = "\"" <=> text[i + 1] = "\""
        BY <2>2, PartQuotes DEF Quote
      <3>4. QED
        BY <1>3, <3>2, <3>3
    <2>4. ends = {j \in all : j <= Len(text)}
      BY <1>1, PartCloses
    <2>5. ends \subseteq Nat /\ all \subseteq Nat /\ all # {}
      BY <2>1, <2>4
    <2>a. StringEnd(whole, i) = IF all = {} THEN 0 ELSE Initial(all)
      BY <2>3 DEF StringEnd
    <2>6. StringEnd(whole, i) = Initial(all)
      BY <2>5, <2>a
    <2> HIDE DEF ends, all
    <2>7. /\ Initial(ends) \in ends /\ \A k \in ends : Initial(ends) <= k
          /\ Initial(all) \in all /\ \A k \in all : Initial(all) <= k
      BY <2>1, <2>5, Least
    <2> HIDE DEF Initial
    <2>8. Initial(all) = Initial(ends)
      <3>1. Initial(ends) \in Nat /\ Initial(all) \in Nat
        BY <2>5, <2>7
      <3>2. Initial(ends) \in all /\ Initial(ends) <= Len(text)
        BY <2>4, <2>7
      <3>3. Initial(all) <= Initial(ends)
        BY <2>7, <3>2
      <3>4. Initial(all) \in ends
        BY <1>1, <2>4, <2>7, <3>1, <3>2, <3>3
      <3>5. Initial(ends) <= Initial(all)
        BY <2>7, <3>4
      <3>6. QED
        BY <3>1, <3>3, <3>5
    <2>9. QED
      BY <2>1, <2>6, <2>8
  <1>4. QED
    BY <1>2, <1>3

Goes(q) == q.status \in {"parsing", "done"}

\* The turn took the lexeme that was cut, the last one.
Severed(text, p, q) == \E c : q = Deliver(p, [lex |-> c], Len(text) + 1)

LEMMA PartSevered ==
    ASSUME NEW text, NEW p, Goes(ParseValue(text, p)), CanTurn(p),
           ~ Uncut(text, Skipped(text, p.index))
    PROVE  Severed(text, p, ParseValue(text, p))
  <1> DEFINE i == Skipped(text, p.index)
             c == Char(text, i)
  <1>1. i = Len(text) /\ c \in Shreds
    BY DEF Uncut
  <1>2. CASE c \in Keywords \cup Numbers
    <2>1. ParseValue(text, p) = Deliver(p, [lex |-> c], i + 1)
      BY <1>2 DEF ParseValue, Keywords, Numbers
    <2>2. QED
      BY <1>1, <2>1 DEF Severed
  <1>3. CASE c \in {"word", "huge"}
    <2>1. ParseValue(text, p) \in {[p EXCEPT !.status = "terminated"], Raised(p)}
      BY <1>3 DEF ParseValue, Keywords, Numbers
    <2>2. QED
      BY <2>1 DEF Goes, CanTurn, Begin, Raised
  <1>4. QED
    BY <1>1, <1>2, <1>3 DEF Shreds

LEMMA PartParseValue ==
    ASSUME NEW text, NEW whole, Part(text, whole), NEW p, CanTurn(p),
           Goes(ParseValue(text, p)), Uncut(text, Skipped(text, p.index))
    PROVE  ParseValue(whole, p) = ParseValue(text, p)
  <1> DEFINE i == Skipped(text, p.index)
             c == Char(text, i)
             e == StringEnd(text, i)
  <1>1. i \in Nat \ {0}
    BY SkippedType DEF CanTurn, Part
  <1>2. CASE c \in Keywords \cup Numbers \cup {"[", "{"}
    <2>1. c # "end"
      BY <1>2 DEF Keywords, Numbers
    <2>2. Skipped(whole, p.index) = i /\ Char(whole, i) = c
      BY <2>1, PartSkipped DEF CanTurn
    <2> HIDE DEF i
    <2>3. QED
      BY <1>2, <2>2 DEF ParseValue, Keywords, Numbers, i
  <1>3. CASE c \notin Keywords \cup Numbers /\ c = "\"" /\ e # 0
    <2>1. c # "end"
      BY <1>3
    <2>2. Skipped(whole, p.index) = i /\ Char(whole, i) = c
      BY <2>1, PartSkipped DEF CanTurn
    <2>3. StringEnd(whole, i) = e /\ e \in i + 1 .. Len(text)
      BY <1>1, <1>3, PartStringEnd, StringEndType DEF Part
    <2>4. SubSeq(whole, i + 1, e - 1) = SubSeq(text, i + 1, e - 1)
      <3>0. Len(text) \in Nat
        BY DEF Part
      <3>1. \A k \in i + 1 .. e - 1 : k \in 1 .. Len(text) /\ k # Len(text)
        BY <1>1, <2>3, <3>0
      <3>2. \A k \in i + 1 .. e - 1 : whole[k] = text[k]
        BY <3>1 DEF Part
      <3>3. /\ text \in Seq(STRING) /\ whole \in Seq(STRING)
            /\ i + 1 \in 1 .. Len(text) + 1 /\ e - 1 \in i .. Len(text)
            /\ Len(text) <= Len(whole)
        BY <1>1, <2>3 DEF Part
      <3> HIDE DEF i, e
      <3>4. QED
        BY <1>1, <3>2, <3>3
    <2> HIDE DEF i, e
    <2>5. ParseValue(text, p) = Deliver(p, [str |-> SubSeq(text, i + 1, e - 1)], e + 1)
      BY <1>3 DEF ParseValue, i, e
    <2>6. ParseValue(whole, p) = Deliver(p, [str |-> SubSeq(whole, i + 1, e - 1)], e + 1)
      BY <1>3, <2>2, <2>3 DEF ParseValue
    <2>7. QED
      BY <2>4, <2>5, <2>6
  <1>4. CASE /\ c \notin Keywords \cup Numbers \cup {"[", "{"}
             /\ ~ (c = "\"" /\ e # 0)
    <2>1. ParseValue(text, p) \in {[p EXCEPT !.status = "terminated"],
                                  [p EXCEPT !.status = "looping"],
                                  [p EXCEPT !.status = "raised"]}
      BY <1>4 DEF ParseValue, Looping, Raised
    <2>2. QED
      BY <2>1 DEF Goes, CanTurn, Begin
  <1>5. QED
    BY <1>2, <1>3, <1>4

LEMMA PartParseArray ==
    ASSUME NEW text, NEW whole, Part(text, whole), NEW p, CanTurn(p),
           Goes(ParseArray(text, p))
    PROVE  \/ ParseArray(whole, p) = ParseArray(text, p)
           \/ Severed(text, p, ParseArray(text, p))
  <1> DEFINE i == Skipped(text, p.index)
             c == Char(text, i)
  <1>1. CASE c = "end"
    <2>1. ParseArray(text, p) = ParseValue(text, p)
      BY <1>1 DEF ParseArray
    <2>2. ParseValue(text, p) = Raised(p)
      BY <1>1 DEF ParseValue, Keywords, Numbers
    <2>3. QED
      BY <2>1, <2>2 DEF Goes, Raised, CanTurn, Begin
  <1>2. CASE c # "end" /\ Uncut(text, i)
    <2>1. Skipped(whole, p.index) = i /\ Char(whole, i) = c
      BY <1>2, PartSkipped DEF CanTurn
    <2>0. Uncut(text, Skipped(text, p.index))
      BY <1>2
    <2> HIDE DEF i, c
    <2>2. CASE c \in {"]", ","}
      BY <2>1, <2>2 DEF ParseArray, i, c
    <2>3. CASE c \notin {"]", ","}
      <3>1. ParseArray(text, p) = ParseValue(text, p)
        BY <2>3 DEF ParseArray, i, c
      <3>2. ParseArray(whole, p) = ParseValue(whole, p)
        BY <2>1, <2>3 DEF ParseArray
      <3>3. QED
        BY <2>0, <3>1, <3>2, PartParseValue
    <2>4. QED
      BY <2>2, <2>3
  <1>3. CASE ~ Uncut(text, i)
    <2>1. c \notin {"]", ","}
      BY <1>3 DEF Uncut, Shreds, Keywords, Numbers
    <2>2. ParseArray(text, p) = ParseValue(text, p)
      BY <2>1 DEF ParseArray
    <2>3. QED
      BY <1>3, <2>2, PartSevered
  <1>4. QED
    BY <1>1, <1>2, <1>3

LEMMA PartParseMap ==
    ASSUME NEW text, NEW whole, Part(text, whole), NEW p, CanTurn(p),
           Goes(ParseMap(text, p))
    PROVE  ParseMap(whole, p) = ParseMap(text, p)
  <1> DEFINE i == Skipped(text, p.index)
             c == Char(text, i)
             e == StringEnd(text, i)
             colon == Skipped(text, e + 1)
  <1>1. i \in Nat \ {0} /\ text \in Seq(STRING)
    BY SkippedType DEF CanTurn, Part
  <1>2. CASE c \in {"}", ","}
    <2>1. c # "end" /\ Uncut(text, i)
      BY <1>2 DEF Uncut, Shreds, Keywords, Numbers
    <2>2. Skipped(whole, p.index) = i /\ Char(whole, i) = c
      BY <2>1, PartSkipped DEF CanTurn
    <2> HIDE DEF i, c
    <2>3. QED
      BY <1>2, <2>2 DEF ParseMap, i, c
  <1>3. CASE c = "\"" /\ e # 0 /\ e > i + 1 /\ Char(text, colon) = ":"
    <2>1. /\ c # "end" /\ Char(text, colon) # "end"
          /\ Uncut(text, i) /\ Uncut(text, colon)
      <3>1. {"\"", ":"} \cap Shreds = {}
        BY DEF Shreds, Keywords, Numbers
      <3>2. QED
        BY <1>3, <3>1 DEF Uncut
    <2>2. Skipped(whole, p.index) = i /\ Char(whole, i) = c
      BY <2>1, PartSkipped DEF CanTurn
    <2>3. StringEnd(whole, i) = e /\ e \in i + 1 .. Len(text)
      BY <1>1, <1>3, PartStringEnd, StringEndType
    <2>4. e + 1 \in Nat \ {0}
      BY <1>1, <2>3
    <2>5. Skipped(whole, e + 1) = colon /\ Char(whole, colon) = Char(text, colon)
      BY <2>1, <2>4, PartSkipped
    <2>6. SubSeq(whole, i + 1, e - 1) = SubSeq(text, i + 1, e - 1)
      <3>0. Len(text) \in Nat
        BY DEF Part
      <3>1. \A k \in i + 1 .. e - 1 : k \in 1 .. Len(text) /\ k # Len(text)
        BY <1>1, <2>3, <3>0
      <3>2. \A k \in i + 1 .. e - 1 : whole[k] = text[k]
        BY <3>1 DEF Part
      <3>3. /\ whole \in Seq(STRING)
            /\ i + 1 \in 1 .. Len(text) + 1 /\ e - 1 \in i .. Len(text)
            /\ Len(text) <= Len(whole)
        BY <1>1, <2>3 DEF Part
      <3> HIDE DEF i, e
      <3>4. QED
        BY <1>1, <3>2, <3>3
    <2> HIDE DEF i, c, e, colon
    <2>7. ParseMap(text, p) = [p EXCEPT !.index = colon + 1, !.at = "value",
                                  !.open[1].key = SubSeq(text, i + 1, e - 1)]
      BY <1>3 DEF ParseMap, i, c, e, colon
    <2>8. ParseMap(whole, p) = [p EXCEPT !.index = colon + 1, !.at = "value",
                                   !.open[1].key = SubSeq(whole, i + 1, e - 1)]
      BY <1>3, <2>2, <2>3, <2>5 DEF ParseMap
    <2>9. QED
      BY <2>6, <2>7, <2>8
  <1>4. CASE /\ c \notin {"}", ","}
             /\ ~ (c = "\"" /\ e # 0 /\ e > i + 1 /\ Char(text, colon) = ":")
    <2>1. ParseMap(text, p) \in {Looping(p), Raised(p)}
      <3>0. e > i + 1 => e # 0
        BY <1>1
      <3> HIDE DEF i, c, e, colon
      <3>1. ~ (c = "\"" /\ e > i + 1 /\ Char(text, colon) = ":")
        BY <1>4, <3>0
      <3>2. QED
        BY <1>4, <3>1 DEF ParseMap, i, c, e, colon
    <2>2. QED
      BY <2>1 DEF Goes, CanTurn, Begin, Looping, Raised
  <1>5. QED
    BY <1>2, <1>3, <1>4

LEMMA PartStep ==
    ASSUME NEW text, NEW whole, Part(text, whole), NEW p, CanTurn(p),
           Goes(Step(text, p))
    PROVE  Step(whole, p) = Step(text, p) \/ Severed(text, p, Step(text, p))
  <1>1. CASE p.at = "value"
    <2>1. Step(text, p) = ParseValue(text, p) /\ Step(whole, p) = ParseValue(whole, p)
      BY <1>1 DEF Step
    <2>2. QED
      BY <2>1, PartParseValue, PartSevered
  <1>2. CASE p.at # "value" /\ p.at = "loop" /\ "arr" \in DOMAIN Head(p.open)
    BY <1>2, PartParseArray DEF Step
  <1>3. CASE p.at # "value" /\ ~ (p.at = "loop" /\ "arr" \in DOMAIN Head(p.open))
    BY <1>3, PartParseMap DEF Step
  <1>4. QED
    BY <1>1, <1>2, <1>3

\* Behind the end of the text, no loop goes on.
LEMMA PartEnd ==
    ASSUME NEW text \in Seq(STRING), NEW p, CanTurn(p), p.at = "loop",
           p.index = Len(text) + 1
    PROVE  ~ Goes(Step(text, p))
  <1>0. Len(text) \in Nat
    OBVIOUS
  <1>a. Char(text, p.index) = "end"
    BY <1>0 DEF Char
  <1>1. Skipped(text, p.index) = p.index /\ Char(text, p.index) = "end"
    BY <1>a DEF Skipped
  <1>2. ParseValue(text, p) = Raised(p)
    BY <1>1 DEF ParseValue, Keywords, Numbers
  <1>3. ParseArray(text, p) = Raised(p) /\ ParseMap(text, p) = Raised(p)
    BY <1>1, <1>2 DEF ParseArray, ParseMap
  <1>4. Step(text, p) = Raised(p)
    BY <1>3 DEF Step
  <1>5. QED
    BY <1>4 DEF Goes, Raised, CanTurn, Begin

-----------------------------------------------------------------------------
(* A request on its way through the routers.                               *)

LEMMA TableType ==
    \A t \in Table : t[1] \in Routers /\ t[4] \notin Unhandled
  <1>1. \A t \in Table \ Extra : t[1] \in Routers
    BY SMTT(60) DEF Table, Routers
  <1>3. \A t \in Table \ Extra : t[4] \notin Unhandled
    <2>1. \A t \in Table \ Extra : t[4] # "none"
      BY SMTT(60) DEF Table
    <2>2. \A t \in Table \ Extra : t[4] # "forbidden"
      BY SMTT(60) DEF Table
    <2>3. \A t \in Table \ Extra : t[4] # "refused"
      BY SMTT(60) DEF Table
    <2>4. \A t \in Table \ Extra : t[4] # "file"
      BY SMTT(60) DEF Table
    <2>5. \A t \in Table \ Extra : t[4] # "raised"
      BY SMTT(60) DEF Table
    <2>6. \A t \in Table \ Extra : t[4] # "missing"
      BY SMTT(60) DEF Table
    <2>7. \A t \in Table \ Extra : t[4] # "terminated"
      BY SMTT(60) DEF Table
    <2>8. QED
      BY <2>1, <2>2, <2>3, <2>4, <2>5, <2>6, <2>7 DEF Unhandled
  <1>2. \A t \in Extra : t[1] \in Routers /\ t[4] \notin Unhandled
    BY RouterAssumption
  <1>4. QED
    BY <1>1, <1>2, <1>3

LEMMA MountsType == \A m \in Mounts : m[1] \in Routers /\ m[3] \in Routers
  BY DEF Mounts, Routers

\* A middleware that runs unless one before it has answered.
On(middleware, r) == IF r.answer # "none" THEN r ELSE Use(middleware, r)

LEMMA Chain ==
    ASSUME NEW r, NEW S, NEW chain \in Seq(S), Len(chain) \in {0, 1, 3},
           Middlewares[r.router] = chain
    PROVE  /\ Len(chain) = 0 => HandleMiddlewares(r) = r
           /\ Len(chain) = 1 => HandleMiddlewares(r) = On(chain[1], r)
           /\ Len(chain) = 3 =>
                HandleMiddlewares(r) = On(chain[3], On(chain[2], On(chain[1], r)))
  <1> DEFINE Body(f) == [i \in 0 .. Len(chain) |-> IF i = 0 THEN r
                                                   ELSE On(chain[i], f[i - 1])]
             s1 == On(chain[1], r)
             s2 == On(chain[2], s1)
             s3 == On(chain[3], s2)
             F == [i \in 0 .. Len(chain) |-> IF i = 0 THEN r
                                             ELSE IF i = 1 THEN s1
                                             ELSE IF i = 2 THEN s2 ELSE s3]
  <1>1. HandleMiddlewares(r) = (CHOOSE f : f = Body(f))[Len(chain)]
    BY DEF HandleMiddlewares, On
  <1>3. F = Body(F)
    <2> HIDE DEF s1, s2, s3
    <2>1. \A i \in 0 .. Len(chain) : F[i] = Body(F)[i]
      <3>1. \A i \in 0 .. Len(chain) : i \in {0, 1, 2, 3} /\ (i # 0 => i - 1 \in 0 .. Len(chain))
        <4>1. PICK n \in {0, 1, 3} : Len(chain) = n
          OBVIOUS
        <4>2. QED
          BY <4>1
      <3>2. QED
        BY <3>1 DEF s1, s2, s3
    <2>2. QED
      BY <2>1
  <1>4. PICK f : f = Body(f) /\ HandleMiddlewares(r) = f[Len(chain)]
    <2> HIDE DEF F, Body
    <2>1. QED
      BY <1>1, <1>3
  <1>5. f[0] = r /\ \A i \in 1 .. Len(chain) : f[i] = On(chain[i], f[i - 1])
    BY <1>4
  <1>6. QED
    BY <1>4, <1>5

LEMMA Middle ==
    ASSUME NEW r
    PROVE  /\ r.router = "app" =>
                HandleMiddlewares(r) = On("front", On("CookieParser", On("Cors", r)))
           /\ r.router = "api" => HandleMiddlewares(r) = r
           /\ r.router = "admin" => HandleMiddlewares(r) = On("AdminMiddleware", r)
           /\ r.router = "adminStatic" => HandleMiddlewares(r) = On("front_admin", r)
           /\ r.router = "front" => HandleMiddlewares(r) = On("front", r)
  <1>1. CASE r.router = "app"
    <2> DEFINE chain == <<"Cors", "CookieParser", "front">>
    <2>1. chain \in Seq({"Cors", "CookieParser", "front"})
          /\ Len(chain) = 3 /\ chain[1] = "Cors"
          /\ chain[2] = "CookieParser" /\ chain[3] = "front"
      OBVIOUS
    <2>2. Middlewares[r.router] = chain
      BY <1>1 DEF Middlewares
    <2> HIDE DEF chain
    <2>3. QED
      BY <1>1, <2>1, <2>2, Chain
  <1>2. CASE r.router = "api"
    <2>1. Middlewares[r.router] = <<>> /\ <<>> \in Seq({}) /\ Len(<<>>) = 0
      BY <1>2 DEF Middlewares
    <2>2. QED
      BY <1>2, <2>1, Chain
  <1>3. ASSUME NEW m, Middlewares[r.router] = <<m>>
        PROVE  HandleMiddlewares(r) = On(m, r)
    <2>1. <<m>> \in Seq({m}) /\ Len(<<m>>) = 1 /\ <<m>>[1] = m
      OBVIOUS
    <2>2. QED
      BY <1>3, <2>1, Chain
  <1>4. /\ r.router = "admin" => Middlewares[r.router] = <<"AdminMiddleware">>
        /\ r.router = "adminStatic" => Middlewares[r.router] = <<"front_admin">>
        /\ r.router = "front" => Middlewares[r.router] = <<"front">>
    BY DEF Middlewares
  <1>5. QED
    BY <1>1, <1>2, <1>3, <1>4

\* SMT cannot read the names of the other assumptions about files.
LEMMA FilesType ==
    /\ IsFiniteSet(DOMAIN Contents)
    /\ \A file \in DOMAIN Contents : /\ file \in Seq(STRING)
                                     /\ Contents[file] \in Seq(Bytes)
  BY Zenon, FilesAssumption DEF FilesAssumption

LEMMA AvailableType ==
    ASSUME NEW dir, NEW path
    PROVE  Available(dir, path) # <<>> => Available(dir, path) \in DOMAIN Contents
  <1> DEFINE in == Decoded(path)
             from == IF Len(in) > 1 /\ Head(in) = "" THEN <<>> ELSE Append(Root, dir)
             named == <<Walk(from, in), Walk(from, Append(in, "index.htm")),
                        Walk(from, Append(in, "index.html"))>>
             found == {i \in DOMAIN named : named[i] \in DOMAIN Contents}
  <1>1. found \subseteq Nat
    <2> HIDE DEF in, from
    <2>1. QED
      OBVIOUS
  <1>2. Available(dir, path) =
          IF found = {} THEN <<>>
          ELSE named[CHOOSE i \in found : \A j \in found : i <= j]
    BY DEF Available, FirstFile
  <1>3. \A i \in found : named[i] \in DOMAIN Contents
    OBVIOUS
  <1> HIDE DEF named, found
  <1>4. found # {} => (CHOOSE i \in found : \A j \in found : i <= j) \in found
    BY <1>1, Least
  <1>5. QED
    BY <1>2, <1>3, <1>4

RouteOK(r) == r \in Routing /\ (r.answer = "file" => r.file \in DOMAIN Contents)

LEMMA OnType ==
    ASSUME NEW middleware, NEW r, RouteOK(r)
    PROVE  RouteOK(On(middleware, r))
  <1>1. CASE r.answer # "none"
    BY <1>1 DEF On
  <1>2. CASE r.answer = "none"
    <2>1. \A a \in Unhandled : a # "file" => RouteOK(Answer(r, a))
      BY DEF RouteOK, Answer, Routing
    <2>2. RouteOK(Cors(r)) /\ RouteOK(AdminMiddleware(r))
      <3>1. \A a \in {"forbidden", "refused"} : RouteOK(Answer(r, a))
        BY <2>1 DEF Unhandled
      <3>2. QED
        BY <3>1 DEF Cors, AdminMiddleware
    <2>3. RouteOK(CookieParser(r))
      <3>1. RouteOK(Answer(r, "terminated"))
        BY <2>1 DEF Unhandled
      <3>2. RouteOK([r EXCEPT !.session = r.cookie])
        BY <1>2 DEF RouteOK, Routing
      <3>3. QED
        BY <3>1, <3>2 DEF CookieParser
    <2>4. RouteOK(StaticServe(middleware, r))
      <3> DEFINE file == Available(middleware, r.rest)
      <3>1. file # <<>> => file \in DOMAIN Contents /\ file \in Seq(STRING)
        BY AvailableType, FilesType
      <3>2. "file" \in Unhandled
        BY DEF Unhandled
      <3> HIDE DEF file
      <3>3. file # <<>> => RouteOK([r EXCEPT !.answer = "file", !.file = file])
        BY <3>1, <3>2 DEF RouteOK, Routing
      <3>4. QED
        BY <3>3 DEF StaticServe, file
    <2>5. QED
      BY <1>2, <2>2, <2>3, <2>4 DEF On, Use
  <1>3. QED
    BY <1>1, <1>2

LEMMA HandleMiddlewaresType ==
    ASSUME NEW r, RouteOK(r)
    PROVE  RouteOK(HandleMiddlewares(r))
  <1>1. r.router \in Routers
    BY DEF RouteOK, Routing
  <1>2. RouteOK(On("front", On("CookieParser", On("Cors", r))))
    BY OnType
  <1>3. QED
    BY <1>1, <1>2, OnType, Middle DEF Routers

LEMMA StripType ==
    ASSUME NEW path \in Seq(STRING)
    PROVE  Strip(path) \in Seq(STRING)
  <1>1. path # <<>> => Tail(path) \in Seq(STRING)
    OBVIOUS
  <1>2. QED
    BY <1>1 DEF Strip

LEMMA HandleRequestType ==
    ASSUME NEW r, RouteOK(r)
    PROVE  RouteOK(HandleRequest(r))
  <1> DEFINE s == HandleMiddlewares(r)
             path == Strip(s.rest)
             handlers == {t \in Table : t[1] = s.router /\ t[2] = s.method /\ t[3] = path}
             below == {m \in Mounts : m[1] = s.router /\ path # <<>> /\ Head(path) = m[2]}
  <1>1. RouteOK(s)
    BY HandleMiddlewaresType
  <1>2. HandleRequest(r) =
          IF s.answer # "none" THEN s
          ELSE IF s.method = "HEAD" THEN Answer(s, "raised")
          ELSE IF handlers # {} THEN Answer(s, (CHOOSE t \in handlers : TRUE)[4])
          ELSE IF below # {} THEN [s EXCEPT !.router = (CHOOSE m \in below : TRUE)[3],
                                            !.rest = Tail(path)]
          ELSE Answer(s, "missing")
    BY DEF HandleRequest, Dispatch
  <1>3. \A t \in handlers : t \in Table
    OBVIOUS
  <1>4. \A m \in below : m \in Mounts /\ path # <<>>
    OBVIOUS
  <1>5. path \in Seq(STRING)
    BY <1>1, StripType DEF RouteOK, Routing
  <1> HIDE DEF s, handlers, below, path
  <1>6. RouteOK(Answer(s, "raised")) /\ RouteOK(Answer(s, "missing"))
    BY <1>1 DEF RouteOK, Routing, Answer, Unhandled
  <1>7. \A t \in Table : RouteOK(Answer(s, t[4]))
    <2> SUFFICES ASSUME NEW t \in Table PROVE RouteOK(Answer(s, t[4]))
      OBVIOUS
    <2>1. t[4] # "file"
      BY TableType DEF Unhandled
    <2>2. QED
      BY <1>1, <2>1 DEF RouteOK, Routing, Answer
  <1>8. handlers # {} => RouteOK(Answer(s, (CHOOSE t \in handlers : TRUE)[4]))
    BY <1>3, <1>7
  <1>9. ASSUME below # {}, s.answer = "none"
        PROVE  RouteOK([s EXCEPT !.router = (CHOOSE m \in below : TRUE)[3],
                                 !.rest = Tail(path)])
    <2>1. (CHOOSE m \in below : TRUE)[3] \in Routers /\ path # <<>>
      BY <1>4, <1>9, MountsType
    <2>2. Tail(path) \in Seq(STRING)
      BY <1>5, <2>1
    <2>3. QED
      BY <1>1, <1>9, <2>1, <2>2 DEF RouteOK, Routing
  <1>10. CASE s.answer # "none" \/ s.method = "HEAD"
    BY <1>1, <1>2, <1>6, <1>10
  <1>11. CASE s.answer = "none" /\ s.method # "HEAD" /\ handlers # {}
    BY <1>2, <1>8, <1>11
  <1>12. CASE s.answer = "none" /\ s.method # "HEAD" /\ handlers = {}
    BY <1>2, <1>6, <1>9, <1>12
  <1>13. QED
    BY <1>10, <1>11, <1>12

-----------------------------------------------------------------------------
(* The archive: sums of sizes, and the sequence of a finite set.           *)

\* f holds the sums of the first sizes.
SumsOf(f, sizes) == f[0] = 0 /\ \A n \in Nat : f[n + 1] = f[n] + sizes[n + 1]

LEMMA TotalRecursion ==
    ASSUME NEW sizes
    PROVE  \E f : SumsOf(f, sizes) /\ Total(sizes) = f[Len(sizes)]
  <1> DEFINE Good(g, n) == /\ g[0] = 0
                           /\ \A i \in 1 .. n : g[i] = g[i - 1] + sizes[i]
             S == {n \in Nat : \E g : Good(g, n)}
  <1>1. \A n \in Nat : n \in S
    <2>1. 0 \in S
      <3>1. Good([i \in {0} |-> 0], 0)
        OBVIOUS
      <3>2. QED
        BY <3>1
    <2>2. ASSUME NEW n \in Nat, n \in S
          PROVE  n + 1 \in S
      <3>1. PICK g : Good(g, n)
        BY <2>2
      <3> DEFINE h == [i \in 0 .. n + 1 |->
                         IF i <= n THEN g[i] ELSE g[n] + sizes[n + 1]]
      <3>2. Good(h, n + 1)
        BY <3>1
      <3> HIDE DEF Good, h
      <3>3. QED
        BY <3>2
    <2> HIDE DEF S
    <2>3. QED
      BY <2>1, <2>2, NatRule
  <1>2. ASSUME NEW m \in Nat, NEW n \in Nat, NEW g, NEW h,
               Good(g, m), Good(h, n), m <= n
        PROVE  g[m] = h[m]
    <2> DEFINE E == {i \in Nat : i <= m => g[i] = h[i]}
    <2>1. 0 \in E
      BY <1>2
    <2>2. ASSUME NEW i \in Nat, i \in E PROVE i + 1 \in E
      <3> SUFFICES ASSUME i + 1 <= m PROVE g[i + 1] = h[i + 1]
        OBVIOUS
      <3>1. i + 1 \in 1 .. m /\ i + 1 \in 1 .. n /\ (i + 1) - 1 = i
        BY <1>2
      <3>2. g[i] = h[i]
        BY <2>2
      <3>3. g[i + 1] = g[i] + sizes[i + 1] /\ h[i + 1] = h[i] + sizes[i + 1]
        BY <1>2, <3>1
      <3>4. QED
        BY <3>2, <3>3
    <2> HIDE DEF E
    <2>3. \A i \in Nat : i \in E
      BY <2>1, <2>2, NatRule
    <2>4. QED
      BY <2>3 DEF E
  <1> DEFINE F == [n \in Nat |-> (CHOOSE g : Good(g, n))[n]]
             Body(f) == [n \in Nat |-> IF n = 0 THEN 0 ELSE f[n - 1] + sizes[n]]
  <1>3. \A n \in Nat : Good(CHOOSE g : Good(g, n), n)
    BY <1>1
  <1>4. F[0] = 0
    BY <1>3
  <1>5. ASSUME NEW n \in Nat PROVE F[n + 1] = F[n] + sizes[n + 1]
    <2> DEFINE g == CHOOSE k : Good(k, n)
               h == CHOOSE k : Good(k, n + 1)
    <2>1. Good(g, n) /\ Good(h, n + 1)
      BY <1>3
    <2>2. F[n] = g[n] /\ F[n + 1] = h[n + 1]
      OBVIOUS
    <2>3. h[n + 1] = h[n] + sizes[n + 1]
      BY <2>1
    <2> HIDE DEF g, h, F, Good
    <2>4. g[n] = h[n]
      BY <1>2, <2>1
    <2>5. QED
      BY <2>2, <2>3, <2>4
  <1>6. F = Body(F)
    <2>1. \A n \in Nat : F[n] = Body(F)[n]
      <3> HIDE DEF F
      <3>1. \A n \in Nat \ {0} : n - 1 \in Nat /\ (n - 1) + 1 = n
        OBVIOUS
      <3>2. \A n \in Nat \ {0} : F[n] = F[n - 1] + sizes[n]
        BY <1>5, <3>1
      <3>3. QED
        BY <1>4, <3>2
    <2>2. QED
      BY <2>1
  <1>7. PICK f : f = Body(f) /\ Total(sizes) = f[Len(sizes)]
    <2>1. Total(sizes) = (CHOOSE f : f = Body(f))[Len(sizes)]
      BY DEF Total
    <2> HIDE DEF F, Body
    <2>2. QED
      BY <1>6, <2>1
  <1>8. SumsOf(f, sizes)
    BY <1>7 DEF SumsOf
  <1>9. QED
    BY <1>7, <1>8

LEMMA TotalType ==
    ASSUME NEW sizes \in Seq(Nat)
    PROVE  Total(sizes) \in Nat
  <1>1. PICK f : SumsOf(f, sizes) /\ Total(sizes) = f[Len(sizes)]
    BY TotalRecursion
  <1> DEFINE S == {n \in Nat : n <= Len(sizes) => f[n] \in Nat}
  <1>2. 0 \in S
    BY <1>1 DEF SumsOf
  <1>3. ASSUME NEW n \in Nat, n \in S PROVE n + 1 \in S
    <2>0. Len(sizes) \in Nat
      OBVIOUS
    <2>1. n + 1 <= Len(sizes) => n + 1 \in 1 .. Len(sizes) /\ n <= Len(sizes)
      BY <2>0
    <2>2. n + 1 <= Len(sizes) => sizes[n + 1] \in Nat
      BY <2>1
    <2>3. f[n + 1] = f[n] + sizes[n + 1]
      BY <1>1 DEF SumsOf
    <2>4. n + 1 <= Len(sizes) => f[n] \in Nat
      BY <1>3, <2>1
    <2>5. n + 1 <= Len(sizes) => f[n + 1] \in Nat
      BY <2>2, <2>3, <2>4
    <2>6. QED
      BY <2>5
  <1> HIDE DEF S
  <1>4. \A n \in Nat : n \in S
    BY <1>2, <1>3, NatRule
  <1>5. Len(sizes) \in Nat
    OBVIOUS
  <1>6. QED
    BY <1>1, <1>4, <1>5 DEF S

\* SetToSeq lists the elements of a finite set, each of them once.
LEMMA SetToSeqType ==
    ASSUME NEW S, IsFiniteSet(S)
    PROVE  /\ SetToSeq(S) \in Seq(S)
           /\ Len(SetToSeq(S)) = Cardinality(S)
           /\ \A i, j \in 1 .. Cardinality(S) :
                 SetToSeq(S)[i] = SetToSeq(S)[j] => i = j
  <1> DEFINE n == Cardinality(S)
             Lists == {f \in [1 .. n -> S] : IsInjective(f)}
  <1>1. n \in Nat
    BY FS_CardinalityType
  <1>2. Lists # {}
    BY FS_CardinalityType DEF ExistsBijection, Bijection, Injection
  <1>3. SetToSeq(S) \in Lists
    BY <1>2 DEF SetToSeq
  <1> HIDE DEF n
  <1>4. QED
    BY <1>1, <1>3 DEF IsInjective, n

LEMMA AddType ==
    ASSUME NEW paths, PathsOK(paths), NEW path \in Seq(STRING) \ {<<>>}
    PROVE  PathsOK(Add(paths, path))
  <1> DEFINE name(f) == <<Last(path)>> \o SubSeq(f, Len(path) + 1, Len(f))
             added == {f \in DOMAIN Contents : IsPrefix(path, f)}
             names == {name(f) : f \in added}
             new == Add(paths, path)
  <1>1. Last(path) \in STRING
    BY DEF Last
  <1>2. \A f \in added : name(f) \in Seq(STRING) \ {<<>>}
    <2> SUFFICES ASSUME NEW f \in added PROVE name(f) \in Seq(STRING) \ {<<>>}
      OBVIOUS
    <2>1. f \in Seq(STRING) /\ Len(path) <= Len(f) /\ Len(path) \in Nat
      BY FilesType DEF IsPrefix
    <2>2. SubSeq(f, Len(path) + 1, Len(f)) \in Seq(STRING)
      BY <2>1
    <2>3. QED
      BY <1>1, <2>2
  <1>3. IsFiniteSet(names)
    <2> DEFINE g == [f \in added |-> name(f)]
    <2>1. IsFiniteSet(added)
      BY FilesType, FS_Subset
    <2>2. g \in Surjection(added, names)
      BY DEF Surjection
    <2> HIDE DEF g, added, names
    <2>3. QED
      BY <2>1, <2>2, FS_Surjection
  <1>4. new = [n \in DOMAIN paths \cup names |->
                 IF \E f \in added : name(f) = n
                 THEN CHOOSE f \in added : name(f) = n ELSE paths[n]]
    BY DEF Add
  <1>5. IsFiniteSet(DOMAIN paths \cup names)
    BY <1>3, FS_Union DEF PathsOK
  <1>6. \A n \in DOMAIN paths \cup names : /\ n \in Seq(STRING) \ {<<>>}
                                          /\ new[n] \in DOMAIN Contents
    <2> SUFFICES ASSUME NEW n \in DOMAIN paths \cup names
                 PROVE  n \in Seq(STRING) \ {<<>>} /\ new[n] \in DOMAIN Contents
      OBVIOUS
    <2>1. CASE \E f \in added : name(f) = n
      <3>1. PICK f \in added : name(f) = n
        BY <2>1
      <3>2. n \in Seq(STRING) \ {<<>>}
        BY <1>2, <3>1
      <3>3. new[n] = CHOOSE h \in added : name(h) = n
        BY <1>4, <2>1
      <3>4. new[n] \in added
        BY <2>1, <3>3
      <3>5. QED
        BY <3>2, <3>4
    <2>2. CASE ~ \E f \in added : name(f) = n
      <3>1. n \in DOMAIN paths
        BY <2>2
      <3>2. new[n] = paths[n]
        BY <1>4, <2>2
      <3>3. QED
        BY <3>1, <3>2 DEF PathsOK
    <2>3. QED
      BY <2>1, <2>2
  <1>7. DOMAIN new = DOMAIN paths \cup names /\ new = [n \in DOMAIN new |-> new[n]]
    BY <1>4
  <1> HIDE DEF new, names
  <1>8. PathsOK(new)
    BY <1>5, <1>6, <1>7 DEF PathsOK
  <1>9. QED
    BY <1>8 DEF new

LEMMA StartedType ==
    ASSUME NEW paths, PathsOK(paths)
    PROVE  ZipOK(Started(paths))
  <1>1. SetToSeq(DOMAIN paths) \in Seq(DOMAIN paths)
    BY SetToSeqType DEF PathsOK
  <1>2. QED
    BY <1>1 DEF ZipOK, Started

LEMMA NoPathsType == ZipOK(Started(NoPaths))
  <1>1. PathsOK(NoPaths)
    BY FS_EmptySet DEF PathsOK, NoPaths
  <1>2. QED
    BY <1>1, StartedType

\* What an entry says about itself, and the numbers that come from it.
LEMMA EntryType ==
    ASSUME NEW z, ZipOK(z), z.todo # <<>>
    PROVE  /\ Head(z.todo) \in DOMAIN z.paths
           /\ Head(z.todo) \in Seq(STRING) \ {<<>>}
           /\ NameSize(Head(z.todo)) \in Nat \ {0}
           /\ HeaderSize(z) \in Nat \ {0}
           /\ CurrentFile(z) \in DOMAIN Contents
           /\ Size(CurrentFile(z)) \in Nat
  <1>1. Head(z.todo) \in DOMAIN z.paths
    BY DEF ZipOK
  <1>2. Head(z.todo) \in Seq(STRING) \ {<<>>}
    BY <1>1 DEF ZipOK, PathsOK
  <1>3. Len(Head(z.todo)) \in Nat \ {0}
    BY <1>2
  <1>4. NameSize(Head(z.todo)) \in Nat \ {0}
    BY <1>3 DEF NameSize
  <1>5. CurrentFile(z) \in DOMAIN Contents
    BY <1>1 DEF ZipOK, PathsOK, CurrentFile
  <1>6. Size(CurrentFile(z)) \in Nat
    BY <1>5, FilesType DEF Size
  <1>7. QED
    BY <1>1, <1>2, <1>4, <1>5, <1>6 DEF HeaderSize

LEMMA TailType ==
    ASSUME NEW S, NEW q \in Seq(S), q # <<>>
    PROVE  /\ Head(q) \in S /\ Head(q) = q[1]
           /\ Tail(q) \in Seq(S)
           /\ Len(Tail(q)) = Len(q) - 1
           /\ \A i \in 1 .. Len(q) - 1 : Tail(q)[i] = q[i + 1]
  OBVIOUS

LEMMA Modulo ==
    ASSUME NEW a \in Nat, NEW b \in Nat \ {0}
    PROVE  a % b \in 0 .. b - 1 /\ (a < b => a % b = a)
  OBVIOUS

LEMMA GetHeaderType ==
    ASSUME NEW z, ZipOK(z), z.todo # <<>>
    PROVE  ZipOK(GetHeader(z)) /\ GetHeader(z).todo = z.todo
  <1> DEFINE name == Head(z.todo)
             size == Size(z.paths[name]) % Wide
             info == [name |-> name, size |-> size, offset |-> z.offset]
             offset == (z.offset + 30 + NameSize(name) + size) % Wide
  <1>1. size \in Nat
    BY EntryType, Modulo, ZipperAssumption DEF CurrentFile
  <1>2. offset \in Nat
    <2>1. z.offset + 30 + NameSize(name) + size \in Nat
      BY <1>1, EntryType DEF ZipOK
    <2> HIDE DEF size, name
    <2>2. Wide \in Nat \ {0}
      BY ZipperAssumption
    <2>3. PICK a \in Nat : a = z.offset + 30 + NameSize(name) + size
      BY <2>1
    <2>4. a % Wide \in Nat
      BY <2>2, Modulo
    <2>5. QED
      BY <2>3, <2>4
  <1>3. info \in Info
    BY <1>1, EntryType DEF Info, ZipOK
  <1>4. GetHeader(z) = [z EXCEPT !.infos = Append(@, info), !.offset = offset]
    BY DEF GetHeader
  <1>5. Append(z.infos, info) \in Seq(Info)
    BY <1>3 DEF ZipOK
  <1> HIDE DEF info, offset
  <1>6. QED
    BY <1>2, <1>4, <1>5 DEF ZipOK

LEMMA FooterSizeType ==
    ASSUME NEW z, ZipOK(z)
    PROVE  FooterSize(z) \in Nat \ {0}
  <1> DEFINE sizes == [i \in DOMAIN z.infos |-> 46 + NameSize(z.infos[i].name)]
  <1>1. z.infos \in Seq(Info)
    BY DEF ZipOK
  <1>2. \A i \in DOMAIN z.infos : 46 + NameSize(z.infos[i].name) \in Nat
    <2> SUFFICES ASSUME NEW i \in DOMAIN z.infos
                 PROVE  46 + NameSize(z.infos[i].name) \in Nat
      OBVIOUS
    <2>1. z.infos[i] \in Info
      BY <1>1
    <2>2. Len(z.infos[i].name) \in Nat \ {0}
      BY <2>1 DEF Info
    <2>3. QED
      BY <2>2 DEF NameSize
  <1>3. sizes \in Seq(Nat)
    <2>1. DOMAIN z.infos = 1 .. Len(z.infos) /\ Len(z.infos) \in Nat
      BY <1>1
    <2>2. QED
      BY <1>2, <2>1
  <1>4. FooterSize(z) = 22 + Total(sizes)
    BY DEF FooterSize
  <1> HIDE DEF sizes
  <1>5. QED
    BY <1>3, <1>4, TotalType

-----------------------------------------------------------------------------
(* Type correctness.                                                       *)

LEMMA BytesType == Bytes \subseteq Nat /\ 0 \in Bytes
  <1>1. PICK n \in Bytes : Bytes = 0 .. n
    BY WireAssumption
  <1>2. n \in 0 .. n
    BY <1>1
  <1>3. n \in Nat
    BY <1>2
  <1>4. QED
    BY <1>1, <1>3

LEMMA PutType ==
    ASSUME TypeOK, NEW w \in Workers, NEW j, JobOK(j), Put(w, j),
           up' \in BOOLEAN, initialized' \in BOOLEAN, table' \subseteq Bytes
    PROVE  TypeOK'
  <1>1. DOMAIN job' = Workers
    BY DEF TypeOK, Put
  <1>2. \A v \in Workers : JobOK(job'[v])
    <2> SUFFICES ASSUME NEW v \in Workers PROVE JobOK(job'[v])
      OBVIOUS
    <2>1. job'[v] = IF v = w THEN j ELSE job[v]
      BY DEF TypeOK, Put
    <2>2. QED
      BY <2>1 DEF TypeOK
  <1>3. QED
    BY <1>1, <1>2 DEF TypeOK

\* The same for an action that changes a job and nothing else.
LEMMA QuietType ==
    ASSUME TypeOK, NEW w \in Workers, NEW j, JobOK(j), Put(w, j), Quiet
    PROVE  TypeOK'
  BY PutType DEF TypeOK, Quiet

LEMMA WriteType ==
    ASSUME TypeOK, NEW w \in Workers, NEW j, JobOK(j), Write(w, j), Quiet
    PROVE  TypeOK'
  <1>1. JobOK([job[w] EXCEPT !.step = "end", !.failed = TRUE])
    <2>1. JobOK(job[w])
      BY DEF TypeOK
    <2>2. QED
      BY <2>1 DEF JobOK, ParserOK, Steps, FileSteps
  <1>2. QED
    BY <1>1, QuietType DEF Write

LEMMA TornType == \A c : Torn(c) \subseteq STRING
  BY FormDataAssumption DEF Torn

LEMMA BeginningsType ==
    ASSUME NEW text \in Seq(STRING)
    PROVE  Beginnings(text) \subseteq Seq(STRING)
  <1>1. \A n \in 0 .. Len(text) : SubSeq(text, 1, n) \in Seq(STRING)
    OBVIOUS
  <1>2. \A n \in DOMAIN text : n - 1 \in 0 .. Len(text)
    OBVIOUS
  <1>3. \A n \in DOMAIN text : \A c \in Torn(text[n]) :
           Append(SubSeq(text, 1, n - 1), c) \in Seq(STRING)
    BY <1>1, <1>2, TornType
  <1>4. SUFFICES ASSUME NEW t \in Beginnings(text) PROVE t \in Seq(STRING)
    OBVIOUS
  <1>5. \/ \E n \in 0 .. Len(text) : t = SubSeq(text, 1, n)
        \/ \E n \in DOMAIN text : \E c \in Torn(text[n]) :
              t = Append(SubSeq(text, 1, n - 1), c)
    BY Zenon DEF Beginnings
  <1>6. QED
    BY Zenon, <1>1, <1>3, <1>5

LEMMA ReaderType == \A req : Reader(req) \in {"parse", "form", "route"}
  BY DEF Reader

LEMMA ReceiveType ==
    ASSUME TypeOK, NEW w \in Workers, Receive(w)
    PROVE  TypeOK'
  <1> DEFINE j == job[w]
             n(t) == [j EXCEPT !.step = Reader(j.req), !.text = t]
  <1>1. PICK t \in Beginnings(j.req.body) : Put(w, n(t))
    BY DEF Receive
  <1>2. JobOK(j) /\ Quiet
    BY DEF TypeOK, Receive
  <1>3. j.req.body \in Seq(STRING)
    BY <1>2 DEF JobOK, Request
  <1>4. t \in Seq(STRING)
    BY <1>1, <1>3, BeginningsType
  <1>5. JobOK(n(t))
    BY <1>2, <1>4, ReaderType DEF JobOK, ParserOK, Steps, FileSteps
  <1> HIDE DEF n
  <1>6. QED
    BY <1>1, <1>2, <1>5, QuietType

LEMMA ReadFormType ==
    ASSUME TypeOK, NEW w \in Workers, ReadForm(w)
    PROVE  TypeOK'
  <1> DEFINE j == job[w]
             n(v) == [j EXCEPT !.step = "route", !.parser.out = v]
  <1>1. JobOK(j) /\ initialized' \in BOOLEAN /\ table' \subseteq Bytes
    BY DEF TypeOK, ReadForm
  <1>2. CASE \E v : Put(w, n(v)) /\ UNCHANGED up
    <2>1. PICK v : Put(w, n(v)) /\ UNCHANGED up
      BY <1>2
    <2>2. n(v).parser = [j.parser EXCEPT !.out = v]
      BY <1>1 DEF JobOK
    <2>a. n(v).text = j.text /\ n(v).value = j.value
      BY <1>1 DEF JobOK
    <2>b. /\ DOMAIN n(v).parser = DOMAIN j.parser
          /\ "index" \in DOMAIN j.parser => n(v).parser.index = j.parser.index
      BY <2>2
    <2>c. ParserOK(j) /\ "index" \in DOMAIN Begin
      BY <1>1 DEF JobOK, Begin
    <2>3. ParserOK(n(v))
      <3> HIDE DEF n
      <3>1. QED
        BY <2>a, <2>b, <2>c DEF ParserOK
    <2>4. JobOK(n(v))
      BY <1>1, <2>3 DEF JobOK, Steps, FileSteps
    <2> HIDE DEF n
    <2>5. QED
      BY <1>1, <2>1, <2>4, PutType DEF TypeOK
  <1>3. CASE up' = FALSE /\ Put(w, j)
    BY <1>1, <1>3, PutType
  <1>4. QED
    BY <1>2, <1>3 DEF ReadForm

LEMMA ParseType ==
    ASSUME TypeOK, NEW w \in Workers, Parse(w)
    PROVE  TypeOK'
  <1> DEFINE j == job[w]
             p == Step(j.text, j.parser)
             next == IF At(w, "parse") THEN "route" ELSE "end"
  <1>1. JobOK(j)
    BY DEF TypeOK
  <1>2. Put(w, Parsed(p, j, next)) /\ up' \in BOOLEAN
        /\ UNCHANGED <<initialized, table>>
    BY DEF Parse
  <1>3. DOMAIN p = DOMAIN Begin
    <2> SUFFICES ASSUME DOMAIN j.parser = DOMAIN Begin PROVE DOMAIN p = DOMAIN Begin
      BY <1>1 DEF JobOK, ParserOK
    <2>1. QED
      BY StepDomain
  <1>4. j.value = [lex |-> "undefined"] => p.index \in Nat \ {0}
    <2> SUFFICES ASSUME j.value = [lex |-> "undefined"] PROVE p.index \in Nat \ {0}
      OBVIOUS
    <2>1. j.text \in Seq(STRING) /\ CanTurn(j.parser)
      BY <1>1 DEF JobOK, ParserOK, CanTurn, Parse
    <2>2. QED
      BY <2>1, StepAdvances DEF Advances
  <1>5. next \in {"route", "end"} /\ j.step \in {"parse", "reply"}
    BY DEF Parse, At
  <1> HIDE DEF p, next
  <1>6. JobOK(Parsed(p, j, next))
    BY <1>1, <1>3, <1>4, <1>5 DEF JobOK, ParserOK, Parsed, Steps, FileSteps
  <1> HIDE DEF j
  <1>7. QED
    BY <1>2, <1>6, PutType DEF TypeOK

LEMMA ExhaustType ==
    ASSUME TypeOK, NEW w \in Workers, Exhaust(w)
    PROVE  TypeOK'
  <1>1. JobOK(job[w]) /\ UNCHANGED <<initialized, table>>
    BY DEF TypeOK, Exhaust
  <1>2. JobOK([job[w] EXCEPT !.step = "raised"])
    BY <1>1 DEF JobOK, ParserOK, Steps, FileSteps
  <1>3. PICK j \in {[job[w] EXCEPT !.step = "raised"], job[w]} : Put(w, j)
    BY DEF Exhaust
  <1>4. up' \in BOOLEAN
    BY DEF Exhaust
  <1>5. JobOK(j)
    BY <1>1, <1>2, <1>3
  <1>6. QED
    BY <1>1, <1>3, <1>4, <1>5, PutType DEF TypeOK

LEMMA RouteType ==
    ASSUME TypeOK, NEW w \in Workers, Route(w)
    PROVE  TypeOK'
  <1> DEFINE j == job[w]
             r == HandleRequest(j.route)
             next == CASE r.answer = "none" -> "route"
                       [] r.answer \in {"raised", "terminated"} -> "raised"
                       [] r.answer = "file" -> "stat"
                       [] r.answer = "sendFiles" -> "add"
                       [] r.answer \in NoHandler -> "end"
                       [] OTHER -> "handler"
  <1>1. /\ JobOK(j) /\ up' \in BOOLEAN
        /\ initialized' \in BOOLEAN /\ table' \subseteq Bytes
    BY DEF TypeOK, Route
  <1>2. RouteOK(r)
    BY <1>1, HandleRequestType DEF JobOK, RouteOK
  <1>3. Put(w, [j EXCEPT !.route = r, !.step = next])
    BY DEF Route
  <1>4. /\ next \in {"route", "raised", "stat", "add", "end", "handler"}
        /\ next = "stat" => r.answer = "file"
    BY DEF NoHandler
  <1> HIDE DEF r, next
  <1>5. JobOK([j EXCEPT !.route = r, !.step = next])
    BY <1>1, <1>2, <1>4 DEF JobOK, ParserOK, RouteOK, Steps, FileSteps
  <1>6. QED
    BY <1>1, <1>3, <1>5, PutType

LEMMA AdminMiddlewareRaisesType ==
    ASSUME TypeOK, NEW w \in Workers, AdminMiddlewareRaises(w)
    PROVE  TypeOK'
  <1> DEFINE j == job[w]
             n == [j EXCEPT !.step = "raised", !.route.answer = "raised"]
  <1>1. JobOK(j) /\ Quiet /\ Put(w, n)
    BY DEF TypeOK, AdminMiddlewareRaises
  <1>2. n.route = [j.route EXCEPT !.answer = "raised"] /\ n.route \in Routing
    BY <1>1 DEF JobOK, Routing, Unhandled
  <1>3. JobOK(n)
    BY <1>1, <1>2 DEF JobOK, ParserOK, Routing, Steps, FileSteps
  <1> HIDE DEF n
  <1>4. QED
    BY <1>1, <1>3, QuietType

LEMMA HandleType ==
    ASSUME TypeOK, NEW w \in Workers, Handle(w)
    PROVE  TypeOK'
  <1> DEFINE j == job[w]
             list == Listing(Forms[j.route.answer], j.parser.out)
             ended == [j EXCEPT !.step = "end"]
             listed == [j EXCEPT !.step = "reply", !.value = list,
                                 !.text = Dumps(list), !.parser = Begin]
  <1>1. JobOK(j) /\ Quiet
    BY DEF TypeOK, Handle
  <1>2. Put(w, ended) \/ Put(w, listed)
    BY DEF Handle
  <1>3. JobOK(ended)
    BY <1>1 DEF JobOK, ParserOK, Steps, FileSteps
  <1>4. JobOK(listed)
    <2>1. list # [lex |-> "undefined"]
      <3>1. DOMAIN list = {"obj"}
        BY DEF Listing, Map
      <3>2. "obj" \notin DOMAIN [lex |-> "undefined"]
        OBVIOUS
      <3> HIDE DEF list
      <3>3. QED
        BY <3>1, <3>2
    <2> HIDE DEF list
    <2>2. QED
      BY <1>1, <2>1 DEF JobOK, ParserOK, Steps, FileSteps
  <1> HIDE DEF ended, listed
  <1>5. QED
    BY <1>1, <1>2, <1>3, <1>4, QuietType

LEMMA ChecksumType ==
    ASSUME TypeOK, NEW w \in Workers,
           CheckInitialized(w) \/ SetInitialized(w) \/ Fill(w) \/ Sum(w)
    PROVE  TypeOK'
  <1> DEFINE j == job[w]
  <1>0. JobOK(j) /\ up \in BOOLEAN /\ initialized \in BOOLEAN /\ table \subseteq Bytes
    BY DEF TypeOK
  <1>1. CASE CheckInitialized(w)
    <2> DEFINE next == CASE initialized -> "sum"
                         [] At(w, "compute") /\ ~ initialized -> "init"
                         [] OTHER -> "set"
               early == initialized /\ table # Bytes
    <2>1. Quiet /\ Put(w, [j EXCEPT !.step = next, !.early = early])
      BY <1>1 DEF CheckInitialized
    <2>2. next \in {"sum", "init", "set"} /\ early \in BOOLEAN
      BY <1>0
    <2>3. j.step \in FileSteps /\ j.step # "content"
      BY <1>1 DEF CheckInitialized, At, FileSteps
    <2> HIDE DEF next, early
    <2>4. JobOK([j EXCEPT !.step = next, !.early = early])
      BY <1>0, <2>2, <2>3 DEF JobOK, ParserOK, Steps, FileSteps
    <2>5. QED
      BY <2>1, <2>4, QuietType
  <1>2. CASE SetInitialized(w)
    <2>0. 0 \in Bytes
      BY BytesType
    <2>1. JobOK([j EXCEPT !.step = "fill", !.pos = 0])
      BY <1>0, <1>2, <2>0 DEF SetInitialized, At, JobOK, ParserOK, Steps, FileSteps
    <2>2. QED
      BY <1>0, <1>2, <2>1, PutType DEF SetInitialized
  <1>3. CASE Fill(w)
    <2> DEFINE next == IF j.pos + 1 \in Bytes THEN "fill" ELSE "sum"
    <2>1. Put(w, [j EXCEPT !.pos = j.pos + 1, !.step = next])
      BY <1>3 DEF Fill
    <2>2. JobOK([j EXCEPT !.pos = j.pos + 1, !.step = next])
      <3>1. j.step = "fill"
        BY <1>3 DEF Fill, At
      <3>2. CASE j.pos + 1 \in Bytes
        BY <1>0, <3>1, <3>2 DEF JobOK, ParserOK, Steps, FileSteps
      <3>3. CASE j.pos + 1 \notin Bytes
        BY <1>0, <3>1, <3>3 DEF JobOK, ParserOK, Steps, FileSteps
      <3>4. QED
        BY <3>2, <3>3
    <2>3. table' \subseteq Bytes
      BY <1>0, <1>3 DEF Fill, At, JobOK
    <2>4. QED
      BY <1>0, <1>3, <2>1, <2>2, <2>3, PutType DEF Fill
  <1>4. CASE Sum(w)
    <2> DEFINE bytes == Contents[j.route.file]
               n == Len(j.etag) + 1
               entry == IF bytes[n] \in table THEN bytes[n] ELSE Blank
    <2>1. Put(w, IF n > Len(bytes) THEN [j EXCEPT !.step = "head"]
                 ELSE [j EXCEPT !.etag = Append(j.etag, entry)]) /\ Quiet
      BY <1>4 DEF Sum
    <2>2. JobOK([j EXCEPT !.step = "head"])
      BY <1>0, <1>4 DEF Sum, At, JobOK, ParserOK, Steps, FileSteps
    <2>3. entry \in Int
      <3>1. Blank \in Int
        BY DEF Blank
      <3>2. \A b \in table : b \in Int
        BY <1>0, BytesType
      <3> HIDE DEF bytes, n
      <3>3. QED
        BY <3>1, <3>2
    <2> HIDE DEF entry, n, bytes
    <2>4. JobOK([j EXCEPT !.etag = Append(j.etag, entry)])
      <3>1. Append(j.etag, entry) \in Seq(Int)
        BY <1>0, <2>3 DEF JobOK
      <3>2. QED
        BY <1>0, <3>1 DEF JobOK, ParserOK
    <2>5. QED
      BY <2>1, <2>2, <2>4, QuietType
  <1>5. QED
    BY <1>1, <1>2, <1>3, <1>4

LEMMA MinOfTwo ==
    ASSUME NEW a \in Int, NEW b \in Int
    PROVE  Min({a, b}) = IF a <= b THEN a ELSE b
  <1>1. \E x \in {a, b} : \A y \in {a, b} : x <= y
    OBVIOUS
  <1>2. Min({a, b}) \in {a, b} /\ \A y \in {a, b} : Min({a, b}) <= y
    BY <1>1 DEF Min
  <1>3. QED
    BY <1>2

LEMMA SentSizeType ==
    ASSUME NEW sent \in Seq(Sent)
    PROVE  SentSize(sent) \in Nat
  <1>1. sent # <<>> => Last(sent) \in Sent
    BY DEF Last
  <1>2. QED
    BY <1>1 DEF SentSize, Sent

LEMMA SendType ==
    ASSUME NEW j, JobOK(j), NEW kind \in {"header", "data", "footer", "last"},
           NEW size \in Nat
    PROVE  JobOK(Send(j, kind, size))
  <1> DEFINE piece == [kind |-> kind, size |-> size, from |-> SentSize(j.sent)]
  <1>1. piece \in Sent
    BY SentSizeType DEF JobOK, Sent
  <1>2. Send(j, kind, size) = [j EXCEPT !.sent = Append(j.sent, piece)]
    BY DEF Send
  <1> HIDE DEF piece
  <1>3. Append(j.sent, piece) \in Seq(Sent)
    BY <1>1 DEF JobOK
  <1>4. QED
    BY <1>2, <1>3 DEF JobOK, ParserOK

LEMMA SizeType == \A file \in DOMAIN Contents : Size(file) \in Nat
  BY FilesType DEF Size

LEMMA SliceType ==
    ASSUME NEW req \in Request, NEW size \in Nat
    PROVE  Slice(req, size).start \in Nat /\ Slice(req, size).end \in Int
  <1>1. req.range \in [first : Nat \cup {None}, last : Nat \cup {None}]
    BY DEF Request
  <1>2. None = -1
    BY DEF None
  <1>3. CASE req.range.first = None
    <2>1. Slice(req, size) = [start |-> 0, end |-> size - 1]
      BY <1>3 DEF Slice, GetRange
    <2>2. QED
      BY <2>1
  <1>4. CASE req.range.first # None
    <2>1. /\ Slice(req, size).start = req.range.first
          /\ Slice(req, size).end \in {size - 1, req.range.last}
      BY <1>4 DEF Slice, GetRange
    <2>2. QED
      BY <1>1, <1>2, <1>4, <2>1
  <1>5. QED
    BY <1>3, <1>4

\* n bytes of the size left from pos: what SendBytes writes.
LEMMA PieceType ==
    ASSUME NEW left \in Int, left > 0
    PROVE  LET n == Min({left, Chunk}) IN n \in 1 .. left
  <1>1. Chunk \in Nat \ {0}
    BY WireAssumption
  <1>2. QED
    BY <1>1, MinOfTwo

LEMMA SendBytesType ==
    ASSUME TypeOK, NEW w \in Workers, NEW file \in DOMAIN Contents,
           NEW next, JobOK(next), job[w].step # "fill",
           SendBytes(w, file, next), Quiet
    PROVE  TypeOK'
  <1> DEFINE j == job[w]
             left == Size(file) - j.pos
             n == Min({left, Chunk})
             more == [Send(j, "data", n) EXCEPT !.pos = j.pos + n]
  <1>1. JobOK(j) /\ j.pos \in Nat /\ left \in Int
    BY SizeType DEF TypeOK, JobOK
  <1>2. Put(w, next) \/ (left > 0 /\ Write(w, more))
    <2>1. Send(j, "data", n).pos = j.pos
      BY <1>1 DEF Send, JobOK
    <2>2. CASE left <= 0
      BY <2>2 DEF SendBytes
    <2>3. CASE ~ (left <= 0)
      <3>1. Write(w, [Send(j, "data", n) EXCEPT !.pos = Send(j, "data", n).pos + n])
        BY <2>3 DEF SendBytes
      <3>2. left > 0
        BY <1>1, <2>3
      <3>3. QED
        BY <2>1, <3>1, <3>2
    <2>4. QED
      BY <2>2, <2>3
  <1>3. ASSUME left > 0 PROVE JobOK(more)
    <2>1. n \in Nat
      BY <1>1, <1>3, PieceType
    <2> HIDE DEF n
    <2>2. JobOK(Send(j, "data", n))
      BY <1>1, <2>1, SendType
    <2>3. Send(j, "data", n).step # "fill"
      BY <1>1 DEF Send, JobOK
    <2>4. j.pos + n \in Nat
      BY <1>1, <2>1
    <2>5. QED
      BY <2>2, <2>3, <2>4 DEF JobOK, ParserOK
  <1> HIDE DEF more, left
  <1>4. QED
    BY <1>2, <1>3, QuietType, WriteType

LEMMA SendFileType ==
    ASSUME TypeOK, NEW w \in Workers, SendFile(w)
    PROVE  TypeOK'
  <1> DEFINE j == job[w]
  <1>0. JobOK(j)
    BY DEF TypeOK
  <1>1. CASE Stat(w)
    <2>1. PICK next \in {"end", "compute"} : Put(w, [j EXCEPT !.step = next])
      BY <1>1 DEF Stat
    <2>2. JobOK([j EXCEPT !.step = next])
      BY <1>0, <1>1, <2>1 DEF Stat, At, JobOK, ParserOK, Steps, FileSteps
    <2>3. QED
      BY <1>1, <2>1, <2>2, QuietType DEF Stat
  <1>2. CASE SendHeaders(w)
    <2> DEFINE s == Slice(j.req, Size(j.route.file))
               next == [j EXCEPT !.step = "body", !.pos = s.start,
                                 !.announced = {s.end - s.start + 1}]
    <2>1. Write(w, next) /\ Quiet /\ j.step = "head"
      BY <1>2 DEF SendHeaders, At
    <2>2. s.start \in Nat /\ s.end \in Int
      <3>1. Size(j.route.file) \in Nat /\ j.req \in Request
        BY <1>0, <2>1, SizeType DEF JobOK, FileSteps
      <3>2. QED
        BY <3>1, SliceType
    <2> HIDE DEF s
    <2>3. {s.end - s.start + 1} \subseteq Int
      BY <2>2
    <2>4. JobOK(next)
      BY <1>0, <2>1, <2>2, <2>3 DEF JobOK, ParserOK, Steps, FileSteps
    <2> HIDE DEF next
    <2>5. QED
      BY <2>1, <2>4, WriteType
  <1>3. CASE SendBody(w)
    <2>1. j.route.file \in DOMAIN Contents /\ j.step = "body"
      BY <1>0, <1>3 DEF SendBody, At, JobOK, FileSteps
    <2>2. JobOK([j EXCEPT !.step = "end"])
      BY <1>0 DEF JobOK, ParserOK, Steps, FileSteps
    <2>3. QED
      BY <1>3, <2>1, <2>2, SendBytesType DEF SendBody
  <1>4. QED
    BY <1>1, <1>2, <1>3, ChecksumType DEF SendFile

LEMMA AddPathType ==
    ASSUME TypeOK, NEW w \in Workers, AddPath(w)
    PROVE  TypeOK'
  <1> DEFINE j == job[w]
  <1>1. JobOK(j) /\ Quiet
    BY DEF TypeOK, AddPath
  <1>2. PICK p \in j.toAdd :
           \/ Put(w, [j EXCEPT !.toAdd = j.toAdd \ {p},
                               !.zip.paths = Add(j.zip.paths, p)])
           \/ Put(w, [j EXCEPT !.step = "raised"])
    BY <1>1 DEF AddPath, JobOK, ZipOK
  <1> DEFINE zip == [j.zip EXCEPT !.paths = Add(j.zip.paths, p)]
             added == [j EXCEPT !.toAdd = j.toAdd \ {p}, !.zip = zip]
  <1>3. p \in Seq(STRING) \ {<<>>}
    BY <1>1 DEF JobOK, Request
  <1>4. ZipOK(zip)
    <2>1. PathsOK(Add(j.zip.paths, p))
      BY <1>1, <1>3, AddType DEF JobOK, ZipOK
    <2>2. DOMAIN j.zip.paths \subseteq DOMAIN Add(j.zip.paths, p)
      BY DEF Add
    <2>3. j.zip.todo \in Seq(DOMAIN Add(j.zip.paths, p))
      BY <1>1, <2>2 DEF JobOK, ZipOK
    <2>4. QED
      BY <1>1, <2>1, <2>3 DEF JobOK, ZipOK
  <1>5. JobOK([j EXCEPT !.step = "raised"])
    BY <1>1 DEF JobOK, ParserOK, Steps, FileSteps
  <1>6. JobOK(added)
    <2>1. zip.todo = j.zip.todo
      BY <1>1 DEF JobOK, ZipOK
    <2> HIDE DEF zip
    <2>2. QED
      BY <1>1, <1>4, <2>1 DEF JobOK, ParserOK
  <1>7. [j EXCEPT !.toAdd = j.toAdd \ {p}, !.zip.paths = Add(j.zip.paths, p)] = added
    BY <1>1 DEF JobOK
  <1> HIDE DEF added
  <1>8. QED
    BY <1>1, <1>2, <1>5, <1>6, <1>7, QuietType

LEMMA SendFilesType ==
    ASSUME TypeOK, NEW w \in Workers, SendFiles(w)
    PROVE  TypeOK'
  <1> DEFINE j == job[w]
  <1>0. JobOK(j) /\ ZipOK(j.zip)
    BY DEF TypeOK, JobOK
  <1>1. CASE StartZip(w)
    <2> DEFINE zip == Started(j.zip.paths)
    <2>1. Put(w, [j EXCEPT !.step = "zip", !.zip = zip]) /\ Quiet
      BY <1>0, <1>1 DEF StartZip, JobOK
    <2>2. ZipOK(zip)
      BY <1>0, StartedType DEF ZipOK
    <2> HIDE DEF zip
    <2>3. JobOK([j EXCEPT !.step = "zip", !.zip = zip])
      BY <1>0, <2>2 DEF JobOK, ParserOK, Steps, FileSteps
    <2>4. QED
      BY <2>1, <2>3, QuietType
  <1>2. CASE SendEntry(w)
    <2> DEFINE sent == Send(j, "header", HeaderSize(j.zip))
               zip == GetHeader(j.zip)
               next == [sent EXCEPT !.step = "content", !.pos = 0, !.zip = zip]
    <2>1. Write(w, next) /\ Quiet /\ j.zip.todo # <<>>
      BY <1>2 DEF SendEntry, IsFinished
    <2>2. JobOK(sent)
      BY <1>0, <2>1, EntryType, SendType
    <2>3. ZipOK(zip) /\ zip.todo # <<>>
      BY <1>0, <2>1, GetHeaderType
    <2> HIDE DEF sent, zip
    <2>4. JobOK(next)
      BY <2>2, <2>3 DEF JobOK, ParserOK, Steps, FileSteps
    <2> HIDE DEF next
    <2>5. QED
      BY <2>1, <2>4, WriteType
  <1>3. CASE SendContent(w)
    <2> DEFINE zip == NextFile(j.zip)
               next == [j EXCEPT !.step = "zip", !.zip = zip]
    <2>1. j.step = "content" /\ j.zip.todo # <<>> /\ Quiet
      BY <1>0, <1>3 DEF SendContent, At, JobOK
    <2>2. SendBytes(w, CurrentFile(j.zip), next)
      BY <1>0, <1>3 DEF SendContent, JobOK
    <2>3. ZipOK(zip)
      <3>1. Tail(j.zip.todo) \in Seq(DOMAIN j.zip.paths)
        BY <1>0, <2>1, TailType DEF ZipOK
      <3>2. zip = [j.zip EXCEPT !.todo = Tail(j.zip.todo)]
        BY DEF NextFile
      <3>3. QED
        BY <1>0, <3>1, <3>2 DEF ZipOK
    <2> HIDE DEF zip
    <2>4. JobOK(next)
      BY <1>0, <2>3 DEF JobOK, ParserOK, Steps, FileSteps
    <2> HIDE DEF next
    <2>5. CurrentFile(j.zip) \in DOMAIN Contents
      BY <1>0, <2>1, EntryType
    <2>6. QED
      BY <2>1, <2>2, <2>4, <2>5, SendBytesType
  <1>4. CASE SendFooter(w)
    <2> DEFINE sent == Send(j, "footer", FooterSize(j.zip))
    <2>1. Write(w, [sent EXCEPT !.step = "last"]) /\ Quiet
      BY <1>4 DEF SendFooter
    <2>2. JobOK(sent)
      BY <1>0, FooterSizeType, SendType
    <2> HIDE DEF sent
    <2>3. JobOK([sent EXCEPT !.step = "last"])
      BY <2>2 DEF JobOK, ParserOK, Steps, FileSteps
    <2>4. QED
      BY <2>1, <2>3, WriteType
  <1>5. CASE SendLast(w)
    <2> DEFINE sent == Send(j, "last", 0)
    <2>1. Write(w, [sent EXCEPT !.step = "end"]) /\ Quiet
      BY <1>5 DEF SendLast
    <2>2. JobOK(sent)
      BY <1>0, SendType
    <2> HIDE DEF sent
    <2>3. JobOK([sent EXCEPT !.step = "end"])
      BY <2>2 DEF JobOK, ParserOK, Steps, FileSteps
    <2>4. QED
      BY <2>1, <2>3, WriteType
  <1>6. QED
    BY <1>1, <1>2, <1>3, <1>4, <1>5, AddPathType DEF SendFiles

LEMMA FreshType ==
    ASSUME NEW req \in Request
    PROVE  JobOK(Fresh(req))
  <1> DEFINE j == Fresh(req)
  <1>1. Normal(req.path) \in Seq(STRING)
    <2>1. req.path \in Seq(STRING)
      BY DEF Request
    <2>2. req.path # <<>> => Front(req.path) \in Seq(STRING)
      BY <2>1 DEF Front
    <2>3. QED
      BY <2>1, <2>2 DEF Normal
  <1>2. Depart(req) \in Routing /\ Depart(req).answer = "none"
    BY <1>1 DEF Depart, Routing, Routers, Unhandled, Request
  <1>3. ZipOK(Started(NoPaths))
    BY NoPathsType
  <1>4. ParserOK(j)
    BY DEF ParserOK, Fresh, Begin
  <1>5. j.req = req /\ j.route = Depart(req) /\ j.zip = Started(NoPaths)
        /\ j.toAdd = req.paths /\ j.step \in {"end", "receive"}
    BY DEF Fresh
  <1>6. QED
    BY <1>2, <1>3, <1>4, <1>5 DEF JobOK, Fresh, Steps, FileSteps

LEMMA TypeStep ==
    ASSUME TypeOK, [Next]_vars
    PROVE  TypeOK'
  <1>1. ASSUME NEW w \in Workers, Serve(w) PROVE TypeOK'
    BY <1>1, ReceiveType, ReadFormType, ParseType, ExhaustType, RouteType,
       AdminMiddlewareRaisesType, HandleType, SendFileType, SendFilesType DEF Serve
  <1>2. CASE UNCHANGED vars
    BY <1>2 DEF vars, TypeOK
  <1>3. QED
    BY <1>1, <1>2 DEF Next

LEMMA TypeInit == Init => TypeOK
  <1> SUFFICES ASSUME Init PROVE TypeOK
    OBVIOUS
  <1>1. PICK load \in Workloads : job = [w \in Workers |-> Fresh(load[w])]
    BY DEF Init
  <1>2. \A w \in Workers : JobOK(job[w])
    BY <1>1, FreshType, WireAssumption
  <1>3. QED
    BY <1>1, <1>2 DEF Init, TypeOK

\* Every variable keeps its shape; what is sent is a file that exists, and an
\* archive is written from names that were added.
THEOREM TypeCorrect == Spec => []TypeOK
  <1>1. QED
    BY TypeInit, TypeStep, PTL DEF Spec

-----------------------------------------------------------------------------
(* Checksums.                                                              *)

BeforeSum == {"receive", "parse", "form", "route", "stat", "compute", "init", "set", "fill"}
Summed == {"sum", "head", "body"}

\* A worker that fills the table has filled it up to pos; one that has seen it
\* full sums up the file, entry by entry.
EtagJob(j, entries) ==
    /\ j.step \in BeforeSum => j.etag = <<>>
    /\ j.step = "fill" => 0 .. j.pos - 1 \subseteq entries
    /\ j.step \in Summed /\ ~ j.early =>
         /\ entries = Bytes
         /\ Len(j.etag) <= Size(j.route.file)
         /\ \A i \in 1 .. Len(j.etag) : j.etag[i] = Contents[j.route.file][i]
         /\ j.step # "sum" => Len(j.etag) = Size(j.route.file)

EtagInv == \A w \in Workers : EtagJob(job[w], table)

LEMMA EtagPut ==
    ASSUME TypeOK, EtagInv, NEW w \in Workers, NEW j, Put(w, j),
           EtagJob(j, table'), table \subseteq table', table' \subseteq Bytes
    PROVE  EtagInv'
  <1> SUFFICES ASSUME NEW v \in Workers PROVE EtagJob(job'[v], table')
    BY DEF EtagInv
  <1>1. CASE v = w
    BY <1>1 DEF TypeOK, Put
  <1>2. CASE v # w
    <2>1. job'[v] = job[v] /\ EtagJob(job[v], table)
      BY <1>2 DEF TypeOK, Put, EtagInv
    <2>2. table = Bytes => table' = Bytes
      OBVIOUS
    <2>3. QED
      BY <2>1, <2>2 DEF EtagJob
  <1>3. QED
    BY <1>1, <1>2

\* A job that is not at the checksum, or that stays as far as it was.
LEMMA EtagQuiet ==
    ASSUME TypeOK, EtagInv, NEW w \in Workers, NEW j, Put(w, j), table' = table,
           \/ j.step \notin BeforeSum \cup Summed
           \/ /\ j.etag = job[w].etag
              /\ \/ job[w].step \in BeforeSum /\ j.step \in BeforeSum \ {"fill"}
                 \/ /\ job[w].step \in {"head", "body"} /\ j.step \in {"head", "body"}
                    /\ j.early = job[w].early /\ j.route = job[w].route
    PROVE  EtagInv'
  <1>1. EtagJob(job[w], table)
    BY DEF EtagInv
  <1>2. table' \subseteq Bytes
    BY DEF TypeOK
  <1>3. EtagJob(j, table')
    BY <1>1 DEF EtagJob, BeforeSum, Summed
  <1>4. QED
    BY <1>2, <1>3, EtagPut

LEMMA EtagWrite ==
    ASSUME TypeOK, EtagInv, NEW w \in Workers, NEW j, Write(w, j), table' = table,
           \/ j.step \notin BeforeSum \cup Summed
           \/ /\ job[w].step \in {"head", "body"} /\ j.step \in {"head", "body"}
              /\ j.etag = job[w].etag
              /\ j.early = job[w].early /\ j.route = job[w].route
    PROVE  EtagInv'
  <1>1. CASE Put(w, j)
    BY <1>1, EtagQuiet
  <1>2. CASE Put(w, [job[w] EXCEPT !.step = "end", !.failed = TRUE])
    <2>1. [job[w] EXCEPT !.step = "end", !.failed = TRUE].step = "end"
      BY DEF TypeOK, JobOK
    <2>2. QED
      BY <1>2, <2>1, EtagQuiet DEF BeforeSum, Summed
  <1>3. QED
    BY <1>1, <1>2 DEF Write

LEMMA EtagBefore ==
    ASSUME TypeOK, EtagInv, NEW w \in Workers,
           \/ Receive(w) \/ Parse(w) \/ Exhaust(w) \/ ReadForm(w) \/ Route(w)
           \/ AdminMiddlewareRaises(w) \/ Handle(w) \/ Stat(w)
    PROVE  EtagInv'
  <1> DEFINE j == job[w]
  <1>0. JobOK(j)
    BY DEF TypeOK
  <1> USE DEF BeforeSum, Summed
  <1>1. ASSUME NEW k, Put(w, k), table' = table, k.etag = j.etag,
               j.step \in BeforeSum,
               k.step \in {"parse", "form", "route", "raised", "end", "stat", "add",
                          "handler", "compute"}
        PROVE  EtagInv'
    BY <1>1, EtagQuiet
  <1>2. CASE Receive(w)
    <2>1. PICK text : Put(w, [j EXCEPT !.step = Reader(j.req), !.text = text])
      BY <1>2 DEF Receive
    <2>2. j.step = "receive" /\ table' = table
      BY <1>2 DEF Receive, At, Quiet
    <2>3. QED
      BY <1>0, <1>1, <2>1, <2>2, ReaderType DEF JobOK
  <1>3. CASE Parse(w)
    <2> DEFINE p == Step(j.text, j.parser)
               next == IF At(w, "parse") THEN "route" ELSE "end"
    <2>1. Put(w, Parsed(p, j, next)) /\ table' = table
      BY <1>3 DEF Parse
    <2>2. \/ j.step = "parse" /\ next = "route"
          \/ j.step = "reply" /\ next = "end"
      BY <1>3 DEF Parse, At
    <2> HIDE DEF p, next
    <2>3. /\ Parsed(p, j, next).etag = j.etag
          /\ Parsed(p, j, next).step \in {next, "raised", j.step}
      BY <1>0 DEF Parsed, JobOK
    <2> DEFINE k == Parsed(p, j, next)
    <2> HIDE DEF k
    <2>4. CASE j.step = "parse"
      BY <1>1, <2>1, <2>2, <2>3, <2>4 DEF k
    <2>5. CASE j.step = "reply"
      BY <2>1, <2>2, <2>3, <2>5, EtagQuiet DEF k
    <2>6. QED
      BY <2>2, <2>4, <2>5
  <1>4. CASE Exhaust(w)
    <2>1. PICK k \in {[j EXCEPT !.step = "raised"], j} : Put(w, k)
      BY <1>4 DEF Exhaust
    <2>2. k.etag = j.etag /\ k.step \in {"raised", "parse"} /\ table' = table
          /\ j.step = "parse"
      BY <1>0, <1>4, <2>1 DEF Exhaust, JobOK, At
    <2>3. QED
      BY <1>1, <2>1, <2>2
  <1>5. CASE Route(w)
    <2> DEFINE r == HandleRequest(j.route)
               next == CASE r.answer = "none" -> "route"
                         [] r.answer \in {"raised", "terminated"} -> "raised"
                         [] r.answer = "file" -> "stat"
                         [] r.answer = "sendFiles" -> "add"
                         [] r.answer \in NoHandler -> "end"
                         [] OTHER -> "handler"
               k == [j EXCEPT !.route = r, !.step = next]
    <2>1. Put(w, k) /\ j.step = "route" /\ table' = table
      BY <1>5 DEF Route, At
    <2>2. next \in {"route", "raised", "stat", "add", "end", "handler"}
      BY DEF NoHandler
    <2> HIDE DEF r, next
    <2>3. k.etag = j.etag /\ k.step = next
      BY <1>0 DEF JobOK
    <2> HIDE DEF k
    <2>4. QED
      BY <1>1, <2>1, <2>2, <2>3
  <1>6. CASE Handle(w)
    <2> DEFINE list == Listing(Forms[j.route.answer], j.parser.out)
               ended == [j EXCEPT !.step = "end"]
               listed == [j EXCEPT !.step = "reply", !.value = list,
                                   !.text = Dumps(list), !.parser = Begin]
    <2>1. (Put(w, ended) \/ Put(w, listed)) /\ table' = table
      BY <1>6 DEF Handle, Quiet
    <2>2. ended.step = "end" /\ listed.step = "reply"
      BY <1>0 DEF JobOK
    <2> HIDE DEF ended, listed
    <2>3. QED
      BY <2>1, <2>2, EtagQuiet
  <1>7. CASE Stat(w)
    <2>1. PICK next \in {"end", "compute"} : Put(w, [j EXCEPT !.step = next])
      BY <1>7 DEF Stat
    <2>2. j.step = "stat" /\ table' = table
      BY <1>7 DEF Stat, At, Quiet
    <2>3. QED
      BY <1>0, <1>1, <2>1, <2>2 DEF JobOK
  <1>8. CASE ReadForm(w)
    <2>1. CASE \E v : Put(w, [j EXCEPT !.step = "route", !.parser.out = v])
      BY <1>0, <1>1, <1>8, <2>1 DEF ReadForm, At, JobOK
    <2>2. CASE Put(w, j)
      <3>1. j.step = "form" /\ table' = table
        BY <1>8 DEF ReadForm, At
      <3>2. QED
        BY <1>1, <2>2, <3>1
    <2>3. QED
      BY <1>8, <2>1, <2>2 DEF ReadForm
  <1>9. CASE AdminMiddlewareRaises(w)
    <2> DEFINE k == [j EXCEPT !.step = "raised", !.route.answer = "raised"]
    <2>1. Put(w, k) /\ table' = table
      BY <1>9 DEF AdminMiddlewareRaises, Quiet
    <2>2. k.step = "raised"
      BY <1>0 DEF JobOK
    <2> HIDE DEF k
    <2>3. QED
      BY <2>1, <2>2, EtagQuiet
  <1>10. QED
    BY <1>2, <1>3, <1>4, <1>5, <1>6, <1>7, <1>8, <1>9

LEMMA EtagSum ==
    ASSUME TypeOK, EtagInv, NEW w \in Workers,
           CheckInitialized(w) \/ SetInitialized(w) \/ Fill(w) \/ Sum(w)
    PROVE  EtagInv'
  <1> DEFINE j == job[w]
  <1>0. JobOK(j) /\ EtagJob(j, table) /\ table \subseteq Bytes
    BY DEF TypeOK, EtagInv
  <1> USE DEF BeforeSum, Summed
  <1>1. CASE CheckInitialized(w)
    <2> DEFINE next == CASE initialized -> "sum"
                         [] At(w, "compute") /\ ~ initialized -> "init"
                         [] OTHER -> "set"
               early == initialized /\ table # Bytes
               k == [j EXCEPT !.step = next, !.early = early]
    <2>1. Put(w, k) /\ table' = table /\ j.step \in {"compute", "init"}
      BY <1>1 DEF CheckInitialized, Quiet, At
    <2>2. initialized \in BOOLEAN
      BY DEF TypeOK
    <2>3. /\ next \in {"sum", "init", "set"}
          /\ next = "sum" => initialized
      BY <2>2
    <2>4. j.etag = <<>>
      BY <1>0, <2>1 DEF EtagJob
    <2>5. k.step = next /\ k.early = early /\ k.etag = <<>> /\ k.route = j.route
      BY <1>0, <2>4 DEF JobOK
    <2>6. j.route.file \in DOMAIN Contents
      BY <1>0, <2>1 DEF JobOK, FileSteps
    <2>7. Size(k.route.file) \in Nat
      BY <2>5, <2>6, SizeType
    <2> HIDE DEF k, next
    <2>8. EtagJob(k, table')
      BY <2>1, <2>2, <2>3, <2>5, <2>7 DEF EtagJob
    <2>9. QED
      BY <1>0, <2>1, <2>8, EtagPut
  <1>2. CASE SetInitialized(w)
    <2> DEFINE k == [j EXCEPT !.step = "fill", !.pos = 0]
    <2>1. Put(w, k) /\ table' = table /\ j.step = "set"
      BY <1>2 DEF SetInitialized, At
    <2>2. k.step = "fill" /\ k.etag = <<>> /\ k.pos = 0
      BY <1>0, <2>1 DEF JobOK, EtagJob
    <2> HIDE DEF k
    <2>3. EtagJob(k, table')
      BY <2>2 DEF EtagJob
    <2>4. QED
      BY <1>0, <2>1, <2>3, EtagPut
  <1>3. CASE Fill(w)
    <2> DEFINE next == IF j.pos + 1 \in Bytes THEN "fill" ELSE "sum"
               k == [j EXCEPT !.pos = j.pos + 1, !.step = next]
    <2>1. Put(w, k) /\ table' = table \cup {j.pos} /\ j.step = "fill"
      BY <1>3 DEF Fill, At
    <2>2. k.step = next /\ k.etag = <<>> /\ k.pos = j.pos + 1 /\ k.route = j.route
      BY <1>0, <2>1 DEF JobOK, EtagJob
    <2>3. j.pos \in Bytes /\ j.pos \in Nat
      BY <1>0, <2>1 DEF JobOK
    <2>4. 0 .. j.pos \subseteq table'
      <3>1. 0 .. j.pos - 1 \subseteq table
        BY <1>0, <2>1 DEF EtagJob
      <3>2. \A i \in 0 .. j.pos : i \in 0 .. j.pos - 1 \/ i = j.pos
        BY <2>3
      <3>3. QED
        BY <2>1, <3>1, <3>2
    <2>5. next = "sum" => table' = Bytes
      <3> SUFFICES ASSUME j.pos + 1 \notin Bytes PROVE table' = Bytes
        OBVIOUS
      <3>1. PICK n \in Bytes : Bytes = 0 .. n
        BY WireAssumption
      <3>2. n \in Nat
        BY <3>1, BytesType
      <3>3. j.pos = n
        BY <2>3, <3>1, <3>2
      <3>4. QED
        BY <1>0, <2>1, <2>3, <2>4, <3>1, <3>3
    <2>6. Size(k.route.file) \in Nat
      BY <1>0, <2>1, <2>2, SizeType DEF JobOK, FileSteps
    <2>7. (j.pos + 1) - 1 = j.pos /\ next \in {"fill", "sum"}
      BY <2>3
    <2> HIDE DEF k, next
    <2>8. EtagJob(k, table')
      BY <2>2, <2>4, <2>5, <2>6, <2>7 DEF EtagJob
    <2>9. QED
      BY <1>0, <2>1, <2>3, <2>8, EtagPut
  <1>4. CASE Sum(w)
    <2> DEFINE bytes == Contents[j.route.file]
               n == Len(j.etag) + 1
               entry == IF bytes[n] \in table THEN bytes[n] ELSE Blank
               more == [j EXCEPT !.etag = Append(j.etag, entry)]
               done == [j EXCEPT !.step = "head"]
    <2>1. /\ n > Len(bytes) => Put(w, done)
          /\ ~ (n > Len(bytes)) => Put(w, more)
          /\ table' = table /\ j.step = "sum"
      BY <1>4 DEF Sum, At, Quiet
    <2>2. bytes \in Seq(Bytes) /\ Len(bytes) = Size(j.route.file)
          /\ j.etag \in Seq(Int)
      BY <1>0, <2>1, FilesType DEF JobOK, FileSteps, Size
    <2>3. CASE n > Len(bytes)
      <3>1. done.step = "head" /\ done.etag = j.etag /\ done.early = j.early
            /\ done.route = j.route
        BY <1>0 DEF JobOK
      <3>2. ~ j.early => /\ table = Bytes
                         /\ Len(j.etag) <= Size(j.route.file)
                         /\ \A i \in 1 .. Len(j.etag) : j.etag[i] = bytes[i]
        BY <1>0, <2>1 DEF EtagJob
      <3>3. ~ j.early => Len(j.etag) = Size(j.route.file)
        <4> SUFFICES ASSUME ~ j.early PROVE Len(j.etag) = Size(j.route.file)
          OBVIOUS
        <4>1. Len(j.etag) \in Nat /\ Len(bytes) \in Nat
          BY <2>2
        <4>2. QED
          BY <2>2, <2>3, <3>2, <4>1
      <3> HIDE DEF done
      <3>4. EtagJob(done, table')
        BY <2>1, <3>1, <3>2, <3>3 DEF EtagJob
      <3>5. QED
        BY <1>0, <2>1, <2>3, <3>4, EtagPut
    <2>4. CASE ~ (n > Len(bytes))
      <3>1. Len(j.etag) \in Nat /\ Len(bytes) \in Nat /\ n \in 1 .. Len(bytes)
        <4>1. Len(j.etag) \in Nat /\ Len(bytes) \in Nat
          BY <2>2
        <4>2. QED
          BY <2>4, <4>1
      <3>2. more.step = "sum" /\ more.etag = Append(j.etag, entry)
            /\ more.early = j.early /\ more.route = j.route
        BY <1>0, <2>1 DEF JobOK
      <3>3. ASSUME ~ j.early
            PROVE  /\ table = Bytes
                   /\ Len(Append(j.etag, entry)) <= Size(j.route.file)
                   /\ \A i \in 1 .. Len(Append(j.etag, entry)) :
                         Append(j.etag, entry)[i] = bytes[i]
        <4>1. /\ table = Bytes
              /\ \A i \in 1 .. Len(j.etag) : j.etag[i] = bytes[i]
          BY <1>0, <2>1, <3>3 DEF EtagJob
        <4>2. entry = bytes[n]
          BY <2>2, <3>1, <4>1
        <4> HIDE DEF entry
        <4>3. Len(Append(j.etag, entry)) = n
              /\ \A i \in 1 .. n : Append(j.etag, entry)[i] =
                                      IF i = n THEN entry ELSE j.etag[i]
          BY <2>2
        <4>4. \A i \in 1 .. n : i = n \/ i \in 1 .. Len(j.etag)
          BY <3>1
        <4> HIDE DEF n, bytes
        <4>5. QED
          BY <2>2, <3>1, <4>1, <4>2, <4>3, <4>4
      <3> HIDE DEF more, entry, n
      <3>4. EtagJob(more, table')
        BY <2>1, <3>2, <3>3 DEF EtagJob
      <3>5. QED
        BY <1>0, <2>1, <2>4, <3>4, EtagPut
    <2>5. QED
      BY <2>3, <2>4
  <1>5. QED
    BY <1>1, <1>2, <1>3, <1>4

LEMMA EtagAfter ==
    ASSUME TypeOK, EtagInv, NEW w \in Workers,
           SendHeaders(w) \/ SendBody(w) \/ SendFiles(w)
    PROVE  EtagInv'
  <1> DEFINE j == job[w]
  <1>0. JobOK(j)
    BY DEF TypeOK
  <1> USE DEF BeforeSum, Summed
  <1>1. CASE SendHeaders(w)
    <2>1. PICK pos, announced :
             Write(w, [j EXCEPT !.step = "body", !.pos = pos, !.announced = announced])
      BY <1>1 DEF SendHeaders
    <2> DEFINE k == [j EXCEPT !.step = "body", !.pos = pos, !.announced = announced]
    <2>2. j.step = "head" /\ table' = table
      BY <1>1 DEF SendHeaders, At, Quiet
    <2>3. k.step = "body" /\ k.etag = j.etag /\ k.early = j.early /\ k.route = j.route
      BY <1>0 DEF JobOK
    <2> HIDE DEF k
    <2>4. QED
      BY <2>1, <2>2, <2>3, EtagWrite DEF k
  <1>2. CASE SendBody(w)
    <2> DEFINE n == Min({Size(j.route.file) - j.pos, Chunk})
               sent == Send(j, "data", n)
               more == [sent EXCEPT !.pos = sent.pos + n]
               done == [j EXCEPT !.step = "end"]
    <2>1. j.step = "body" /\ table' = table
      BY <1>2 DEF SendBody, At, Quiet
    <2>2. Put(w, done) \/ Write(w, more)
      BY <1>2 DEF SendBody, SendBytes
    <2>3. done.step = "end"
      BY <1>0 DEF JobOK
    <2>4. more.step = "body" /\ more.etag = j.etag /\ more.early = j.early
          /\ more.route = j.route
      BY <1>0, <2>1 DEF JobOK, Send
    <2> HIDE DEF more, done
    <2>5. QED
      BY <2>1, <2>2, <2>3, <2>4, EtagWrite, EtagQuiet
  <1>3. ASSUME NEW k, Put(w, k) \/ Write(w, k), table' = table,
               k.step \in {"raised", "add", "zip", "content", "last", "end"}
        PROVE  EtagInv'
    BY <1>3, EtagQuiet, EtagWrite
  <1>4. CASE AddPath(w)
    <2>1. j.step = "add" /\ table' = table
      BY <1>4 DEF AddPath, At, Quiet
    <2>2. PICK p :
             \/ Put(w, [j EXCEPT !.toAdd = @ \ {p}, !.zip.paths = Add(@, p)])
             \/ Put(w, [j EXCEPT !.step = "raised"])
      BY <1>4 DEF AddPath
    <2>3. /\ [j EXCEPT !.toAdd = @ \ {p}, !.zip.paths = Add(@, p)].step = "add"
          /\ [j EXCEPT !.step = "raised"].step = "raised"
      BY <1>0, <2>1 DEF JobOK
    <2>4. QED
      BY <1>3, <2>1, <2>2, <2>3
  <1>5. CASE StartZip(w)
    <2> DEFINE k == [j EXCEPT !.step = "zip", !.zip = Started(@.paths)]
    <2>1. k.step = "zip"
      BY <1>0 DEF JobOK
    <2>2. Put(w, k) /\ table' = table
      BY <1>5 DEF StartZip, Quiet
    <2> HIDE DEF k
    <2>3. QED
      BY <1>3, <2>1, <2>2
  <1>6. CASE SendEntry(w)
    <2> DEFINE k == [Send(j, "header", HeaderSize(j.zip)) EXCEPT
                        !.step = "content", !.pos = 0, !.zip = GetHeader(j.zip)]
    <2>1. k.step = "content"
      BY <1>0 DEF JobOK, Send
    <2>2. Write(w, k) /\ table' = table
      BY <1>6 DEF SendEntry, Quiet
    <2> HIDE DEF k
    <2>3. QED
      BY <1>3, <2>1, <2>2
  <1>7. CASE SendContent(w)
    <2> DEFINE n == Min({Size(CurrentFile(j.zip)) - j.pos, Chunk})
               sent == Send(j, "data", n)
               more == [sent EXCEPT !.pos = sent.pos + n]
               done == [j EXCEPT !.step = "zip", !.zip = NextFile(j.zip)]
    <2>1. j.step = "content" /\ table' = table
      BY <1>7 DEF SendContent, At, Quiet
    <2>2. Put(w, done) \/ Write(w, more)
      BY <1>0, <1>7 DEF SendContent, SendBytes, JobOK
    <2>3. done.step = "zip" /\ more.step = "content"
      BY <1>0, <2>1 DEF JobOK, Send
    <2> HIDE DEF more, done
    <2>4. QED
      BY <1>3, <2>1, <2>2, <2>3
  <1>8. CASE SendFooter(w)
    <2> DEFINE k == [Send(j, "footer", FooterSize(j.zip)) EXCEPT !.step = "last"]
    <2>1. k.step = "last"
      BY <1>0 DEF JobOK, Send
    <2>2. Write(w, k) /\ table' = table
      BY <1>8 DEF SendFooter, Quiet
    <2> HIDE DEF k
    <2>3. QED
      BY <1>3, <2>1, <2>2
  <1>9. CASE SendLast(w)
    <2> DEFINE k == [Send(j, "last", 0) EXCEPT !.step = "end"]
    <2>1. k.step = "end"
      BY <1>0 DEF JobOK, Send
    <2>2. Write(w, k) /\ table' = table
      BY <1>9 DEF SendLast, Quiet
    <2> HIDE DEF k
    <2>3. QED
      BY <1>3, <2>1, <2>2
  <1>10. QED
    BY <1>1, <1>2, <1>4, <1>5, <1>6, <1>7, <1>8, <1>9 DEF SendFiles

LEMMA EtagInit == Init => EtagInv
  <1> SUFFICES ASSUME Init PROVE EtagInv
    OBVIOUS
  <1>1. PICK load \in Workloads : job = [w \in Workers |-> Fresh(load[w])]
    BY DEF Init
  <1>2. \A req : Fresh(req).etag = <<>> /\ Fresh(req).step \in {"end", "receive"}
    BY DEF Fresh
  <1>3. QED
    BY <1>1, <1>2 DEF EtagInv, EtagJob, Summed

\* Two answers with one file carry the same ETag, the checksum of the file, unless
\* a worker began it between another one's setting of the flag and its last entry.
THEOREM EtagsSettled == Spec => []EtagsSettle
  <1>1. TypeOK /\ EtagInv /\ [Next]_vars => EtagInv'
    <2> SUFFICES ASSUME TypeOK, EtagInv, [Next]_vars PROVE EtagInv'
      OBVIOUS
    <2>1. ASSUME NEW w \in Workers, Serve(w) PROVE EtagInv'
      BY <2>1, EtagBefore, EtagSum, EtagAfter DEF Serve, SendFile
    <2>2. CASE UNCHANGED vars
      BY <2>2 DEF vars, EtagInv
    <2>3. QED
      BY <2>1, <2>2 DEF Next
  <1>2. TypeOK /\ EtagInv => EtagsSettle
    <2> SUFFICES ASSUME TypeOK, EtagInv, NEW w \in Workers,
                        job[w].step \in {"head", "body"}, ~ job[w].early
                 PROVE  job[w].etag = Contents[job[w].route.file]
      BY DEF EtagsSettle
    <2> DEFINE j == job[w]
               bytes == Contents[j.route.file]
    <2>1. j.etag \in Seq(Int) /\ j.route.file \in DOMAIN Contents
      BY DEF TypeOK, JobOK, FileSteps
    <2>2. bytes \in Seq(Bytes) /\ Len(bytes) = Size(j.route.file)
      BY <2>1, FilesType DEF Size
    <2>3. /\ Len(j.etag) = Len(bytes)
          /\ \A i \in 1 .. Len(j.etag) : j.etag[i] = bytes[i]
      BY <2>2 DEF EtagInv, EtagJob, Summed
    <2> HIDE DEF j, bytes
    <2>4. j.etag = bytes
      BY <2>1, <2>2, <2>3
    <2>5. QED
      BY <2>4 DEF j, bytes
  <1>3. QED
    BY <1>1, <1>2, EtagInit, TypeCorrect, PTL DEF Spec
-----------------------------------------------------------------------------
(* What the actions before the first byte of an answer leave alone.        *)

Asking == {"receive", "parse", "form", "route"}
Summing == {"compute", "init", "set", "fill", "sum"}

\* A job that goes from j to k without writing anything.
Silent(j, k) ==
    /\ k.req = j.req /\ k.announced = j.announced /\ k.sent = j.sent
    /\ k.failed = j.failed /\ k.zip = j.zip /\ k.toAdd = j.toAdd
    /\ j.step # "route" => k.route = j.route
    /\ j.step # "handler" => k.value = j.value
    /\ \/ j.step \in Asking
          /\ k.step \in Asking \cup {"raised", "handler", "stat", "add", "end"}
       \/ j.step \in {"handler", "reply"} /\ k.step \in {"reply", "raised", "end"}
       \/ j.step = "stat" /\ k.step = "end"
       \/ /\ j.step = "stat" /\ k.step = "compute"
          /\ GetRange(j.req.range).first < Size(j.route.file)
          /\ GetRange(j.req.range).last < Size(j.route.file)
       \/ j.step \in Summing /\ k.step \in Summing \cup {"head"}

SilentStep(w) == \/ Receive(w) \/ Parse(w) \/ Exhaust(w) \/ ReadForm(w) \/ Route(w)
                 \/ AdminMiddlewareRaises(w) \/ Handle(w) \/ Stat(w) \/ CheckInitialized(w)
                 \/ SetInitialized(w) \/ Fill(w) \/ Sum(w)

LEMMA RangeType ==
    ASSUME NEW req \in Request
    PROVE  GetRange(req.range).first \in Int /\ GetRange(req.range).last \in Int
  BY DEF Request, GetRange, None

LEMMA SilentAsking ==
    ASSUME TypeOK, NEW w \in Workers,
           \/ Receive(w) \/ Parse(w) \/ Exhaust(w) \/ ReadForm(w) \/ Route(w)
           \/ AdminMiddlewareRaises(w) \/ Handle(w)
    PROVE  \E k : Put(w, k) /\ Silent(job[w], k)
  <1> DEFINE j == job[w]
  <1>0. JobOK(j)
    BY DEF TypeOK
  <1> USE DEF Asking, Summing
  <1>1. CASE Receive(w)
    <2>a. PICK next \in {"parse", "form", "route"} :
            \E text : Put(w, [j EXCEPT !.step = next, !.text = text])
      BY <1>1, ReaderType DEF Receive
    <2>1. PICK text : Put(w, [j EXCEPT !.step = next, !.text = text])
      BY <2>a
    <2>2. j.step = "receive"
      BY <1>1 DEF Receive, At
    <2>3. Silent(j, [j EXCEPT !.step = next, !.text = text])
      BY <1>0, <2>1, <2>2 DEF Silent, JobOK
    <2>4. QED
      BY <2>1, <2>3
  <1>2. CASE Parse(w)
    <2> DEFINE p == Step(j.text, j.parser)
               next == IF At(w, "parse") THEN "route" ELSE "end"
               k == Parsed(p, j, next)
    <2>1. Put(w, k)
      BY <1>2 DEF Parse
    <2>2. \/ j.step = "parse" /\ next = "route"
          \/ j.step = "reply" /\ next = "end"
      BY <1>2 DEF Parse, At
    <2> HIDE DEF p, next
    <2>3. /\ k.req = j.req /\ k.announced = j.announced /\ k.sent = j.sent
          /\ k.failed = j.failed /\ k.zip = j.zip /\ k.toAdd = j.toAdd
          /\ k.value = j.value
          /\ k.route = j.route /\ k.step \in {next, "raised", j.step}
      BY <1>0 DEF Parsed, JobOK
    <2> HIDE DEF k
    <2>4. Silent(j, k)
      BY <2>2, <2>3 DEF Silent
    <2>5. QED
      BY <2>1, <2>4
  <1>3. CASE Exhaust(w)
    <2>1. PICK k \in {[j EXCEPT !.step = "raised"], j} : Put(w, k)
      BY <1>3 DEF Exhaust
    <2>2. j.step = "parse"
      BY <1>3 DEF Exhaust, At
    <2>3. Silent(j, k)
      BY <1>0, <2>1, <2>2 DEF Silent, JobOK
    <2>4. QED
      BY <2>1, <2>3
  <1>4. CASE Route(w)
    <2> DEFINE r == HandleRequest(j.route)
               next == CASE r.answer = "none" -> "route"
                         [] r.answer \in {"raised", "terminated"} -> "raised"
                         [] r.answer = "file" -> "stat"
                         [] r.answer = "sendFiles" -> "add"
                         [] r.answer \in NoHandler -> "end"
                         [] OTHER -> "handler"
               k == [j EXCEPT !.route = r, !.step = next]
    <2>1. Put(w, k) /\ j.step = "route"
      BY <1>4 DEF Route, At
    <2>2. next \in {"route", "raised", "stat", "add", "end", "handler"}
      BY DEF NoHandler
    <2> HIDE DEF r, next
    <2>3. Silent(j, k)
      BY <1>0, <2>1, <2>2 DEF Silent, JobOK
    <2> HIDE DEF k
    <2>4. QED
      BY <2>1, <2>3
  <1>5. CASE Handle(w)
    <2> DEFINE list == Listing(Forms[j.route.answer], j.parser.out)
               ended == [j EXCEPT !.step = "end"]
               listed == [j EXCEPT !.step = "reply", !.value = list,
                                   !.text = Dumps(list), !.parser = Begin]
    <2>1. (Put(w, ended) \/ Put(w, listed)) /\ j.step = "handler"
      BY <1>5 DEF Handle, At
    <2> HIDE DEF list
    <2>2. Silent(j, ended) /\ Silent(j, listed)
      BY <1>0, <2>1 DEF Silent, JobOK
    <2> HIDE DEF ended, listed
    <2>3. QED
      BY <2>1, <2>2
  <1>6. CASE ReadForm(w)
    <2>1. j.step = "form"
      BY <1>6 DEF ReadForm, At
    <2>2. CASE \E v : Put(w, [j EXCEPT !.step = "route", !.parser.out = v])
      <3>1. PICK v : Put(w, [j EXCEPT !.step = "route", !.parser.out = v])
        BY <2>2
      <3>2. Silent(j, [j EXCEPT !.step = "route", !.parser.out = v])
        BY <1>0, <2>1 DEF Silent, JobOK
      <3>3. QED
        BY <3>1, <3>2
    <2>3. CASE Put(w, j)
      BY <2>1, <2>3 DEF Silent
    <2>4. QED
      BY <1>6, <2>2, <2>3 DEF ReadForm
  <1>7. CASE AdminMiddlewareRaises(w)
    <2> DEFINE k == [j EXCEPT !.step = "raised", !.route.answer = "raised"]
    <2>1. Put(w, k) /\ j.step = "route"
      BY <1>7 DEF AdminMiddlewareRaises, At
    <2>2. Silent(j, k)
      BY <1>0, <2>1 DEF Silent, JobOK
    <2> HIDE DEF k
    <2>3. QED
      BY <2>1, <2>2
  <1>8. QED
    BY <1>1, <1>2, <1>3, <1>4, <1>5, <1>6, <1>7

LEMMA SilentSumming ==
    ASSUME TypeOK, NEW w \in Workers,
           \/ Stat(w) \/ CheckInitialized(w) \/ SetInitialized(w) \/ Fill(w) \/ Sum(w)
    PROVE  \E k : Put(w, k) /\ Silent(job[w], k)
  <1> DEFINE j == job[w]
  <1>0. JobOK(j)
    BY DEF TypeOK
  <1> USE DEF Asking, Summing
  <1>1. CASE Stat(w)
    <2> DEFINE r == GetRange(j.req.range)
               size == Size(j.route.file)
               k(next) == [j EXCEPT !.step = next]
    <2>1. /\ Put(w, k(IF r.first >= size \/ r.last >= size THEN "end" ELSE "compute"))
          /\ j.step = "stat"
      BY <1>1 DEF Stat, At
    <2>2. r.first \in Int /\ r.last \in Int /\ size \in Nat
      BY <1>0, <2>1, RangeType, SizeType DEF JobOK, FileSteps
    <2>3. Silent(j, k("end"))
      BY <1>0, <2>1 DEF Silent, JobOK
    <2>4. ~ (r.first >= size \/ r.last >= size) => Silent(j, k("compute"))
      <3>1. ~ (r.first >= size \/ r.last >= size) => r.first < size /\ r.last < size
        BY <2>2
      <3>2. QED
        BY <1>0, <2>1, <3>1 DEF Silent, JobOK
    <2> HIDE DEF k, r, size
    <2>5. QED
      BY <2>1, <2>3, <2>4
  <1>2. CASE CheckInitialized(w)
    <2>a. PICK next \in {"sum", "init", "set"} :
            \E early : Put(w, [j EXCEPT !.step = next, !.early = early])
      BY <1>2 DEF CheckInitialized, TypeOK
    <2>1. PICK early : Put(w, [j EXCEPT !.step = next, !.early = early])
      BY <2>a
    <2>2. j.step \in Summing
      BY <1>2 DEF CheckInitialized, At
    <2>3. Silent(j, [j EXCEPT !.step = next, !.early = early])
      BY <1>0, <2>1, <2>2 DEF Silent, JobOK
    <2>4. QED
      BY <2>1, <2>3
  <1>3. CASE SetInitialized(w)
    <2>1. Put(w, [j EXCEPT !.step = "fill", !.pos = 0]) /\ j.step \in Summing
      BY <1>3 DEF SetInitialized, At
    <2>2. Silent(j, [j EXCEPT !.step = "fill", !.pos = 0])
      BY <1>0, <2>1 DEF Silent, JobOK
    <2>3. QED
      BY <2>1, <2>2
  <1>4. CASE Fill(w)
    <2>a. PICK next \in {"fill", "sum"} : \E pos : Put(w, [j EXCEPT !.pos = pos, !.step = next])
      BY <1>4 DEF Fill
    <2>1. PICK pos : Put(w, [j EXCEPT !.pos = pos, !.step = next])
      BY <2>a
    <2>2. j.step \in Summing
      BY <1>4 DEF Fill, At
    <2>3. Silent(j, [j EXCEPT !.pos = pos, !.step = next])
      BY <1>0, <2>1, <2>2 DEF Silent, JobOK
    <2>4. QED
      BY <2>1, <2>3
  <1>5. CASE Sum(w)
    <2>1. PICK entry : \/ Put(w, [j EXCEPT !.step = "head"])
                       \/ Put(w, [j EXCEPT !.etag = Append(@, entry)])
      BY <1>5 DEF Sum
    <2>2. j.step = "sum"
      BY <1>5 DEF Sum, At
    <2>3. /\ Silent(j, [j EXCEPT !.step = "head"])
          /\ Silent(j, [j EXCEPT !.etag = Append(@, entry)])
      BY <1>0, <2>2 DEF Silent, JobOK
    <2>4. QED
      BY <2>1, <2>3
  <1>6. QED
    BY <1>1, <1>2, <1>3, <1>4, <1>5

LEMMA SilentPut ==
    ASSUME TypeOK, NEW w \in Workers, SilentStep(w)
    PROVE  \E k : Put(w, k) /\ Silent(job[w], k)
  BY SilentAsking, SilentSumming DEF SilentStep
\* What sendFiles does to a job, but for the archive and its pieces.
ArchiveSteps == {"add", "zip", "content", "last"}

LEMMA ArchivePut ==
    ASSUME TypeOK, NEW w \in Workers, SendFiles(w)
    PROVE  \E k : /\ Put(w, k)
                  /\ k.announced = job[w].announced /\ k.route = job[w].route
                  /\ k.req = job[w].req /\ k.value = job[w].value
                  /\ job[w].step \in ArchiveSteps
                  /\ k.step \in ArchiveSteps \cup {"raised", "end"}
  <1> DEFINE j == job[w]
             OK(k) == /\ k.announced = j.announced /\ k.route = j.route
                      /\ k.req = j.req /\ k.value = j.value
                      /\ j.step \in ArchiveSteps
                      /\ k.step \in ArchiveSteps \cup {"raised", "end"}
  <1>0. JobOK(j)
    BY DEF TypeOK
  <1> USE DEF ArchiveSteps
  <1>1. ASSUME NEW k, Put(w, k) \/ Write(w, k), j.step \in ArchiveSteps,
               k.announced = j.announced, k.route = j.route, k.req = j.req,
               k.value = j.value, k.step \in ArchiveSteps \cup {"raised", "end"}
        PROVE  \E l : Put(w, l) /\ OK(l)
    <2>1. OK(k)
      BY <1>1
    <2>2. OK([j EXCEPT !.step = "end", !.failed = TRUE])
      BY <1>0, <1>1 DEF JobOK
    <2> HIDE DEF OK
    <2>3. QED
      BY <1>1, <2>1, <2>2 DEF Write
  <1>2. CASE AddPath(w)
    <2>1. PICK p :
             \/ Put(w, [j EXCEPT !.toAdd = @ \ {p}, !.zip.paths = Add(@, p)])
             \/ Put(w, [j EXCEPT !.step = "raised"])
      BY <1>2 DEF AddPath
    <2>2. j.step = "add"
      BY <1>2 DEF AddPath, At
    <2>3. /\ OK([j EXCEPT !.toAdd = @ \ {p}, !.zip.paths = Add(@, p)])
          /\ OK([j EXCEPT !.step = "raised"])
      BY <1>0, <2>2 DEF JobOK
    <2>4. QED
      BY <1>1, <2>1, <2>2, <2>3
  <1>3. CASE StartZip(w)
    <2> DEFINE zip == Started(j.zip.paths)
               k == [j EXCEPT !.step = "zip", !.zip = zip]
    <2>1. Put(w, k) /\ j.step = "add"
      BY <1>0, <1>3 DEF StartZip, JobOK, At
    <2> HIDE DEF zip
    <2>2. OK(k)
      BY <1>0, <2>1 DEF JobOK
    <2> HIDE DEF k
    <2>3. QED
      BY <1>1, <2>1, <2>2
  <1>4. CASE SendEntry(w)
    <2> DEFINE sent == Send(j, "header", HeaderSize(j.zip))
               zip == GetHeader(j.zip)
               k == [sent EXCEPT !.step = "content", !.pos = 0, !.zip = zip]
    <2>1. Write(w, k) /\ j.step = "zip"
      BY <1>4 DEF SendEntry, At
    <2> HIDE DEF zip
    <2>2. OK(k)
      BY <1>0, <2>1 DEF JobOK, Send
    <2> HIDE DEF k
    <2>3. QED
      BY <1>1, <2>1, <2>2
  <1>5. CASE SendContent(w)
    <2> DEFINE n == Min({Size(CurrentFile(j.zip)) - j.pos, Chunk})
               sent == Send(j, "data", n)
               more == [sent EXCEPT !.pos = sent.pos + n]
               zip == NextFile(j.zip)
               done == [j EXCEPT !.step = "zip", !.zip = zip]
    <2>1. j.step = "content"
      BY <1>5 DEF SendContent, At
    <2>2. Put(w, done) \/ Write(w, more)
      BY <1>0, <1>5 DEF SendContent, SendBytes, JobOK
    <2> HIDE DEF zip, n
    <2>3. OK(done) /\ OK(more)
      BY <1>0, <2>1 DEF JobOK, Send
    <2> HIDE DEF more, done
    <2>4. QED
      BY <1>1, <2>1, <2>2, <2>3
  <1>6. CASE SendFooter(w)
    <2> DEFINE size == FooterSize(j.zip)
               k == [Send(j, "footer", size) EXCEPT !.step = "last"]
    <2>1. Write(w, k) /\ j.step = "zip"
      BY <1>6 DEF SendFooter, At
    <2> HIDE DEF size
    <2>2. OK(k)
      BY <1>0, <2>1 DEF JobOK, Send
    <2> HIDE DEF k
    <2>3. QED
      BY <1>1, <2>1, <2>2
  <1>7. CASE SendLast(w)
    <2> DEFINE k == [Send(j, "last", 0) EXCEPT !.step = "end"]
    <2>1. Write(w, k) /\ j.step = "last"
      BY <1>7 DEF SendLast, At
    <2>2. OK(k)
      BY <1>0, <2>1 DEF JobOK, Send
    <2> HIDE DEF k
    <2>3. QED
      BY <1>1, <2>1, <2>2
  <1>8. QED
    BY <1>2, <1>3, <1>4, <1>5, <1>6, <1>7 DEF SendFiles

-----------------------------------------------------------------------------
(* The length of a file's answer.                                          *)

\* The headers were sent, and the first n bytes of the slice they announce.
Underway(j, n) ==
    LET size == Size(j.route.file)
        s == Slice(j.req, size)
    IN  /\ j.announced = {s.end - s.start + 1}
        /\ GetRange(j.req.range).last < size
        /\ n = s.start + SentSize(j.sent)
        /\ n <= size

LengthJob(j) ==
    LET size == Size(j.route.file)
        r == GetRange(j.req.range)
    IN  /\ j.step \notin {"body", "end"} => j.announced = {}
        /\ j.step \in Asking \cup (FileSteps \ {"body"}) => j.sent = <<>>
        /\ j.step \in Summing \cup {"head"} => r.first < size /\ r.last < size
        /\ j.step = "body" => Underway(j, j.pos)
        /\ j.step = "end" /\ j.route.answer = "file" /\ ~ j.failed =>
             j.announced = {} \/ Underway(j, size)

LengthInv == \A w \in Workers : LengthJob(job[w])

LEMMA LengthPut ==
    ASSUME TypeOK, LengthInv, NEW w \in Workers, NEW k, Put(w, k), LengthJob(k)
    PROVE  LengthInv'
  BY DEF TypeOK, LengthInv, Put

LEMMA LengthWrite ==
    ASSUME TypeOK, LengthInv, NEW w \in Workers, NEW k, Write(w, k), LengthJob(k)
    PROVE  LengthInv'
  <1>1. LengthJob([job[w] EXCEPT !.step = "end", !.failed = TRUE])
    BY DEF TypeOK, JobOK, LengthJob, Asking, Summing, FileSteps
  <1>2. QED
    BY <1>1, LengthPut DEF Write

LEMMA LengthSilent ==
    ASSUME TypeOK, LengthInv, NEW w \in Workers, SilentStep(w)
    PROVE  LengthInv'
  <1> DEFINE j == job[w]
  <1>1. PICK k : Put(w, k) /\ Silent(j, k)
    BY SilentPut
  <1>2. LengthJob(j)
    BY DEF LengthInv
  <1>3. LengthJob(k)
    BY <1>1, <1>2 DEF Silent, LengthJob, Asking, Summing, FileSteps
  <1>4. QED
    BY <1>1, <1>3, LengthPut

LEMMA LengthHeaders ==
    ASSUME TypeOK, LengthInv, NEW w \in Workers, SendHeaders(w)
    PROVE  LengthInv'
  <1> DEFINE j == job[w]
             size == Size(j.route.file)
             s == Slice(j.req, size)
             k == [j EXCEPT !.step = "body", !.pos = s.start,
                            !.announced = {s.end - s.start + 1}]
  <1>0. JobOK(j) /\ LengthJob(j)
    BY DEF TypeOK, LengthInv
  <1>1. Write(w, k) /\ j.step = "head"
    BY DEF SendHeaders, At
  <1>2. size \in Nat /\ s.start \in Nat
    BY <1>0, <1>1, SizeType, SliceType DEF JobOK, FileSteps
  <1>3. /\ j.sent = <<>> /\ GetRange(j.req.range).last < size
        /\ GetRange(j.req.range).first < size
    BY <1>0, <1>1 DEF LengthJob, FileSteps
  <1>4. s.start <= size
    <2>1. s.start \in {0, GetRange(j.req.range).first}
      BY DEF Slice
    <2>2. QED
      BY <1>2, <1>3, <2>1
  <1>5. /\ k.step = "body" /\ k.pos = s.start /\ k.announced = {s.end - s.start + 1}
        /\ k.req = j.req /\ k.route = j.route /\ k.sent = <<>>
    BY <1>0, <1>3 DEF JobOK
  <1> HIDE DEF k
  <1>6. Underway(k, k.pos)
    <2>1. SentSize(k.sent) = 0
      BY <1>5 DEF SentSize
    <2>2. k.pos = s.start + SentSize(k.sent) /\ k.pos <= size
      BY <1>2, <1>4, <1>5, <2>1
    <2>3. QED
      BY <1>3, <1>5, <2>2 DEF Underway
  <1>7. LengthJob(k)
    BY <1>5, <1>6 DEF LengthJob, Asking, Summing, FileSteps
  <1>8. QED
    BY <1>1, <1>7, LengthWrite

\* A piece makes what was sent longer by its size.
LEMMA SentMore ==
    ASSUME NEW j, JobOK(j), NEW kind, NEW size \in Nat
    PROVE  /\ SentSize(Send(j, kind, size).sent) = SentSize(j.sent) + size
           /\ Send(j, kind, size).sent =
                Append(j.sent, [kind |-> kind, size |-> size, from |-> SentSize(j.sent)])
  <1> DEFINE piece == [kind |-> kind, size |-> size, from |-> SentSize(j.sent)]
             sent == Append(j.sent, piece)
  <1>1. Send(j, kind, size).sent = sent
    BY DEF Send, JobOK
  <1>2. sent # <<>> /\ Last(sent) = piece
    <2>1. j.sent \in Seq(Sent)
      BY DEF JobOK
    <2> HIDE DEF piece
    <2>2. QED
      BY <2>1 DEF Last
  <1>3. SentSize(sent) = piece.from + piece.size
    BY <1>2 DEF SentSize
  <1>4. QED
    BY <1>1, <1>3

LEMMA LengthBody ==
    ASSUME TypeOK, LengthInv, NEW w \in Workers, SendBody(w)
    PROVE  LengthInv'
  <1> DEFINE j == job[w]
             size == Size(j.route.file)
             left == size - j.pos
             n == Min({left, Chunk})
             sent == Send(j, "data", n)
             more == [sent EXCEPT !.pos = sent.pos + n]
             done == [j EXCEPT !.step = "end"]
  <1>0. JobOK(j) /\ LengthJob(j)
    BY DEF TypeOK, LengthInv
  <1>1. j.step = "body" /\ Underway(j, j.pos) /\ j.pos <= size
    BY <1>0 DEF SendBody, At, LengthJob, Underway
  <1>2. size \in Nat /\ j.pos \in Nat /\ left \in Int
    BY <1>0, <1>1, SizeType DEF JobOK, FileSteps
  <1>3. CASE left <= 0
    <2>1. Put(w, done)
      BY <1>3 DEF SendBody, SendBytes
    <2>2. j.pos = size
      BY <1>1, <1>2, <1>3
    <2>3. /\ done.step = "end" /\ done.announced = j.announced
          /\ done.req = j.req /\ done.route = j.route /\ done.sent = j.sent
      BY <1>0 DEF JobOK
    <2> HIDE DEF done
    <2>4. Underway(done, size)
      BY <1>1, <2>2, <2>3 DEF Underway
    <2>5. LengthJob(done)
      BY <2>3, <2>4 DEF LengthJob, Asking, Summing, FileSteps
    <2>6. QED
      BY <2>1, <2>5, LengthPut
  <1>4. CASE ~ (left <= 0)
    <2>1. Write(w, more)
      BY <1>4 DEF SendBody, SendBytes
    <2>2. n \in 1 .. left /\ n \in Nat
      BY <1>2, <1>4, PieceType
    <2> HIDE DEF n
    <2>3. SentSize(sent.sent) = SentSize(j.sent) + n
      BY <1>0, <1>2, <2>2, SentMore
    <2>4. /\ more.step = "body" /\ more.announced = j.announced
          /\ more.req = j.req /\ more.route = j.route
          /\ more.sent = sent.sent /\ more.pos = j.pos + n
      BY <1>0, <1>1 DEF JobOK, Send
    <2> HIDE DEF more, sent
    <2>5. Underway(more, more.pos)
      <3> DEFINE s == Slice(j.req, size)
      <3>1. j.pos = s.start + SentSize(j.sent)
        BY <1>1 DEF Underway
      <3>2. SentSize(j.sent) \in Nat /\ s.start \in Nat
        BY <1>0, <1>2, SentSizeType, SliceType DEF JobOK
      <3> HIDE DEF s
      <3>3. more.pos = s.start + SentSize(more.sent) /\ more.pos <= size
        BY <1>2, <2>2, <2>3, <2>4, <3>1, <3>2
      <3>4. QED
        BY <1>1, <2>4, <3>3 DEF Underway, s
    <2>6. LengthJob(more)
      BY <2>4, <2>5 DEF LengthJob, Asking, Summing, FileSteps
    <2>7. QED
      BY <2>1, <2>6, LengthWrite
  <1>5. QED
    BY <1>3, <1>4

LEMMA LengthArchive ==
    ASSUME TypeOK, LengthInv, NEW w \in Workers, SendFiles(w)
    PROVE  LengthInv'
  <1>1. PICK k : /\ Put(w, k) /\ k.announced = job[w].announced
                 /\ job[w].step \in ArchiveSteps
                 /\ k.step \in ArchiveSteps \cup {"raised", "end"}
    BY ArchivePut
  <1>2. k.announced = {}
    BY <1>1 DEF LengthInv, LengthJob, ArchiveSteps
  <1>3. LengthJob(k)
    BY <1>1, <1>2 DEF LengthJob, ArchiveSteps, Asking, Summing, FileSteps
  <1>4. QED
    BY <1>1, <1>3, LengthPut

\* What the invariant says of an answer that was sent to its end.
LEMMA LengthEnd ==
    ASSUME NEW j, JobOK(j), NEW size \in Nat, size = Size(j.route.file),
           Underway(j, size), NEW n \in j.announced
    PROVE  /\ SentSize(j.sent) = size - Slice(j.req, size).start
           /\ GetRange(j.req.range).last \in {None, size - 1} => SentSize(j.sent) = n
  <1> DEFINE s == Slice(j.req, size)
             r == GetRange(j.req.range)
             total == SentSize(j.sent)
  <1>1. n = s.end - s.start + 1 /\ size = s.start + total
    BY DEF Underway
  <1>2. total \in Nat /\ s.start \in Nat /\ s.end \in Int /\ r.last \in Int
    BY SentSizeType, SliceType, RangeType DEF JobOK
  <1>3. r.last \in {None, size - 1} => s.end = size - 1
    BY DEF Slice
  <1> HIDE DEF s, r, total
  <1>4. r.last \in {None, size - 1} => total = n
    BY <1>1, <1>2, <1>3
  <1>5. total = size - s.start
    BY <1>1, <1>2
  <1>6. QED
    BY <1>4, <1>5 DEF s, r, total

\* All bytes of a file from the first one the request asks for follow the headers,
\* and they are as many as announced unless it named a last byte before the file's.
THEOREM LengthKept == Spec => []LengthMatchesBody
  <1>1. Init => LengthInv
    <2> SUFFICES ASSUME Init, NEW w \in Workers PROVE LengthJob(job[w])
      BY DEF LengthInv
    <2>1. PICK req : job[w] = Fresh(req)
      BY DEF Init
    <2>2. /\ job[w].step \in {"end", "receive"} /\ job[w].sent = <<>>
          /\ job[w].announced = {}
      BY <2>1 DEF Fresh
    <2>3. QED
      BY <2>2 DEF LengthJob, Asking, Summing, FileSteps
  <1>2. TypeOK /\ LengthInv /\ [Next]_vars => LengthInv'
    <2> SUFFICES ASSUME TypeOK, LengthInv, [Next]_vars PROVE LengthInv'
      OBVIOUS
    <2>1. ASSUME NEW w \in Workers, Serve(w) PROVE LengthInv'
      BY <2>1, LengthSilent, LengthHeaders, LengthBody, LengthArchive
         DEF Serve, SendFile, SilentStep
    <2>2. CASE UNCHANGED vars
      BY <2>2 DEF vars, LengthInv
    <2>3. QED
      BY <2>1, <2>2 DEF Next
  <1>3. TypeOK /\ LengthInv => LengthMatchesBody
    <2> SUFFICES ASSUME TypeOK, LengthInv, NEW w \in Workers, job[w].step = "end",
                        job[w].route.answer = "file", ~ job[w].failed,
                        NEW n \in job[w].announced
                 PROVE  LET j == job[w]
                            size == Size(j.route.file)
                        IN  /\ SentSize(j.sent) = size - Slice(j.req, size).start
                            /\ GetRange(j.req.range).last \in {None, size - 1} =>
                                  SentSize(j.sent) = n
      BY DEF LengthMatchesBody, At
    <2>1. JobOK(job[w]) /\ Size(job[w].route.file) \in Nat
      BY SizeType DEF TypeOK, JobOK
    <2>2. Underway(job[w], Size(job[w].route.file))
      BY DEF LengthInv, LengthJob
    <2>3. QED
      BY <2>1, <2>2, LengthEnd
  <1>4. QED
    BY <1>1, <1>2, <1>3, TypeCorrect, PTL DEF Spec
-----------------------------------------------------------------------------
(* What a handler is given of the body.                                    *)

\* What sendFile does once the headers are due.
LEMMA FilePut ==
    ASSUME TypeOK, NEW w \in Workers, SendHeaders(w) \/ SendBody(w)
    PROVE  \E k : /\ Put(w, k) /\ k.route = job[w].route /\ k.req = job[w].req
                  /\ k.value = job[w].value
                  /\ job[w].step \in {"head", "body"} /\ k.step \in {"body", "end"}
  <1> DEFINE j == job[w]
             OK(k) == /\ k.route = j.route /\ k.req = j.req /\ k.value = j.value
                      /\ j.step \in {"head", "body"} /\ k.step \in {"body", "end"}
  <1>0. JobOK(j)
    BY DEF TypeOK
  <1>1. ASSUME NEW k, Put(w, k) \/ Write(w, k), OK(k)
        PROVE  \E l : Put(w, l) /\ OK(l)
    <2>1. OK([j EXCEPT !.step = "end", !.failed = TRUE])
      BY <1>0, <1>1 DEF JobOK
    <2> HIDE DEF OK
    <2>2. QED
      BY <1>1, <2>1 DEF Write
  <1>2. CASE SendHeaders(w)
    <2>1. PICK pos, announced :
             Write(w, [j EXCEPT !.step = "body", !.pos = pos, !.announced = announced])
      BY <1>2 DEF SendHeaders
    <2>2. j.step = "head"
      BY <1>2 DEF SendHeaders, At
    <2> DEFINE k == [j EXCEPT !.step = "body", !.pos = pos, !.announced = announced]
    <2>3. OK(k)
      BY <1>0, <2>2 DEF JobOK
    <2> HIDE DEF k
    <2>4. QED
      BY <1>1, <2>1, <2>3 DEF k
  <1>3. CASE SendBody(w)
    <2> DEFINE n == Min({Size(j.route.file) - j.pos, Chunk})
               sent == Send(j, "data", n)
               more == [sent EXCEPT !.pos = sent.pos + n]
               done == [j EXCEPT !.step = "end"]
    <2>1. j.step = "body"
      BY <1>3 DEF SendBody, At
    <2>2. Put(w, done) \/ Write(w, more)
      BY <1>3 DEF SendBody, SendBytes
    <2> HIDE DEF n
    <2>3. OK(done) /\ OK(more)
      BY <1>0, <2>1 DEF JobOK, Send
    <2> HIDE DEF more, done
    <2>4. QED
      BY <1>1, <2>1, <2>2, <2>3
  <1>4. QED
    BY <1>2, <1>3

LEMMA BeginningIsPart ==
    ASSUME NEW text \in Seq(STRING), NEW t \in Beginnings(text)
    PROVE  Part(t, text)
  <1>0. Len(text) \in Nat
    OBVIOUS
  <1>1. ASSUME NEW n \in 0 .. Len(text), t = SubSeq(text, 1, n) PROVE Part(t, text)
    BY <1>1 DEF Part
  <1>2. ASSUME NEW n \in DOMAIN text, NEW c \in Torn(text[n]),
               t = Append(SubSeq(text, 1, n - 1), c)
        PROVE  Part(t, text)
    <2>1. c \in Shreds
      <3>1. c \in {"part", "huge"} \cup Keywords \cup {"word"}
        BY DEF Torn
      <3>2. QED
        BY <3>1 DEF Shreds, Numbers
    <2>2. Quote \in Indivisible /\ Backslash \in Indivisible
      BY Zenon DEF Indivisible, Quote, Backslash
    <2>a. {"int", "double", "huge"} \cap Indivisible = {}
      <3>1. \A s \in {"int", "double", "huge"} : s \notin Indivisible
        BY Zenon DEF Indivisible
      <3>2. QED
        BY <3>1
    <2>3. text[n] \notin Indivisible
      BY <2>a DEF Torn
    <2>4. text[n] \notin {Quote, Backslash}
      BY <2>2, <2>3
    <2>5. n \in 1 .. Len(text)
      OBVIOUS
    <2>6. t \in Seq(STRING)
      BY BeginningsType
    <2>7. Len(t) = n /\ t[n] = c /\ \A k \in 1 .. n - 1 : t[k] = text[k]
      BY <1>0, <1>2, <2>5
    <2>8. ASSUME NEW k \in 1 .. Len(t)
          PROVE  \/ text[k] = t[k]
                 \/ /\ k = Len(t) /\ t[k] \in Shreds
                    /\ text[k] \notin {Quote, Backslash}
      <3>1. CASE k = n
        BY <2>1, <2>4, <2>7, <3>1
      <3>2. CASE k # n
        <4>1. k \in 1 .. n - 1
          BY <2>5, <2>7, <3>2
        <4>2. t[k] = text[k]
          BY <2>7, <4>1
        <4>3. QED
          BY <4>2
      <3>3. QED
        BY <3>1, <3>2
    <2>9. Len(t) <= Len(text)
      BY <1>0, <2>5, <2>7
    <2>10. QED
      BY <2>6, <2>8, <2>9 DEF Part
  <1>3. \/ \E n \in 0 .. Len(text) : t = SubSeq(text, 1, n)
        \/ \E n \in DOMAIN text : \E c \in Torn(text[n]) :
              t = Append(SubSeq(text, 1, n - 1), c)
    BY Zenon DEF Beginnings
  <1>4. QED
    BY <1>1, <1>2, <1>3

\* The parser took the lexeme that was cut inside an array or a map.
Cleft(text, p) == CanTurn(p) /\ p.at = "loop" /\ p.index = Len(text) + 1

\* The parser of a body that has not failed is where it would be with the whole
\* body, and it has stopped before a router has the request; unless it took a
\* lexeme that was cut, the last one, which is all there is of the value or the
\* end of the parser's work.
BodyJob(j) ==
    Reader(j.req) = "parse" =>
      /\ j.step # "form"
      /\ j.step = "receive" => j.parser = Begin
      /\ j.step = "parse" => Part(j.text, j.req.body)
      /\ j.step = "parse" /\ j.parser.status = "parsing" =>
           \/ \E k \in Nat : j.parser = Turns(j.req.body)[k]
           \/ Cleft(j.text, j.parser)
      /\ j.step \in {"route", "handler"} /\ (\A c : j.parser.out # [lex |-> c]) =>
           /\ j.parser.status = "done"
           /\ \E k \in Nat : j.parser = Turns(j.req.body)[k]

BodyInv == \A w \in Workers : BodyJob(job[w])

LEMMA BodyPut ==
    ASSUME TypeOK, BodyInv, NEW w \in Workers, NEW k, Put(w, k), BodyJob(k)
    PROVE  BodyInv'
  BY DEF TypeOK, BodyInv, Put

LEMMA BodyReceive ==
    ASSUME TypeOK, BodyInv, NEW w \in Workers, Receive(w)
    PROVE  BodyInv'
  <1> DEFINE j == job[w]
             body == j.req.body
  <1>0. JobOK(j) /\ BodyJob(j) /\ body \in Seq(STRING)
    BY DEF TypeOK, BodyInv, JobOK, Request
  <1>1. PICK t \in Beginnings(body) :
           Put(w, [j EXCEPT !.step = Reader(j.req), !.text = t])
    BY DEF Receive
  <1> DEFINE k == [j EXCEPT !.step = Reader(j.req), !.text = t]
  <1>2. j.step = "receive"
    BY DEF Receive, At
  <1>3. k.req = j.req /\ k.parser = j.parser /\ k.text = t /\ k.step = Reader(j.req)
    BY <1>0 DEF JobOK
  <1>4. Part(t, body)
    BY <1>0, BeginningIsPart
  <1> HIDE DEF k
  <1>5. BodyJob(k)
    <2> SUFFICES ASSUME Reader(j.req) = "parse" PROVE BodyJob(k)
      BY <1>3 DEF BodyJob
    <2>1. k.step = "parse" /\ j.parser = Begin
      BY <1>0, <1>2, <1>3 DEF BodyJob
    <2>2. j.parser = Turns(body)[0]
      BY <2>1, TurnsRecursion
    <2>3. QED
      BY <1>3, <1>4, <2>1, <2>2 DEF BodyJob
  <1>6. QED
    BY <1>1, <1>5, BodyPut DEF k

LEMMA BodyReadForm ==
    ASSUME TypeOK, BodyInv, NEW w \in Workers, ReadForm(w)
    PROVE  BodyInv'
  <1>1. PICK k : Put(w, k) /\ Silent(job[w], k)
    BY SilentPut DEF SilentStep
  <1>2. Reader(job[w].req) # "parse"
    BY DEF ReadForm, At, BodyInv, BodyJob
  <1>3. BodyJob(k)
    BY <1>1, <1>2 DEF Silent, BodyJob
  <1>4. QED
    BY <1>1, <1>3, BodyPut

LEMMA BodyParse ==
    ASSUME TypeOK, BodyInv, NEW w \in Workers, Parse(w)
    PROVE  BodyInv'
  <1> DEFINE j == job[w]
             body == j.req.body
             p == Step(j.text, j.parser)
             next == IF At(w, "parse") THEN "route" ELSE "end"
             k == Parsed(p, j, next)
  <1>0. JobOK(j) /\ BodyJob(j) /\ body \in Seq(STRING)
    BY DEF TypeOK, BodyInv, JobOK, Request
  <1>1. Put(w, k) /\ j.parser.status = "parsing"
    BY DEF Parse
  <1>2. \/ j.step = "parse" /\ next = "route"
        \/ j.step = "reply" /\ next = "end"
    BY DEF Parse, At
  <1> HIDE DEF next
  <1>3. /\ k.req = j.req /\ k.text = j.text /\ k.parser = p
        /\ p.status = "done" => k.step = next
        /\ p.status = "raised" => k.step = "raised"
        /\ p.status \notin {"done", "raised"} => k.step = j.step
    BY <1>0 DEF Parsed, JobOK
  <1> HIDE DEF k
  <1>4. BodyJob(k)
    <2> SUFFICES ASSUME Reader(j.req) = "parse", j.step = "parse" PROVE BodyJob(k)
      BY <1>2, <1>3 DEF BodyJob
    <2>1. Part(j.text, body) /\ next = "route" /\ j.text \in Seq(STRING)
      BY <1>0, <1>2 DEF BodyJob, Part
    <2>2. CASE Goes(p)
      <3>1. ~ Cleft(j.text, j.parser)
        BY <2>1, <2>2, PartEnd DEF Cleft
      <3>2. PICK n \in Nat : j.parser = Turns(body)[n]
        BY <1>0, <1>1, <3>1 DEF BodyJob
      <3>3. CanTurn(j.parser)
        BY <1>0, <1>1, <3>2, TurnsType DEF CanTurn, IsParser
      <3>4. CASE Step(body, j.parser) = p
        <4>1. Turns(body)[n + 1] = p
          BY <1>1, <3>2, <3>4, TurnsRecursion DEF Turn
        <4>2. \E m \in Nat : p = Turns(body)[m]
          BY <4>1
        <4> HIDE DEF p
        <4>3. QED
          BY <1>3, <2>1, <2>2, <4>2 DEF BodyJob, Goes
      <3>5. CASE Severed(j.text, j.parser, p)
        <4>1. PICK c : p = Deliver(j.parser, [lex |-> c], Len(j.text) + 1)
          BY <3>5 DEF Severed
        <4>2. Advances(j.text, j.parser, p)
          BY <2>1, <3>3, StepAdvances
        <4> HIDE DEF p
        <4>3. \/ p.status = "done" /\ p.out = [lex |-> c]
              \/ Cleft(j.text, p)
          <5>1. DOMAIN j.parser = {"index", "open", "at", "status", "out"}
            BY <3>3 DEF CanTurn, Begin
          <5>2. CASE j.parser.open = <<>>
            <6>1. p = [j.parser EXCEPT !.index = Len(j.text) + 1,
                                       !.out = [lex |-> c], !.status = "done"]
              BY <4>1, <5>2 DEF Deliver
            <6>2. p.status = "done" /\ p.out = [lex |-> c]
              BY <5>1, <6>1
            <6>3. QED
              BY <6>2
          <5>3. CASE j.parser.open # <<>>
            <6>1. p.at = "loop" /\ p.index = Len(j.text) + 1 /\ p.status = "parsing"
              BY <3>3, <4>1, <5>1, <5>3 DEF Deliver, CanTurn
            <6>2. QED
              BY <4>2, <6>1 DEF Cleft, CanTurn, Advances
          <5>4. QED
            BY <5>2, <5>3
        <4>4. QED
          BY <1>3, <2>1, <2>2, <4>3 DEF BodyJob, Goes, Cleft, CanTurn
      <3>6. QED
        BY <2>1, <2>2, <3>3, <3>4, <3>5, PartStep
    <2>3. CASE ~ Goes(p)
      <3> HIDE DEF p
      <3>1. QED
        BY <1>3, <2>1, <2>3 DEF BodyJob, Goes
    <2>4. QED
      BY <2>2, <2>3
  <1>5. QED
    BY <1>1, <1>4, BodyPut

LEMMA BodyExhaust ==
    ASSUME TypeOK, BodyInv, NEW w \in Workers, Exhaust(w)
    PROVE  BodyInv'
  <1>0. JobOK(job[w]) /\ BodyJob(job[w])
    BY DEF TypeOK, BodyInv
  <1>1. PICK k \in {[job[w] EXCEPT !.step = "raised"], job[w]} : Put(w, k)
    BY DEF Exhaust
  <1>2. BodyJob(k)
    BY <1>0, <1>1 DEF BodyJob, JobOK
  <1>3. QED
    BY <1>1, <1>2, BodyPut

LEMMA BodyRoute ==
    ASSUME TypeOK, BodyInv, NEW w \in Workers, Route(w)
    PROVE  BodyInv'
  <1> DEFINE j == job[w]
             r == HandleRequest(j.route)
             next == CASE r.answer = "none" -> "route"
                       [] r.answer \in {"raised", "terminated"} -> "raised"
                       [] r.answer = "file" -> "stat"
                       [] r.answer = "sendFiles" -> "add"
                       [] r.answer \in NoHandler -> "end"
                       [] OTHER -> "handler"
             k == [j EXCEPT !.route = r, !.step = next]
  <1>0. JobOK(j) /\ BodyJob(j)
    BY DEF TypeOK, BodyInv
  <1>1. Put(w, k) /\ j.step = "route"
    BY DEF Route, At
  <1>2. next \in {"route", "raised", "stat", "add", "end", "handler"}
    BY DEF NoHandler
  <1> HIDE DEF r, next
  <1>3. k.req = j.req /\ k.parser = j.parser /\ k.step = next
    BY <1>0 DEF JobOK
  <1> HIDE DEF k
  <1>4. BodyJob(k)
    BY <1>0, <1>1, <1>2, <1>3 DEF BodyJob
  <1>5. QED
    BY <1>1, <1>4, BodyPut

\* What comes after a handler never leads back before it.
LEMMA LaterStep ==
    ASSUME TypeOK, NEW w \in Workers,
           AdminMiddlewareRaises(w) \/ Handle(w) \/ SendFile(w) \/ SendFiles(w)
    PROVE  \E k : Put(w, k) /\ k.step \notin {"receive", "parse", "form", "route", "handler"}
  <1>1. CASE Handle(w) \/ (SendFile(w) /\ ~ SendHeaders(w) /\ ~ SendBody(w))
    <2>1. PICK k : Put(w, k) /\ Silent(job[w], k)
      BY <1>1, SilentPut DEF SilentStep, SendFile
    <2>2. job[w].step \notin Asking
      BY <1>1 DEF Handle, SendFile, Stat, CheckInitialized, SetInitialized, Fill,
                  Sum, At, Asking
    <2>3. QED
      BY <2>1, <2>2 DEF Silent, Summing
  <1>2. CASE SendHeaders(w) \/ SendBody(w)
    BY <1>2, FilePut
  <1>3. CASE SendFiles(w)
    BY <1>3, ArchivePut DEF ArchiveSteps
  <1>4. CASE AdminMiddlewareRaises(w)
    <2>1. PICK k : Put(w, k) /\ k.step = "raised"
      <3> DEFINE k == [job[w] EXCEPT !.step = "raised", !.route.answer = "raised"]
      <3>1. Put(w, k) /\ k.step = "raised"
        BY <1>4 DEF AdminMiddlewareRaises, TypeOK, JobOK
      <3> HIDE DEF k
      <3>2. QED
        BY <3>1
    <2>2. QED
      BY <2>1
  <1>5. QED
    BY <1>1, <1>2, <1>3, <1>4

LEMMA BodyRest ==
    ASSUME TypeOK, BodyInv, NEW w \in Workers,
           AdminMiddlewareRaises(w) \/ Handle(w) \/ SendFile(w) \/ SendFiles(w)
    PROVE  BodyInv'
  <1>1. PICK k : /\ Put(w, k)
                 /\ k.step \notin {"receive", "parse", "form", "route", "handler"}
    BY LaterStep
  <1>2. BodyJob(k)
    BY <1>1 DEF BodyJob
  <1>3. QED
    BY <1>1, <1>2, BodyPut

\* No handler ever sees another string, array or map than the whole JSON body
\* holds: parsing the part that was received fails, or stops where parsing the
\* whole body does, unless a number or a keyword is all there is.
THEOREM WholeBodies == Spec => []HandlersGetTheBody
  <1>1. Init => BodyInv
    <2> SUFFICES ASSUME Init, NEW w \in Workers PROVE BodyJob(job[w])
      BY DEF BodyInv
    <2>1. PICK req : job[w] = Fresh(req)
      BY DEF Init
    <2>2. job[w].step \in {"end", "receive"} /\ job[w].parser = Begin
      BY <2>1 DEF Fresh
    <2>3. QED
      BY <2>2 DEF BodyJob
  <1>2. TypeOK /\ BodyInv /\ [Next]_vars => BodyInv'
    <2> SUFFICES ASSUME TypeOK, BodyInv, [Next]_vars PROVE BodyInv'
      OBVIOUS
    <2>1. ASSUME NEW w \in Workers, Serve(w) PROVE BodyInv'
      BY <2>1, BodyReceive, BodyParse, BodyExhaust, BodyReadForm, BodyRoute,
             BodyRest
         DEF Serve
    <2>2. CASE UNCHANGED vars
      BY <2>2 DEF vars, BodyInv
    <2>3. QED
      BY <2>1, <2>2 DEF Next
  <1>3. TypeOK /\ BodyInv => HandlersGetTheBody
    <2> SUFFICES ASSUME TypeOK, BodyInv, NEW w \in Workers,
                        job[w].step = "handler", Reader(job[w].req) = "parse",
                        "lex" \notin DOMAIN job[w].parser.out
                 PROVE  LET whole == Loads(job[w].req.body)
                        IN  whole.status = "done" /\ job[w].parser.out = whole.out
      BY DEF HandlersGetTheBody, At
    <2>1. job[w].req.body \in Seq(STRING)
      BY DEF TypeOK, JobOK, Request
    <2>a. \A c : job[w].parser.out # [lex |-> c]
      OBVIOUS
    <2>2. PICK k \in Nat : /\ job[w].parser.status = "done"
                           /\ job[w].parser = Turns(job[w].req.body)[k]
      BY <2>a DEF BodyInv, BodyJob
    <2>3. job[w].parser = Loads(job[w].req.body)
      BY <2>1, <2>2, LoadsStops
    <2>4. QED
      BY <2>2, <2>3
  <1>4. QED
    BY <1>1, <1>2, <1>3, TypeCorrect, PTL DEF Spec
-----------------------------------------------------------------------------
(* What a path says of the router that answers it.                         *)

\* What stands between the slashes of a path that is registered or requested.
Parts == STRING \cup
  {"api", "admin", "front", "products", "availability", "bookings", "auth",
   "register", "login", "user", "me", "logout", "resources", "salon-services",
   "users", "resource-services", "schedule", "schedule-overrides", "*"}

LEMMA TablePaths == \A t \in Table : t[3] \in Seq(Parts)
  <1>1. \A t \in Extra : t[3] \in Seq(STRING)
    BY RouterAssumption
  <1>2. \A t \in Extra : t[3] \in Seq(Parts)
    <2>1. Seq(STRING) \subseteq Seq(Parts)
      BY DEF Parts
    <2>2. QED
      BY <1>1, <2>1
  <1>3. \A t \in Table \ Extra :
           t[3] \in {<<x>> : x \in Parts} \cup {<<x, y>> : x \in Parts, y \in Parts}
    <2>1. Table \ Extra \subseteq
            {t \in Table : t[3] \in {<<"products">>, <<"availability">>, <<"bookings">>,
               <<"auth", "register">>, <<"auth", "login">>, <<"auth", "user">>,
               <<"auth", "me">>, <<"auth", "logout">>, <<"resources">>,
               <<"salon-services">>, <<"users">>, <<"resource-services">>,
               <<"schedule">>, <<"schedule-overrides">>, <<"*">>}}
      BY SMTT(60) DEF Table
    <2>2. QED
      BY <2>1, SMTT(60) DEF Parts
  <1>4. /\ \A x \in Parts : <<x>> \in Seq(Parts)
        /\ \A x, y \in Parts : <<x, y>> \in Seq(Parts)
    OBVIOUS
  <1>5. ASSUME NEW t \in Table \ Extra PROVE t[3] \in Seq(Parts)
    <2>1. \/ \E x \in Parts : t[3] = <<x>>
          \/ \E x, y \in Parts : t[3] = <<x, y>>
      BY <1>3
    <2>2. QED
      BY <1>4, <2>1
  <1>6. QED
    BY <1>2, <1>5

\* None of the routes start_server registers lies under a mounted router's name.
LEMMA OwnRoutes == NothingHidden(Table \ Extra)
  <1>1. \A t \in Table \ Extra : t[1] \in {"api", "admin"}
    BY SMTT(60) DEF Table
  <1>2. \A t \in Table \ Extra :
           t[3] \in {<<"products">>, <<"availability">>, <<"bookings">>,
               <<"auth", "register">>, <<"auth", "login">>, <<"auth", "user">>,
               <<"auth", "me">>, <<"auth", "logout">>, <<"resources">>,
               <<"salon-services">>, <<"users">>, <<"resource-services">>,
               <<"schedule">>, <<"schedule-overrides">>, <<"*">>}
    BY SMTT(60) DEF Table
  <1>3. \A t \in Table \ Extra : Head(t[3]) # "admin"
    BY <1>2, SMTT(60)
  <1>4. \A m \in Mounts : m[1] \in {"api", "admin"} => m[2] = "admin"
    BY DEF Mounts
  <1>5. QED
    BY <1>1, <1>3, <1>4 DEF NothingHidden

\* Nor then does any route, if none that another program adds does.
LEMMA AllRoutes == ASSUME NothingHidden(Extra) PROVE NothingHidden(Table)
  BY OwnRoutes DEF NothingHidden

\* Two sequences, one after the other.
LEMMA Joined ==
    ASSUME NEW S, NEW a \in Seq(S), NEW q \in Seq(S), NEW p \in Seq(S)
    PROVE  a \o q = p <=> /\ Len(p) = Len(a) + Len(q)
                          /\ \A i \in 1 .. Len(a) : p[i] = a[i]
                          /\ \A i \in 1 .. Len(q) : p[Len(a) + i] = q[i]
  <1>0. Len(a) \in Nat /\ Len(q) \in Nat /\ Len(p) \in Nat
    OBVIOUS
  <1>1. PICK c : c = a \o q
    OBVIOUS
  <1>2. /\ c \in Seq(S) /\ Len(c) = Len(a) + Len(q)
        /\ \A i \in 1 .. Len(a) : c[i] = a[i]
        /\ \A i \in 1 .. Len(q) : c[Len(a) + i] = q[i]
    BY <1>1
  <1>3. ASSUME Len(p) = Len(c), \A i \in 1 .. Len(a) : p[i] = a[i],
               \A i \in 1 .. Len(q) : p[Len(a) + i] = q[i]
        PROVE  c = p
    <2>1. ASSUME NEW i \in 1 .. Len(p) PROVE c[i] = p[i]
      <3>1. CASE i <= Len(a)
        BY <1>0, <1>2, <1>3, <3>1
      <3>2. CASE ~ (i <= Len(a))
        <4>1. i - Len(a) \in 1 .. Len(q) /\ Len(a) + (i - Len(a)) = i
          BY <1>0, <1>2, <1>3, <3>2
        <4>2. QED
          BY <1>2, <1>3, <4>1
      <3>3. QED
        BY <3>1, <3>2
    <2>2. QED
      BY <1>2, <1>3, <2>1
  <1>4. QED
    BY <1>1, <1>2, <1>3

LEMMA PrefixType ==
    /\ \A router \in Routers : Prefix[router] \in Seq(Parts)
    /\ Len(Prefix["app"]) = 0
    /\ Len(Prefix["api"]) = 1 /\ Prefix["api"][1] = "api"
    /\ Len(Prefix["adminStatic"]) = 1 /\ Prefix["adminStatic"][1] = "admin"
    /\ Len(Prefix["front"]) = 1 /\ Prefix["front"][1] = "front"
    /\ Len(Prefix["admin"]) = 2 /\ Prefix["admin"][1] = "api"
    /\ Prefix["admin"][2] = "admin"
  <1>1. "api" \in Parts /\ "admin" \in Parts /\ "front" \in Parts
    BY DEF Parts
  <1>2. <<>> \in Seq(Parts) /\ <<"api">> \in Seq(Parts) /\ <<"admin">> \in Seq(Parts)
        /\ <<"front">> \in Seq(Parts) /\ <<"api", "admin">> \in Seq(Parts)
    BY <1>1
  <1>3. QED
    BY <1>2 DEF Prefix, Routers

\* A request for path has come to router with rest of it left.
Reached(router, path, rest) ==
    LET n == Len(Prefix[router])
    IN  /\ Len(path) = n + Len(rest)
        /\ \A i \in 1 .. n : path[i] = Prefix[router][i]
        /\ \A i \in 1 .. Len(rest) : path[n + i] = rest[i]

LEMMA PrefixIs ==
    ASSUME NEW router \in Routers, NEW path \in Seq(Parts), NEW rest \in Seq(Parts)
    PROVE  Prefix[router] \o rest = path <=> Reached(router, path, rest)
  <1>1. PICK a \in Seq(Parts) : a = Prefix[router]
    BY PrefixType
  <1>2. a \o rest = path <=> /\ Len(path) = Len(a) + Len(rest)
                             /\ \A i \in 1 .. Len(a) : path[i] = a[i]
                             /\ \A i \in 1 .. Len(rest) : path[Len(a) + i] = rest[i]
    BY Joined
  <1>3. QED
    BY <1>1, <1>2 DEF Reached

LEMMA OneRest ==
    ASSUME NEW router \in Routers, NEW path \in Seq(Parts),
           NEW rest \in Seq(Parts), NEW other \in Seq(Parts),
           Reached(router, path, rest), Reached(router, path, other)
    PROVE  rest = other
  <1>1. Len(Prefix[router]) \in Nat /\ Len(rest) \in Nat /\ Len(other) \in Nat
    BY PrefixType
  <1>2. Len(rest) = Len(other) /\ \A i \in 1 .. Len(rest) : rest[i] = other[i]
    BY <1>1 DEF Reached
  <1>3. QED
    BY <1>2

\* No router is mounted where rest leads from router.
NoMount(router, rest) ==
    \A m \in Mounts : m[1] = router /\ rest # <<>> => Head(rest) # m[2]

\* The router that answers a path, if one does.
Owner(path) ==
    IF Len(path) = 0 \/ path[1] \notin {"admin", "api", "front"} THEN "app"
    ELSE IF path[1] = "front" THEN "front"
    ELSE IF path[1] = "admin" THEN "adminStatic"
    ELSE IF Len(path) >= 2 /\ path[2] = "admin" THEN "admin" ELSE "api"

\* Where a router stands in the paths it is reached by.
LEMMA ReachedParts ==
    ASSUME NEW path \in Seq(Parts), NEW rest \in Seq(Parts), NEW router \in Routers,
           Reached(router, path, rest)
    PROVE  /\ Len(rest) \in Nat
           /\ router = "app" => Len(path) = Len(rest)
           /\ router = "app" /\ rest # <<>> => Head(rest) = path[1]
           /\ router = "api" => /\ Len(path) = 1 + Len(rest) /\ path[1] = "api"
                                /\ rest # <<>> => Head(rest) = path[2]
           /\ router = "adminStatic" => Len(path) >= 1 /\ path[1] = "admin"
           /\ router = "front" => Len(path) >= 1 /\ path[1] = "front"
           /\ router = "admin" => /\ Len(path) >= 2 /\ path[1] = "api"
                                  /\ path[2] = "admin"
  <1>1. Len(rest) \in Nat /\ (rest # <<>> => Head(rest) = rest[1] /\ 1 \in 1 .. Len(rest))
    OBVIOUS
  <1>2. CASE router = "app"
    BY <1>1, <1>2, PrefixType DEF Reached
  <1>3. CASE router = "api"
    <2>1. Len(path) = 1 + Len(rest) /\ path[1] = "api"
      BY <1>1, <1>3, PrefixType DEF Reached
    <2>2. rest # <<>> => Head(rest) = path[2]
      BY <1>1, <1>3, PrefixType DEF Reached
    <2>3. QED
      BY <1>1, <1>3, <2>1, <2>2
  <1>4. CASE router = "adminStatic"
    BY <1>1, <1>4, PrefixType DEF Reached
  <1>5. CASE router = "front"
    BY <1>1, <1>5, PrefixType DEF Reached
  <1>6. CASE router = "admin"
    BY <1>1, <1>6, PrefixType DEF Reached
  <1>7. QED
    BY <1>2, <1>3, <1>4, <1>5, <1>6 DEF Routers

LEMMA OwnerIs ==
    ASSUME NEW path \in Seq(Parts), NEW router \in Routers, NEW rest \in Seq(Parts),
           Reached(router, path, rest), NoMount(router, rest)
    PROVE  router = Owner(path)
  <1>0. Len(rest) \in Nat /\ (Len(rest) > 0 => rest # <<>>)
    OBVIOUS
  <1>1. CASE router = "app"
    <2>1. rest # <<>> => path[1] \notin {"admin", "api", "front"}
      BY <1>1, ReachedParts DEF NoMount, Mounts
    <2>2. QED
      BY <1>0, <1>1, <2>1, ReachedParts DEF Owner
  <1>2. CASE router = "api"
    <2>1. rest # <<>> => path[2] # "admin"
      BY <1>2, ReachedParts DEF NoMount, Mounts
    <2>2. QED
      BY <1>0, <1>2, <2>1, ReachedParts DEF Owner
  <1>3. CASE router \in {"admin", "adminStatic", "front"}
    BY <1>3, ReachedParts DEF Owner
  <1>4. QED
    BY <1>1, <1>2, <1>3 DEF Routers

\* The handlers a router looks up.
Handlers(router, method, path) ==
    {t \in Table : t[1] = router /\ t[2] = method /\ t[3] = path}

\* The handlers that are looked up last are all that are registered for the path.
LEMMA HandlersAreRegistered ==
    ASSUME NothingHidden(Table), NEW req, Normal(req.path) \in Seq(Parts),
           NEW router \in Routers, NEW rest \in Seq(Parts),
           Reached(router, Normal(req.path), rest), NoMount(router, rest)
    PROVE  Handlers(router, req.method, rest) = Registered(req)
  <1> DEFINE path == Normal(req.path)
  <1>1. ASSUME NEW t \in Table
        PROVE  (t[1] = router /\ t[3] = rest) <=> Prefix[t[1]] \o t[3] = path
    <2>1. t[1] \in Routers /\ t[3] \in Seq(Parts)
      BY TableType, TablePaths
    <2>2. Prefix[t[1]] \o t[3] = path <=> Reached(t[1], path, t[3])
      BY <2>1, PrefixIs
    <2>3. NoMount(t[1], t[3])
      BY DEF NothingHidden, NoMount
    <2>4. ASSUME Reached(t[1], path, t[3]) PROVE t[1] = router /\ t[3] = rest
      <3>1. t[1] = router
        BY <2>1, <2>3, <2>4, OwnerIs
      <3>2. QED
        BY <2>1, <2>4, <3>1, OneRest
    <2>5. QED
      BY <2>2, <2>4
  <1>2. QED
    BY <1>1 DEF Registered, Handlers

-----------------------------------------------------------------------------
(* What is expected of a request.                                          *)

\* What is left of a sequence without its first n elements, and those.
LEMMA CutPath ==
    ASSUME NEW S, NEW p \in Seq(S), NEW n \in 0 .. Len(p)
    PROVE  /\ SubSeq(p, n + 1, Len(p)) \in Seq(S)
           /\ Len(SubSeq(p, n + 1, Len(p))) = Len(p) - n
           /\ \A i \in 1 .. Len(p) - n : SubSeq(p, n + 1, Len(p))[i] = p[n + i]
           /\ SubSeq(p, 1, n) \in Seq(S)
           /\ Len(SubSeq(p, 1, n)) = n
           /\ \A i \in 1 .. n : SubSeq(p, 1, n)[i] = p[i]
  <1>1. Len(p) \in Nat /\ n \in Nat /\ n <= Len(p)
    OBVIOUS
  <1>2. /\ SubSeq(p, n + 1, Len(p)) \in Seq(S)
        /\ SubSeq(p, 1, n) \in Seq(S)
    BY <1>1
  <1>3. /\ Len(SubSeq(p, n + 1, Len(p))) = Len(p) - n
        /\ Len(SubSeq(p, 1, n)) = n
    BY <1>1
  <1>4. \A i \in 1 .. n : SubSeq(p, 1, n)[i] = p[i]
    BY <1>1
  <1>5. ASSUME NEW i \in 1 .. Len(p) - n
        PROVE  SubSeq(p, n + 1, Len(p))[i] = p[n + i]
    <2>1. (n + 1) + i - 1 = n + i /\ i \in 1 .. Len(p) - (n + 1) + 1
      BY <1>1
    <2>2. QED
      BY <1>1, <2>1
  <1>6. QED
    BY <1>2, <1>3, <1>4, <1>5

\* What a request for path finds below the router it has come to.
LEMMA Below ==
    ASSUME NEW router \in Routers, NEW path \in Seq(Parts)
    PROVE  /\ IsPrefix(Prefix[router], path) =>
                Reached(router, path, SubSeq(path, Len(Prefix[router]) + 1, Len(path)))
           /\ IsPrefix(Prefix[router], path) =>
                SubSeq(path, Len(Prefix[router]) + 1, Len(path)) \in Seq(Parts)
           /\ \A rest \in Seq(Parts) :
                 Reached(router, path, rest) =>
                   /\ IsPrefix(Prefix[router], path)
                   /\ SubSeq(path, Len(Prefix[router]) + 1, Len(path)) = rest
  <1> DEFINE n == Len(Prefix[router])
             tail == SubSeq(path, n + 1, Len(path))
  <1>0. Prefix[router] \in Seq(Parts) /\ n \in Nat /\ Len(path) \in Nat
    BY PrefixType
  <1>1. ASSUME IsPrefix(Prefix[router], path) PROVE Reached(router, path, tail)
    <2>1. n <= Len(path)
      BY <1>1 DEF IsPrefix
    <2>2. Len(tail) = Len(path) - n /\ \A i \in 1 .. Len(path) - n : tail[i] = path[n + i]
      <3>1. n \in 0 .. Len(path)
        BY <1>0, <2>1
      <3> HIDE DEF n
      <3>2. QED
        BY <3>1, CutPath
    <2>3. \A i \in 1 .. n : path[i] = Prefix[router][i]
      <3>1. SubSeq(Prefix[router], 1, n) = SubSeq(path, 1, n)
        BY <1>1 DEF IsPrefix
      <3>2. \A i \in 1 .. n : /\ SubSeq(Prefix[router], 1, n)[i] = Prefix[router][i]
                              /\ SubSeq(path, 1, n)[i] = path[i]
        BY <1>0, <2>1, CutPath
      <3>3. QED
        BY <3>1, <3>2
    <2> HIDE DEF tail
    <2>4. QED
      BY <1>0, <2>1, <2>2, <2>3 DEF Reached
  <1>2. ASSUME NEW rest \in Seq(Parts), Reached(router, path, rest)
        PROVE  IsPrefix(Prefix[router], path) /\ tail = rest
    <2>1. n <= Len(path)
      BY <1>0, <1>2 DEF Reached
    <2>2. IsPrefix(Prefix[router], path)
      <3> DEFINE u == SubSeq(Prefix[router], 1, n)
                 v == SubSeq(path, 1, n)
      <3>1. u \in Seq(Parts) /\ v \in Seq(Parts) /\ Len(u) = n /\ Len(v) = n
        BY <1>0, <2>1, CutPath
      <3>2. \A i \in 1 .. n : u[i] = v[i]
        <4>1. \A i \in 1 .. n : u[i] = Prefix[router][i] /\ v[i] = path[i]
          BY <1>0, <2>1, CutPath
        <4>2. QED
          BY <1>2, <4>1 DEF Reached
      <3> HIDE DEF u, v
      <3>3. u = v
        <4>1. Len(u) = Len(v) /\ \A i \in 1 .. Len(u) : u[i] = v[i]
          BY <3>1, <3>2
        <4>2. QED
          BY <3>1, <4>1
      <3>4. QED
        BY <2>1, <3>3 DEF IsPrefix, u, v
    <2>3. Reached(router, path, tail) /\ tail \in Seq(Parts)
      BY <1>0, <1>1, <2>1, <2>2, CutPath
    <2> HIDE DEF tail
    <2>4. QED
      BY <1>2, <2>2, <2>3, OneRest
  <1>3. IsPrefix(Prefix[router], path) => tail \in Seq(Parts)
    BY <1>0, CutPath DEF IsPrefix
  <1>4. QED
    BY <1>1, <1>2, <1>3

\* A page comes from the root or from the router that owns the path.
LEMMA PageIs ==
    ASSUME NEW req, Normal(req.path) \in Seq(Parts),
           NEW router \in Routers, NEW rest \in Seq(Parts),
           Reached(router, Normal(req.path), rest), router = Owner(Normal(req.path))
    PROVE  Page(req) = IF req.method # "GET" THEN <<>>
                       ELSE IF Available("front", Normal(req.path)) # <<>>
                         THEN Available("front", Normal(req.path))
                       ELSE IF router = "adminStatic" THEN Available("front_admin", rest)
                       ELSE IF router = "front" THEN Available("front", rest)
                       ELSE <<>>
  <1> DEFINE path == Normal(req.path)
             at(r, dir) == IF IsPrefix(Prefix[r], path)
                           THEN Available(dir, SubSeq(path, Len(Prefix[r]) + 1, Len(path)))
                           ELSE <<>>
             pages == <<at("app", "front"), at("adminStatic", "front_admin"),
                        at("front", "front")>>
             found == {i \in DOMAIN pages : pages[i] # <<>>}
  <1>0. \A r \in {"app", "adminStatic", "front"} : r \in Routers
    BY DEF Routers
  <1>1. Page(req) = IF req.method # "GET" \/ found = {} THEN <<>>
                    ELSE pages[CHOOSE i \in found : \A j \in found : i <= j]
    BY DEF Page
  <1>2. at("app", "front") = Available("front", path)
    <2>1. Reached("app", path, path)
      BY PrefixType DEF Reached
    <2>2. QED
      BY <1>0, <2>1, Below
  <1>3. ASSUME NEW r \in {"adminStatic", "front"}, NEW dir
        PROVE  at(r, dir) = IF r = router THEN Available(dir, rest) ELSE <<>>
    <2>1. CASE r = router
      BY <2>1, Below
    <2>2. CASE r # router
      <3>1. ~ IsPrefix(Prefix[r], path)
        <4> SUFFICES ASSUME IsPrefix(Prefix[r], path) PROVE FALSE
          OBVIOUS
        <4> DEFINE tail == SubSeq(path, Len(Prefix[r]) + 1, Len(path))
        <4>1. Reached(r, path, tail)
          BY <1>0, Below
        <4>2. tail \in Seq(Parts)
          BY <1>0, Below
        <4>3. NoMount(r, tail)
          BY DEF NoMount, Mounts
        <4> HIDE DEF tail
        <4>4. QED
          BY <1>0, <2>2, <4>1, <4>2, <4>3, OwnerIs
      <3>2. QED
        BY <2>2, <3>1
    <2>3. QED
      BY <2>1, <2>2
  <1>4. pages = <<at("app", "front"), at("adminStatic", "front_admin"), at("front", "front")>>
        /\ found = {i \in DOMAIN pages : pages[i] # <<>>}
    OBVIOUS
  <1> HIDE DEF at, pages, found
  <1> DEFINE least == CHOOSE i \in found : \A j \in found : i <= j
  <1>5. PICK a, b, c : /\ a = at("app", "front") /\ b = at("adminStatic", "front_admin")
                       /\ c = at("front", "front")
    OBVIOUS
  <1>6. DOMAIN pages = {1, 2, 3} /\ pages[1] = a /\ pages[2] = b /\ pages[3] = c
    BY <1>4, <1>5
  <1>7. found = {i \in {1, 2, 3} : pages[i] # <<>>}
    BY <1>4, <1>6
  <1>8. ASSUME found # {} PROVE least \in found /\ \A j \in found : least <= j
    <2>1. found \subseteq Nat
      BY <1>7
    <2>2. \E i \in found : \A j \in found : i <= j
      BY <1>8, <2>1, Least
    <2>3. QED
      BY <2>2
  <1> HIDE DEF least
  <1>9. (IF found = {} THEN <<>> ELSE pages[least])
          = IF a # <<>> THEN a ELSE IF b # <<>> THEN b ELSE c
    <2>1. (a # <<>> => 1 \in found) /\ (b # <<>> => 2 \in found)
          /\ (c # <<>> => 3 \in found)
      BY <1>6, <1>7
    <2>2. CASE found = {}
      BY <2>1, <2>2
    <2>3. CASE found # {}
      <3>1. least \in {1, 2, 3} /\ pages[least] # <<>> /\ \A j \in found : least <= j
        BY <1>7, <1>8, <2>3
      <3>2. /\ a # <<>> => least = 1
            /\ a = <<>> /\ b # <<>> => least = 2
            /\ a = <<>> /\ b = <<>> => least = 3
        BY <1>6, <2>1, <3>1
      <3>3. QED
        BY <1>6, <2>3, <3>2
    <2>4. QED
      BY <2>2, <2>3
  <1>10. QED
    BY <1>1, <1>2, <1>3, <1>5, <1>9 DEF least

LEMMA ExpectedIs ==
    ASSUME NEW req, Normal(req.path) \in Seq(Parts),
           NEW router \in Routers, NEW rest \in Seq(Parts),
           Reached(router, Normal(req.path), rest), router = Owner(Normal(req.path))
    PROVE  Expected(req) =
             IF req.origin = "foreign" THEN "forbidden"
             ELSE IF req.cookie = "broken" THEN "terminated"
             ELSE IF req.method = "HEAD" THEN "raised"
             ELSE IF Page(req) # <<>> THEN "file"
             ELSE IF router = "admin" /\ req.cookie # "admin" THEN "refused"
             ELSE IF Registered(req) = {} THEN "missing"
             ELSE (CHOOSE t \in Registered(req) : TRUE)[4]
  <1>1. req.method = "HEAD" => Page(req) = <<>>
    BY DEF Page
  <1>2. IsPrefix(Prefix["admin"], Normal(req.path)) <=> router = "admin"
    <2> DEFINE tail == SubSeq(Normal(req.path), Len(Prefix["admin"]) + 1,
                              Len(Normal(req.path)))
    <2>1. "admin" \in Routers
      BY DEF Routers
    <2>2. router = "admin" => IsPrefix(Prefix["admin"], Normal(req.path))
      BY Below
    <2>3. ASSUME IsPrefix(Prefix["admin"], Normal(req.path)) PROVE router = "admin"
      <3>1. Reached("admin", Normal(req.path), tail) /\ tail \in Seq(Parts)
        BY <2>1, <2>3, Below
      <3>2. NoMount("admin", tail)
        BY DEF NoMount, Mounts
      <3> HIDE DEF tail
      <3>3. QED
        BY <2>1, <3>1, <3>2, OwnerIs
    <2>4. QED
      BY <2>2, <2>3
  <1>3. QED
    BY <1>1, <1>2 DEF Expected

-----------------------------------------------------------------------------
(* Where a request is, and what it has passed.                             *)

LEMMA NormalType ==
    ASSUME NEW req \in Request
    PROVE  Normal(req.path) \in Seq(Parts)
  <1>1. req.path \in Seq(STRING)
    BY DEF Request
  <1>2. req.path # <<>> => Front(req.path) \in Seq(STRING)
    BY <1>1 DEF Front
  <1>3. Seq(STRING) \subseteq Seq(Parts)
    BY DEF Parts
  <1>4. QED
    BY <1>1, <1>2, <1>3 DEF Normal

LEMMA HeadType ==
    ASSUME NEW S, NEW q \in Seq(S), q # <<>>
    PROVE  Head(q) = q[1] /\ Len(q) \in Nat \ {0}
  OBVIOUS

LEMMA InRange ==
    ASSUME NEW S, NEW q \in Seq(S), NEW i \in Nat \ {0}, i <= Len(q)
    PROVE  q[i] \in Range(q)
  BY DEF Range

LEMMA RestRange ==
    ASSUME NEW path \in Seq(Parts), NEW rest \in Seq(Parts), NEW router \in Routers,
           Reached(router, path, rest), rest # <<>>
    PROVE  Head(rest) \in Range(path)
  <1>1. PICK n \in Nat : n = Len(Prefix[router])
    BY PrefixType
  <1>2. Head(rest) = rest[1] /\ Len(rest) \in Nat \ {0}
    BY HeadType
  <1>3. Len(path) = n + Len(rest) /\ path[n + 1] = rest[1]
    BY <1>1, <1>2 DEF Reached
  <1>4. n + 1 \in Nat \ {0} /\ n + 1 <= Len(path)
    BY <1>2, <1>3
  <1>5. QED
    BY <1>2, <1>3, <1>4, InRange

\* Without an empty part in the path, no router drops one.
LEMMA StripRest ==
    ASSUME NEW path \in Seq(Parts), NEW rest \in Seq(Parts), NEW router \in Routers,
           Reached(router, path, rest), "" \notin Range(path)
    PROVE  Strip(rest) = rest
  BY RestRange DEF Strip

\* r is req on its way.
Coming(req, r) ==
    /\ r.method = req.method /\ r.origin = req.origin /\ r.cookie = req.cookie
    /\ r.session \in {"none", req.cookie}

\* What a request has passed once a router beyond the first one has it.
Entered(req) ==
    /\ req.origin # "foreign" /\ req.cookie # "broken" /\ req.method # "HEAD"
    /\ req.method = "GET" => Available("front", Normal(req.path)) = <<>>

\* What it has passed once a router looks for a handler.
Passed(req, s) ==
    /\ s.session = req.cookie
    /\ req.origin # "foreign" /\ req.cookie # "broken"
    /\ s.router # "app" => req.method # "HEAD"
    /\ req.method = "GET" =>
         /\ Available("front", Normal(req.path)) = <<>>
         /\ s.router = "adminStatic" => Available("front_admin", s.rest) = <<>>
         /\ s.router = "front" => Available("front", s.rest) = <<>>
    /\ s.router = "admin" => req.cookie = "admin"

LEMMA StaticIs ==
    ASSUME NEW dir, NEW r \in Routing
    PROVE  LET s == StaticServe(dir, r)
               file == Available(dir, r.rest)
           IN  IF r.method = "GET" /\ file # <<>>
               THEN /\ s.answer = "file" /\ s.file = file
                    /\ s.method = r.method /\ s.origin = r.origin /\ s.cookie = r.cookie
                    /\ s.session = r.session /\ s.router = r.router /\ s.rest = r.rest
               ELSE s = r
  <1> DEFINE file == Available(dir, r.rest)
  <1>1. StaticServe(dir, r) = IF r.method = "GET" /\ file # <<>>
                              THEN [r EXCEPT !.answer = "file", !.file = file] ELSE r
    BY DEF StaticServe
  <1> HIDE DEF file
  <1>2. QED
    BY <1>1 DEF Routing, file

\* The middlewares of each router.
LEMMA MiddleIs ==
    ASSUME NEW r, r.answer = "none"
    PROVE  LET s == HandleMiddlewares(r)
           IN  /\ r.router = "app" =>
                    s = IF r.origin = "foreign"
                        THEN On("front", On("CookieParser", Answer(r, "forbidden")))
                        ELSE On("front", CookieParser(r))
               /\ r.router = "api" => s = r
               /\ r.router = "admin" => s = AdminMiddleware(r)
               /\ r.router = "adminStatic" => s = StaticServe("front_admin", r)
               /\ r.router = "front" => s = StaticServe("front", r)
  <1>1. On("Cors", r) = IF r.origin = "foreign" THEN Answer(r, "forbidden") ELSE r
    BY DEF On, Use, Cors
  <1>2. On("CookieParser", r) = CookieParser(r)
    BY DEF On, Use
  <1>3. On("AdminMiddleware", r) = AdminMiddleware(r)
    BY DEF On, Use
  <1>4. On("front_admin", r) = StaticServe("front_admin", r)
    BY DEF On, Use
  <1>5. On("front", r) = StaticServe("front", r)
    BY DEF On, Use
  <1>6. QED
    BY <1>1, <1>2, <1>3, <1>4, <1>5, Middle

LEMMA MiddleApp ==
    ASSUME NEW r \in Routing, r.answer = "none", r.router = "app"
    PROVE  LET s == HandleMiddlewares(r)
               file == Available("front", r.rest)
           IN  /\ s.method = r.method /\ s.origin = r.origin /\ s.cookie = r.cookie
               /\ s.router = "app" /\ s.rest = r.rest
               /\ r.origin = "foreign" => s.answer = "forbidden" /\ s.session = r.session
               /\ r.origin # "foreign" /\ r.cookie = "broken" =>
                    s.answer = "terminated" /\ s.session = r.session
               /\ r.origin # "foreign" /\ r.cookie # "broken" =>
                    /\ s.session = r.cookie
                    /\ IF r.method = "GET" /\ file # <<>>
                       THEN s.answer = "file" /\ s.file = file
                       ELSE s.answer = "none"
  <1> DEFINE s == HandleMiddlewares(r)
             c == CookieParser(r)
             a == Answer(r, "forbidden")
             b == Answer(r, "terminated")
  <1>1. CASE r.origin = "foreign"
    <2>1. a.answer = "forbidden" /\ a.method = r.method /\ a.origin = r.origin
          /\ a.cookie = r.cookie /\ a.router = "app" /\ a.rest = r.rest
          /\ a.session = r.session
      BY DEF Answer, Routing
    <2> HIDE DEF a
    <2>2. On("front", On("CookieParser", a)) = a
      BY <2>1 DEF On
    <2>3. s = a
      BY <1>1, <2>2, MiddleIs DEF a
    <2>4. QED
      BY <1>1, <2>1, <2>3
  <1>2. CASE r.origin # "foreign" /\ r.cookie = "broken"
    <2>1. b.answer = "terminated" /\ b.method = r.method /\ b.origin = r.origin
          /\ b.cookie = r.cookie /\ b.router = "app" /\ b.rest = r.rest
          /\ b.session = r.session
      BY DEF Answer, Routing
    <2>2. CookieParser(r) = b
      BY <1>2 DEF CookieParser
    <2> HIDE DEF a, b
    <2>3. On("front", b) = b
      BY <2>1 DEF On
    <2>4. s = b
      BY <1>2, <2>2, <2>3, MiddleIs
    <2>5. QED
      BY <1>2, <2>1, <2>4
  <1>3. CASE r.origin # "foreign" /\ r.cookie # "broken"
    <2>1. c \in Routing /\ c.answer = "none" /\ c.method = r.method
          /\ c.origin = r.origin /\ c.cookie = r.cookie /\ c.router = "app"
          /\ c.rest = r.rest /\ c.session = r.cookie
      BY <1>3 DEF CookieParser, Routing
    <2> HIDE DEF c
    <2>2. On("front", c) = StaticServe("front", c)
      BY <2>1 DEF On, Use
    <2>3. s = StaticServe("front", c)
      BY <1>3, <2>2, MiddleIs DEF c
    <2>4. QED
      BY <1>3, <2>1, <2>3, StaticIs
  <1>4. QED
    BY <1>1, <1>2, <1>3

LEMMA OwnerReached ==
    ASSUME NEW path \in Seq(Parts)
    PROVE  /\ Owner(path) \in Routers
           /\ \E rest \in Seq(Parts) : Reached(Owner(path), path, rest)
  <1> DEFINE router == Owner(path)
  <1>1. router \in Routers /\ Len(path) \in Nat
    BY DEF Owner, Routers
  <1>2. PICK n \in Nat : n = Len(Prefix[router])
    BY <1>1, PrefixType
  <1>3. n <= Len(path) /\ \A i \in 1 .. n : path[i] = Prefix[router][i]
    <2>1. CASE router = "app"
      BY <1>1, <1>2, <2>1, PrefixType
    <2>2. CASE router = "front"
      <3>1. Len(path) # 0 /\ path[1] = "front"
        BY <2>2 DEF Owner
      <3>2. QED
        BY <1>1, <1>2, <2>2, <3>1, PrefixType
    <2>3. CASE router = "adminStatic"
      <3>1. Len(path) # 0 /\ path[1] = "admin"
        BY <2>3 DEF Owner
      <3>2. QED
        BY <1>1, <1>2, <2>3, <3>1, PrefixType
    <2>4. CASE router = "api"
      <3>1. Len(path) # 0 /\ path[1] = "api"
        BY <2>4 DEF Owner
      <3>2. QED
        BY <1>1, <1>2, <2>4, <3>1, PrefixType
    <2>5. CASE router = "admin"
      <3>1. Len(path) >= 2 /\ path[1] = "api" /\ path[2] = "admin"
        BY <2>5 DEF Owner
      <3>2. n = 2
        BY <1>2, <2>5, PrefixType
      <3>3. \A i \in 1 .. n : i = 1 \/ i = 2
        BY <3>2
      <3>4. QED
        BY <2>5, <3>1, <3>2, <3>3, PrefixType
    <2>6. QED
      BY <1>1, <2>1, <2>2, <2>3, <2>4, <2>5 DEF Routers
  <1>4. n \in 0 .. Len(path)
    BY <1>1, <1>3
  <1>5. PICK rest : rest = SubSeq(path, n + 1, Len(path))
    OBVIOUS
  <1>6. /\ rest \in Seq(Parts) /\ Len(rest) = Len(path) - n
        /\ \A i \in 1 .. Len(path) - n : rest[i] = path[n + i]
    BY <1>4, <1>5, CutPath
  <1> HIDE DEF router
  <1>7. Reached(router, path, rest)
    BY <1>1, <1>2, <1>3, <1>6 DEF Reached
  <1>8. QED
    BY <1>1, <1>6, <1>7 DEF router

\* The answer is the expected one.
Answered(req, r) == /\ r.answer = Expected(req)
                    /\ r.answer = "file" => r.file = Page(req)

\* A request that no router has answered is where its path leads, and has passed
\* what stands before.
Underneath(req, r) ==
    /\ Reached(r.router, Normal(req.path), r.rest)
    /\ r.router # "app" => Entered(req) /\ r.session = req.cookie

\* A router's middlewares answer as expected, or let the request pass.
LEMMA MiddleRight ==
    ASSUME NEW req \in Request, NEW r \in Routing, r.answer = "none",
           Coming(req, r), Underneath(req, r), NEW s, s = HandleMiddlewares(r)
    PROVE  /\ s.router = r.router /\ s.rest = r.rest /\ s.method = req.method
           /\ s.answer = "none" => Passed(req, s)
           /\ s.answer # "none" => Answered(req, s)
  <1> DEFINE path == Normal(req.path)
  <1>0. path \in Seq(Parts) /\ r.rest \in Seq(Parts) /\ r.router \in Routers
    <2>1. Seq(STRING) \subseteq Seq(Parts)
      BY DEF Parts
    <2>2. QED
      BY <2>1, NormalType DEF Routing
  <1>1. CASE r.router = "app"
    <2>1. r.rest = path
      <3>1. Reached("app", path, path) /\ Reached("app", path, r.rest)
        BY <1>0, <1>1, PrefixType DEF Underneath, Reached
      <3>2. QED
        BY <1>0, <1>1, <3>1, OneRest
    <2>2. PICK rest \in Seq(Parts) : Reached(Owner(path), path, rest)
      BY <1>0, OwnerReached
    <2>3. CASE r.origin = "foreign"
      <3>1. Expected(req) = "forbidden"
        BY <1>0, <2>2, <2>3, ExpectedIs, OwnerReached DEF Coming
      <3>2. QED
        BY <1>1, <2>3, <3>1, MiddleApp DEF Coming, Answered
    <2>7. CASE r.origin # "foreign" /\ r.cookie = "broken"
      <3>1. Expected(req) = "terminated"
        BY <1>0, <2>2, <2>7, ExpectedIs, OwnerReached DEF Coming
      <3>2. QED
        BY <1>1, <2>7, <3>1, MiddleApp DEF Coming, Answered
    <2>4. CASE /\ r.origin # "foreign" /\ r.cookie # "broken" /\ r.method = "GET"
               /\ Available("front", path) # <<>>
      <3>1. Page(req) = Available("front", path)
        BY <1>0, <2>2, <2>4, PageIs, OwnerReached DEF Coming
      <3>2. Expected(req) = "file"
        BY <1>0, <2>2, <2>4, <3>1, ExpectedIs, OwnerReached DEF Coming
      <3>3. QED
        BY <1>1, <2>1, <2>4, <3>1, <3>2, MiddleApp DEF Coming, Answered
    <2>5. CASE /\ r.origin # "foreign" /\ r.cookie # "broken"
               /\ ~ (r.method = "GET" /\ Available("front", path) # <<>>)
      BY <1>1, <2>1, <2>5, MiddleApp DEF Coming, Passed
    <2>6. QED
      BY <2>3, <2>4, <2>5, <2>7
  <1>2. CASE r.router = "api"
    <2>1. s = r
      BY <1>2, MiddleIs
    <2>2. QED
      BY <1>2, <2>1 DEF Underneath, Entered, Passed, Coming
  <1>3. CASE r.router = "admin"
    <2>1. s = AdminMiddleware(r)
      BY <1>3, MiddleIs
    <2>2. CASE r.session = "admin"
      <3>1. s = r
        BY <2>1, <2>2 DEF AdminMiddleware
      <3>2. QED
        BY <1>3, <2>2, <3>1 DEF Underneath, Entered, Passed, Coming
    <2>3. CASE r.session # "admin"
      <3>1. s.answer = "refused" /\ s.router = r.router /\ s.rest = r.rest
            /\ s.method = r.method
        BY <2>1, <2>3 DEF AdminMiddleware, Answer, Routing
      <3>2. r.router = Owner(path)
        <4>1. NoMount(r.router, r.rest)
          BY <1>3 DEF NoMount, Mounts
        <4>2. QED
          BY <1>0, <4>1, OwnerIs DEF Underneath
      <3>3. Page(req) = <<>>
        BY <1>0, <1>3, <3>2, PageIs DEF Underneath, Entered
      <3>4. Expected(req) = "refused"
        BY <1>0, <1>3, <2>3, <3>2, <3>3, ExpectedIs DEF Underneath, Entered, Coming
      <3>5. QED
        BY <3>1, <3>4 DEF Answered, Coming
    <2>4. QED
      BY <2>2, <2>3
  <1>4. ASSUME NEW dir, \/ r.router = "adminStatic" /\ dir = "front_admin"
                        \/ r.router = "front" /\ dir = "front"
        PROVE  /\ s.router = r.router /\ s.rest = r.rest /\ s.method = req.method
               /\ s.answer = "none" => Passed(req, s)
               /\ s.answer # "none" => Answered(req, s)
    <2>1. s = StaticServe(dir, r)
      BY <1>4, MiddleIs
    <2>2. CASE r.method = "GET" /\ Available(dir, r.rest) # <<>>
      <3>1. s.answer = "file" /\ s.file = Available(dir, r.rest)
            /\ s.router = r.router /\ s.rest = r.rest /\ s.method = r.method
        BY <2>1, <2>2, StaticIs
      <3>2. r.router = Owner(path)
        <4>1. NoMount(r.router, r.rest)
          BY <1>4 DEF NoMount, Mounts
        <4>2. QED
          BY <1>0, <4>1, OwnerIs DEF Underneath
      <3>3. Page(req) = Available(dir, r.rest)
        BY <1>0, <1>4, <2>2, <3>2, PageIs DEF Underneath, Entered, Coming
      <3>4. Expected(req) = "file"
        BY <1>0, <1>4, <2>2, <3>2, <3>3, ExpectedIs DEF Underneath, Entered, Coming
      <3>5. QED
        BY <3>1, <3>3, <3>4 DEF Answered, Coming
    <2>3. CASE ~ (r.method = "GET" /\ Available(dir, r.rest) # <<>>)
      <3>1. s = r
        BY <2>1, <2>3, StaticIs
      <3>2. QED
        BY <1>4, <2>3, <3>1 DEF Underneath, Entered, Passed, Coming
    <2>4. QED
      BY <2>2, <2>3
  <1>5. QED
    BY <1>0, <1>1, <1>2, <1>3, <1>4 DEF Routers

\* A mount leads to the router whose place is one part further on.
LEMMA Deeper ==
    ASSUME NEW path \in Seq(Parts), NEW rest \in Seq(Parts), rest # <<>>,
           NEW m \in Mounts, Head(rest) = m[2], Reached(m[1], path, rest)
    PROVE  Reached(m[3], path, Tail(rest))
  <1>1. PICK tail : tail = Tail(rest)
    OBVIOUS
  <1>2. /\ rest[1] = m[2] /\ Len(rest) \in Nat \ {0} /\ tail \in Seq(Parts)
        /\ Len(rest) = 1 + Len(tail)
        /\ \A i \in 1 .. Len(tail) : tail[i] = rest[1 + i]
    BY <1>1
  <1>3. /\ Len(tail) \in Nat /\ 1 \in 1 .. Len(rest)
        /\ \A i \in 1 .. Len(tail) : 1 + i \in 1 .. Len(rest)
    BY <1>2
  <1>4. CASE m[1] = "app"
    <2>1. /\ Len(path) = Len(rest) /\ \A i \in 1 .. Len(rest) : path[i] = rest[i]
      BY <1>2, <1>4, PrefixType DEF Reached
    <2>2. m[2] = Prefix[m[3]][1] /\ Len(Prefix[m[3]]) = 1
      BY <1>4, PrefixType DEF Mounts
    <2>3. Len(path) = 1 + Len(tail) /\ path[1] = Prefix[m[3]][1]
      BY <1>2, <1>3, <2>1, <2>2
    <2>4. \A i \in 1 .. Len(tail) : tail[i] = path[1 + i]
      BY <1>2, <1>3, <2>1
    <2>5. QED
      BY <1>1, <2>2, <2>3, <2>4 DEF Reached
  <1>5. CASE m[1] = "api"
    <2>1. /\ Len(path) = 1 + Len(rest) /\ path[1] = "api"
          /\ \A i \in 1 .. Len(rest) : rest[i] = path[1 + i]
      BY <1>2, <1>5, PrefixType DEF Reached
    <2>2. m[3] = "admin" /\ m[2] = "admin"
      BY <1>5 DEF Mounts
    <2>3. Len(path) = 2 + Len(tail) /\ path[2] = "admin"
      BY <1>2, <1>3, <2>1, <2>2
    <2>4. ASSUME NEW i \in 1 .. Len(tail) PROVE tail[i] = path[2 + i]
      <3>1. 1 + (1 + i) = 2 + i
        BY <1>3
      <3>2. QED
        BY <1>2, <1>3, <2>1, <3>1
    <2>5. ASSUME NEW i \in 1 .. Len(Prefix["admin"]) PROVE path[i] = Prefix["admin"][i]
      <3>1. i = 1 \/ i = 2
        BY PrefixType
      <3>2. QED
        BY <2>1, <2>3, <3>1, PrefixType
    <2>6. QED
      BY <1>1, <2>2, <2>3, <2>4, <2>5, PrefixType DEF Reached
  <1>6. QED
    BY <1>4, <1>5 DEF Mounts

\* A mount under which path leads from where s is to where q is.
Mounted(m, s, path, q) == /\ m[1] = s.router /\ path # <<>> /\ Head(path) = m[2]
                          /\ q = [s EXCEPT !.router = m[3], !.rest = Tail(path)]

\* What handleRequest makes of s, which the middlewares have left.
Handled(s, path, handlers, q) ==
    \/ s.answer # "none" /\ q = s
    \/ s.answer = "none" /\ s.method = "HEAD" /\ q = Answer(s, "raised")
    \/ /\ s.answer = "none" /\ s.method # "HEAD" /\ handlers # {}
       /\ q = Answer(s, (CHOOSE t \in handlers : TRUE)[4])
    \/ /\ s.answer = "none" /\ s.method # "HEAD" /\ handlers = {}
       /\ \E m \in Mounts : Mounted(m, s, path, q)
    \/ /\ s.answer = "none" /\ s.method # "HEAD" /\ handlers = {}
       /\ NoMount(s.router, path) /\ q = Answer(s, "missing")

LEMMA HandleRequestIs ==
    ASSUME NEW r, NEW s, s = HandleMiddlewares(r), NEW path, Strip(s.rest) = path,
           NEW q, q = HandleRequest(r), NEW handlers,
           handlers = Handlers(s.router, s.method, path)
    PROVE  Handled(s, path, handlers, q)
  <1> USE DEF Handled, Mounted
  <1> DEFINE below == {m \in Mounts : m[1] = s.router /\ path # <<>> /\ Head(path) = m[2]}
  <1>0. q = LET m == HandleMiddlewares(r)
                p == Strip(m.rest)
                found == Handlers(m.router, m.method, p)
                under == {n \in Mounts : n[1] = m.router /\ p # <<>> /\ Head(p) = n[2]}
            IN  IF m.answer # "none" THEN m
                ELSE IF m.method = "HEAD" THEN Answer(m, "raised")
                ELSE IF found # {} THEN Answer(m, (CHOOSE t \in found : TRUE)[4])
                ELSE IF under # {} THEN [m EXCEPT !.router = (CHOOSE n \in under : TRUE)[3],
                                                  !.rest = Tail(p)]
                ELSE Answer(m, "missing")
    BY DEF HandleRequest, Dispatch, Handlers
  <1>1. q = IF s.answer # "none" THEN s
            ELSE IF s.method = "HEAD" THEN Answer(s, "raised")
            ELSE IF handlers # {} THEN Answer(s, (CHOOSE t \in handlers : TRUE)[4])
            ELSE IF below # {} THEN [s EXCEPT !.router = (CHOOSE m \in below : TRUE)[3],
                                              !.rest = Tail(path)]
            ELSE Answer(s, "missing")
    BY Zenon, <1>0
  <1>3. /\ \A m \in below : m \in Mounts /\ m[1] = s.router /\ path # <<>> /\ Head(path) = m[2]
        /\ below = {} => NoMount(s.router, path)
    BY DEF NoMount
  <1>4. below # {} => (CHOOSE m \in below : TRUE) \in below
    OBVIOUS
  <1> HIDE DEF below
  <1>5. CASE s.answer # "none" \/ s.method = "HEAD" \/ handlers # {} \/ below = {}
    BY <1>1, <1>3, <1>5
  <1>6. CASE s.answer = "none" /\ s.method # "HEAD" /\ handlers = {} /\ below # {}
    BY <1>1, <1>3, <1>4, <1>6
  <1>7. QED
    BY <1>5, <1>6

LEMMA PartsSeq == Seq(STRING) \subseteq Seq(Parts)
  BY DEF Parts

\* What the middlewares of any router leave of a request, wherever it is: they
\* answer with no handler, and the admin router's let only admins pass.
LEMMA MiddleComing ==
    ASSUME NEW req, NEW r \in Routing, r.answer = "none", Coming(req, r),
           NEW s, s = HandleMiddlewares(r)
    PROVE  /\ Coming(req, s) /\ s.router = r.router /\ s.rest = r.rest
           /\ s.answer \in Unhandled
           /\ r.router = "admin" /\ s.answer = "none" => req.cookie = "admin"
  <1> USE DEF Coming
  <1>1. CASE r.router = "app"
    <2>1. s.answer \in {"forbidden", "terminated", "file", "none"} /\ s.session \in {"none", req.cookie}
      BY <1>1, MiddleApp
    <2>2. QED
      BY <1>1, <2>1, MiddleApp DEF Unhandled
  <1>2. CASE r.router = "api"
    BY <1>2, MiddleIs DEF Unhandled
  <1>3. CASE r.router = "admin"
    <2>1. s = AdminMiddleware(r)
      BY <1>3, MiddleIs
    <2>2. CASE r.session = "admin"
      BY <2>1, <2>2 DEF AdminMiddleware, Unhandled
    <2>3. CASE r.session # "admin"
      BY <2>1, <2>3 DEF AdminMiddleware, Answer, Routing, Unhandled
    <2>4. QED
      BY <2>2, <2>3
  <1>4. ASSUME NEW dir, s = StaticServe(dir, r)
        PROVE  Coming(req, s) /\ s.router = r.router /\ s.rest = r.rest
               /\ s.answer \in Unhandled
    <2>1. s = r \/ /\ s.answer = "file" /\ s.method = r.method /\ s.origin = r.origin
                   /\ s.cookie = r.cookie /\ s.session = r.session
                   /\ s.router = r.router /\ s.rest = r.rest
      BY <1>4, StaticIs
    <2>2. QED
      BY <2>1 DEF Unhandled
  <1>5. CASE r.router \in {"adminStatic", "front"}
    BY <1>4, <1>5, MiddleIs
  <1>6. QED
    BY <1>1, <1>2, <1>3, <1>5 DEF Routing, Routers

\* One router answers a request as expected, or sends it on where it belongs.
LEMMA RequestRight ==
    ASSUME NothingHidden(Table), NEW req \in Request, "" \notin Range(Normal(req.path)),
           NEW r, RouteOK(r), r.answer = "none",
           Coming(req, r), Underneath(req, r), NEW q, q = HandleRequest(r)
    PROVE  IF q.answer = "none" THEN Underneath(req, q) ELSE Answered(req, q)
  <1> DEFINE path == Normal(req.path)
             rest == r.rest
  <1>1. PICK s : s = HandleMiddlewares(r)
    OBVIOUS
  <1>2. /\ r \in Routing /\ s \in Routing
        /\ path \in Seq(Parts) /\ rest \in Seq(Parts) /\ r.router \in Routers
    BY <1>1, PartsSeq, NormalType, HandleMiddlewaresType DEF RouteOK, Routing
  <1>3. /\ s.router = r.router /\ s.rest = rest /\ s.method = req.method
        /\ s.answer = "none" => Passed(req, s)
        /\ s.answer # "none" => Answered(req, s)
    BY <1>1, <1>2, MiddleRight
  <1>4. Strip(s.rest) = rest
    BY <1>2, <1>3, StripRest DEF Underneath
  <1>5. Reached(s.router, path, rest)
    BY <1>3 DEF Underneath
  <1>0. PICK handlers : handlers = Handlers(s.router, s.method, rest)
    OBVIOUS
  <1>16. Handled(s, rest, handlers, q)
    BY <1>0, <1>1, <1>4, HandleRequestIs
  <1>6. \A a : Answer(s, a).answer = a
    BY <1>2 DEF Answer, Routing
  <1>7. CASE s.answer # "none" /\ q = s
    BY <1>3, <1>7
  <1>8. s.answer = "none" => Passed(req, s)
    BY <1>3
  <1>9. CASE s.answer = "none" /\ s.method = "HEAD" /\ q = Answer(s, "raised")
    <2>1. PICK tail \in Seq(Parts) : Reached(Owner(path), path, tail)
      BY <1>2, OwnerReached
    <2>2. Expected(req) = "raised"
      BY <1>2, <1>3, <1>8, <1>9, <2>1, ExpectedIs, OwnerReached DEF Passed
    <2>3. QED
      BY <1>6, <1>9, <2>2 DEF Answered
  <1>10. ASSUME NoMount(s.router, rest), s.answer = "none", s.method # "HEAD"
         PROVE  Expected(req) = IF Registered(req) = {} THEN "missing"
                                ELSE (CHOOSE t \in Registered(req) : TRUE)[4]
    <2>1. s.router = Owner(path)
      BY <1>2, <1>3, <1>5, <1>10, OwnerIs
    <2>2. Page(req) = <<>>
      BY <1>2, <1>3, <1>5, <1>8, <1>10, <2>1, PageIs DEF Passed
    <2>3. QED
      BY <1>2, <1>3, <1>5, <1>8, <1>10, <2>1, <2>2, ExpectedIs DEF Passed
  <1>11. ASSUME NoMount(s.router, rest) PROVE handlers = Registered(req)
    <2>1. Handlers(s.router, req.method, rest) = Registered(req)
      BY <1>2, <1>3, <1>5, <1>11, HandlersAreRegistered
    <2>2. QED
      BY <1>0, <1>3, <2>1
  <1>12. CASE /\ s.answer = "none" /\ s.method # "HEAD" /\ handlers # {}
              /\ q = Answer(s, (CHOOSE t \in handlers : TRUE)[4])
    <2>1. PICK t \in handlers : t = CHOOSE u \in handlers : TRUE
      BY <1>12
    <2>2. t \in Table /\ t[1] = s.router /\ t[3] = rest
      BY <1>0 DEF Handlers
    <2>3. NoMount(s.router, rest)
      BY <2>2 DEF NothingHidden, NoMount
    <2>4. Expected(req) = t[4]
      BY <1>10, <1>11, <1>12, <2>1, <2>3
    <2>5. t[4] \notin {"none", "file"}
      BY <2>2, TableType DEF Unhandled
    <2>6. q.answer = t[4]
      BY <1>6, <1>12, <2>1
    <2>7. QED
      BY <2>4, <2>5, <2>6 DEF Answered
  <1>13. ASSUME s.answer = "none", s.method # "HEAD", NEW m \in Mounts,
                Mounted(m, s, rest, q)
         PROVE  q.answer = "none" /\ Underneath(req, q)
    <2>1. PICK tail : tail = Tail(rest)
      OBVIOUS
    <2>2. Reached(m[3], path, tail)
      BY <1>2, <1>5, <1>13, <2>1, Deeper DEF Mounted
    <2>3. q.answer = "none" /\ q.router = m[3] /\ q.rest = tail /\ q.session = s.session
      BY <1>2, <1>13, <2>1 DEF Routing, Mounted
    <2>4. Entered(req)
      BY <1>3, <1>8, <1>13 DEF Passed, Entered
    <2>5. QED
      BY <1>8, <1>13, <2>2, <2>3, <2>4 DEF Underneath, Passed
  <1>14. CASE /\ s.answer = "none" /\ s.method # "HEAD" /\ handlers = {}
              /\ NoMount(s.router, rest) /\ q = Answer(s, "missing")
    BY <1>6, <1>10, <1>11, <1>14 DEF Answered
  <1>15. QED
    BY <1>7, <1>9, <1>12, <1>13, <1>14, <1>16 DEF Handled

\* A handler that answers was registered for the method, and admins asked for it
\* if it was registered below /api/admin.
Rightful(req, r) ==
    r.answer \in {t[4] : t \in Table} =>
      \E t \in Table : /\ t[2] = r.method /\ t[4] = r.answer
                       /\ t[1] = "admin" => req.cookie = "admin"

\* Wherever the slashes of a path stand, a handler that answers is rightful.
LEMMA RequestRightful ==
    ASSUME NEW req, NEW r, RouteOK(r), r.answer = "none", Coming(req, r),
           NEW q, q = HandleRequest(r)
    PROVE  Coming(req, q) /\ Rightful(req, q)
  <1>1. PICK s : s = HandleMiddlewares(r)
    OBVIOUS
  <1>2. PICK path : path = Strip(s.rest)
    OBVIOUS
  <1>3. PICK handlers : handlers = Handlers(s.router, s.method, path)
    OBVIOUS
  <1>4. s \in Routing /\ r \in Routing
    BY <1>1, HandleMiddlewaresType DEF RouteOK
  <1>5. /\ Coming(req, s) /\ s.router = r.router /\ s.answer \in Unhandled
        /\ r.router = "admin" /\ s.answer = "none" => req.cookie = "admin"
    BY <1>1, <1>4, MiddleComing
  <1>6. Handled(s, path, handlers, q)
    BY <1>1, <1>2, <1>3, HandleRequestIs
  <1>7. \A a : LET k == Answer(s, a)
               IN  /\ k.answer = a /\ k.method = s.method /\ k.origin = s.origin
                   /\ k.cookie = s.cookie /\ k.session = s.session
    BY <1>4 DEF Answer, Routing
  <1>8. \A a : Coming(req, Answer(s, a))
    BY <1>5, <1>7 DEF Coming
  <1>9. \A a \in Unhandled : a \notin {t[4] : t \in Table}
    BY TableType
  <1>10. CASE s.answer # "none" /\ q = s
    BY <1>5, <1>9, <1>10 DEF Rightful
  <1>11. ASSUME NEW a \in {"raised", "missing"}, q = Answer(s, a)
         PROVE  Coming(req, q) /\ Rightful(req, q)
    BY <1>7, <1>8, <1>9, <1>11 DEF Rightful, Unhandled
  <1>12. CASE /\ s.answer = "none" /\ handlers # {}
              /\ q = Answer(s, (CHOOSE t \in handlers : TRUE)[4])
    <2>1. PICK t \in handlers : t = CHOOSE u \in handlers : TRUE
      BY <1>12
    <2>2. t \in Table /\ t[1] = s.router /\ t[2] = s.method
      BY <1>3 DEF Handlers
    <2>3. q.answer = t[4] /\ q.method = s.method
      BY <1>7, <1>12, <2>1
    <2>4. t[1] = "admin" => req.cookie = "admin"
      BY <1>5, <1>12, <2>2
    <2>5. QED
      BY <1>8, <1>12, <2>2, <2>3, <2>4 DEF Rightful
  <1>13. ASSUME NEW m, s.answer = "none", Mounted(m, s, path, q)
         PROVE  Coming(req, q) /\ Rightful(req, q)
    <2>1. q.answer = "none" /\ q.method = s.method /\ q.origin = s.origin
          /\ q.cookie = s.cookie /\ q.session = s.session
      BY <1>4, <1>13 DEF Mounted, Routing
    <2>2. q.answer \in Unhandled
      BY <2>1 DEF Unhandled
    <2>3. QED
      BY <1>5, <1>9, <2>1, <2>2 DEF Coming, Rightful
  <1>14. QED
    BY <1>6, <1>10, <1>11, <1>12, <1>13 DEF Handled

\* A statement of AdminMiddleware raised, on a path that it guards.
Failed(req, r) == /\ r.answer = "raised" /\ req.cookie # "none"
                  /\ IsPrefix(Prefix["admin"], Normal(req.path))

\* A request that is on its way stands where its path leads; one that has an
\* answer has the one that is registered, or failed.
RouteJob(j) ==
    /\ Coming(j.req, j.route)
    /\ Rightful(j.req, j.route)
    /\ j.step \in Asking => j.route.answer = "none"
    /\ "" \notin Range(Normal(j.req.path)) =>
         IF j.route.answer = "none" THEN Underneath(j.req, j.route)
         ELSE Answered(j.req, j.route) \/ Failed(j.req, j.route)

RouteInv == \A w \in Workers : RouteJob(job[w])

LEMMA RoutePut ==
    ASSUME TypeOK, RouteInv, NEW w \in Workers, NEW k, Put(w, k), RouteJob(k)
    PROVE  RouteInv'
  BY DEF TypeOK, RouteInv, Put

LEMMA RouteRoute ==
    ASSUME NothingHidden(Table), TypeOK, RouteInv, NEW w \in Workers, Route(w)
    PROVE  RouteInv'
  <1> DEFINE j == job[w]
             r == HandleRequest(j.route)
             next == CASE r.answer = "none" -> "route"
                       [] r.answer \in {"raised", "terminated"} -> "raised"
                       [] r.answer = "file" -> "stat"
                       [] r.answer = "sendFiles" -> "add"
                       [] r.answer \in NoHandler -> "end"
                       [] OTHER -> "handler"
             k == [j EXCEPT !.route = r, !.step = next]
  <1>0. JobOK(j) /\ RouteJob(j)
    BY DEF TypeOK, RouteInv
  <1>1. Put(w, k) /\ j.step = "route"
    BY DEF Route, At
  <1>2. next \in Asking => r.answer = "none"
    BY DEF NoHandler, Asking
  <1>3. PICK q : q = r
    OBVIOUS
  <1> HIDE DEF r, next
  <1>4. k.req = j.req /\ k.route = q /\ k.step = next
    BY <1>0, <1>3 DEF JobOK
  <1> HIDE DEF k
  <1>5. /\ RouteOK(j.route) /\ j.route.answer = "none" /\ Coming(j.req, j.route)
        /\ j.req \in Request /\ q = HandleRequest(j.route)
    BY <1>0, <1>1, <1>3 DEF JobOK, RouteJob, RouteOK, Asking, r
  <1>6. Coming(j.req, q) /\ Rightful(j.req, q)
    BY <1>5, RequestRightful
  <1>7. ASSUME "" \notin Range(Normal(j.req.path))
        PROVE  IF q.answer = "none" THEN Underneath(j.req, q) ELSE Answered(j.req, q)
    <2>1. Underneath(j.req, j.route)
      BY <1>0, <1>5, <1>7 DEF RouteJob
    <2>2. QED
      BY <1>5, <1>7, <2>1, RequestRight
  <1>8. RouteJob(k)
    BY <1>2, <1>3, <1>4, <1>6, <1>7 DEF RouteJob
  <1>9. QED
    BY <1>1, <1>8, RoutePut

LEMMA RouteRaises ==
    ASSUME TypeOK, RouteInv, NEW w \in Workers, AdminMiddlewareRaises(w)
    PROVE  RouteInv'
  <1> DEFINE j == job[w]
             k == [j EXCEPT !.step = "raised", !.route.answer = "raised"]
             path == Normal(j.req.path)
  <1>0. JobOK(j) /\ RouteJob(j)
    BY DEF TypeOK, RouteInv
  <1>1. /\ Put(w, k) /\ j.step = "route" /\ j.route.router = "admin"
        /\ j.route.session # "none"
    BY DEF AdminMiddlewareRaises, At
  <1>2. k.req = j.req /\ k.step = "raised" /\ k.route = [j.route EXCEPT !.answer = "raised"]
    BY <1>0 DEF JobOK
  <1>3. /\ k.route.answer = "raised" /\ k.route.method = j.route.method
        /\ k.route.origin = j.route.origin /\ k.route.cookie = j.route.cookie
        /\ k.route.session = j.route.session
    BY <1>0, <1>2 DEF JobOK, Routing
  <1> HIDE DEF k
  <1>4. Coming(j.req, k.route)
    BY <1>0, <1>3 DEF RouteJob, Coming
  <1>5. Rightful(j.req, k.route)
    <2>1. "raised" \notin {t[4] : t \in Table}
      BY TableType DEF Unhandled
    <2>2. QED
      BY <1>3, <2>1 DEF Rightful
  <1>6. ASSUME "" \notin Range(path) PROVE Failed(j.req, k.route)
    <2>1. Underneath(j.req, j.route)
      BY <1>0, <1>1, <1>6 DEF RouteJob, Asking
    <2>2. j.req.cookie # "none"
      BY <1>1, <2>1 DEF Underneath
    <2>3. path \in Seq(Parts) /\ j.route.rest \in Seq(Parts) /\ "admin" \in Routers
      BY <1>0, NormalType, PartsSeq DEF JobOK, Routing, Routers
    <2>4. IsPrefix(Prefix["admin"], path)
      BY <1>1, <2>1, <2>3, Below DEF Underneath
    <2>5. QED
      BY <1>3, <2>2, <2>4 DEF Failed
  <1>7. RouteJob(k)
    BY <1>2, <1>3, <1>4, <1>5, <1>6 DEF RouteJob, Asking
  <1>8. QED
    BY <1>1, <1>7, RoutePut

LEMMA RouteRest ==
    ASSUME TypeOK, RouteInv, NEW w \in Workers, Serve(w), ~ Route(w),
           ~ AdminMiddlewareRaises(w)
    PROVE  RouteInv'
  <1>0. RouteJob(job[w])
    BY DEF RouteInv
  <1>1. \E k : /\ Put(w, k) /\ k.req = job[w].req /\ k.route = job[w].route
               /\ k.step \in Asking => job[w].step \in Asking
    <2>1. CASE SilentStep(w)
      <3>1. PICK k : Put(w, k) /\ Silent(job[w], k)
        BY <2>1, SilentPut
      <3>2. k.step \in Asking => job[w].step \in Asking
        BY <3>1 DEF Silent, Asking, Summing
      <3>3. k.route = job[w].route
        <4>1. job[w].step # "route"
          BY <2>1 DEF SilentStep, Receive, Parse, Exhaust, ReadForm, Handle, Stat,
                      CheckInitialized, SetInitialized, Fill, Sum, At
        <4>2. QED
          BY <3>1, <4>1 DEF Silent
      <3>4. QED
        BY <3>1, <3>2, <3>3 DEF Silent
    <2>2. CASE SendHeaders(w) \/ SendBody(w)
      BY <2>2, FilePut DEF Asking
    <2>3. CASE SendFiles(w)
      BY <2>3, ArchivePut DEF ArchiveSteps, Asking
    <2>4. QED
      BY <2>1, <2>2, <2>3 DEF Serve, SendFile, SilentStep
  <1>2. PICK k : /\ Put(w, k) /\ k.req = job[w].req /\ k.route = job[w].route
                 /\ k.step \in Asking => job[w].step \in Asking
    BY <1>1
  <1>3. RouteJob(k)
    BY <1>0, <1>2 DEF RouteJob
  <1>4. QED
    BY <1>2, <1>3, RoutePut

LEMMA RouteInit ==
    ASSUME NEW req \in Request PROVE RouteJob(Fresh(req))
  <1> DEFINE r == Depart(req)
             path == Normal(req.path)
  <1>1. Fresh(req).req = req /\ Fresh(req).route = r
    BY DEF Fresh
  <1>2. /\ r.method = req.method /\ r.origin = req.origin /\ r.cookie = req.cookie
        /\ r.session = "none" /\ r.router = "app" /\ r.rest = path /\ r.answer = "none"
    BY DEF Depart
  <1>3. path \in Seq(Parts)
    BY NormalType
  <1> HIDE DEF r, path
  <1>4. Reached("app", path, path)
    BY <1>3, PrefixType DEF Reached
  <1>5. Coming(req, r) /\ Underneath(req, r)
    BY <1>2, <1>4 DEF Coming, Underneath, path
  <1>6. Rightful(req, r)
    BY <1>2, TableType DEF Rightful, Unhandled
  <1>7. QED
    BY <1>1, <1>2, <1>5, <1>6 DEF RouteJob

\* Every request is answered by the page, the refusal, the handler or the 404 that
\* start_server registered for its whole path, through whichever routers it goes,
\* unless AdminMiddleware raises; with empty parts in the path an admin handler
\* still answers only admins.  The assumption is about routes of other programs only; the run evaluates it.
THEOREM RoutedAsRegistered ==
    ASSUME NothingHidden(Extra) PROVE Spec => []AnsweredAsRegistered
  <1>1. Init => RouteInv
    <2> SUFFICES ASSUME Init, NEW w \in Workers PROVE RouteJob(job[w])
      BY DEF RouteInv
    <2>1. PICK req \in Request : job[w] = Fresh(req)
      BY WireAssumption DEF Init
    <2>2. QED
      BY <2>1, RouteInit
  <1>2. TypeOK /\ RouteInv /\ [Next]_vars => RouteInv'
    <2> SUFFICES ASSUME TypeOK, RouteInv, [Next]_vars PROVE RouteInv'
      OBVIOUS
    <2>1. ASSUME NEW w \in Workers, Serve(w) PROVE RouteInv'
      BY <2>1, AllRoutes, RouteRoute, RouteRaises, RouteRest
    <2>2. CASE UNCHANGED vars
      BY <2>2 DEF vars, RouteInv
    <2>3. QED
      BY <2>1, <2>2 DEF Next
  <1>3. TypeOK /\ RouteInv => AnsweredAsRegistered
    <2> SUFFICES ASSUME RouteInv PROVE AnsweredAsRegistered
      OBVIOUS
    <2>1. QED
      BY DEF RouteInv, RouteJob, Answered, Failed, Rightful, AnsweredAsRegistered
  <1>4. QED
    BY <1>1, <1>2, <1>3, TypeCorrect, PTL DEF Spec

-----------------------------------------------------------------------------
(* Sums, from the first size to the i-th.                                  *)

UpTo(sizes, i) == Total([l \in 1 .. i |-> sizes[l]])

LEMMA UpToMore ==
    ASSUME NEW sizes, NEW i \in Nat
    PROVE  /\ UpTo(sizes, 0) = 0
           /\ UpTo(sizes, i + 1) = UpTo(sizes, i) + sizes[i + 1]
  <1> DEFINE part(n) == [l \in 1 .. n |-> sizes[l]]
  <1>1. \A n \in Nat : Len(part(n)) = n /\ \A l \in 1 .. n : part(n)[l] = sizes[l]
    OBVIOUS
  <1>2. \A n \in Nat : UpTo(sizes, n) = Total(part(n))
    BY DEF UpTo
  <1> HIDE DEF part
  <1>3. UpTo(sizes, 0) = 0
    <2>1. PICK f : SumsOf(f, part(0)) /\ Total(part(0)) = f[Len(part(0))]
      BY TotalRecursion
    <2>2. QED
      BY <1>1, <1>2, <2>1 DEF SumsOf
  <1>4. PICK f : SumsOf(f, part(i)) /\ Total(part(i)) = f[i]
    BY <1>1, TotalRecursion
  <1>5. PICK g : SumsOf(g, part(i + 1)) /\ Total(part(i + 1)) = g[i + 1]
    <2>1. i + 1 \in Nat /\ Len(part(i + 1)) = i + 1
      BY <1>1
    <2>2. QED
      BY <2>1, TotalRecursion
  <1> DEFINE S == {n \in Nat : n <= i => f[n] = g[n]}
  <1>6. 0 \in S
    BY <1>4, <1>5 DEF SumsOf
  <1>7. ASSUME NEW n \in Nat, n \in S PROVE n + 1 \in S
    <2> SUFFICES ASSUME n + 1 <= i PROVE f[n + 1] = g[n + 1]
      OBVIOUS
    <2>1. n + 1 \in 1 .. i /\ n + 1 \in 1 .. i + 1 /\ i + 1 \in Nat
      OBVIOUS
    <2>2. part(i)[n + 1] = sizes[n + 1] /\ part(i + 1)[n + 1] = sizes[n + 1]
      BY <1>1, <2>1
    <2>3. f[n] = g[n]
      BY <1>7
    <2>4. QED
      BY <1>4, <1>5, <2>2, <2>3 DEF SumsOf
  <1> HIDE DEF S
  <1>8. i \in S
    BY <1>6, <1>7, NatRule
  <1>9. f[i] = g[i]
    BY <1>8 DEF S
  <1>10. g[i + 1] = g[i] + sizes[i + 1]
    <2>1. i + 1 \in Nat /\ i + 1 \in 1 .. i + 1
      OBVIOUS
    <2>2. part(i + 1)[i + 1] = sizes[i + 1]
      BY <1>1, <2>1
    <2>3. QED
      BY <1>5, <2>2 DEF SumsOf
  <1>11. QED
    BY <1>2, <1>3, <1>4, <1>5, <1>9, <1>10

\* The sums of natural numbers grow up to the total.
LEMMA UpToGrows ==
    ASSUME NEW sizes \in Seq(Nat)
    PROVE  /\ Total(sizes) = UpTo(sizes, Len(sizes))
           /\ \A i \in 0 .. Len(sizes) : /\ UpTo(sizes, i) \in Nat
                                         /\ UpTo(sizes, i) <= Total(sizes)
  <1>0. PICK n \in Nat : n = Len(sizes)
    OBVIOUS
  <1>1. Total(sizes) = UpTo(sizes, n)
    <2>1. sizes = [l \in 1 .. n |-> sizes[l]]
      BY <1>0
    <2>2. QED
      BY <2>1 DEF UpTo
  <1> DEFINE U(i) == UpTo(sizes, i)
             S == {m \in Nat : m <= n =>
                     \A i \in 0 .. m : U(i) \in Nat /\ U(i) <= U(m)}
  <1>2. U(0) = 0 /\ \A m \in Nat : U(m + 1) = U(m) + sizes[m + 1]
    BY UpToMore
  <1> HIDE DEF U
  <1>3. 0 \in S
    <2>1. \A i \in 0 .. 0 : i = 0
      OBVIOUS
    <2>2. QED
      BY <1>2, <2>1
  <1>4. ASSUME NEW m \in Nat, m \in S PROVE m + 1 \in S
    <2> SUFFICES ASSUME m + 1 <= n, NEW i \in 0 .. m + 1
                 PROVE  U(i) \in Nat /\ U(i) <= U(m + 1)
      OBVIOUS
    <2>1. PICK size \in Nat : size = sizes[m + 1]
      <3>1. m + 1 \in 1 .. n
        OBVIOUS
      <3>2. QED
        BY <1>0, <3>1
    <2>2. \A l \in 0 .. m : U(l) \in Nat /\ U(l) <= U(m)
      BY <1>4
    <2>3. PICK u \in Nat : u = U(m)
      BY <2>2
    <2>4. U(m + 1) = u + size
      BY <1>2, <2>1, <2>3
    <2>5. i = m + 1 \/ i \in 0 .. m
      OBVIOUS
    <2>6. CASE i = m + 1
      BY <2>4, <2>6
    <2>7. CASE i \in 0 .. m
      <3>1. U(i) \in Nat /\ U(i) <= u
        BY <2>2, <2>3, <2>7
      <3>2. QED
        BY <2>4, <3>1
    <2>8. QED
      BY <2>5, <2>6, <2>7
  <1> HIDE DEF S
  <1>5. \A m \in Nat : m \in S
    BY <1>3, <1>4, NatRule
  <1>6. QED
    BY <1>0, <1>1, <1>5 DEF S, U

\* Sums that are added up one by one.
LEMMA UpToBoth ==
    ASSUME NEW a \in Seq(Nat), NEW b \in Seq(Nat), NEW c \in Seq(Nat),
           NEW n \in Nat, Len(a) = n, Len(b) = n, Len(c) = n,
           \A i \in 1 .. n : c[i] = a[i] + b[i]
    PROVE  Total(c) = Total(a) + Total(b)
  <1> DEFINE S == {m \in Nat : m <= n => UpTo(c, m) = UpTo(a, m) + UpTo(b, m)}
  <1>1. 0 \in S
    BY UpToMore
  <1>2. ASSUME NEW m \in Nat, m \in S PROVE m + 1 \in S
    <2> SUFFICES ASSUME m + 1 <= n
                 PROVE  UpTo(c, m + 1) = UpTo(a, m + 1) + UpTo(b, m + 1)
      OBVIOUS
    <2>1. m + 1 \in 1 .. n /\ m \in 0 .. n
      OBVIOUS
    <2>2. PICK x \in Nat, y \in Nat : x = a[m + 1] /\ y = b[m + 1]
      <3>1. a[m + 1] \in Nat /\ b[m + 1] \in Nat
        BY <2>1
      <3>2. QED
        BY <3>1
    <2>3. PICK u \in Nat, v \in Nat : u = UpTo(a, m) /\ v = UpTo(b, m)
      BY <2>1, UpToGrows
    <2>4. UpTo(c, m) = u + v /\ c[m + 1] = x + y
      BY <1>2, <2>1, <2>2, <2>3
    <2>5. /\ UpTo(a, m + 1) = UpTo(a, m) + a[m + 1]
          /\ UpTo(b, m + 1) = UpTo(b, m) + b[m + 1]
          /\ UpTo(c, m + 1) = UpTo(c, m) + c[m + 1]
      BY UpToMore
    <2>6. /\ UpTo(a, m + 1) = u + x /\ UpTo(b, m + 1) = v + y
          /\ UpTo(c, m + 1) = (u + v) + (x + y)
      BY <2>2, <2>3, <2>4, <2>5
    <2>7. QED
      BY <2>6
  <1> HIDE DEF S
  <1>3. n \in S
    BY <1>1, <1>2, NatRule
  <1>4. UpTo(c, n) = UpTo(a, n) + UpTo(b, n)
    BY <1>3 DEF S
  <1>5. QED
    BY <1>4, UpToGrows

-----------------------------------------------------------------------------
(* The sizes of an archive.                                                *)

\* The names in the order in which they are written, the bytes of every entry,
\* and those of its record in the directory.
Names(paths) == SetToSeq(DOMAIN paths)
EntrySizes(paths) ==
    [i \in DOMAIN Names(paths) |->
        30 + NameSize(Names(paths)[i]) + Size(paths[Names(paths)[i]])]
RecordSizes(paths) == [i \in DOMAIN Names(paths) |-> 46 + NameSize(Names(paths)[i])]

LEMMA NamesType ==
    ASSUME NEW paths, PathsOK(paths)
    PROVE  /\ Cardinality(DOMAIN paths) \in Nat
           /\ Names(paths) \in Seq(DOMAIN paths)
           /\ Len(Names(paths)) = Cardinality(DOMAIN paths)
           /\ \A i \in 1 .. Cardinality(DOMAIN paths) :
                 /\ Names(paths)[i] \in DOMAIN paths
                 /\ NameSize(Names(paths)[i]) \in Nat \ {0}
                 /\ paths[Names(paths)[i]] \in DOMAIN Contents
                 /\ Size(paths[Names(paths)[i]]) \in Nat
  <1>1. IsFiniteSet(DOMAIN paths)
    BY DEF PathsOK
  <1>2. PICK n \in Nat : n = Cardinality(DOMAIN paths)
    BY <1>1, FS_CardinalityType
  <1>3. PICK names \in Seq(DOMAIN paths) : names = Names(paths) /\ Len(names) = n
    BY <1>1, <1>2, SetToSeqType DEF Names
  <1>4. ASSUME NEW i \in 1 .. n
        PROVE  /\ names[i] \in DOMAIN paths /\ NameSize(names[i]) \in Nat \ {0}
               /\ paths[names[i]] \in DOMAIN Contents /\ Size(paths[names[i]]) \in Nat
    <2>1. PICK name \in DOMAIN paths : name = names[i]
      BY <1>3
    <2>2. name \in Seq(STRING) \ {<<>>} /\ paths[name] \in DOMAIN Contents
      BY DEF PathsOK
    <2>3. NameSize(name) \in Nat \ {0}
      BY <2>2 DEF NameSize
    <2>4. QED
      BY <2>1, <2>2, <2>3, SizeType
  <1>5. QED
    BY <1>2, <1>3, <1>4

\* What getSize foretells is what the entries and the directory add up to.
LEMMA ArchiveSizes ==
    ASSUME NEW paths, PathsOK(paths), NEW n, n = Cardinality(DOMAIN paths)
    PROVE  /\ EntrySizes(paths) \in Seq(Nat) /\ Len(EntrySizes(paths)) = n
           /\ RecordSizes(paths) \in Seq(Nat) /\ Len(RecordSizes(paths)) = n
           /\ \A i \in 1 .. n : EntrySizes(paths)[i] =
                  30 + NameSize(Names(paths)[i]) + Size(paths[Names(paths)[i]])
           /\ GetSize(paths) = 22 + Total(EntrySizes(paths)) + Total(RecordSizes(paths))
  <1>1. PICK names \in Seq(DOMAIN paths) : names = Names(paths)
    BY NamesType
  <1>2. /\ n \in Nat /\ DOMAIN names = 1 .. n /\ SetToSeq(DOMAIN paths) = names
        /\ \A i \in 1 .. n : /\ NameSize(names[i]) \in Nat
                             /\ Size(paths[names[i]]) \in Nat
    BY <1>1, NamesType DEF Names
  <1> DEFINE a == [i \in 1 .. n |-> 30 + NameSize(names[i]) + Size(paths[names[i]])]
             b == [i \in 1 .. n |-> 46 + NameSize(names[i])]
             c == [i \in 1 .. n |-> 76 + 2 * NameSize(names[i]) + Size(paths[names[i]])]
  <1>3. a = EntrySizes(paths) /\ b = RecordSizes(paths)
    BY <1>1, <1>2 DEF EntrySizes, RecordSizes
  <1>4. GetSize(paths) = 22 + Total(c)
    BY <1>2 DEF GetSize
  <1>5. ASSUME NEW i \in 1 .. n
        PROVE  /\ a[i] \in Nat /\ b[i] \in Nat /\ c[i] \in Nat
               /\ c[i] = a[i] + b[i]
    <2>1. PICK x \in Nat, y \in Nat : x = NameSize(names[i]) /\ y = Size(paths[names[i]])
      BY <1>2
    <2>2. a[i] = 30 + x + y /\ b[i] = 46 + x /\ c[i] = 76 + 2 * x + y
      BY <2>1
    <2>3. QED
      BY <2>2
  <1>6. /\ a \in Seq(Nat) /\ Len(a) = n
        /\ b \in Seq(Nat) /\ Len(b) = n
        /\ c \in Seq(Nat) /\ Len(c) = n
    <2>1. \A f \in [1 .. n -> Nat] : f \in Seq(Nat) /\ Len(f) = n
      BY <1>2
    <2>2. a \in [1 .. n -> Nat] /\ b \in [1 .. n -> Nat] /\ c \in [1 .. n -> Nat]
      BY <1>5
    <2> HIDE DEF a, b, c
    <2>3. QED
      BY <2>1, <2>2
  <1>7. \A i \in 1 .. n : a[i] = 30 + NameSize(names[i]) + Size(paths[names[i]])
    OBVIOUS
  <1> HIDE DEF a, b, c
  <1>8. Total(c) = Total(a) + Total(b)
    <2>1. n \in Nat /\ \A i \in 1 .. n : c[i] = a[i] + b[i]
      BY <1>2, <1>5
    <2>2. QED
      BY <1>6, <2>1, UpToBoth
  <1>9. Total(a) \in Nat /\ Total(b) \in Nat
    BY <1>6, TotalType
  <1>10. QED
    BY <1>1, <1>3, <1>4, <1>6, <1>7, <1>8, <1>9

-----------------------------------------------------------------------------
(* Archives.                                                               *)

\* The headers among the first k pieces.
Headers(sent, k) == Cardinality({i \in 1 .. k : sent[i].kind = "header"})

\* What the directory will say of the entries begun so far, when no offset wraps.
EntriesNoted(z) ==
    LET i == Len(z.infos)
    IN  /\ i <= Cardinality(DOMAIN z.paths)
        /\ z.offset = UpTo(EntrySizes(z.paths), i)
        /\ \A l \in 1 .. i :
              /\ z.infos[l].name = Names(z.paths)[l]
              /\ z.infos[l].offset = UpTo(EntrySizes(z.paths), l - 1)

\* The names that are left after the first done ones.
NamesLeft(z, done) ==
    LET left == Cardinality(DOMAIN z.paths) - done
    IN  /\ Len(z.todo) = left
        /\ \A l \in 1 .. left : z.todo[l] = Names(z.paths)[done + l]

\* What was sent, piece by piece.
PiecesNoted(sent, z, step) ==
    /\ Headers(sent, Len(sent)) = Len(z.infos)
    /\ \A k \in 1 .. Len(sent) :
          /\ sent[k].kind # "last" => sent[k].size > 0
          /\ sent[k].kind = "last" => k = Len(sent) /\ step = "end"
          /\ sent[k].kind = "header" => z.infos[Headers(sent, k)].offset = sent[k].from
          /\ sent[k].kind = "footer" => z.offset = sent[k].from /\ step \in {"last", "end"}

\* How far the bytes that were sent have come.
BytesNoted(j) ==
    LET z == j.zip
        i == Len(z.infos)
        sum == UpTo(EntrySizes(z.paths), i)
    IN  /\ j.step = "zip" => NamesLeft(z, i) /\ SentSize(j.sent) = sum
        /\ j.step = "content" =>
              /\ i > 0 /\ NamesLeft(z, i - 1)
              /\ j.pos <= Size(CurrentFile(z))
              /\ SentSize(j.sent) + Size(CurrentFile(z)) = sum + j.pos
        /\ j.step \in {"last", "end"} =>
              /\ i = Cardinality(DOMAIN z.paths)
              /\ SentSize(j.sent) = GetSize(z.paths)

Archived(j) == EntriesNoted(j.zip) /\ PiecesNoted(j.sent, j.zip, j.step) /\ BytesNoted(j)

ArchiveJob(j) ==
    /\ j.step \in Asking => j.route.answer = "none"
    /\ j.step \in Asking \cup {"add"} => j.sent = <<>>
    /\ j.route.answer = "sendFiles" =>
         j.step \in ArchiveSteps \cup {"raised", "end"}
    /\ \/ j.step \in {"zip", "content", "last"}
       \/ j.step = "end" /\ j.route.answer = "sendFiles" /\ ~ j.failed
       => (GetSize(j.zip.paths) < Wide => Archived(j))

ArchiveInv == \A w \in Workers : ArchiveJob(job[w])

LEMMA HeadersMore ==
    ASSUME NEW sent \in Seq(Sent), NEW n, n = Len(sent), NEW piece
    PROVE  /\ \A k \in 0 .. n : /\ Headers(Append(sent, piece), k) = Headers(sent, k)
                                /\ Headers(sent, k) \in 0 .. Headers(sent, n)
           /\ \A k \in 1 .. n : sent[k].kind = "header" => Headers(sent, k) > 0
           /\ Headers(sent, n) \in Nat
           /\ piece.kind = "header" =>
                Headers(Append(sent, piece), n + 1) = Headers(sent, n) + 1
           /\ piece.kind # "header" =>
                Headers(Append(sent, piece), n + 1) = Headers(sent, n)
  <1> DEFINE more == Append(sent, piece)
  <1>0. /\ n \in Nat /\ Len(more) = n + 1 /\ more[n + 1] = piece
        /\ \A i \in 1 .. n : more[i] = sent[i]
    OBVIOUS
  <1> HIDE DEF more
  <1> DEFINE Set(s, k) == {i \in 1 .. k : s[i].kind = "header"}
  <1>1. \A s : \A k : Headers(s, k) = Cardinality(Set(s, k))
    BY DEF Headers
  <1>2. \A s : \A k \in Nat : IsFiniteSet(Set(s, k)) /\ Cardinality(Set(s, k)) \in Nat
    <2> SUFFICES ASSUME NEW s, NEW k \in Nat
                 PROVE  IsFiniteSet(Set(s, k)) /\ Cardinality(Set(s, k)) \in Nat
      OBVIOUS
    <2>1. 1 \in Int /\ k \in Int /\ Set(s, k) \subseteq 1 .. k
      OBVIOUS
    <2> HIDE DEF Set
    <2>2. IsFiniteSet(1 .. k)
      BY <2>1, FS_Interval
    <2>3. QED
      BY <2>1, <2>2, FS_Subset, FS_CardinalityType
  <1>3. ASSUME NEW k \in 0 .. n
        PROVE  /\ Headers(more, k) = Headers(sent, k)
               /\ Headers(sent, k) \in 0 .. Headers(sent, n)
    <2>1. Set(more, k) = Set(sent, k)
      BY <1>0
    <2>2. Set(sent, k) \subseteq Set(sent, n)
      BY <1>0
    <2>3. k \in Nat
      BY <1>0
    <2> HIDE DEF Set
    <2>4. Cardinality(Set(sent, k)) <= Cardinality(Set(sent, n))
      BY <1>0, <1>2, <2>2, FS_Subset
    <2>5. QED
      BY <1>0, <1>1, <1>2, <2>1, <2>3, <2>4
  <1>4. ASSUME NEW k \in 1 .. n, sent[k].kind = "header" PROVE Headers(sent, k) > 0
    <2>1. k \in Set(sent, k) /\ k \in Nat
      BY <1>0, <1>4
    <2> HIDE DEF Set
    <2>2. Cardinality(Set(sent, k)) # 0
      BY <1>2, <2>1, FS_EmptySet
    <2>3. QED
      BY <1>1, <1>2, <2>1, <2>2
  <1>5. /\ piece.kind = "header" => Headers(more, n + 1) = Headers(sent, n) + 1
        /\ piece.kind # "header" => Headers(more, n + 1) = Headers(sent, n)
    <2>1. CASE piece.kind = "header"
      <3>1. Set(more, n + 1) = Set(sent, n) \cup {n + 1} /\ n + 1 \notin Set(sent, n)
        BY <1>0, <2>1
      <3> HIDE DEF Set
      <3>2. Cardinality(Set(more, n + 1)) = Cardinality(Set(sent, n)) + 1
        BY <1>0, <1>2, <3>1, FS_AddElement
      <3>3. QED
        BY <1>1, <2>1, <3>2
    <2>2. CASE piece.kind # "header"
      <3>1. Set(more, n + 1) = Set(sent, n)
        BY <1>0, <2>2
      <3> HIDE DEF Set
      <3>2. Cardinality(Set(sent, n)) \in Nat
        BY <1>0, <1>2
      <3>3. QED
        BY <1>1, <2>2, <3>1, <3>2
    <2>3. QED
      BY <2>1, <2>2
  <1>6. Headers(sent, n) \in Nat
    BY <1>0, <1>1, <1>2
  <1>7. QED
    BY <1>3, <1>4, <1>5, <1>6 DEF more

\* A piece that follows what z and step say was sent; y and next say it afterwards.
Follows(z, step, piece, y, next) ==
    /\ step # "end"
    /\ step = "last" => next = "end" /\ y.offset = z.offset
    /\ \A l \in 1 .. Len(z.infos) : y.infos[l] = z.infos[l]
    /\ piece.kind # "header" => Len(y.infos) = Len(z.infos)
    /\ piece.kind = "header" => /\ Len(y.infos) = Len(z.infos) + 1
                                /\ y.infos[Len(y.infos)].offset = piece.from
    /\ piece.kind = "footer" => y.offset = piece.from /\ next \in {"last", "end"}
    /\ piece.kind # "last" => piece.size > 0
    /\ piece.kind = "last" => next = "end"

LEMMA PiecesMore ==
    ASSUME NEW sent \in Seq(Sent), NEW z, NEW step, PiecesNoted(sent, z, step),
           NEW piece, NEW y, NEW next, Follows(z, step, piece, y, next)
    PROVE  PiecesNoted(Append(sent, piece), y, next)
  <1> DEFINE more == Append(sent, piece)
  <1>3. PICK n \in Nat : n = Len(sent)
    OBVIOUS
  <1>4. /\ Len(more) = n + 1 /\ more[n + 1] = piece
        /\ \A i \in 1 .. n : more[i] = sent[i]
    BY <1>3
  <1>5. /\ \A k \in 0 .. n : /\ Headers(more, k) = Headers(sent, k)
                             /\ Headers(sent, k) \in 0 .. Headers(sent, n)
        /\ \A k \in 1 .. n : sent[k].kind = "header" => Headers(sent, k) > 0
        /\ piece.kind = "header" => Headers(more, n + 1) = Headers(sent, n) + 1
        /\ piece.kind # "header" => Headers(more, n + 1) = Headers(sent, n)
    BY <1>3, HeadersMore
  <1> HIDE DEF more
  <1>6. Headers(sent, n) = Len(z.infos)
    BY <1>3 DEF PiecesNoted
  <1>7. Headers(more, n + 1) = Len(y.infos)
    <2>1. CASE piece.kind = "header"
      BY <1>5, <1>6, <2>1 DEF Follows
    <2>2. CASE piece.kind # "header"
      BY <1>5, <1>6, <2>2 DEF Follows
    <2>3. QED
      BY <2>1, <2>2
  <1>8. ASSUME NEW k \in 1 .. n
        PROVE  /\ more[k].kind # "last" => more[k].size > 0
               /\ more[k].kind # "last"
               /\ more[k].kind = "header" =>
                    y.infos[Headers(more, k)].offset = more[k].from
               /\ more[k].kind = "footer" =>
                    y.offset = more[k].from /\ next \in {"last", "end"}
    <2>1. /\ sent[k].kind # "last" => sent[k].size > 0
          /\ sent[k].kind # "last"
          /\ sent[k].kind = "header" => z.infos[Headers(sent, k)].offset = sent[k].from
          /\ sent[k].kind = "footer" => z.offset = sent[k].from /\ step = "last"
      BY <1>3 DEF PiecesNoted, Follows
    <2>2. more[k] = sent[k] /\ k \in 0 .. n
      BY <1>4
    <2>3. sent[k].kind = "header" =>
            Headers(more, k) = Headers(sent, k) /\ Headers(sent, k) \in 1 .. Len(z.infos)
      BY <1>5, <1>6, <2>2
    <2>4. sent[k].kind = "header" =>
            y.infos[Headers(more, k)].offset = z.infos[Headers(sent, k)].offset
      BY <2>3 DEF Follows
    <2>5. QED
      BY <2>1, <2>2, <2>4 DEF Follows
  <1>9. ASSUME NEW k, k = n + 1
        PROVE  /\ more[k].kind # "last" => more[k].size > 0
               /\ more[k].kind = "last" => k = Len(more) /\ next = "end"
               /\ more[k].kind = "header" =>
                    y.infos[Headers(more, k)].offset = more[k].from
               /\ more[k].kind = "footer" =>
                    y.offset = more[k].from /\ next \in {"last", "end"}
    BY <1>4, <1>7, <1>9 DEF Follows
  <1>10. \A k \in 1 .. n + 1 : k \in 1 .. n \/ k = n + 1
    OBVIOUS
  <1>11. PiecesNoted(more, y, next)
    BY <1>4, <1>7, <1>8, <1>9, <1>10 DEF PiecesNoted
  <1>12. QED
    BY <1>11 DEF more

\* The next entry, after done of them.
LEMMA NextEntry ==
    ASSUME NEW z, ZipOK(z), NEW done \in Nat, NamesLeft(z, done), z.todo # <<>>
    PROVE  LET e == EntrySizes(z.paths)
           IN  /\ done + 1 <= Cardinality(DOMAIN z.paths)
               /\ Head(z.todo) = Names(z.paths)[done + 1]
               /\ UpTo(e, done) \in Nat /\ UpTo(e, done + 1) \in Nat
               /\ UpTo(e, done + 1) = UpTo(e, done) + HeaderSize(z) + Size(CurrentFile(z))
               /\ UpTo(e, done + 1) + 22 <= GetSize(z.paths)
  <1>1. PICK n \in Nat : n = Cardinality(DOMAIN z.paths)
    BY NamesType DEF ZipOK
  <1>2. PICK e \in Seq(Nat) : e = EntrySizes(z.paths)
    BY ArchiveSizes DEF ZipOK
  <1>3. Len(z.todo) \in Nat \ {0} /\ Head(z.todo) = z.todo[1]
    BY TailType DEF ZipOK
  <1>4. Len(z.todo) = n - done /\ \A l \in 1 .. n - done : z.todo[l] = Names(z.paths)[done + l]
    BY <1>1 DEF NamesLeft
  <1>5. done + 1 \in 1 .. n /\ done \in 0 .. n /\ done + 1 \in 0 .. n /\ 1 \in 1 .. n - done
    BY <1>3, <1>4
  <1>6. Head(z.todo) = Names(z.paths)[done + 1]
    BY <1>3, <1>4, <1>5
  <1>7. /\ Len(e) = n
        /\ e[done + 1] = 30 + NameSize(Names(z.paths)[done + 1])
                           + Size(z.paths[Names(z.paths)[done + 1]])
        /\ Total(RecordSizes(z.paths)) \in Nat
        /\ GetSize(z.paths) = 22 + Total(e) + Total(RecordSizes(z.paths))
    BY <1>1, <1>2, <1>5, ArchiveSizes, TotalType DEF ZipOK
  <1>8. e[done + 1] = HeaderSize(z) + Size(CurrentFile(z))
    BY <1>6, <1>7 DEF HeaderSize, CurrentFile
  <1>9. HeaderSize(z) \in Nat /\ Size(CurrentFile(z)) \in Nat
    BY EntryType
  <1>10. UpTo(e, done + 1) = UpTo(e, done) + e[done + 1]
    BY UpToMore
  <1>11. /\ UpTo(e, done) \in Nat /\ UpTo(e, done + 1) \in Nat /\ Total(e) \in Nat
         /\ UpTo(e, done + 1) <= Total(e)
    BY <1>5, <1>7, UpToGrows, TotalType
  <1>12. UpTo(e, done + 1) + 22 <= GetSize(z.paths)
    BY <1>7, <1>11
  <1>13. UpTo(e, done + 1) = UpTo(e, done) + HeaderSize(z) + Size(CurrentFile(z))
    BY <1>8, <1>9, <1>10, <1>11
  <1>14. QED
    BY <1>1, <1>2, <1>5, <1>6, <1>11, <1>12, <1>13

\* What getHeader notes of an entry is true of it, because no offset wraps.
LEMMA HeaderNoted ==
    ASSUME NEW z, ZipOK(z), EntriesNoted(z), NamesLeft(z, Len(z.infos)),
           z.todo # <<>>, GetSize(z.paths) < Wide, NEW y, y = GetHeader(z)
    PROVE  /\ EntriesNoted(y)
           /\ y.paths = z.paths /\ y.todo = z.todo
           /\ Len(y.infos) = Len(z.infos) + 1
           /\ \A l \in 1 .. Len(z.infos) : y.infos[l] = z.infos[l]
           /\ y.infos[Len(y.infos)].offset = z.offset
  <1>1. PICK i \in Nat : i = Len(z.infos)
    BY DEF ZipOK
  <1>2. PICK n \in Nat : n = Cardinality(DOMAIN z.paths)
    BY NamesType DEF ZipOK
  <1>3. PICK name, file : name = Head(z.todo) /\ file = z.paths[name]
    OBVIOUS
  <1>4. PICK a \in Nat, b \in Nat : a = NameSize(name) /\ b = Size(file)
    BY <1>3, EntryType DEF CurrentFile
  <1>5. PICK u \in Nat : u = UpTo(EntrySizes(z.paths), i)
    BY <1>1, NextEntry
  <1>6. /\ i + 1 <= n /\ name = Names(z.paths)[i + 1]
        /\ UpTo(EntrySizes(z.paths), i + 1) = u + (30 + a) + b
        /\ u + (30 + a) + b + 22 <= GetSize(z.paths)
    BY <1>1, <1>2, <1>3, <1>4, <1>5, NextEntry DEF HeaderSize, CurrentFile
  <1>7. Wide \in Nat \ {0}
    BY ZipperAssumption
  <1>8. GetSize(z.paths) \in Int
    <2>1. PathsOK(z.paths)
      BY DEF ZipOK
    <2>2. Total(EntrySizes(z.paths)) \in Nat /\ Total(RecordSizes(z.paths)) \in Nat
      BY <2>1, ArchiveSizes, TotalType
    <2>3. QED
      BY <2>1, <2>2, ArchiveSizes
  <1>9. b % Wide = b /\ (u + 30 + a + b) % Wide = u + 30 + a + b
    <2>1. b < Wide /\ u + 30 + a + b < Wide /\ u + 30 + a + b \in Nat
      BY <1>6, <1>7, <1>8
    <2>2. QED
      BY <1>7, <2>1, Modulo
  <1>10. z.offset = u
    BY <1>1, <1>5 DEF EntriesNoted
  <1>11. PICK info : info = [name |-> name, size |-> b, offset |-> u]
    OBVIOUS
  <1>12. y = [z EXCEPT !.infos = Append(z.infos, info), !.offset = u + 30 + a + b]
    <2>1. y = [z EXCEPT !.infos = Append(z.infos, [name |-> name, size |-> Size(file) % Wide,
                                                   offset |-> z.offset]),
                        !.offset = (z.offset + 30 + NameSize(name) + (Size(file) % Wide)) % Wide]
      BY <1>3 DEF GetHeader, ZipOK
    <2>2. QED
      BY <1>4, <1>9, <1>10, <1>11, <2>1
  <1>13. /\ y.paths = z.paths /\ y.todo = z.todo
         /\ y.infos = Append(z.infos, info) /\ y.offset = u + 30 + a + b
    BY <1>12 DEF ZipOK
  <1>14. PICK infos \in Seq(Info) : infos = z.infos /\ Len(infos) = i
    BY <1>1 DEF ZipOK
  <1>15. /\ Len(Append(infos, info)) = i + 1 /\ Append(infos, info)[i + 1] = info
         /\ \A l \in 1 .. i : Append(infos, info)[l] = infos[l]
    BY <1>14
  <1>16. /\ Len(y.infos) = i + 1 /\ y.infos[i + 1] = info
         /\ \A l \in 1 .. i : y.infos[l] = z.infos[l]
    BY <1>13, <1>14, <1>15
  <1>17. \A l \in 1 .. i + 1 : l \in 1 .. i \/ l = i + 1
    OBVIOUS
  <1>18. ASSUME NEW l \in 1 .. i + 1
         PROVE  /\ y.infos[l].name = Names(y.paths)[l]
                /\ y.infos[l].offset = UpTo(EntrySizes(y.paths), l - 1)
    <2>1. CASE l \in 1 .. i
      BY <1>1, <1>13, <1>16, <2>1 DEF EntriesNoted
    <2>2. CASE l = i + 1
      <3>1. l - 1 = i /\ info.name = name /\ info.offset = u
        BY <1>11, <2>2
      <3>2. QED
        BY <1>5, <1>6, <1>13, <1>16, <2>2, <3>1
    <2>3. QED
      BY <1>17, <2>1, <2>2
  <1>19. y.offset = UpTo(EntrySizes(y.paths), i + 1)
    BY <1>6, <1>13
  <1>20. EntriesNoted(y)
    BY <1>2, <1>6, <1>13, <1>16, <1>18, <1>19 DEF EntriesNoted
  <1>21. info.offset = z.offset
    BY <1>10, <1>11
  <1>22. QED
    BY <1>1, <1>13, <1>16, <1>20, <1>21

LEMMA ArchiveKeep ==
    ASSUME TypeOK, ArchiveInv, NEW w \in Workers, NEW k, Put(w, k) \/ Write(w, k),
           ArchiveJob(k)
    PROVE  ArchiveInv'
  <1>1. ASSUME NEW l, Put(w, l), ArchiveJob(l) PROVE ArchiveInv'
    BY <1>1 DEF TypeOK, ArchiveInv, Put
  <1>2. PICK gone : gone = [job[w] EXCEPT !.step = "end", !.failed = TRUE]
    OBVIOUS
  <1>3. ArchiveJob(gone)
    <2>1. JobOK(job[w]) /\ ArchiveJob(job[w])
      BY DEF TypeOK, ArchiveInv
    <2>2. gone.step = "end" /\ gone.failed
      BY <1>2, <2>1 DEF JobOK
    <2>3. QED
      BY <2>2 DEF ArchiveJob, Asking
  <1>4. Put(w, k) \/ Put(w, gone)
    BY <1>2 DEF Write
  <1>5. QED
    BY <1>1, <1>3, <1>4

LEMMA ArchiveElsewhere ==
    ASSUME TypeOK, ArchiveInv, NEW w \in Workers, Serve(w),
           ~ Route(w), ~ AdminMiddlewareRaises(w), ~ SendFiles(w)
    PROVE  ArchiveInv'
  <1>0. JobOK(job[w]) /\ ArchiveJob(job[w])
    BY DEF TypeOK, ArchiveInv
  <1>1. CASE SilentStep(w)
    <2>1. PICK k : Put(w, k) /\ Silent(job[w], k)
      BY <1>1, SilentPut
    <2>2. job[w].step # "route"
      BY <1>1 DEF SilentStep, Receive, Parse, Exhaust, ReadForm, Handle, Stat,
                  CheckInitialized, SetInitialized, Fill, Sum, At
    <2>3. k.route = job[w].route /\ k.sent = job[w].sent
      BY <2>1, <2>2 DEF Silent
    <2>4. CASE job[w].step \in Asking
      <3>1. k.step \in Asking \cup {"raised", "handler", "stat", "add", "end"}
        BY <2>1, <2>4 DEF Silent, Asking, Summing
      <3>2. k.route.answer = "none" /\ k.sent = <<>>
        BY <1>0, <2>3, <2>4 DEF ArchiveJob
      <3>3. QED
        <4>1. ArchiveJob(k)
          BY <3>1, <3>2 DEF ArchiveJob, Asking, ArchiveSteps
        <4>2. QED
          BY <2>1, <4>1, ArchiveKeep
    <2>5. CASE job[w].step \notin Asking
      <3>1. /\ job[w].step \notin ArchiveSteps \cup {"raised", "end"}
            /\ k.step \in {"reply", "raised", "end", "compute", "head"} \cup Summing
        BY <2>1, <2>5 DEF Silent, Asking, Summing, ArchiveSteps
      <3>2. k.route.answer # "sendFiles"
        BY <1>0, <2>3, <3>1 DEF ArchiveJob
      <3>3. ArchiveJob(k)
        BY <3>1, <3>2 DEF ArchiveJob, Asking, Summing
      <3>4. QED
        BY <2>1, <3>3, ArchiveKeep
    <2>6. QED
      BY <2>4, <2>5
  <1>2. CASE SendHeaders(w) \/ SendBody(w)
    <2>1. PICK k : /\ Put(w, k) /\ k.route = job[w].route
                   /\ job[w].step \in {"head", "body"} /\ k.step \in {"body", "end"}
      BY <1>2, FilePut
    <2>2. k.route.answer # "sendFiles"
      BY <1>0, <2>1 DEF ArchiveJob, ArchiveSteps
    <2>3. ArchiveJob(k)
      BY <2>1, <2>2 DEF ArchiveJob, Asking
    <2>4. QED
      BY <2>1, <2>3, ArchiveKeep
  <1>3. QED
    BY <1>1, <1>2 DEF Serve, SendFile, SilentStep

LEMMA ArchiveRoute ==
    ASSUME TypeOK, ArchiveInv, NEW w \in Workers, Route(w)
    PROVE  ArchiveInv'
  <1> DEFINE j == job[w]
             r == HandleRequest(j.route)
             next == CASE r.answer = "none" -> "route"
                       [] r.answer \in {"raised", "terminated"} -> "raised"
                       [] r.answer = "file" -> "stat"
                       [] r.answer = "sendFiles" -> "add"
                       [] r.answer \in NoHandler -> "end"
                       [] OTHER -> "handler"
             k == [j EXCEPT !.route = r, !.step = next]
  <1>0. JobOK(j) /\ ArchiveJob(j)
    BY DEF TypeOK, ArchiveInv
  <1>1. Put(w, k) /\ j.step = "route"
    BY DEF Route, At
  <1>2. /\ next \in {"route", "raised", "stat", "add", "end", "handler"}
        /\ next = "route" => r.answer = "none"
        /\ r.answer = "sendFiles" => next = "add"
    BY DEF NoHandler
  <1> HIDE DEF r, next
  <1>3. k.route = r /\ k.step = next /\ k.sent = j.sent
    BY <1>0 DEF JobOK
  <1> HIDE DEF k
  <1>4. j.sent = <<>>
    BY <1>0, <1>1 DEF ArchiveJob, Asking
  <1>5. ArchiveJob(k)
    BY <1>2, <1>3, <1>4 DEF ArchiveJob, Asking, ArchiveSteps
  <1>6. QED
    BY <1>1, <1>5, ArchiveKeep

LEMMA ArchiveRaises ==
    ASSUME TypeOK, ArchiveInv, NEW w \in Workers, AdminMiddlewareRaises(w)
    PROVE  ArchiveInv'
  <1> DEFINE j == job[w]
             k == [j EXCEPT !.step = "raised", !.route.answer = "raised"]
  <1>0. JobOK(j)
    BY DEF TypeOK
  <1>1. Put(w, k)
    BY DEF AdminMiddlewareRaises
  <1>2. k.step = "raised" /\ k.route = [j.route EXCEPT !.answer = "raised"]
    BY <1>0 DEF JobOK
  <1>3. k.route.answer = "raised"
    BY <1>0, <1>2 DEF JobOK, Routing
  <1> HIDE DEF k
  <1>4. ArchiveJob(k)
    BY <1>2, <1>3 DEF ArchiveJob, Asking, ArchiveSteps
  <1>5. QED
    BY <1>1, <1>4, ArchiveKeep

LEMMA ArchiveStart ==
    ASSUME TypeOK, ArchiveInv, NEW w \in Workers, AddPath(w) \/ StartZip(w)
    PROVE  ArchiveInv'
  <1> DEFINE j == job[w]
  <1>0. JobOK(j) /\ ArchiveJob(j) /\ ZipOK(j.zip)
    BY DEF TypeOK, ArchiveInv, JobOK
  <1>1. j.step = "add" /\ j.sent = <<>>
    BY <1>0 DEF AddPath, StartZip, At, ArchiveJob
  <1>2. CASE AddPath(w)
    <2>1. PICK p :
             \/ Put(w, [j EXCEPT !.toAdd = @ \ {p}, !.zip.paths = Add(@, p)])
             \/ Put(w, [j EXCEPT !.step = "raised"])
      BY <1>2 DEF AddPath
    <2>2. PICK k : /\ Put(w, k)
                   /\ k \in {[j EXCEPT !.toAdd = @ \ {p}, !.zip.paths = Add(@, p)],
                             [j EXCEPT !.step = "raised"]}
      BY <2>1
    <2>3. k.step \in {"add", "raised"} /\ k.sent = <<>>
      BY <1>0, <1>1, <2>2 DEF JobOK
    <2>4. ArchiveJob(k)
      BY <2>3 DEF ArchiveJob, Asking, ArchiveSteps
    <2>5. QED
      BY <2>2, <2>4, ArchiveKeep
  <1>3. CASE StartZip(w)
    <2>1. PICK z : z = Started(j.zip.paths)
      OBVIOUS
    <2>2. PICK k : k = [j EXCEPT !.step = "zip", !.zip = z]
      OBVIOUS
    <2>3. Put(w, k)
      BY <1>0, <1>3, <2>1, <2>2 DEF StartZip, JobOK
    <2>4. k.step = "zip" /\ k.sent = <<>> /\ k.zip = z
      BY <1>0, <1>1, <2>2 DEF JobOK
    <2>5. PathsOK(z.paths) /\ z.todo = Names(z.paths) /\ z.infos = <<>> /\ z.offset = 0
      BY <1>0, <2>1 DEF Started, Names, ZipOK
    <2>6. PICK n \in Nat : n = Cardinality(DOMAIN z.paths) /\ n = Len(Names(z.paths))
      BY <2>5, NamesType
    <2>7. Len(z.infos) = 0 /\ UpTo(EntrySizes(z.paths), 0) = 0
      BY <2>5, UpToMore
    <2>8. EntriesNoted(z)
      BY <2>5, <2>6, <2>7 DEF EntriesNoted
    <2>9. PiecesNoted(<<>>, z, "zip")
      <3>1. Len(<<>>) = 0 /\ {i \in 1 .. 0 : <<>>[i].kind = "header"} = {}
        OBVIOUS
      <3>2. Headers(<<>>, 0) = 0
        BY <3>1, FS_EmptySet DEF Headers
      <3>3. QED
        BY <2>7, <3>1, <3>2 DEF PiecesNoted
    <2>10. NamesLeft(z, 0)
      BY <2>5, <2>6 DEF NamesLeft
    <2>11. SentSize(<<>>) = 0
      BY DEF SentSize
    <2>12. Archived(k)
      BY <2>4, <2>7, <2>8, <2>9, <2>10, <2>11 DEF Archived, BytesNoted
    <2>13. ArchiveJob(k)
      BY <2>4, <2>12 DEF ArchiveJob, Asking, ArchiveSteps
    <2>14. QED
      BY <2>3, <2>13, ArchiveKeep
  <1>4. QED
    BY <1>2, <1>3

\* A piece more of an archive, from where the last one ended.
LEMMA ArchiveSend ==
    ASSUME NEW j, JobOK(j), Archived(j), NEW kind, NEW size \in Nat, NEW k,
           k.sent = Send(j, kind, size).sent,
           Follows(j.zip, j.step,
                   [kind |-> kind, size |-> size, from |-> SentSize(j.sent)], k.zip, k.step)
    PROVE  /\ PiecesNoted(k.sent, k.zip, k.step)
           /\ SentSize(k.sent) = SentSize(j.sent) + size
  <1>1. j.sent \in Seq(Sent)
    BY DEF JobOK
  <1>2. /\ SentSize(k.sent) = SentSize(j.sent) + size
        /\ k.sent = Append(j.sent, [kind |-> kind, size |-> size, from |-> SentSize(j.sent)])
    BY SentMore
  <1>3. PICK piece : piece = [kind |-> kind, size |-> size, from |-> SentSize(j.sent)]
    OBVIOUS
  <1>4. PiecesNoted(Append(j.sent, piece), k.zip, k.step)
    BY <1>1, <1>3, PiecesMore DEF Archived
  <1>5. QED
    BY <1>2, <1>3, <1>4

LEMMA ArchiveEntry ==
    ASSUME TypeOK, ArchiveInv, NEW w \in Workers, SendEntry(w)
    PROVE  ArchiveInv'
  <1> DEFINE j == job[w]
             z == j.zip
             sent == Send(j, "header", HeaderSize(z))
  <1>0. JobOK(j) /\ ArchiveJob(j) /\ ZipOK(z) /\ j.step = "zip" /\ z.todo # <<>>
    BY DEF TypeOK, ArchiveInv, JobOK, SendEntry, At, IsFinished
  <1>1. PICK y : y = GetHeader(z)
    OBVIOUS
  <1>2. PICK k : k = [sent EXCEPT !.step = "content", !.pos = 0, !.zip = y]
    OBVIOUS
  <1>3. Write(w, k)
    BY <1>1, <1>2 DEF SendEntry
  <1>4. /\ k.step = "content" /\ k.pos = 0 /\ k.zip = y /\ k.route = j.route
        /\ k.sent = sent.sent
    BY <1>0, <1>2 DEF Send, JobOK
  <1> HIDE DEF sent
  <1>5. ASSUME GetSize(z.paths) < Wide, y.paths = z.paths PROVE Archived(k)
    <2>1. Archived(j)
      BY <1>0, <1>5 DEF ArchiveJob
    <2>2. PICK i \in Nat : i = Len(z.infos)
      BY <1>0 DEF ZipOK
    <2>3. EntriesNoted(z) /\ NamesLeft(z, i) /\ SentSize(j.sent) = z.offset
      BY <1>0, <2>1, <2>2 DEF Archived, BytesNoted, EntriesNoted
    <2>4. /\ EntriesNoted(y) /\ y.todo = z.todo /\ Len(y.infos) = i + 1
          /\ \A l \in 1 .. i : y.infos[l] = z.infos[l]
          /\ y.infos[Len(y.infos)].offset = z.offset
      BY <1>0, <1>1, <1>5, <2>2, <2>3, HeaderNoted
    <2>5. PICK h \in Nat \ {0} : h = HeaderSize(z)
      BY <1>0, EntryType
    <2>6. Follows(z, "zip", [kind |-> "header", size |-> h, from |-> SentSize(j.sent)],
                  y, "content")
      BY <2>2, <2>3, <2>4 DEF Follows
    <2>7. /\ PiecesNoted(k.sent, k.zip, k.step)
          /\ SentSize(k.sent) = SentSize(j.sent) + h
      BY <1>0, <1>4, <2>1, <2>5, <2>6, ArchiveSend DEF sent
    <2>8. NamesLeft(y, i)
      BY <1>5, <2>3, <2>4 DEF NamesLeft
    <2>9. PICK s \in Nat : s = Size(CurrentFile(z))
      BY <1>0, EntryType
    <2>10. Size(CurrentFile(y)) = s
      BY <1>5, <2>4, <2>9 DEF CurrentFile
    <2>11. PICK u \in Nat : u = UpTo(EntrySizes(z.paths), i)
      BY <1>0, <2>3, NextEntry
    <2>12. UpTo(EntrySizes(z.paths), i + 1) = u + h + s
      BY <1>0, <2>3, <2>5, <2>9, <2>11, NextEntry
    <2>13. SentSize(j.sent) = u
      BY <1>0, <2>1, <2>2, <2>11 DEF Archived, BytesNoted
    <2>14. SentSize(k.sent) + s = u + h + s + 0 /\ i + 1 > 0 /\ (i + 1) - 1 = i /\ 0 <= s
      BY <2>7, <2>13
    <2>15. BytesNoted(k)
      BY <1>4, <1>5, <2>4, <2>8, <2>10, <2>12, <2>14 DEF BytesNoted
    <2>16. QED
      BY <1>4, <2>4, <2>7, <2>15 DEF Archived
  <1>6. y.paths = z.paths
    BY <1>0, <1>1 DEF GetHeader, ZipOK
  <1>7. ArchiveJob(k)
    <2>1. k.route.answer = j.route.answer
      BY <1>4
    <2>2. GetSize(y.paths) = GetSize(z.paths)
      BY <1>6
    <2>3. QED
      BY <1>4, <1>5, <1>6, <2>2 DEF ArchiveJob, Asking, ArchiveSteps
  <1>8. QED
    BY <1>3, <1>7, ArchiveKeep

LEMMA ArchiveContent ==
    ASSUME TypeOK, ArchiveInv, NEW w \in Workers, SendContent(w)
    PROVE  ArchiveInv'
  <1> DEFINE j == job[w]
             z == j.zip
  <1>0. JobOK(j) /\ ArchiveJob(j) /\ ZipOK(z) /\ j.step = "content" /\ z.todo # <<>>
    BY DEF TypeOK, ArchiveInv, JobOK, SendContent, At
  <1>1. PICK size \in Nat, pos \in Nat : size = Size(CurrentFile(z)) /\ pos = j.pos
    BY <1>0, EntryType DEF JobOK
  <1>2. PICK i \in Nat : i = Len(z.infos)
    BY <1>0 DEF ZipOK
  <1>3. ASSUME GetSize(z.paths) < Wide
        PROVE  /\ Archived(j) /\ EntriesNoted(z) /\ PiecesNoted(j.sent, z, "content")
               /\ i > 0 /\ NamesLeft(z, i - 1) /\ pos <= size
               /\ SentSize(j.sent) + size = UpTo(EntrySizes(z.paths), i) + pos
    <2>1. Archived(j)
      BY <1>0, <1>3 DEF ArchiveJob
    <2>2. QED
      BY <1>0, <1>1, <1>2, <2>1 DEF Archived, BytesNoted
  <1>4. SentSize(j.sent) \in Nat
    BY <1>0, SentSizeType DEF JobOK
  <1>5. CASE size - pos <= 0
    <2>1. PICK y : y = NextFile(z)
      OBVIOUS
    <2>2. PICK k : k = [j EXCEPT !.step = "zip", !.zip = y]
      OBVIOUS
    <2>3. Put(w, k)
      BY <1>0, <1>1, <1>5, <2>1, <2>2 DEF SendContent, SendBytes, JobOK
    <2>4. /\ k.step = "zip" /\ k.zip = y /\ k.sent = j.sent /\ k.route = j.route
      BY <1>0, <2>2 DEF JobOK
    <2>5. /\ y.paths = z.paths /\ y.infos = z.infos /\ y.offset = z.offset
          /\ y.todo = Tail(z.todo)
      BY <1>0, <2>1 DEF NextFile, ZipOK
    <2>6. ASSUME GetSize(z.paths) < Wide PROVE Archived(k)
      <3>1. PICK n \in Nat : n = Cardinality(DOMAIN z.paths)
        BY <1>0, NamesType DEF ZipOK
      <3>2. /\ i > 0 /\ Len(z.todo) = n - (i - 1)
            /\ \A l \in 1 .. n - (i - 1) : z.todo[l] = Names(z.paths)[(i - 1) + l]
        BY <1>3, <2>6, <3>1 DEF NamesLeft
      <3>3. /\ Len(Tail(z.todo)) = Len(z.todo) - 1
            /\ \A l \in 1 .. Len(z.todo) - 1 : Tail(z.todo)[l] = z.todo[l + 1]
        BY <1>0, TailType DEF ZipOK
      <3>4. Len(y.todo) = n - i
        BY <2>5, <3>2, <3>3
      <3>5. ASSUME NEW l \in 1 .. n - i PROVE y.todo[l] = Names(z.paths)[i + l]
        <4>1. /\ l \in 1 .. Len(z.todo) - 1 /\ l + 1 \in 1 .. n - (i - 1)
              /\ (i - 1) + (l + 1) = i + l
          BY <3>2
        <4>2. QED
          BY <2>5, <3>2, <3>3, <4>1
      <3>6. NamesLeft(y, i)
        BY <2>5, <3>1, <3>4, <3>5 DEF NamesLeft
      <3>7. SentSize(j.sent) = UpTo(EntrySizes(z.paths), i)
        <4>1. PICK u \in Nat : u = UpTo(EntrySizes(z.paths), i)
          <5>1. i - 1 \in Nat /\ (i - 1) + 1 = i
            BY <3>2
          <5>2. UpTo(EntrySizes(z.paths), (i - 1) + 1) \in Nat
            BY <1>0, <1>3, <2>6, <5>1, NextEntry
          <5>3. QED
            BY <5>1, <5>2
        <4>2. pos = size /\ SentSize(j.sent) + size = u + pos
          BY <1>1, <1>3, <1>5, <2>6, <4>1
        <4>3. QED
          BY <1>4, <4>1, <4>2
      <3>8. EntriesNoted(y) /\ PiecesNoted(j.sent, y, "zip")
        BY <1>3, <2>5, <2>6 DEF EntriesNoted, PiecesNoted
      <3>9. BytesNoted(k)
        BY <1>2, <2>4, <2>5, <3>6, <3>7 DEF BytesNoted
      <3>10. QED
        BY <2>4, <3>8, <3>9 DEF Archived
    <2>7. ArchiveJob(k)
      BY <2>4, <2>5, <2>6 DEF ArchiveJob, Asking, ArchiveSteps
    <2>8. QED
      BY <2>3, <2>7, ArchiveKeep
  <1>6. CASE ~ (size - pos <= 0)
    <2>1. PICK n \in Nat : n = Min({size - pos, Chunk}) /\ n \in 1 .. size - pos
      <3>1. size - pos \in Int /\ size - pos > 0
        BY <1>1, <1>6
      <3>2. Min({size - pos, Chunk}) \in 1 .. size - pos
        BY <3>1, PieceType
      <3>3. QED
        BY <3>2
    <2> DEFINE sent == Send(j, "data", n)
    <2>2. PICK k : k = [sent EXCEPT !.pos = sent.pos + n]
      OBVIOUS
    <2>3. Write(w, k)
      BY <1>1, <1>6, <2>1, <2>2 DEF SendContent, SendBytes
    <2>4. /\ k.step = "content" /\ k.zip = z /\ k.route = j.route
          /\ k.pos = pos + n /\ k.sent = sent.sent
      BY <1>0, <1>1, <2>2 DEF Send, JobOK
    <2> HIDE DEF sent
    <2>5. ASSUME GetSize(z.paths) < Wide PROVE Archived(k)
      <3>1. Follows(z, "content", [kind |-> "data", size |-> n, from |-> SentSize(j.sent)],
                    z, "content")
        BY <2>1 DEF Follows
      <3>2. /\ PiecesNoted(k.sent, k.zip, k.step)
            /\ SentSize(k.sent) = SentSize(j.sent) + n
        BY <1>0, <1>3, <2>4, <2>5, <3>1, ArchiveSend DEF sent
      <3>3. PICK u : u = UpTo(EntrySizes(z.paths), i)
        OBVIOUS
      <3>4. u \in Nat
        <4>1. i - 1 \in Nat /\ (i - 1) + 1 = i
          BY <1>3, <2>5
        <4>2. UpTo(EntrySizes(z.paths), (i - 1) + 1) \in Nat
          BY <1>0, <1>3, <2>5, <4>1, NextEntry
        <4>3. QED
          BY <3>3, <4>1, <4>2
      <3>5. SentSize(j.sent) + size = u + pos
        BY <1>3, <2>5, <3>3
      <3>6. SentSize(k.sent) + size = u + (pos + n) /\ pos + n <= size
        BY <1>1, <1>4, <1>6, <2>1, <3>2, <3>4, <3>5
      <3>7. BytesNoted(k)
        BY <1>1, <1>2, <1>3, <2>4, <2>5, <3>3, <3>6 DEF BytesNoted
      <3>8. QED
        BY <1>3, <2>4, <2>5, <3>2, <3>7 DEF Archived
    <2>6. ArchiveJob(k)
      BY <2>4, <2>5 DEF ArchiveJob, Asking, ArchiveSteps
    <2>7. QED
      BY <2>3, <2>6, ArchiveKeep
  <1>7. QED
    BY <1>5, <1>6

LEMMA ArchiveFooter ==
    ASSUME TypeOK, ArchiveInv, NEW w \in Workers, SendFooter(w)
    PROVE  ArchiveInv'
  <1> DEFINE j == job[w]
             z == j.zip
             sent == Send(j, "footer", FooterSize(z))
  <1>0. JobOK(j) /\ ArchiveJob(j) /\ ZipOK(z) /\ j.step = "zip" /\ z.todo = <<>>
    BY DEF TypeOK, ArchiveInv, JobOK, SendFooter, At, IsFinished
  <1>1. PICK k : k = [sent EXCEPT !.step = "last"]
    OBVIOUS
  <1>2. Write(w, k)
    BY <1>1 DEF SendFooter
  <1>3. /\ k.step = "last" /\ k.zip = z /\ k.route = j.route /\ k.sent = sent.sent
    BY <1>0, <1>1 DEF Send, JobOK
  <1> HIDE DEF sent
  <1>4. ASSUME GetSize(z.paths) < Wide PROVE Archived(k)
    <2>1. Archived(j)
      BY <1>0, <1>4 DEF ArchiveJob
    <2>2. PathsOK(z.paths)
      BY <1>0 DEF ZipOK
    <2>3. PICK n \in Nat : n = Cardinality(DOMAIN z.paths)
      BY <2>2, NamesType
    <2>4. PICK i \in Nat : i = Len(z.infos)
      BY <1>0 DEF ZipOK
    <2>5. i = n /\ SentSize(j.sent) = z.offset /\ z.offset = UpTo(EntrySizes(z.paths), n)
      <3>1. Len(z.todo) = 0
        BY <1>0
      <3>2. Len(z.todo) = n - i
        BY <1>0, <2>1, <2>3, <2>4 DEF Archived, BytesNoted, NamesLeft
      <3>3. i = n
        BY <2>3, <2>4, <3>1, <3>2
      <3>4. QED
        BY <1>0, <2>1, <2>4, <3>3 DEF Archived, BytesNoted, EntriesNoted
    <2>6. PICK a \in Nat, b \in Nat : /\ a = Total(EntrySizes(z.paths))
                                      /\ b = Total(RecordSizes(z.paths))
      BY <2>2, ArchiveSizes, TotalType
    <2>7. GetSize(z.paths) = 22 + a + b
      BY <2>2, <2>6, ArchiveSizes
    <2>8. z.offset = a
      BY <2>2, <2>3, <2>5, <2>6, ArchiveSizes, UpToGrows
    <2>9. FooterSize(z) = 22 + b
      <3>1. DOMAIN z.infos = 1 .. n /\ DOMAIN Names(z.paths) = 1 .. n
        <4>1. z.infos \in Seq(Info) /\ Len(z.infos) = n
          BY <1>0, <2>4, <2>5 DEF ZipOK
        <4>2. Names(z.paths) \in Seq(DOMAIN z.paths) /\ Len(Names(z.paths)) = n
          BY <2>2, <2>3, NamesType
        <4>3. QED
          BY <4>1, <4>2
      <3>2. \A l \in 1 .. n : z.infos[l].name = Names(z.paths)[l]
        BY <2>1, <2>4, <2>5 DEF Archived, EntriesNoted
      <3>3. [l \in DOMAIN z.infos |-> 46 + NameSize(z.infos[l].name)]
              = RecordSizes(z.paths)
        BY <3>1, <3>2 DEF RecordSizes
      <3>4. QED
        BY <2>6, <3>3 DEF FooterSize
    <2>10. PICK size \in Nat \ {0} : size = FooterSize(z) /\ size = 22 + b
      BY <2>9
    <2>11. Follows(z, "zip", [kind |-> "footer", size |-> size, from |-> SentSize(j.sent)],
                   z, "last")
      BY <2>5, <2>10 DEF Follows
    <2>12. /\ PiecesNoted(k.sent, k.zip, k.step)
           /\ SentSize(k.sent) = SentSize(j.sent) + size
      BY <1>0, <1>3, <2>1, <2>10, <2>11, ArchiveSend DEF sent
    <2>13. SentSize(k.sent) = GetSize(z.paths)
      BY <2>5, <2>7, <2>8, <2>10, <2>12
    <2>14. BytesNoted(k)
      BY <1>3, <2>3, <2>4, <2>5, <2>13 DEF BytesNoted
    <2>15. QED
      BY <1>3, <2>1, <2>12, <2>14 DEF Archived
  <1>5. ArchiveJob(k)
    BY <1>3, <1>4 DEF ArchiveJob, Asking, ArchiveSteps
  <1>6. QED
    BY <1>2, <1>5, ArchiveKeep

LEMMA ArchiveLast ==
    ASSUME TypeOK, ArchiveInv, NEW w \in Workers, SendLast(w)
    PROVE  ArchiveInv'
  <1> DEFINE j == job[w]
             z == j.zip
             sent == Send(j, "last", 0)
  <1>0. JobOK(j) /\ ArchiveJob(j) /\ j.step = "last"
    BY DEF TypeOK, ArchiveInv, SendLast, At
  <1>1. PICK k : k = [sent EXCEPT !.step = "end"]
    OBVIOUS
  <1>2. Write(w, k)
    BY <1>1 DEF SendLast
  <1>3. /\ k.step = "end" /\ k.zip = z /\ k.route = j.route /\ k.sent = sent.sent
    BY <1>0, <1>1 DEF Send, JobOK
  <1> HIDE DEF sent
  <1>4. ASSUME GetSize(z.paths) < Wide PROVE Archived(k)
    <2>1. Archived(j)
      BY <1>0, <1>4 DEF ArchiveJob
    <2>2. Follows(z, "last", [kind |-> "last", size |-> 0, from |-> SentSize(j.sent)],
                  z, "end")
      BY DEF Follows
    <2>3. /\ PiecesNoted(k.sent, k.zip, k.step)
          /\ SentSize(k.sent) = SentSize(j.sent) + 0
      BY <1>0, <1>3, <2>1, <2>2, ArchiveSend DEF sent
    <2>4. SentSize(j.sent) \in Nat
      BY <1>0, SentSizeType DEF JobOK
    <2>5. SentSize(k.sent) = SentSize(j.sent)
      BY <2>3, <2>4
    <2>6. BytesNoted(k)
      BY <1>0, <1>3, <2>1, <2>5 DEF Archived, BytesNoted
    <2>7. QED
      BY <1>3, <2>1, <2>3, <2>6 DEF Archived
  <1>5. ArchiveJob(k)
    BY <1>3, <1>4 DEF ArchiveJob, Asking, ArchiveSteps
  <1>6. QED
    BY <1>2, <1>5, ArchiveKeep

\* What the invariant says of an archive that was sent to its end.
LEMMA ArchiveEnd ==
    ASSUME NEW j, JobOK(j), Archived(j), j.step = "end",
           Cardinality(DOMAIN j.zip.paths) < Many
    PROVE  /\ SentSize(j.sent) = GetSize(j.zip.paths)
           /\ Count(j.zip) = Cardinality(DOMAIN j.zip.paths)
           /\ Len(j.zip.infos) = Count(j.zip)
           /\ \A k \in 1 .. Len(j.sent) - 1 :
                 /\ j.sent[k].size > 0
                 /\ j.sent[k].kind = "header" =>
                       j.zip.infos[Headers(j.sent, k)].offset = j.sent[k].from
                 /\ j.sent[k].kind = "footer" => j.zip.offset = j.sent[k].from
  <1>1. PICK n \in Nat : n = Len(j.sent)
    BY DEF JobOK
  <1>2. \A k \in 1 .. n - 1 : k \in 1 .. n /\ k # n
    OBVIOUS
  <1>3. PICK i \in Nat : i = Len(j.zip.infos)
    BY DEF JobOK, ZipOK
  <1>4. i = Cardinality(DOMAIN j.zip.paths)
    BY <1>3 DEF Archived, BytesNoted
  <1>5. i % Many = i
    BY <1>4, Modulo, ZipperAssumption
  <1>6. Count(j.zip) = i
    BY <1>3, <1>5 DEF Count
  <1>7. QED
    BY <1>1, <1>2, <1>3, <1>4, <1>6 DEF Archived, BytesNoted, PiecesNoted

\* An archive that was sent to its end opens: the directory points at every entry
\* and at itself, the size is the one foretold, and no piece before the last is
\* empty, for every choice of paths, as long as the offsets have room in 32 bits
\* and the number of entries in 16.
THEOREM ArchivesOpen == Spec => []ArchiveOpens
  <1>1. Init => ArchiveInv
    <2> SUFFICES ASSUME Init, NEW w \in Workers PROVE ArchiveJob(job[w])
      BY DEF ArchiveInv
    <2>1. PICK req : job[w] = Fresh(req)
      BY DEF Init
    <2>2. /\ job[w].step \in {"end", "receive"} /\ job[w].sent = <<>>
          /\ job[w].route.answer = "none"
      BY <2>1 DEF Fresh, Depart
    <2>3. QED
      BY <2>2 DEF ArchiveJob, Asking
  <1>2. TypeOK /\ ArchiveInv /\ [Next]_vars => ArchiveInv'
    <2> SUFFICES ASSUME TypeOK, ArchiveInv, [Next]_vars PROVE ArchiveInv'
      OBVIOUS
    <2>1. ASSUME NEW w \in Workers, SendFiles(w) PROVE ArchiveInv'
      BY <2>1, ArchiveStart, ArchiveEntry, ArchiveContent, ArchiveFooter, ArchiveLast
         DEF SendFiles
    <2>2. ASSUME NEW w \in Workers, Serve(w) PROVE ArchiveInv'
      BY <2>1, <2>2, ArchiveElsewhere, ArchiveRoute, ArchiveRaises
    <2>3. CASE UNCHANGED vars
      BY <2>3 DEF vars, ArchiveInv
    <2>4. QED
      BY <2>2, <2>3 DEF Next
  <1>3. TypeOK /\ ArchiveInv => ArchiveOpens
    <2> SUFFICES ASSUME TypeOK, ArchiveInv, NEW w \in Workers,
                        job[w].step = "end", job[w].route.answer = "sendFiles",
                        ~ job[w].failed, GetSize(job[w].zip.paths) < Wide,
                        Cardinality(DOMAIN job[w].zip.paths) < Many
                 PROVE  /\ SentSize(job[w].sent) = GetSize(job[w].zip.paths)
                        /\ Count(job[w].zip) = Cardinality(DOMAIN job[w].zip.paths)
                        /\ Len(job[w].zip.infos) = Count(job[w].zip)
                        /\ \A k \in 1 .. Len(job[w].sent) - 1 :
                              /\ job[w].sent[k].size > 0
                              /\ job[w].sent[k].kind = "header" =>
                                    job[w].zip.infos[Headers(job[w].sent, k)].offset
                                      = job[w].sent[k].from
                              /\ job[w].sent[k].kind = "footer" =>
                                    job[w].zip.offset = job[w].sent[k].from
      BY DEF ArchiveOpens, At, Headers
    <2>1. JobOK(job[w]) /\ Archived(job[w])
      BY DEF TypeOK, ArchiveInv, ArchiveJob
    <2>2. QED
      BY <2>1, ArchiveEnd
  <1>4. QED
    BY <1>1, <1>2, <1>3, TypeCorrect, PTL DEF Spec

-----------------------------------------------------------------------------
(* Where a string ends does not depend on the text around it.              *)

\* What stands from i to e in a text fits into the other one from k on.
Fits(text, i, e, other, k) ==
    /\ i \in Nat \ {0} /\ e \in Nat \ {0} /\ k \in Nat \ {0}
    /\ i <= e /\ e <= Len(text) /\ k + (e - i) <= Len(other)

\* It stands there.
Alike(text, i, e, other, k) ==
    /\ Fits(text, i, e, other, k)
    /\ \A j \in i .. e : text[j] = other[k + (j - i)]

LEMMA AlikeBack ==
    ASSUME NEW S, NEW text \in Seq(S), NEW R, NEW other \in Seq(R),
           NEW i, NEW e, NEW k, Alike(text, i, e, other, k)
    PROVE  Alike(other, k, k + (e - i), text, i)
  <1>0. Fits(text, i, e, other, k)
    BY DEF Alike
  <1>1. Fits(other, k, k + (e - i), text, i)
    BY <1>0 DEF Fits
  <1>2. ASSUME NEW j \in k .. k + (e - i) PROVE other[j] = text[i + (j - k)]
    <2>1. PICK x : x = i + (j - k)
      OBVIOUS
    <2>2. x \in i .. e /\ k + (x - i) = j
      BY <1>0, <2>1 DEF Fits
    <2>3. text[x] = other[k + (x - i)]
      BY <2>2 DEF Alike
    <2>4. QED
      BY <2>1, <2>2, <2>3
  <1>3. QED
    BY <1>1, <1>2 DEF Alike

\* Whether a quote closes a string depends on nothing before the string.
LEMMA ClosesThere ==
    ASSUME NEW S, NEW text \in Seq(S), NEW R, NEW other \in Seq(R),
           NEW i, NEW e, NEW k, Alike(text, i, e, other, k),
           text[i] = Quote, NEW j \in i + 1 .. e, Closes(text, j)
    PROVE  Closes(other, k + (j - i))
  <1>0. Fits(text, i, e, other, k)
    BY DEF Alike
  <1> DEFINE f == k + (j - i)
  <1>a. i \in Nat \ {0} /\ e \in Nat /\ k \in Nat \ {0} /\ j \in Nat /\ i < j /\ j <= e
    BY <1>0 DEF Fits
  <1>b. f \in Nat /\ f > k /\ f - k = j - i
    BY <1>a
  <1>1. PICK n \in 0 .. j - 1 :
           /\ n % 2 = 0
           /\ \A x \in j - n .. j - 1 : text[x] = Backslash
           /\ j - n > 1 => text[j - n - 1] # Backslash
    BY ClosesIs
  <1>2. n < j - i
    <2> SUFFICES ASSUME n >= j - i PROVE FALSE
      BY <1>a
    <2>1. i \in j - n .. j - 1
      BY <1>a
    <2>2. QED
      BY <1>1, <2>1, QuoteIsOther
  <1> HIDE DEF f
  <1>3. n \in 0 .. f - 1
    BY <1>a, <1>b, <1>2
  <1>4. other[f] = Quote
    <2>1. text[j] = other[f]
      BY <1>a DEF Alike, f
    <2>2. QED
      BY <2>1, ClosesIs
  <1>5. ASSUME NEW x \in f - n .. f - 1 PROVE other[x] = Backslash
    <2>1. PICK y : y = i + (x - k)
      OBVIOUS
    <2>2. y \in i .. e /\ y \in j - n .. j - 1 /\ k + (y - i) = x
      BY <1>a, <1>b, <1>2, <2>1
    <2>3. text[y] = other[k + (y - i)]
      BY <2>2 DEF Alike
    <2>4. text[y] = Backslash
      BY <1>1, <2>2
    <2>5. QED
      BY <2>2, <2>3, <2>4
  <1>6. other[f - n - 1] # Backslash
    <2>1. PICK y : y = j - n - 1
      OBVIOUS
    <2>2. y \in i .. e /\ k + (y - i) = f - n - 1
      BY <1>a, <1>b, <1>2, <2>1
    <2>3. text[y] = other[k + (y - i)]
      BY <2>2 DEF Alike
    <2>4. j - n > 1
      BY <1>a, <1>2
    <2>5. text[y] # Backslash
      BY <1>1, <2>1, <2>4
    <2>6. QED
      BY <2>2, <2>3, <2>5
  <1>7. Closes(other, f)
    BY <1>1, <1>3, <1>4, <1>5, <1>6, ClosesIs
  <1>8. QED
    BY <1>7 DEF f

LEMMA StringEndIs ==
    ASSUME NEW S, NEW text \in Seq(S), NEW i \in Nat, NEW e \in Nat \ {0}
    PROVE  StringEnd(text, i) = e <=>
             IF Char(text, i + 1) = Quote THEN e = i + 1
             ELSE /\ e \in i + 2 .. Len(text)
                  /\ Closes(text, e)
                  /\ \A j \in i + 2 .. e - 1 : ~ Closes(text, j)
  <1>1. CASE Char(text, i + 1) = Quote
    <2>1. StringEnd(text, i) = i + 1
      BY <1>1, Zenon DEF StringEnd, Quote
    <2>2. QED
      BY <1>1, <2>1
  <1>2. CASE Char(text, i + 1) # Quote
    <2> DEFINE ends == {j \in i + 2 .. Len(text) : Closes(text, j)}
               first == CHOOSE j \in ends : \A k \in ends : j <= k
    <2>1. StringEnd(text, i) = IF ends = {} THEN 0 ELSE first
      BY <1>2, Zenon DEF StringEnd, Quote
    <2>2. ends \subseteq Nat
      OBVIOUS
    <2>3. ends # {} => first \in ends /\ \A k \in ends : first <= k
      <3> HIDE DEF ends
      <3>1. QED
        BY <2>2, Least
    <2>4. e \in ends <=> e \in i + 2 .. Len(text) /\ Closes(text, e)
      OBVIOUS
    <2>5. e \in ends => ((\A j \in i + 2 .. e - 1 : ~ Closes(text, j))
                          <=> \A k \in ends : e <= k)
      OBVIOUS
    <2>6. ASSUME e \in ends PROVE (\A k \in ends : e <= k) <=> e = first
      <3> HIDE DEF ends, first
      <3>1. first \in ends /\ \A k \in ends : first <= k
        BY <2>3, <2>6
      <3>2. first \in Nat /\ e \in Nat
        BY <2>2, <3>1
      <3>3. (\A k \in ends : e <= k) => e <= first
        BY <3>1
      <3>4. first <= e
        BY <2>6, <3>1
      <3>5. QED
        BY <3>1, <3>2, <3>3, <3>4
    <2> HIDE DEF ends, first
    <2>7. StringEnd(text, i) = e <=> e \in ends /\ e = first
      BY <2>1, <2>3
    <2>8. QED
      BY <1>2, <2>4, <2>5, <2>6, <2>7
  <1>3. QED
    BY <1>1, <1>2

LEMMA EndAlike ==
    ASSUME NEW S, NEW text \in Seq(S), NEW R, NEW other \in Seq(R),
           NEW i, NEW e, NEW k, Alike(text, i, e, other, k),
           text[i] = Quote, StringEnd(text, i) = e, i < e
    PROVE  StringEnd(other, k) = k + (e - i)
  <1> DEFINE f == k + (e - i)
  <1>a. Fits(text, i, e, other, k)
    BY DEF Alike
  <1>b. /\ i \in Nat \ {0} /\ e \in Nat \ {0} /\ k \in Nat \ {0} /\ e > i
        /\ e <= Len(text)
    BY <1>a DEF Fits
  <1>c. f \in Nat \ {0} /\ f <= Len(other) /\ f - k = e - i /\ i + (f - k) = e
    BY <1>a DEF Fits
  <1>d. text[i + 1] = other[k + 1] /\ i + 1 <= Len(text) /\ k + 1 <= Len(other)
    <2>1. i + 1 \in i .. e /\ k + ((i + 1) - i) = k + 1
      BY <1>b
    <2>2. text[i + 1] = other[k + ((i + 1) - i)]
      BY <2>1 DEF Alike
    <2>3. Len(other) \in Nat
      OBVIOUS
    <2> HIDE DEF f
    <2>4. k + 1 <= Len(other)
      BY <1>b, <1>c, <2>3
    <2>5. i + 1 <= Len(text)
      BY <1>b
    <2>6. QED
      BY <2>1, <2>2, <2>4, <2>5
  <1>e. Char(other, k + 1) = Char(text, i + 1)
    BY <1>d DEF Char
  <1>f. f = k + (e - i)
    OBVIOUS
  <1>1. CASE Char(text, i + 1) = Quote
    <2>1. e = i + 1
      BY <1>1, <1>b, StringEndIs
    <2>2. f = k + 1
      BY <1>b, <2>1
    <2> HIDE DEF f
    <2>3. StringEnd(other, k) = f
      BY <1>1, <1>b, <1>c, <1>e, <2>2, StringEndIs
    <2>4. QED
      BY <2>3 DEF f
  <1>2. CASE Char(text, i + 1) # Quote
    <2>1. /\ e \in i + 2 .. Len(text)
          /\ Closes(text, e)
          /\ \A j \in i + 2 .. e - 1 : ~ Closes(text, j)
      BY <1>2, <1>b, StringEndIs
    <2>2. Closes(other, f)
      <3>1. e \in i + 1 .. e
        BY <1>b
      <3>2. QED
        BY <2>1, <3>1, ClosesThere
    <2>3. Alike(other, k, f, text, i) /\ other[k] = Quote
      <3>1. i \in i .. e /\ k + (i - i) = k
        BY <1>b
      <3>2. text[i] = other[k + (i - i)]
        BY <3>1 DEF Alike
      <3>3. QED
        BY <3>1, <3>2, AlikeBack
    <2>4. f \in k + 2 .. Len(other)
      <3>1. e >= i + 2
        BY <1>b, <2>1
      <3>2. Len(other) \in Nat
        OBVIOUS
      <3> HIDE DEF f
      <3>3. QED
        BY <1>b, <1>c, <3>1, <3>2
    <2> HIDE DEF f
    <2>5. ASSUME NEW j \in k + 2 .. f - 1, Closes(other, j) PROVE FALSE
      <3>1. PICK x : x = i + (j - k)
        OBVIOUS
      <3>2. x \in i + 2 .. e - 1 /\ j \in k + 1 .. f
        BY <1>b, <1>c, <3>1
      <3>3. Closes(text, x)
        BY <2>3, <2>5, <3>1, <3>2, ClosesThere
      <3>4. QED
        BY <2>1, <3>2, <3>3
    <2>6. StringEnd(other, k) = f
      BY <1>2, <1>b, <1>c, <1>e, <2>2, <2>4, <2>5, StringEndIs
    <2>7. QED
      BY <2>6 DEF f
  <1>3. QED
    BY <1>1, <1>2

-----------------------------------------------------------------------------
(* Where the fields of a row stand in what dumps writes of it.             *)

Comma == ","
Space == " "

\* What Separated makes of the first n texts, from what it made of those before.
Joint(texts, n, before) ==
    CASE n = 0 -> <<>>
      [] n = 1 -> texts[1]
      [] OTHER -> before \o <<Comma, Space>> \o texts[n]

LEMMA SeparatedRecursion ==
    ASSUME NEW texts
    PROVE  \E u : /\ \A n \in Nat : u[n] = Joint(texts, n, u[n - 1])
                  /\ Separated(texts) = u[Len(texts)]
  <1> DEFINE Good(g, n) == \A i \in 0 .. n : g[i] = Joint(texts, i, g[i - 1])
             S == {n \in Nat : \E g : Good(g, n)}
  <1>0. \A x, y : Joint(texts, 0, x) = Joint(texts, 0, y)
    BY DEF Joint
  <1>1. \A n \in Nat : n \in S
    <2>1. 0 \in S
      <3>1. Good([i \in {0} |-> Joint(texts, 0, 0)], 0)
        BY <1>0
      <3>2. QED
        BY <3>1
    <2>2. ASSUME NEW n \in Nat, n \in S
          PROVE  n + 1 \in S
      <3>1. PICK g : Good(g, n)
        BY <2>2
      <3> DEFINE h == [i \in 0 .. n + 1 |->
                         IF i <= n THEN g[i] ELSE Joint(texts, n + 1, g[n])]
      <3>2. ASSUME NEW i \in 0 .. n + 1 PROVE h[i] = Joint(texts, i, h[i - 1])
        <4>1. CASE i = 0
          <5>1. h[0] = g[0] /\ g[0] = Joint(texts, 0, g[0 - 1])
            BY <3>1
          <5>2. QED
            BY <1>0, <4>1, <5>1
        <4>2. CASE i \in 1 .. n
          <5>1. h[i] = g[i] /\ h[i - 1] = g[i - 1] /\ i \in 0 .. n
            BY <4>2
          <5>2. g[i] = Joint(texts, i, g[i - 1])
            BY <3>1, <5>1
          <5>3. QED
            BY <5>1, <5>2
        <4>3. CASE i = n + 1
          <5>1. h[i] = Joint(texts, n + 1, g[n]) /\ h[i - 1] = g[n]
            BY <4>3
          <5>2. QED
            BY <4>3, <5>1
        <4>4. QED
          BY <4>1, <4>2, <4>3
      <3> HIDE DEF h
      <3>3. QED
        BY <3>2
    <2> HIDE DEF S
    <2>3. QED
      BY <2>1, <2>2, NatRule
  <1>2. ASSUME NEW m \in Nat, NEW n \in Nat, NEW g, NEW h,
               Good(g, m), Good(h, n), m <= n
        PROVE  g[m] = h[m]
    <2> DEFINE E == {i \in Nat : i <= m => g[i] = h[i]}
    <2>1. 0 \in E
      <3>1. g[0] = Joint(texts, 0, g[0 - 1]) /\ h[0] = Joint(texts, 0, h[0 - 1])
        BY <1>2
      <3>2. QED
        BY <1>0, <3>1
    <2>2. ASSUME NEW i \in Nat, i \in E PROVE i + 1 \in E
      <3> SUFFICES ASSUME i + 1 <= m PROVE g[i + 1] = h[i + 1]
        OBVIOUS
      <3>1. i + 1 \in 0 .. m /\ i + 1 \in 0 .. n /\ (i + 1) - 1 = i
        BY <1>2
      <3>2. g[i] = h[i]
        BY <2>2
      <3>3. g[i + 1] = Joint(texts, i + 1, g[i]) /\ h[i + 1] = Joint(texts, i + 1, h[i])
        BY <1>2, <3>1
      <3>4. QED
        BY <3>2, <3>3
    <2> HIDE DEF E
    <2>3. \A i \in Nat : i \in E
      BY <2>1, <2>2, NatRule
    <2>4. QED
      BY <2>3 DEF E
  <1> DEFINE F == [n \in Nat |-> (CHOOSE g : Good(g, n))[n]]
             Body(f) == [n \in Nat |-> Joint(texts, n, f[n - 1])]
  <1>3. \A n \in Nat : Good(CHOOSE g : Good(g, n), n)
    BY <1>1
  <1>4. ASSUME NEW n \in Nat PROVE F[n] = Joint(texts, n, F[n - 1])
    <2> DEFINE h == CHOOSE k : Good(k, n)
    <2>1. Good(h, n)
      BY <1>3
    <2>2. F[n] = h[n]
      OBVIOUS
    <2>3. h[n] = Joint(texts, n, h[n - 1])
      BY <2>1
    <2>4. CASE n = 0
      BY <1>0, <2>2, <2>3, <2>4
    <2>5. CASE n # 0
      <3> DEFINE g == CHOOSE k : Good(k, n - 1)
      <3>1. n - 1 \in Nat /\ n - 1 <= n
        BY <2>5
      <3>2. Good(g, n - 1) /\ F[n - 1] = g[n - 1]
        BY <1>3, <3>1
      <3> HIDE DEF g, h, F, Good
      <3>3. g[n - 1] = h[n - 1]
        BY <1>2, <2>1, <3>1, <3>2
      <3>4. QED
        BY <2>2, <2>3, <3>2, <3>3
    <2>6. QED
      BY <2>4, <2>5
  <1>5. F = Body(F)
    <2> HIDE DEF F
    <2>1. F = [n \in Nat |-> F[n]]
      BY DEF F
    <2>2. QED
      BY <1>4, <2>1
  <1>6. PICK f : f = Body(f) /\ Separated(texts) = f[Len(texts)]
    <2>1. Separated(texts) = (CHOOSE f : f = Body(f))[Len(texts)]
      BY Zenon DEF Separated, Joint, Comma, Space
    <2> HIDE DEF F, Body
    <2>2. QED
      BY <1>5, <2>1
  <1>7. \A n \in Nat : f[n] = Joint(texts, n, f[n - 1])
    BY <1>6
  <1>8. QED
    BY <1>6, <1>7

\* A text, two lexemes and another text.
LEMMA Glued ==
    ASSUME NEW S, NEW a \in Seq(S), NEW b \in Seq(S), NEW x \in S, NEW y \in S
    PROVE  /\ a \o <<x, y>> \o b \in Seq(S)
           /\ Len(a \o <<x, y>> \o b) = Len(a) + 2 + Len(b)
           /\ \A i \in 1 .. Len(a) : (a \o <<x, y>> \o b)[i] = a[i]
           /\ (a \o <<x, y>> \o b)[Len(a) + 1] = x
           /\ (a \o <<x, y>> \o b)[Len(a) + 2] = y
           /\ \A i \in 1 .. Len(b) : (a \o <<x, y>> \o b)[Len(a) + 2 + i] = b[i]
  <1>1. PICK d : d = a \o <<x, y>>
    OBVIOUS
  <1>2. /\ d \in Seq(S) /\ Len(d) = Len(a) + 2
        /\ \A i \in 1 .. Len(a) : d[i] = a[i]
        /\ d[Len(a) + 1] = x /\ d[Len(a) + 2] = y
    BY <1>1
  <1>3. PICK c : c = d \o b
    OBVIOUS
  <1>4. /\ Len(a) \in Nat /\ Len(b) \in Nat
        /\ \A i \in 1 .. Len(a) : i \in 1 .. Len(d)
        /\ Len(a) + 1 \in 1 .. Len(d) /\ Len(a) + 2 \in 1 .. Len(d)
    BY <1>2
  <1>5. /\ c \in Seq(S) /\ Len(c) = Len(d) + Len(b)
        /\ \A i \in 1 .. Len(d) : c[i] = d[i]
        /\ \A i \in 1 .. Len(b) : c[Len(d) + i] = b[i]
    <2>1. d \in Seq(S)
      BY <1>2
    <2> QED
      BY <1>3, <2>1
  <1>6. /\ c \in Seq(S) /\ Len(c) = Len(a) + 2 + Len(b)
        /\ \A i \in 1 .. Len(a) : c[i] = a[i]
        /\ c[Len(a) + 1] = x /\ c[Len(a) + 2] = y
        /\ \A i \in 1 .. Len(b) : c[Len(a) + 2 + i] = b[i]
    BY <1>2, <1>4, <1>5
  <1>7. QED
    BY <1>1, <1>3, <1>6

\* Where the n-th text begins after those before, which end where ends says.
From(ends, n) == IF n = 1 THEN 0 ELSE ends[n - 1] + 2

\* whole holds the texts, with a comma and a space between them.
LaidOut(whole, texts, ends) ==
    /\ ends \in [0 .. Len(texts) -> Nat]
    /\ ends[0] = 0 /\ ends[Len(texts)] = Len(whole)
    /\ \A n \in 1 .. Len(texts) :
          /\ ends[n] = From(ends, n) + Len(texts[n]) /\ From(ends, n) \in Nat
          /\ ends[n] <= Len(whole)
          /\ \A i \in 1 .. Len(texts[n]) : whole[From(ends, n) + i] = texts[n][i]
          /\ n < Len(texts) => whole[ends[n] + 1] = Comma /\ whole[ends[n] + 2] = Space

LEMMA SeparatedIs ==
    ASSUME NEW S, Comma \in S, Space \in S, NEW texts \in Seq(Seq(S))
    PROVE  /\ Separated(texts) \in Seq(S)
           /\ \E ends : LaidOut(Separated(texts), texts, ends)
  <1>1. PICK u : /\ \A n \in Nat : u[n] = Joint(texts, n, u[n - 1])
                 /\ Separated(texts) = u[Len(texts)]
    BY SeparatedRecursion
  <1>2. u[0] = <<>> /\ u[1] = texts[1]
    <2>1. 0 \in Nat /\ 1 \in Nat
      OBVIOUS
    <2>2. u[0] = Joint(texts, 0, u[0 - 1]) /\ u[1] = Joint(texts, 1, u[1 - 1])
      BY <1>1, <2>1
    <2>3. QED
      BY <2>2 DEF Joint
  <1>3. \A n \in Nat \ {0} : u[n + 1] = u[n] \o <<Comma, Space>> \o texts[n + 1]
    <2> SUFFICES ASSUME NEW n \in Nat \ {0}
                 PROVE  u[n + 1] = u[n] \o <<Comma, Space>> \o texts[n + 1]
      OBVIOUS
    <2>1. n + 1 \in Nat /\ n + 1 # 0 /\ n + 1 # 1 /\ (n + 1) - 1 = n
      OBVIOUS
    <2>2. u[n + 1] = Joint(texts, n + 1, u[n])
      BY <1>1, <2>1
    <2>3. QED
      BY <2>1, <2>2 DEF Joint
  <1>4. Len(texts) \in Nat /\ \A n \in 1 .. Len(texts) : texts[n] \in Seq(S)
    OBVIOUS
  <1>5. ASSUME NEW n \in Nat \ {0}, n < Len(texts), u[n] \in Seq(S)
        PROVE  /\ u[n + 1] \in Seq(S)
               /\ Len(u[n + 1]) = Len(u[n]) + 2 + Len(texts[n + 1])
               /\ \A i \in 1 .. Len(u[n]) : u[n + 1][i] = u[n][i]
               /\ u[n + 1][Len(u[n]) + 1] = Comma
               /\ u[n + 1][Len(u[n]) + 2] = Space
               /\ \A i \in 1 .. Len(texts[n + 1]) :
                     u[n + 1][Len(u[n]) + 2 + i] = texts[n + 1][i]
    <2>1. PICK b : b = texts[n + 1]
      OBVIOUS
    <2>2. PICK a : a = u[n]
      OBVIOUS
    <2>3. n + 1 \in 1 .. Len(texts)
      BY <1>4, <1>5
    <2>4. a \in Seq(S) /\ b \in Seq(S)
      BY <1>4, <1>5, <2>1, <2>2, <2>3
    <2>5. u[n + 1] = a \o <<Comma, Space>> \o b
      BY <1>3, <2>1, <2>2
    <2>6. /\ a \o <<Comma, Space>> \o b \in Seq(S)
          /\ Len(a \o <<Comma, Space>> \o b) = Len(a) + 2 + Len(b)
          /\ \A i \in 1 .. Len(a) : (a \o <<Comma, Space>> \o b)[i] = a[i]
          /\ (a \o <<Comma, Space>> \o b)[Len(a) + 1] = Comma
          /\ (a \o <<Comma, Space>> \o b)[Len(a) + 2] = Space
          /\ \A i \in 1 .. Len(b) :
                (a \o <<Comma, Space>> \o b)[Len(a) + 2 + i] = b[i]
      BY <2>4, Glued
    <2>7. QED
      BY <2>1, <2>2, <2>5, <2>6
  <1> DEFINE T == {n \in Nat : n <= Len(texts) => u[n] \in Seq(S)}
  <1>6. \A n \in Nat : n \in T
    <2>1. 0 \in T
      <3>1. u[0] \in Seq(S)
        BY <1>2
      <3>2. QED
        BY <3>1
    <2>2. ASSUME NEW n \in Nat, n \in T PROVE n + 1 \in T
      <3> SUFFICES ASSUME n + 1 <= Len(texts) PROVE u[n + 1] \in Seq(S)
        OBVIOUS
      <3>1. n < Len(texts) /\ u[n] \in Seq(S) /\ 1 \in 1 .. Len(texts)
        BY <1>4, <2>2
      <3>2. CASE n = 0
        BY <1>2, <1>4, <3>1, <3>2
      <3>3. CASE n # 0
        BY <1>5, <3>1, <3>3
      <3>4. QED
        BY <3>2, <3>3
    <2> HIDE DEF T
    <2>3. QED
      BY <2>1, <2>2, NatRule
  <1>a. PICK N : N = Len(texts)
    OBVIOUS
  <1>b. N \in Nat /\ \A n \in 1 .. N : texts[n] \in Seq(S)
    BY <1>4, <1>a
  <1>c. \A n \in 0 .. N : u[n] \in Seq(S)
    <2>1. ASSUME NEW n \in 0 .. N PROVE u[n] \in Seq(S)
      <3>1. n \in Nat /\ n <= Len(texts)
        BY <1>a, <1>b
      <3>2. QED
        BY <1>6, <3>1
    <2>2. QED
      BY <2>1
  <1> HIDE DEF T
  <1>d. PICK ends : ends = [n \in 0 .. N |-> Len(u[n])]
    OBVIOUS
  <1>e. /\ ends \in [0 .. N -> Nat] /\ ends[0] = 0 /\ ends[N] = Len(Separated(texts))
        /\ \A n \in 0 .. N : ends[n] = Len(u[n]) /\ ends[n] \in Nat
    <2>1. \A n \in 0 .. N : ends[n] = Len(u[n]) /\ ends[n] \in Nat
      BY <1>c, <1>d
    <2>2. 0 \in 0 .. N /\ N \in 0 .. N
      BY <1>b
    <2>3. QED
      BY <1>1, <1>2, <1>a, <1>d, <2>1, <2>2
  <1>7. ASSUME NEW n \in 1 .. N
        PROVE  /\ ends[n] = From(ends, n) + Len(texts[n]) /\ From(ends, n) \in Nat
               /\ \A i \in 1 .. Len(texts[n]) : u[n][From(ends, n) + i] = texts[n][i]
    <2>0. n \in Nat /\ n >= 1 /\ n \in 0 .. N
      BY <1>b
    <2>1. CASE n = 1
      <3>1. Len(texts[1]) \in Nat /\ ends[1] = Len(texts[1]) /\ From(ends, 1) = 0
        BY <1>2, <1>b, <1>e, <2>0, <2>1 DEF From
      <3>2. QED
        BY <1>2, <2>1, <3>1
    <2>2. CASE n # 1
      <3>1. PICK m : m = n - 1
        OBVIOUS
      <3>2. /\ m \in Nat \ {0} /\ n = m + 1 /\ m < Len(texts) /\ m \in 0 .. N
            /\ m + 1 \in 0 .. N
        BY <1>a, <1>b, <2>0, <2>2, <3>1
      <3>3. u[m] \in Seq(S)
        BY <1>c, <3>2
      <3>4. From(ends, n) = Len(u[m]) + 2 /\ ends[n] = Len(u[m + 1]) /\ Len(u[m]) \in Nat
        BY <1>e, <2>2, <3>1, <3>2 DEF From
      <3>5. /\ Len(u[m + 1]) = Len(u[m]) + 2 + Len(texts[m + 1])
            /\ \A i \in 1 .. Len(texts[m + 1]) :
                 u[m + 1][Len(u[m]) + 2 + i] = texts[m + 1][i]
        BY <1>5, <3>2, <3>3
      <3>6. u[n] = u[m + 1] /\ texts[n] = texts[m + 1]
        BY <3>2
      <3>7. ends[n] = From(ends, n) + Len(texts[n]) /\ From(ends, n) \in Nat
        BY <3>4, <3>5, <3>6
      <3>8. \A i \in 1 .. Len(texts[n]) : u[n][From(ends, n) + i] = texts[n][i]
        BY <3>4, <3>5, <3>6
      <3>9. QED
        BY <3>7, <3>8
    <2>3. QED
      BY <2>1, <2>2
  <1>8. ASSUME NEW n \in 1 .. N, n < N
        PROVE  /\ ends[n] + 2 <= ends[n + 1]
               /\ \A i \in 1 .. ends[n] : u[n + 1][i] = u[n][i]
               /\ u[n + 1][ends[n] + 1] = Comma /\ u[n + 1][ends[n] + 2] = Space
    <2>1. /\ n \in Nat \ {0} /\ n < Len(texts) /\ n \in 0 .. N /\ n + 1 \in 0 .. N
          /\ n + 1 \in 1 .. N
      BY <1>a, <1>b, <1>8
    <2>2. u[n] \in Seq(S) /\ Len(texts[n + 1]) \in Nat
      BY <1>b, <1>c, <2>1
    <2>3. ends[n] = Len(u[n]) /\ ends[n + 1] = Len(u[n + 1]) /\ ends[n] \in Nat
      BY <1>e, <2>1
    <2>4. /\ Len(u[n + 1]) = Len(u[n]) + 2 + Len(texts[n + 1])
          /\ \A i \in 1 .. Len(u[n]) : u[n + 1][i] = u[n][i]
          /\ u[n + 1][Len(u[n]) + 1] = Comma /\ u[n + 1][Len(u[n]) + 2] = Space
      BY <1>5, <2>1, <2>2
    <2>5. ends[n] + 2 <= ends[n + 1]
      <3>1. PICK l : l = Len(texts[n + 1])
        OBVIOUS
      <3>2. ends[n + 1] = ends[n] + 2 + l
        BY <2>3, <2>4, <3>1
      <3>3. l \in Nat
        BY <2>2, <3>1
      <3>4. QED
        BY <2>3, <3>2, <3>3
    <2>6. QED
      BY <2>3, <2>4, <2>5
  <1>9. ASSUME NEW n \in 1 .. N
        PROVE  \A m \in Nat : m \in n .. N =>
                 /\ ends[n] <= ends[m]
                 /\ \A i \in 1 .. ends[n] : u[m][i] = u[n][i]
                 /\ m > n => /\ ends[n] + 2 <= ends[m]
                             /\ u[m][ends[n] + 1] = Comma
                             /\ u[m][ends[n] + 2] = Space
    <2> DEFINE P(m) == /\ ends[n] <= ends[m]
                       /\ \A i \in 1 .. ends[n] : u[m][i] = u[n][i]
                       /\ m > n => /\ ends[n] + 2 <= ends[m]
                                   /\ u[m][ends[n] + 1] = Comma
                                   /\ u[m][ends[n] + 2] = Space
               R == {m \in Nat : m \in n .. N => P(m)}
    <2>0. ends[n] \in Nat /\ n \in Nat \ {0} /\ N \in Nat
      <3>1. n \in 0 .. N /\ n \in Nat \ {0}
        BY <1>b
      <3>2. QED
        BY <1>b, <1>e, <3>1
    <2>1. 0 \in R
      BY <2>0
    <2>2. ASSUME NEW m \in Nat, m \in R PROVE m + 1 \in R
      <3> SUFFICES ASSUME m + 1 \in n .. N PROVE P(m + 1)
        OBVIOUS
      <3>1. CASE m + 1 = n
        <4>1. ends[n] <= ends[m + 1] /\ ~ (m + 1 > n)
          BY <2>0, <3>1
        <4>2. \A i \in 1 .. ends[n] : u[m + 1][i] = u[n][i]
          BY <3>1
        <4>3. QED
          BY <4>1, <4>2
      <3>2. CASE m + 1 # n
        <4>1. m \in n .. N /\ m \in 1 .. N /\ m < N /\ m + 1 > n
          BY <2>0, <3>2
        <4>2. P(m)
          BY <2>2, <4>1
        <4>3. /\ ends[m] + 2 <= ends[m + 1]
              /\ \A i \in 1 .. ends[m] : u[m + 1][i] = u[m][i]
              /\ u[m + 1][ends[m] + 1] = Comma /\ u[m + 1][ends[m] + 2] = Space
          BY <1>8, <4>1
        <4>4. ends[m] \in Nat /\ ends[m + 1] \in Nat
          <5>1. m \in 0 .. N /\ m + 1 \in 0 .. N
            BY <2>0, <4>1
          <5>2. QED
            BY <1>e, <5>1
        <4>5. ends[n] <= ends[m]
          BY <4>2
        <4>6. ends[n] <= ends[m + 1] /\ ends[n] + 2 <= ends[m + 1]
          BY <2>0, <4>3, <4>4, <4>5
        <4>7. \A i \in 1 .. ends[n] : u[m + 1][i] = u[n][i]
          <5> SUFFICES ASSUME NEW i \in 1 .. ends[n] PROVE u[m + 1][i] = u[n][i]
            OBVIOUS
          <5>1. i \in 1 .. ends[m]
            BY <2>0, <4>4, <4>5
          <5>2. QED
            BY <4>2, <4>3, <5>1
        <4>8. u[m + 1][ends[n] + 1] = Comma /\ u[m + 1][ends[n] + 2] = Space
          <5>1. CASE m = n
            BY <4>3, <5>1
          <5>2. CASE m # n
            <6>1. m > n
              BY <2>0, <4>1, <5>2
            <6>2. /\ ends[n] + 2 <= ends[m]
                  /\ u[m][ends[n] + 1] = Comma /\ u[m][ends[n] + 2] = Space
              BY <4>2, <6>1
            <6>3. ends[n] + 1 \in 1 .. ends[m] /\ ends[n] + 2 \in 1 .. ends[m]
              BY <2>0, <4>4, <6>2
            <6>4. QED
              BY <4>3, <6>2, <6>3
          <5>3. QED
            BY <5>1, <5>2
        <4>9. QED
          BY <4>6, <4>7, <4>8
      <3>3. QED
        BY <3>1, <3>2
    <2> HIDE DEF R
    <2>3. \A m \in Nat : m \in R
      BY <2>1, <2>2, NatRule
    <2>4. QED
      BY <2>3 DEF R
  <1>10. ASSUME NEW n \in 1 .. N
         PROVE  /\ ends[n] <= Len(Separated(texts))
                /\ \A i \in 1 .. Len(texts[n]) :
                      Separated(texts)[From(ends, n) + i] = texts[n][i]
                /\ n < N => /\ Separated(texts)[ends[n] + 1] = Comma
                            /\ Separated(texts)[ends[n] + 2] = Space
    <2>0. N \in Nat /\ n \in Nat \ {0} /\ N \in n .. N
      BY <1>b
    <2>1. /\ ends[n] <= ends[N]
          /\ \A i \in 1 .. ends[n] : u[N][i] = u[n][i]
          /\ N > n => u[N][ends[n] + 1] = Comma /\ u[N][ends[n] + 2] = Space
      BY <1>9, <2>0
    <2>2. /\ ends[n] = From(ends, n) + Len(texts[n]) /\ From(ends, n) \in Nat
          /\ \A i \in 1 .. Len(texts[n]) : u[n][From(ends, n) + i] = texts[n][i]
      BY <1>7
    <2>3. Len(texts[n]) \in Nat
      BY <1>b
    <2>4. ASSUME NEW i \in 1 .. Len(texts[n])
          PROVE  u[N][From(ends, n) + i] = texts[n][i]
      <3>1. From(ends, n) + i \in 1 .. ends[n]
        BY <2>2, <2>3
      <3>2. QED
        BY <2>1, <2>2, <3>1
    <2>5. Separated(texts) = u[N]
      BY <1>1, <1>a
    <2>6. QED
      BY <1>e, <2>0, <2>1, <2>4, <2>5
  <1>11. LaidOut(Separated(texts), texts, ends)
    BY <1>7, <1>10, <1>a, <1>e DEF LaidOut
  <1>12. Separated(texts) \in Seq(S)
    <2>1. N \in 0 .. N
      BY <1>b
    <2>2. QED
      BY <1>1, <1>a, <1>c, <2>1
  <1>13. QED
    BY <1>11, <1>12

-----------------------------------------------------------------------------
(* The strings a parser has taken from a text.                             *)

\* A text between two lexemes.
LEMMA Enclosed ==
    ASSUME NEW S, NEW s \in Seq(S), NEW x \in S, NEW y \in S
    PROVE  /\ <<x>> \o s \o <<y>> \in Seq(S)
           /\ Len(<<x>> \o s \o <<y>>) = Len(s) + 2
           /\ (<<x>> \o s \o <<y>>)[1] = x
           /\ \A i \in 1 .. Len(s) : (<<x>> \o s \o <<y>>)[1 + i] = s[i]
           /\ (<<x>> \o s \o <<y>>)[Len(s) + 2] = y
  <1>1. PICK d : d = <<x>> \o s
    OBVIOUS
  <1>2. /\ d \in Seq(S) /\ Len(d) = 1 + Len(s) /\ d[1] = x
        /\ \A i \in 1 .. Len(s) : d[1 + i] = s[i]
    BY <1>1
  <1>3. PICK c : c = d \o <<y>>
    OBVIOUS
  <1>4. Len(s) \in Nat /\ \A i \in 0 .. Len(s) : 1 + i \in 1 .. Len(d)
    BY <1>2
  <1>5. /\ c \in Seq(S) /\ Len(c) = Len(d) + 1
        /\ \A i \in 1 .. Len(d) : c[i] = d[i]
        /\ c[Len(d) + 1] = y
    <2>1. d \in Seq(S)
      BY <1>2
    <2>2. QED
      BY <1>3, <2>1
  <1>6. c[1] = x /\ c[Len(s) + 2] = y /\ Len(c) = Len(s) + 2
    BY <1>2, <1>4, <1>5
  <1>7. \A i \in 1 .. Len(s) : c[1 + i] = s[i]
    BY <1>2, <1>4, <1>5
  <1>8. QED
    BY <1>1, <1>3, <1>5, <1>6, <1>7

\* Lexemes: no prover knows that a literal is a string.
Marks == {"\"", ",", " ", "{", "}", "[", "]", ":", "int", "products", "resources",
          "services", "name", "price", "stock", "description", "category",
          "duration"}
Glyphs == STRING \cup Marks

LEMMA StringGlyphs == /\ Seq(STRING) \subseteq Seq(Glyphs)
                      /\ Quote \in Glyphs /\ Comma \in Glyphs /\ Space \in Glyphs
  <1>1. Seq(STRING) \subseteq Seq(Glyphs)
    BY DEF Glyphs
  <1>2. Quote \in Marks /\ Comma \in Marks /\ Space \in Marks
    BY Zenon DEF Marks, Quote, Comma, Space
  <1>3. QED
    BY <1>1, <1>2 DEF Glyphs

\* A string that dumps writes and the parser takes again as it is.
StringOK(s) == /\ s \in Seq(Glyphs)
               /\ StringEnd(<<Quote>> \o s \o <<Quote>>, 1) = Len(s) + 2

Leaf(v) == "str" \in DOMAIN v => \E s : v = [str |-> s] /\ StringOK(s)
Fields(f) == \A k \in DOMAIN f : Leaf(f[k])
Value(v) == Leaf(v) /\ ("obj" \in DOMAIN v => Fields(v.obj))

\* An array or a map that is begun.
Container(c) == \/ \E items : c = Array(items)
                \/ \E f, k : c = [obj |-> f, key |-> k] /\ Fields(f)

\* What a parser has taken from a text.
Taken(p) ==
    /\ DOMAIN p = DOMAIN Begin
    /\ p.at \in {"value", "loop"}
    /\ \E S : p.open \in Seq(S) /\ \A c \in S : Container(c)
    /\ Value(p.out)

Strings(p) == /\ Taken(p)
              /\ p.status = "parsing" /\ p.at = "loop" => p.open # <<>>

LEMMA TakenString ==
    ASSUME NEW text \in Seq(STRING), NEW i \in Nat \ {0}, Char(text, i) = Quote,
           StringEnd(text, i) # 0
    PROVE  StringOK(SubSeq(text, i + 1, StringEnd(text, i) - 1))
  <1>1. PICK e : e = StringEnd(text, i)
    OBVIOUS
  <1>2. e \in i + 1 .. Len(text) /\ Len(text) \in Nat
    BY <1>1, StringEndType
  <1>3. e \in Nat \ {0} /\ e > i
    BY <1>2
  <1>4. text[i] = Quote
    BY <1>2 DEF Char
  <1>5. text[e] = Quote
    <2>1. CASE Char(text, i + 1) = Quote
      <3>1. e = i + 1
        BY <1>1, <1>3, <2>1, StringEndIs
      <3>2. QED
        BY <1>2, <2>1, <3>1 DEF Char
    <2>2. CASE Char(text, i + 1) # Quote
      <3>1. Closes(text, e)
        BY <1>1, <1>3, <2>2, StringEndIs
      <3>2. QED
        BY <3>1, ClosesIs
    <2>3. QED
      BY <2>1, <2>2
  <1>6. PICK s : s = SubSeq(text, i + 1, e - 1)
    OBVIOUS
  <1>7. /\ s \in Seq(STRING) /\ Len(s) = e - 1 - i
        /\ \A j \in 1 .. Len(s) : s[j] = text[i + j]
    BY <1>2, <1>3, <1>6
  <1>a. s \in Seq(Glyphs) /\ Quote \in Glyphs
    BY <1>7, StringGlyphs
  <1>8. PICK other : other = <<Quote>> \o s \o <<Quote>>
    OBVIOUS
  <1>9. /\ other \in Seq(Glyphs) /\ Len(other) = Len(s) + 2
        /\ other[1] = Quote /\ other[Len(s) + 2] = Quote
        /\ \A j \in 1 .. Len(s) : other[1 + j] = s[j]
    BY <1>8, <1>a, Enclosed
  <1>10. Len(other) = e - i + 1
    BY <1>2, <1>3, <1>7, <1>9
  <1>11. Fits(text, i, e, other, 1)
    BY <1>2, <1>3, <1>10 DEF Fits
  <1>12. ASSUME NEW j \in i .. e PROVE text[j] = other[1 + (j - i)]
    <2>1. CASE j = i
      BY <1>3, <1>4, <1>9, <2>1
    <2>2. CASE j = e
      <3>1. 1 + (j - i) = Len(s) + 2
        BY <1>3, <1>7, <2>2
      <3>2. QED
        BY <1>5, <1>9, <2>2, <3>1
    <2>3. CASE j # i /\ j # e
      <3>1. PICK x : x = j - i
        OBVIOUS
      <3>2. x \in 1 .. Len(s) /\ i + x = j
        BY <1>3, <1>7, <2>3, <3>1
      <3>3. other[1 + x] = s[x] /\ s[x] = text[i + x]
        BY <1>7, <1>9, <3>2
      <3>4. QED
        BY <3>1, <3>2, <3>3
    <2>4. QED
      BY <2>1, <2>2, <2>3
  <1>13. Alike(text, i, e, other, 1)
    BY <1>11, <1>12 DEF Alike
  <1>14. StringEnd(other, 1) = 1 + (e - i)
    BY <1>1, <1>3, <1>4, <1>9, <1>13, EndAlike
  <1>15. 1 + (e - i) = Len(s) + 2
    BY <1>3, <1>7
  <1>16. QED
    BY <1>1, <1>6, <1>a, <1>8, <1>14, <1>15 DEF StringOK

-----------------------------------------------------------------------------
(* What a turn does, by the lexeme it meets.                               *)

Brace == "{"
EndBrace == "}"

LEMMA MarksDiffer ==
    /\ Brace \notin Keywords \cup Numbers \cup {"huge", "[", "end", Space}
    /\ Quote \notin Keywords \cup Numbers \cup {"huge", "[", "end", Space, Brace, Comma}
    /\ Quote # EndBrace
    /\ EndBrace \notin {Space, Comma, "end"} /\ Comma # Space
    /\ Space # ":" /\ Space # "[" /\ Space # "int" /\ "int" # "[" /\ Space # "]"
    /\ Comma # "]" /\ Brace # "]" /\ Brace # Comma /\ Quote # "int"
  BY Zenon DEF Keywords, Numbers, Brace, EndBrace, Quote, Comma, Space

LEMMA SkippedIs ==
    ASSUME NEW text, NEW i
    PROVE  /\ Char(text, i) = Space => Skipped(text, i) = i + 1
           /\ Char(text, i) # Space => Skipped(text, i) = i
  BY Zenon DEF Skipped, Space

\* The place of the next lexeme that is not white space.
Place(text, p) == Skipped(text, p.index)

LEMMA ValueTurn ==
    ASSUME NEW text, NEW p
    PROVE  LET i == Place(text, p)
               c == Char(text, i)
               e == StringEnd(text, i)
               q == ParseValue(text, p)
           IN  /\ c \in Keywords \cup Numbers => q = Deliver(p, [lex |-> c], i + 1)
               /\ c = "[" => q = Enter(p, Array(<<>>), i)
               /\ c = Brace => q = Enter(p, [obj |-> EmptyMap, key |-> NoKey], i)
               /\ c = Quote /\ e # 0 =>
                    q = Deliver(p, [str |-> SubSeq(text, i + 1, e - 1)], e + 1)
               /\ c \notin Keywords \cup Numbers \cup {"[", Brace} /\ ~ (c = Quote /\ e # 0) =>
                    \E s : q = [p EXCEPT !.status = s]
  <1> DEFINE i == Place(text, p)
             c == Char(text, i)
             e == StringEnd(text, i)
             q == ParseValue(text, p)
  <1>1. CASE c \in Keywords \cup Numbers
    <2>1. q = Deliver(p, [lex |-> c], i + 1)
      BY <1>1 DEF ParseValue, Keywords, Numbers, Place
    <2>2. c # "[" /\ c # Brace /\ c # Quote
      BY <1>1, Zenon DEF Keywords, Numbers, Brace, Quote
    <2> HIDE DEF c, e, q, i
    <2>3. QED
      BY <1>1, <2>1, <2>2, Zenon DEF q, c, i, e
  <1>2. CASE c = "["
    <2>1. q = Enter(p, Array(<<>>), i)
      BY <1>2 DEF ParseValue, Keywords, Numbers, Place
    <2>2. c \notin Keywords \cup Numbers /\ c # Brace /\ c # Quote
      BY <1>2, Zenon DEF Keywords, Numbers, Brace, Quote
    <2>3. QED
      BY <1>2, <2>1, <2>2, Zenon
  <1>3. CASE c = Brace
    <2>1. q = Enter(p, [obj |-> EmptyMap, key |-> NoKey], i)
      BY <1>3, Zenon DEF ParseValue, Keywords, Numbers, Place, Brace
    <2>2. c \notin Keywords \cup Numbers /\ c # "[" /\ c # Quote
      BY <1>3, Zenon DEF Keywords, Numbers, Brace, Quote
    <2>3. QED
      BY <1>3, <2>1, <2>2, Zenon
  <1>4. CASE c = Quote /\ e # 0
    <2>1. q = Deliver(p, [str |-> SubSeq(text, i + 1, e - 1)], e + 1)
      BY <1>4, Zenon DEF ParseValue, Keywords, Numbers, Place, Quote
    <2>2. c \notin Keywords \cup Numbers /\ c # "[" /\ c # Brace
      BY <1>4, Zenon DEF Keywords, Numbers, Brace, Quote
    <2>3. QED
      BY <1>4, <2>1, <2>2, Zenon
  <1>5. CASE c \notin Keywords \cup Numbers \cup {"[", Brace} /\ ~ (c = Quote /\ e # 0)
    <2>1. \E s : q = [p EXCEPT !.status = s]
      BY <1>5, Zenon DEF ParseValue, Keywords, Numbers, Place, Quote, Brace, Raised, Looping
    <2>2. QED
      BY <1>5, <2>1, Zenon
  <1>6. QED
    BY <1>1, <1>2, <1>3, <1>4, <1>5, Zenon

LEMMA ArrayTurn ==
    ASSUME NEW text, NEW p
    PROVE  LET i == Place(text, p)
               c == Char(text, i)
               q == ParseArray(text, p)
           IN  /\ c = "]" => q = Close(p, i)
               /\ c = Comma => q = [p EXCEPT !.index = i + 1]
               /\ c \notin {"]", Comma} => q = ParseValue(text, p)
  <1> DEFINE i == Place(text, p)
             c == Char(text, i)
             q == ParseArray(text, p)
  <1>1. CASE c = "]"
    <2>1. q = Close(p, i)
      BY <1>1, Zenon DEF ParseArray, Place
    <2>2. c # Comma
      BY <1>1, Zenon DEF Comma
    <2>3. QED
      BY <1>1, <2>1, <2>2, Zenon
  <1>2. CASE c = Comma
    <2>1. q = [p EXCEPT !.index = i + 1]
      BY <1>2, Zenon DEF ParseArray, Place, Comma
    <2>2. c # "]"
      BY <1>2, Zenon DEF Comma
    <2>3. QED
      BY <1>2, <2>1, <2>2, Zenon
  <1>3. CASE c \notin {"]", Comma}
    <2>1. q = ParseValue(text, p)
      BY <1>3, Zenon DEF ParseArray, Place, Comma
    <2>2. QED
      BY <1>3, <2>1, Zenon
  <1>4. QED
    BY <1>1, <1>2, <1>3, Zenon

\* The parser with a key that waits for its value.
Keyed(p, i, k) == [p EXCEPT !.index = i, !.at = "value", !.open[1].key = k]

LEMMA MapTurn ==
    ASSUME NEW text, NEW p, p.index \in Nat
    PROVE  LET i == Place(text, p)
               c == Char(text, i)
               e == StringEnd(text, i)
               colon == Skipped(text, e + 1)
               named == c = Quote /\ e # 0 /\ e > i + 1 /\ Char(text, colon) = ":"
               q == ParseMap(text, p)
           IN  /\ c = EndBrace => q = Close(p, i)
               /\ c = Comma => q = [p EXCEPT !.index = i + 1]
               /\ named => q = Keyed(p, colon + 1, SubSeq(text, i + 1, e - 1))
               /\ c \notin {EndBrace, Comma} /\ ~ named => \E s : q = [p EXCEPT !.status = s]
  <1> DEFINE i == Place(text, p)
             c == Char(text, i)
             e == StringEnd(text, i)
             colon == Skipped(text, e + 1)
             named == c = Quote /\ e # 0 /\ e > i + 1 /\ Char(text, colon) = ":"
             q == ParseMap(text, p)
  <1>1. CASE c = EndBrace
    <2>1. q = Close(p, i)
      BY <1>1, Zenon DEF ParseMap, Place, EndBrace
    <2>2. c # Comma /\ c # Quote
      BY <1>1, Zenon DEF Comma, Quote, EndBrace
    <2>3. QED
      BY <1>1, <2>1, <2>2, Zenon
  <1>2. CASE c = Comma
    <2>1. q = [p EXCEPT !.index = i + 1]
      BY <1>2, Zenon DEF ParseMap, Place, Comma
    <2>2. c # EndBrace /\ c # Quote
      BY <1>2, Zenon DEF Comma, Quote, EndBrace
    <2>3. QED
      BY <1>2, <2>1, <2>2, Zenon
  <1>3. CASE named
    <2>1. q = Keyed(p, colon + 1, SubSeq(text, i + 1, e - 1))
      BY <1>3, Zenon DEF ParseMap, Place, Quote, Keyed
    <2>2. c # EndBrace /\ c # Comma
      BY <1>3, Zenon DEF Comma, Quote, EndBrace
    <2>3. QED
      BY <1>3, <2>1, <2>2, Zenon
  <1>4. CASE c \notin {EndBrace, Comma} /\ ~ named
    <2>0. e = 0 => ~ (e > i + 1)
      <3>1. i \in Nat
        BY SkippedIs DEF Place
      <3> HIDE DEF i, e
      <3>2. QED
        BY <3>1
    <2>1. q \in {Raised(p), Looping(p)}
      <3>1. CASE c = Quote /\ e = 0
        BY <1>4, <2>0, <3>1, Zenon DEF ParseMap, Place, Quote, EndBrace, Comma
      <3>2. CASE ~ (c = Quote /\ e = 0)
        BY <1>4, <3>2, Zenon DEF ParseMap, Place, Quote, EndBrace, Comma
      <3>3. QED
        BY <3>1, <3>2
    <2>2. \E s : q = [p EXCEPT !.status = s]
      BY <2>1, Zenon DEF Raised, Looping
    <2>3. QED
      BY <1>4, <2>2, Zenon
  <1>5. QED
    BY <1>1, <1>2, <1>3, <1>4, Zenon

LEMMA StepTurn ==
    ASSUME NEW text, NEW p
    PROVE  /\ p.at = "value" => Step(text, p) = ParseValue(text, p)
           /\ p.at = "loop" /\ "arr" \in DOMAIN Head(p.open) =>
                 Step(text, p) = ParseArray(text, p)
           /\ p.at = "loop" /\ "arr" \notin DOMAIN Head(p.open) =>
                 Step(text, p) = ParseMap(text, p)
  BY Zenon DEF Step

-----------------------------------------------------------------------------
(* Every string the parser takes would be taken again.                     *)

LEMMA OpenMore ==
    ASSUME NEW S, NEW open \in Seq(S), open # <<>>, NEW c
    PROVE  /\ <<c>> \o Tail(open) \in Seq(S \cup {c})
           /\ <<c>> \o Tail(open) # <<>>
           /\ Tail(open) \in Seq(S)
           /\ Head(open) \in S /\ Head(open) = open[1]
  <1>1. Tail(open) \in Seq(S) /\ Head(open) \in S /\ Head(open) = open[1]
    OBVIOUS
  <1>2. PICK t : t = Tail(open)
    OBVIOUS
  <1>3. t \in Seq(S \cup {c}) /\ <<c>> \in Seq(S \cup {c})
    BY <1>1, <1>2
  <1>4. <<c>> \o t \in Seq(S \cup {c}) /\ Len(<<c>> \o t) = 1 + Len(t) /\ Len(t) \in Nat
    BY <1>3
  <1>5. Len(<<c>> \o t) # 0
    BY <1>4
  <1>6. <<c>> \o t # <<>>
    BY <1>5
  <1>7. QED
    BY <1>1, <1>2, <1>4, <1>6

LEMMA StringsDeliver ==
    ASSUME NEW p, Taken(p), NEW v, Value(v), NEW i
    PROVE  Strings(Deliver(p, v, i))
  <1>1. PICK S : p.open \in Seq(S) /\ \A c \in S : Container(c)
    BY DEF Strings, Taken
  <1>2. CASE p.open = <<>>
    <2>1. Deliver(p, v, i) = [p EXCEPT !.index = i, !.out = v, !.status = "done"]
      BY <1>2 DEF Deliver
    <2>2. QED
      BY <1>1, <2>1 DEF Strings, Taken, Begin
  <1>3. CASE p.open # <<>>
    <2> DEFINE c == Head(p.open)
               filled == IF "arr" \in DOMAIN c THEN Array(Append(c.arr, v))
                         ELSE [obj |-> [k \in DOMAIN c.obj \cup {c.key} |->
                                          IF k = c.key THEN v ELSE c.obj[k]],
                               key |-> NoKey]
    <2>1. Deliver(p, v, i) = [p EXCEPT !.index = i, !.at = "loop",
                                       !.open = <<filled>> \o Tail(p.open)]
      BY <1>3 DEF Deliver
    <2>2. Container(c)
      BY <1>1, <1>3
    <2>3. Container(filled)
      <3>1. CASE "arr" \in DOMAIN c
        BY <3>1 DEF Container
      <3>2. CASE "arr" \notin DOMAIN c
        <4>1. PICK f, k : c = [obj |-> f, key |-> k] /\ Fields(f)
          <5> HIDE DEF c
          <5>1. QED
            BY <2>2, <3>2 DEF Container, Array
        <4>2. filled = [obj |-> [n \in DOMAIN f \cup {k} |-> IF n = k THEN v ELSE f[n]],
                        key |-> NoKey]
          BY <3>2, <4>1
        <4>3. Fields([n \in DOMAIN f \cup {k} |-> IF n = k THEN v ELSE f[n]])
          BY <4>1 DEF Fields, Value
        <4>4. QED
          BY <4>2, <4>3 DEF Container
      <3>3. QED
        BY <3>1, <3>2
    <2> HIDE DEF filled, c
    <2>4. PICK open : open = <<filled>> \o Tail(p.open)
      OBVIOUS
    <2>5. open \in Seq(S \cup {filled}) /\ open # <<>>
      BY <1>1, <1>3, <2>4, OpenMore
    <2>6. \A d \in S \cup {filled} : Container(d)
      BY <1>1, <2>3
    <2>7. PICK q : q = Deliver(p, v, i)
      OBVIOUS
    <2>8. /\ DOMAIN q = DOMAIN Begin /\ q.at = "loop" /\ q.open = open /\ q.out = p.out
      BY <2>1, <2>4, <2>7 DEF Strings, Taken, Begin
    <2>9. Strings(q)
      BY <2>5, <2>6, <2>8 DEF Strings, Taken
    <2>10. QED
      BY <2>7, <2>9
  <1>4. QED
    BY <1>2, <1>3

LEMMA StringsEnter ==
    ASSUME NEW p, Strings(p), NEW c, Container(c), NEW i
    PROVE  Strings(Enter(p, c, i))
  <1>1. PICK S : p.open \in Seq(S) /\ \A d \in S : Container(d)
    BY DEF Strings, Taken
  <1>2. PICK t : t = p.open
    OBVIOUS
  <1>3. t \in Seq(S \cup {c}) /\ <<c>> \in Seq(S \cup {c})
    BY <1>1, <1>2
  <1>4. PICK open : open = <<c>> \o t
    OBVIOUS
  <1>5. open \in Seq(S \cup {c}) /\ Len(open) = 1 + Len(t) /\ Len(t) \in Nat
    BY <1>3, <1>4
  <1>6. open # <<>>
    <2>1. Len(open) # 0
      BY <1>5
    <2>2. QED
      BY <2>1
  <1>7. PICK q : q = Enter(p, c, i)
    OBVIOUS
  <1>8. DOMAIN q = DOMAIN Begin /\ q.at = "loop" /\ q.open = open /\ q.out = p.out
    BY <1>2, <1>4, <1>7 DEF Strings, Taken, Begin, Enter
  <1>9. \A d \in S \cup {c} : Container(d)
    BY <1>1
  <1>10. Strings(q)
    BY <1>5, <1>6, <1>8, <1>9 DEF Strings, Taken
  <1>11. QED
    BY <1>7, <1>10

LEMMA StringsClose ==
    ASSUME NEW p, Strings(p), p.open # <<>>, NEW i
    PROVE  Strings(Close(p, i))
  <1>1. PICK S : p.open \in Seq(S) /\ \A c \in S : Container(c)
    BY DEF Strings, Taken
  <1>2. PICK c : c = Head(p.open)
    OBVIOUS
  <1>3. Container(c) /\ Tail(p.open) \in Seq(S)
    BY <1>1, <1>2
  <1>4. PICK v : v = IF "arr" \in DOMAIN c THEN c ELSE Map(c.obj)
    OBVIOUS
  <1>5. Value(v)
    <2>1. CASE "arr" \in DOMAIN c
      <3>1. PICK items : c = Array(items)
        BY <1>3, <2>1 DEF Container
      <3>2. QED
        BY <1>4, <2>1, <3>1 DEF Value, Leaf, Array
    <2>2. CASE "arr" \notin DOMAIN c
      <3>1. PICK f, k : c = [obj |-> f, key |-> k] /\ Fields(f)
        BY <1>3, <2>2 DEF Container, Array
      <3>2. v = [obj |-> f]
        BY <1>4, <2>2, <3>1 DEF Map
      <3>3. QED
        BY <3>1, <3>2 DEF Value, Leaf
    <2>3. QED
      BY <2>1, <2>2
  <1>6. PICK q : q = [p EXCEPT !.open = Tail(p.open)]
    OBVIOUS
  <1>7. Close(p, i) = Deliver(q, v, i + 1)
    BY <1>2, <1>4, <1>6 DEF Close
  <1>8. Taken(q)
    BY <1>1, <1>3, <1>6 DEF Strings, Taken, Begin
  <1>9. QED
    BY <1>5, <1>7, <1>8, StringsDeliver

\* Status and index do not matter.
LEMMA StringsSame ==
    ASSUME NEW p, CanTurn(p), Strings(p), NEW q, DOMAIN q = DOMAIN Begin,
           q.at = p.at, q.open = p.open, q.out = p.out
    PROVE  Strings(q)
  BY DEF Strings, Taken, CanTurn

LEMMA StringsValue ==
    ASSUME NEW text \in Seq(STRING), NEW p, CanTurn(p), Strings(p)
    PROVE  Strings(ParseValue(text, p))
  <1> DEFINE i == Place(text, p)
             c == Char(text, i)
             e == StringEnd(text, i)
             q == ParseValue(text, p)
  <1>0. i \in Nat \ {0} /\ Taken(p)
    BY SkippedType DEF CanTurn, Place, Strings
  <1>1. /\ c \in Keywords \cup Numbers => q = Deliver(p, [lex |-> c], i + 1)
        /\ c = "[" => q = Enter(p, Array(<<>>), i)
        /\ c = Brace => q = Enter(p, [obj |-> EmptyMap, key |-> NoKey], i)
        /\ c = Quote /\ e # 0 =>
             q = Deliver(p, [str |-> SubSeq(text, i + 1, e - 1)], e + 1)
        /\ c \notin Keywords \cup Numbers \cup {"[", Brace} /\ ~ (c = Quote /\ e # 0) =>
             \E s : q = [p EXCEPT !.status = s]
    BY ValueTurn
  <1>2. c = Quote /\ e # 0 => Value([str |-> SubSeq(text, i + 1, e - 1)])
    <2>1. c = Quote /\ e # 0 => StringOK(SubSeq(text, i + 1, e - 1))
      BY <1>0, TakenString
    <2>2. QED
      BY <2>1 DEF Value, Leaf
  <1> HIDE DEF i, c, e, q
  <1>3. CASE c \in Keywords \cup Numbers
    <2>1. Value([lex |-> c])
      BY DEF Value, Leaf
    <2>2. QED
      BY <1>0, <1>1, <1>3, <2>1, StringsDeliver DEF q
  <1>4. CASE c = "["
    <2>1. Container(Array(<<>>))
      BY DEF Container
    <2>2. QED
      BY <1>1, <1>4, <2>1, StringsEnter DEF q
  <1>5. CASE c = Brace
    <2>1. Container([obj |-> EmptyMap, key |-> NoKey])
      <3>1. Fields(EmptyMap)
        BY DEF Fields, EmptyMap
      <3>2. QED
        BY <3>1 DEF Container
    <2>2. QED
      BY <1>1, <1>5, <2>1, StringsEnter DEF q
  <1>6. CASE c = Quote /\ e # 0
    BY <1>0, <1>1, <1>2, <1>6, StringsDeliver DEF q
  <1>7. CASE c \notin Keywords \cup Numbers \cup {"[", Brace} /\ ~ (c = Quote /\ e # 0)
    <2>1. PICK s : q = [p EXCEPT !.status = s]
      BY <1>1, <1>7
    <2>2. PICK r : r = q
      OBVIOUS
    <2>3. DOMAIN r = DOMAIN Begin /\ r.at = p.at /\ r.open = p.open /\ r.out = p.out
      BY <2>1, <2>2 DEF CanTurn, Begin
    <2>4. Strings(r)
      BY <2>3, StringsSame
    <2>5. QED
      BY <2>2, <2>4 DEF q
  <1>8. QED
    BY <1>3, <1>4, <1>5, <1>6, <1>7, Zenon

LEMMA StringsKey ==
    ASSUME NEW p, CanTurn(p), Strings(p), p.open # <<>>, "arr" \notin DOMAIN Head(p.open),
           NEW s, NEW q, DOMAIN q = DOMAIN Begin, q.at = "value", q.out = p.out,
           q.open = [p.open EXCEPT ![1].key = s]
    PROVE  Strings(q)
  <1>1. PICK S : p.open \in Seq(S) /\ \A c \in S : Container(c)
    BY DEF Strings, Taken
  <1>2. PICK open : open = p.open
    OBVIOUS
  <1>3. open \in Seq(S) /\ 1 \in 1 .. Len(open) /\ open[1] \in S /\ Head(open) = open[1]
    BY <1>1, <1>2
  <1>4. PICK c : c = open[1]
    OBVIOUS
  <1>5. "arr" \notin DOMAIN c /\ Container(c)
    BY <1>1, <1>2, <1>3, <1>4
  <1>6. PICK f, k : c = [obj |-> f, key |-> k] /\ Fields(f)
    BY <1>5 DEF Container, Array
  <1>7. PICK d : d = [c EXCEPT !.key = s]
    OBVIOUS
  <1>8. Container(d)
    <2>1. d = [obj |-> f, key |-> s]
      BY <1>6, <1>7
    <2>2. QED
      BY <1>6, <2>1 DEF Container
  <1>9. PICK new : new = [open EXCEPT ![1] = d]
    OBVIOUS
  <1>10. new \in Seq(S \cup {d})
    <2>1. PICK T : T = S \cup {d}
      OBVIOUS
    <2>2. open \in Seq(T) /\ d \in T
      BY <1>3, <2>1
    <2>3. PICK n \in Nat : n = Len(open)
      BY <1>3
    <2>a. open \in [1 .. n -> T]
      BY <2>2, <2>3
    <2>b. new \in [1 .. n -> T]
      BY <1>9, <2>2, <2>a
    <2>c. new \in Seq(T)
      BY <2>b
    <2>4. QED
      BY <2>1, <2>c
  <1>11. q.open = new
    BY <1>2, <1>4, <1>7, <1>9
  <1>12. \A x \in S \cup {d} : Container(x)
    BY <1>1, <1>8
  <1>13. QED
    BY <1>10, <1>11, <1>12 DEF Strings, Taken

LEMMA StringsStep ==
    ASSUME NEW text \in Seq(STRING), NEW p, CanTurn(p), Strings(p)
    PROVE  Strings(Step(text, p))
  <1> DEFINE i == Place(text, p)
             c == Char(text, i)
             e == StringEnd(text, i)
             colon == Skipped(text, e + 1)
             named == c = Quote /\ e # 0 /\ e > i + 1 /\ Char(text, colon) = ":"
  <1>0. p.index \in Nat
    BY DEF CanTurn
  <1>1. CASE p.at = "value"
    BY <1>1, StepTurn, StringsValue
  <1>2. CASE p.at = "loop" /\ "arr" \in DOMAIN Head(p.open)
    <2>1. p.open # <<>>
      BY <1>2 DEF Strings, CanTurn
    <2>2. PICK q : q = ParseArray(text, p)
      OBVIOUS
    <2>3. /\ c = "]" => q = Close(p, i)
          /\ c = Comma => q = [p EXCEPT !.index = i + 1]
          /\ c \notin {"]", Comma} => q = ParseValue(text, p)
      BY <2>2, ArrayTurn
    <2> HIDE DEF i, c
    <2>4. Strings(q)
      <3>1. CASE c = "]"
        BY <2>1, <2>3, <3>1, StringsClose
      <3>2. CASE c = Comma
        <4>1. DOMAIN q = DOMAIN Begin /\ q.at = p.at /\ q.open = p.open /\ q.out = p.out
          BY <2>3, <3>2 DEF CanTurn, Begin
        <4>2. QED
          BY <4>1, StringsSame
      <3>3. CASE c \notin {"]", Comma}
        BY <2>3, <3>3, StringsValue
      <3>4. QED
        BY <3>1, <3>2, <3>3
    <2>5. QED
      BY <1>2, <2>2, <2>4, StepTurn
  <1>3. CASE p.at = "loop" /\ "arr" \notin DOMAIN Head(p.open)
    <2>1. p.open # <<>>
      BY <1>3 DEF Strings, CanTurn
    <2> DEFINE q == ParseMap(text, p)
    <2>3. /\ c = EndBrace => q = Close(p, i)
          /\ c = Comma => q = [p EXCEPT !.index = i + 1]
          /\ named => q = Keyed(p, colon + 1, SubSeq(text, i + 1, e - 1))
          /\ c \notin {EndBrace, Comma} /\ ~ named => \E s : q = [p EXCEPT !.status = s]
      BY <1>0, MapTurn
    <2> HIDE DEF i, c, e, colon, named, q
    <2>4. Strings(q)
      <3>1. CASE c = EndBrace
        BY <2>1, <2>3, <3>1, StringsClose
      <3>2. CASE c = Comma
        <4>1. DOMAIN q = DOMAIN Begin /\ q.at = p.at /\ q.open = p.open /\ q.out = p.out
          BY <2>3, <3>2 DEF CanTurn, Begin
        <4>2. QED
          BY <4>1, StringsSame
      <3>3. CASE named
        <4>1. PICK s : s = SubSeq(text, i + 1, e - 1)
          OBVIOUS
        <4>2. q = Keyed(p, colon + 1, s)
          BY <2>3, <3>3, <4>1
        <4>3. /\ DOMAIN q = DOMAIN Begin /\ q.at = "value" /\ q.out = p.out
              /\ q.open = [p.open EXCEPT ![1].key = s]
          BY <4>2 DEF CanTurn, Begin, Keyed
        <4>4. QED
          BY <1>3, <2>1, <4>3, StringsKey
      <3>4. CASE c \notin {EndBrace, Comma} /\ ~ named
        <4>1. PICK s : q = [p EXCEPT !.status = s]
          BY <2>3, <3>4
        <4>2. DOMAIN q = DOMAIN Begin /\ q.at = p.at /\ q.open = p.open /\ q.out = p.out
          BY <4>1 DEF CanTurn, Begin
        <4>3. QED
          BY <4>2, StringsSame
      <3>5. QED
        BY <3>1, <3>2, <3>3, <3>4
    <2>5. QED
      BY <1>3, <2>4, StepTurn DEF q
  <1>4. QED
    BY <1>1, <1>2, <1>3 DEF Strings, Taken

LEMMA StringsTurns ==
    ASSUME NEW text \in Seq(STRING)
    PROVE  \A n \in Nat : Strings(Turns(text)[n])
  <1> DEFINE S == {n \in Nat : Strings(Turns(text)[n])}
  <1>1. 0 \in S
    <2>1. <<>> \in Seq({}) /\ \A c \in {} : Container(c)
      OBVIOUS
    <2>2. PICK p : p = Begin
      OBVIOUS
    <2>a. /\ DOMAIN p = DOMAIN Begin /\ p.at = "value" /\ p.open = <<>>
          /\ p.out = [lex |-> "undefined"]
      BY <2>2 DEF Begin
    <2>b. Value(p.out)
      BY <2>a DEF Value, Leaf
    <2>c. \E R : p.open \in Seq(R) /\ \A c \in R : Container(c)
      <3>1. PICK R : R = {}
        OBVIOUS
      <3>2. p.open \in Seq(R) /\ \A c \in R : Container(c)
        BY <2>1, <2>a, <3>1
      <3>3. QED
        BY <3>2
    <2>d. Strings(p)
      BY <2>a, <2>b, <2>c DEF Strings, Taken
    <2>3. QED
      BY <2>2, <2>d, TurnsRecursion
  <1>2. ASSUME NEW n \in Nat, n \in S PROVE n + 1 \in S
    <2>1. PICK p : p = Turns(text)[n]
      OBVIOUS
    <2>2. Turns(text)[n + 1] = Turn(text, p) /\ Strings(p) /\ IsParser(p)
      BY <1>2, <2>1, TurnsRecursion, TurnsType
    <2>3. CASE p.status # "parsing"
      BY <2>2, <2>3 DEF Turn
    <2>4. CASE p.status = "parsing"
      <3>1. CanTurn(p)
        BY <2>2, <2>4 DEF CanTurn, IsParser
      <3>2. QED
        BY <2>2, <2>4, <3>1, StringsStep DEF Turn
    <2>5. QED
      BY <2>3, <2>4
  <1> HIDE DEF S
  <1>3. \A n \in Nat : n \in S
    BY <1>1, <1>2, NatRule
  <1>4. QED
    BY <1>3 DEF S

-----------------------------------------------------------------------------
(* The arrays and maps that are open.                                      *)

Push(c, rest) == <<c>> \o rest
IsStack(s) == \E S : s \in Seq(S)

LEMMA PushIs ==
    ASSUME NEW c, NEW rest, IsStack(rest)
    PROVE  /\ IsStack(Push(c, rest)) /\ Push(c, rest) # <<>>
           /\ Head(Push(c, rest)) = c /\ Tail(Push(c, rest)) = rest
           /\ \A d : [Push(c, rest) EXCEPT ![1] = d] = Push(d, rest)
           /\ Push(c, rest)[1] = c
  <1>1. PICK S : rest \in Seq(S)
    BY DEF IsStack
  <1>2. PICK s : s = Push(c, rest)
    OBVIOUS
  <1>3. PICK T : T = S \cup {c}
    OBVIOUS
  <1>4. rest \in Seq(T) /\ c \in T
    BY <1>1, <1>3
  <1>5. /\ s \in Seq(T) /\ Len(s) = Len(rest) + 1 /\ s[1] = c /\ Len(rest) \in Nat
        /\ \A i \in 1 .. Len(rest) : s[i + 1] = rest[i]
    BY <1>2, <1>4 DEF Push
  <1>6. s # <<>> /\ Head(s) = c
    BY <1>5
  <1>7. Tail(s) = rest
    <2>1. PICK t : t = Tail(s)
      OBVIOUS
    <2>2. t \in Seq(T) /\ Len(t) = Len(rest) /\ \A i \in 1 .. Len(rest) : t[i] = s[i + 1]
      BY <1>5, <1>6, <2>1
    <2>3. \A i \in 1 .. Len(rest) : t[i] = rest[i]
      BY <1>5, <2>2
    <2>4. t = rest
      BY <1>4, <2>2, <2>3
    <2>5. QED
      BY <2>1, <2>4
  <1>8. ASSUME NEW d PROVE [s EXCEPT ![1] = d] = Push(d, rest)
    <2>1. PICK R : R = T \cup {d}
      OBVIOUS
    <2>2. rest \in Seq(R) /\ s \in Seq(R) /\ d \in R
      BY <1>4, <1>5, <2>1
    <2>3. PICK u : u = Push(d, rest)
      OBVIOUS
    <2>4. /\ u \in Seq(R) /\ Len(u) = Len(rest) + 1 /\ u[1] = d
          /\ \A i \in 1 .. Len(rest) : u[i + 1] = rest[i]
      BY <2>2, <2>3 DEF Push
    <2>5. PICK n \in Nat : n = Len(rest) + 1
      BY <1>5
    <2>6. s \in [1 .. n -> R] /\ u \in [1 .. n -> R]
      BY <1>5, <2>2, <2>4, <2>5
    <2>7. ASSUME NEW i \in 1 .. n PROVE [s EXCEPT ![1] = d][i] = u[i]
      <3>1. CASE i = 1
        BY <2>4, <2>6, <3>1
      <3>2. CASE i # 1
        <4>1. PICK m : m = i - 1
          OBVIOUS
        <4>2. m \in 1 .. Len(rest) /\ i = m + 1
          BY <1>5, <2>5, <3>2, <4>1
        <4>3. s[i] = rest[m] /\ u[i] = rest[m]
          BY <1>5, <2>4, <4>2
        <4>4. [s EXCEPT ![1] = d][i] = s[i]
          BY <2>6, <3>2
        <4>5. QED
          BY <4>3, <4>4
      <3>3. QED
        BY <3>1, <3>2
    <2>8. [s EXCEPT ![1] = d] = u
      BY <2>6, <2>7
    <2>9. QED
      BY <2>3, <2>8
  <1>9. QED
    BY <1>2, <1>5, <1>6, <1>7, <1>8 DEF IsStack

-----------------------------------------------------------------------------
(* A text inside another one.                                              *)

\* t stands in text after the first o lexemes.
Stands(text, o, t) ==
    /\ o \in Nat /\ Len(t) \in Nat /\ o + Len(t) <= Len(text)
    /\ \A j \in 1 .. Len(t) : text[o + j] = t[j]

LEMMA StandsIn ==
    ASSUME NEW text, NEW t, NEW u, NEW o, NEW m, Len(text) \in Nat,
           Stands(text, o, t), Stands(t, m, u)
    PROVE  Stands(text, o + m, u)
  <1>1. /\ o \in Nat /\ m \in Nat /\ Len(t) \in Nat /\ Len(u) \in Nat
        /\ o + Len(t) <= Len(text) /\ m + Len(u) <= Len(t)
    BY DEF Stands
  <1>2. o + m \in Nat /\ (o + m) + Len(u) <= Len(text)
    BY <1>1
  <1>3. ASSUME NEW j \in 1 .. Len(u) PROVE text[(o + m) + j] = u[j]
    <2>1. PICK x : x = m + j
      OBVIOUS
    <2>2. x \in 1 .. Len(t) /\ o + x = (o + m) + j
      BY <1>1, <2>1
    <2>3. text[o + x] = t[x] /\ t[x] = u[j]
      BY <2>1, <2>2 DEF Stands
    <2>4. QED
      BY <2>2, <2>3
  <1>4. QED
    BY <1>1, <1>2, <1>3 DEF Stands

LEMMA EnclosedStands ==
    ASSUME NEW S, NEW s \in Seq(S), NEW x \in S, NEW y \in S
    PROVE  Stands(<<x>> \o s \o <<y>>, 1, s)
  <1>1. PICK c : c = <<x>> \o s \o <<y>>
    OBVIOUS
  <1>2. Len(s) \in Nat /\ Len(c) = Len(s) + 2 /\ \A i \in 1 .. Len(s) : c[1 + i] = s[i]
    BY <1>1, Enclosed
  <1>3. Stands(c, 1, s)
    BY <1>2 DEF Stands
  <1>4. QED
    BY <1>1, <1>3

LEMMA GluedStands ==
    ASSUME NEW S, NEW a \in Seq(S), NEW b \in Seq(S), NEW x \in S, NEW y \in S
    PROVE  /\ Stands(a \o <<x, y>> \o b, 0, a)
           /\ Stands(a \o <<x, y>> \o b, Len(a) + 2, b)
  <1>1. PICK c : c = a \o <<x, y>> \o b
    OBVIOUS
  <1>2. /\ Len(c) = Len(a) + 2 + Len(b)
        /\ \A i \in 1 .. Len(a) : c[i] = a[i]
        /\ \A i \in 1 .. Len(b) : c[Len(a) + 2 + i] = b[i]
    BY <1>1, Glued
  <1>3. Len(a) \in Nat /\ Len(b) \in Nat
    OBVIOUS
  <1>4. Stands(c, 0, a)
    BY <1>2, <1>3 DEF Stands
  <1>5. Stands(c, Len(a) + 2, b)
    BY <1>2, <1>3 DEF Stands
  <1>6. QED
    BY <1>1, <1>4, <1>5

\* A string that stands in a text is found there.
LEMMA StringThere ==
    ASSUME NEW R, NEW text \in Seq(R), NEW s, StringOK(s), NEW o,
           Stands(text, o, <<Quote>> \o s \o <<Quote>>)
    PROVE  /\ Char(text, o + 1) = Quote
           /\ StringEnd(text, o + 1) = o + Len(s) + 2
           /\ SubSeq(text, o + 2, o + Len(s) + 1) = s
           /\ o \in Nat /\ Len(s) \in Nat /\ o + Len(s) + 2 <= Len(text)
  <1>1. PICK own : own = <<Quote>> \o s \o <<Quote>>
    OBVIOUS
  <1>2. s \in Seq(Glyphs) /\ StringEnd(own, 1) = Len(s) + 2 /\ Quote \in Glyphs
    BY <1>1, StringGlyphs DEF StringOK
  <1>3. /\ own \in Seq(Glyphs) /\ Len(own) = Len(s) + 2 /\ own[1] = Quote
        /\ \A i \in 1 .. Len(s) : own[1 + i] = s[i]
    BY <1>1, <1>2, Enclosed
  <1>4. /\ o \in Nat /\ o + Len(own) <= Len(text) /\ Len(s) \in Nat /\ Len(text) \in Nat
        /\ \A j \in 1 .. Len(own) : text[o + j] = own[j]
    <2>1. Stands(text, o, own)
      BY <1>1
    <2>2. Len(s) \in Nat /\ Len(text) \in Nat
      BY <1>2
    <2>3. QED
      BY <2>1, <2>2 DEF Stands
  <1>5. Alike(own, 1, Len(s) + 2, text, o + 1)
    <2>1. Fits(own, 1, Len(s) + 2, text, o + 1)
      BY <1>3, <1>4 DEF Fits
    <2>2. ASSUME NEW j \in 1 .. Len(s) + 2 PROVE own[j] = text[(o + 1) + (j - 1)]
      <3>1. (o + 1) + (j - 1) = o + j
        BY <1>4
      <3>2. QED
        BY <1>3, <1>4, <3>1
    <2>3. QED
      BY <2>1, <2>2 DEF Alike
  <1>6. StringEnd(text, o + 1) = (o + 1) + ((Len(s) + 2) - 1)
    <2>1. 1 < Len(s) + 2
      BY <1>4
    <2>2. QED
      BY <1>2, <1>3, <1>5, <2>1, EndAlike
  <1>7. (o + 1) + ((Len(s) + 2) - 1) = o + Len(s) + 2
    BY <1>4
  <1>8. Char(text, o + 1) = Quote
    <2>1. 1 \in 1 .. Len(own) /\ o + 1 <= Len(text)
      BY <1>3, <1>4
    <2>2. text[o + 1] = own[1]
      BY <1>4, <2>1
    <2>3. QED
      BY <1>3, <2>1, <2>2 DEF Char
  <1>9. SubSeq(text, o + 2, o + Len(s) + 1) = s
    <2>1. PICK u : u = SubSeq(text, o + 2, o + Len(s) + 1)
      OBVIOUS
    <2>2. o + 2 \in 1 .. Len(text) + 1 /\ o + Len(s) + 1 \in o + 1 .. Len(text)
      BY <1>3, <1>4
    <2>3. /\ u \in Seq(R) /\ Len(u) = Len(s)
          /\ \A i \in 1 .. Len(s) : u[i] = text[(o + 1) + i]
      <3>1. PICK a, b : a = o + 2 /\ b = o + Len(s) + 1
        OBVIOUS
      <3>2. a \in 1 .. Len(text) + 1 /\ b \in a - 1 .. Len(text) /\ (b - a) + 1 = Len(s)
        BY <1>3, <1>4, <3>1
      <3>3. u = SubSeq(text, a, b)
        BY <2>1, <3>1
      <3>4. /\ u \in Seq(R) /\ Len(u) = (b - a) + 1
            /\ \A i \in 1 .. (b - a) + 1 : u[i] = text[a + i - 1]
        BY <1>4, <3>2, <3>3
      <3>5. \A i \in 1 .. Len(s) : a + i - 1 = (o + 1) + i
        BY <1>4, <3>1
      <3>6. QED
        BY <3>2, <3>4, <3>5
    <2>4. ASSUME NEW i \in 1 .. Len(s) PROVE u[i] = s[i]
      <3>1. PICK x : x = 1 + i
        OBVIOUS
      <3>2. x \in 1 .. Len(own) /\ o + x = (o + 1) + i
        BY <1>3, <1>4, <3>1
      <3>3. text[o + x] = own[x] /\ own[x] = s[i]
        BY <1>3, <1>4, <3>1, <3>2
      <3>4. QED
        BY <2>3, <3>2, <3>3
    <2>5. u = s
      BY <1>2, <2>3, <2>4
    <2>6. QED
      BY <2>1, <2>5
  <1>10. QED
    BY <1>3, <1>4, <1>6, <1>7, <1>8, <1>9

-----------------------------------------------------------------------------
(* The turns of a parser that reads what dumps wrote.                      *)

Parser(i, at, open) == [index |-> i, open |-> open, at |-> at, status |-> "parsing",
                        out |-> [lex |-> "undefined"]]

\* A map that is begun, and its fields with one more.
Begun(f, k) == [obj |-> f, key |-> k]
With(f, k, v) == [n \in DOMAIN f \cup {k} |-> IF n = k THEN v ELSE f[n]]

LEMMA ParserIs ==
    ASSUME NEW i, NEW at, NEW open
    PROVE  /\ Parser(i, at, open).index = i /\ Parser(i, at, open).at = at
           /\ Parser(i, at, open).open = open /\ Parser(i, at, open).status = "parsing"
  BY DEF Parser

LEMMA EnterIs ==
    ASSUME NEW i, NEW at, NEW open, NEW c, NEW j
    PROVE  Enter(Parser(i, at, open), c, j) = Parser(j + 1, "loop", Push(c, open))
  <1>1. PICK p : p = Parser(i, at, open)
    OBVIOUS
  <1>2. PICK new : new = Push(c, open)
    OBVIOUS
  <1>3. Enter(p, c, j) = [p EXCEPT !.index = j + 1, !.at = "loop", !.open = new]
    BY <1>1, <1>2 DEF Enter, Parser, Push
  <1>4. Enter(p, c, j) = Parser(j + 1, "loop", new)
    BY <1>1, <1>3 DEF Parser
  <1>5. QED
    BY <1>1, <1>2, <1>4

LEMMA DeliverMap ==
    ASSUME NEW i, NEW at, NEW f, NEW k, NEW rest, IsStack(rest), NEW v, NEW j
    PROVE  Deliver(Parser(i, at, Push(Begun(f, k), rest)), v, j)
             = Parser(j, "loop", Push(Begun(With(f, k, v), NoKey), rest))
  <1>1. PICK c : c = Begun(f, k)
    OBVIOUS
  <1>2. PICK open : open = Push(c, rest)
    OBVIOUS
  <1>3. open # <<>> /\ Head(open) = c /\ Tail(open) = rest
    BY <1>2, PushIs
  <1>4. "arr" \notin DOMAIN c /\ c.obj = f /\ c.key = k
    BY <1>1 DEF Begun
  <1>5. PICK p : p = Parser(i, at, open)
    OBVIOUS
  <1>6. p.open = open
    BY <1>5, ParserIs
  <1>7. PICK filled : filled = [obj |-> [n \in DOMAIN c.obj \cup {c.key} |->
                                           IF n = c.key THEN v ELSE c.obj[n]],
                                key |-> NoKey]
    OBVIOUS
  <1>8. Deliver(p, v, j) = [p EXCEPT !.index = j, !.at = "loop",
                                     !.open = <<filled>> \o Tail(p.open)]
    BY <1>3, <1>4, <1>6, <1>7 DEF Deliver
  <1>9. filled = Begun(With(f, k, v), NoKey)
    BY <1>4, <1>7 DEF Begun, With
  <1>10. <<filled>> \o Tail(p.open) = Push(filled, rest)
    BY <1>3, <1>6 DEF Push
  <1>11. Deliver(p, v, j) = Parser(j, "loop", Push(filled, rest))
    BY <1>5, <1>8, <1>10 DEF Parser
  <1>12. QED
    BY <1>1, <1>2, <1>5, <1>9, <1>11

LEMMA DeliverArray ==
    ASSUME NEW i, NEW at, NEW items, NEW rest, IsStack(rest), NEW v, NEW j
    PROVE  Deliver(Parser(i, at, Push(Array(items), rest)), v, j)
             = Parser(j, "loop", Push(Array(Append(items, v)), rest))
  <1>1. PICK c : c = Array(items)
    OBVIOUS
  <1>2. PICK open : open = Push(c, rest)
    OBVIOUS
  <1>3. open # <<>> /\ Head(open) = c /\ Tail(open) = rest
    BY <1>2, PushIs
  <1>4. "arr" \in DOMAIN c /\ c.arr = items
    BY <1>1 DEF Array
  <1>5. PICK p : p = Parser(i, at, open)
    OBVIOUS
  <1>6. p.open = open
    BY <1>5, ParserIs
  <1>7. PICK filled : filled = Array(Append(c.arr, v))
    OBVIOUS
  <1>8. Deliver(p, v, j) = [p EXCEPT !.index = j, !.at = "loop",
                                     !.open = <<filled>> \o Tail(p.open)]
    BY <1>3, <1>4, <1>6, <1>7 DEF Deliver
  <1>9. <<filled>> \o Tail(p.open) = Push(filled, rest)
    BY <1>3, <1>6 DEF Push
  <1>10. Deliver(p, v, j) = Parser(j, "loop", Push(filled, rest))
    BY <1>5, <1>8, <1>9 DEF Parser
  <1>11. QED
    BY <1>1, <1>2, <1>4, <1>5, <1>7, <1>10

LEMMA CloseMap ==
    ASSUME NEW i, NEW at, NEW f, NEW k, NEW rest, IsStack(rest), NEW j
    PROVE  Close(Parser(i, at, Push(Begun(f, k), rest)), j)
             = Deliver(Parser(i, at, rest), Map(f), j + 1)
  <1>1. PICK c : c = Begun(f, k)
    OBVIOUS
  <1>2. PICK open : open = Push(c, rest)
    OBVIOUS
  <1>3. Head(open) = c /\ Tail(open) = rest
    BY <1>2, PushIs
  <1>4. "arr" \notin DOMAIN c /\ c.obj = f
    BY <1>1 DEF Begun
  <1>5. PICK p : p = Parser(i, at, open)
    OBVIOUS
  <1>6. p.open = open /\ [p EXCEPT !.open = rest] = Parser(i, at, rest)
    BY <1>5 DEF Parser
  <1>7. Close(p, j) = Deliver([p EXCEPT !.open = Tail(p.open)], Map(c.obj), j + 1)
    BY <1>3, <1>4, <1>6 DEF Close
  <1>8. QED
    BY <1>1, <1>2, <1>3, <1>4, <1>5, <1>6, <1>7

LEMMA CloseArray ==
    ASSUME NEW i, NEW at, NEW items, NEW rest, IsStack(rest), NEW j
    PROVE  Close(Parser(i, at, Push(Array(items), rest)), j)
             = Deliver(Parser(i, at, rest), Array(items), j + 1)
  <1>1. PICK c : c = Array(items)
    OBVIOUS
  <1>2. PICK open : open = Push(c, rest)
    OBVIOUS
  <1>3. Head(open) = c /\ Tail(open) = rest
    BY <1>2, PushIs
  <1>4. "arr" \in DOMAIN c
    BY <1>1 DEF Array
  <1>5. PICK p : p = Parser(i, at, open)
    OBVIOUS
  <1>6. p.open = open /\ [p EXCEPT !.open = rest] = Parser(i, at, rest)
    BY <1>5 DEF Parser
  <1>7. Close(p, j) = Deliver([p EXCEPT !.open = Tail(p.open)], c, j + 1)
    BY <1>3, <1>4, <1>6 DEF Close
  <1>8. QED
    BY <1>1, <1>2, <1>3, <1>5, <1>6, <1>7

LEMMA KeyedIs ==
    ASSUME NEW i, NEW at, NEW f, NEW x, NEW rest, IsStack(rest), NEW j, NEW k
    PROVE  Keyed(Parser(i, at, Push(Begun(f, x), rest)), j, k)
             = Parser(j, "value", Push(Begun(f, k), rest))
  <1>1. PICK c : c = Begun(f, x)
    OBVIOUS
  <1>2. PICK open : open = Push(c, rest)
    OBVIOUS
  <1>3. PICK d : d = [c EXCEPT !.key = k]
    OBVIOUS
  <1>4. d = Begun(f, k)
    BY <1>1, <1>3 DEF Begun
  <1>5. open[1] = c /\ [open EXCEPT ![1] = d] = Push(d, rest)
    BY <1>2, PushIs
  <1>6. PICK p : p = Parser(i, at, open)
    OBVIOUS
  <1>7. Keyed(p, j, k) = [p EXCEPT !.index = j, !.at = "value",
                                   !.open = [open EXCEPT ![1] = d]]
    BY <1>3, <1>5, <1>6 DEF Keyed, Parser
  <1>8. Keyed(p, j, k) = Parser(j, "value", Push(d, rest))
    BY <1>5, <1>6, <1>7 DEF Parser
  <1>9. QED
    BY <1>1, <1>2, <1>4, <1>6, <1>8

\* The place of the next lexeme, after a blank or without one.
LEMMA PlaceIs ==
    ASSUME NEW text, NEW i, NEW at, NEW open
    PROVE  /\ Char(text, i) = Space => Place(text, Parser(i, at, open)) = i + 1
           /\ Char(text, i) # Space => Place(text, Parser(i, at, open)) = i
  BY ParserIs, SkippedIs DEF Place

\* A key and its colon are taken in one turn.
LEMMA KeyTurn ==
    ASSUME NEW R, NEW text \in Seq(R), NEW k, StringOK(k), k # <<>>, NEW o,
           Stands(text, o, <<Quote>> \o k \o <<Quote>>),
           Char(text, o + Len(k) + 3) = ":",
           NEW f, NEW x, NEW rest, IsStack(rest), NEW i \in Nat,
           Place(text, Parser(i, "loop", Push(Begun(f, x), rest))) = o + 1
    PROVE  Step(text, Parser(i, "loop", Push(Begun(f, x), rest)))
             = Parser(o + Len(k) + 4, "value", Push(Begun(f, k), rest))
  <1>1. PICK p : p = Parser(i, "loop", Push(Begun(f, x), rest))
    OBVIOUS
  <1>2. PICK e : e = StringEnd(text, o + 1)
    OBVIOUS
  <1>3. /\ Char(text, o + 1) = Quote /\ e = o + Len(k) + 2
        /\ SubSeq(text, o + 2, o + Len(k) + 1) = k
        /\ o \in Nat /\ Len(k) \in Nat
    BY <1>2, StringThere
  <1>4. Len(k) # 0
    BY DEF StringOK
  <1>5. /\ e # 0 /\ e > (o + 1) + 1 /\ e + 1 = o + Len(k) + 3
        /\ (o + 1) + 1 = o + 2 /\ e - 1 = o + Len(k) + 1
        /\ (o + Len(k) + 3) + 1 = o + Len(k) + 4
    BY <1>3, <1>4
  <1>6. Skipped(text, e + 1) = e + 1
    BY <1>5, SkippedIs, MarksDiffer
  <1>7. /\ p.at = "loop" /\ p.index = i /\ Place(text, p) = o + 1
        /\ "arr" \notin DOMAIN Head(p.open)
    BY <1>1, ParserIs, PushIs DEF Begun
  <1>8. Step(text, p) = ParseMap(text, p)
    BY <1>7, StepTurn
  <1>9. ParseMap(text, p) = Keyed(p, (e + 1) + 1, SubSeq(text, (o + 1) + 1, e - 1))
    <2>1. /\ Char(text, Place(text, p)) = Quote /\ StringEnd(text, Place(text, p)) = e
          /\ e > Place(text, p) + 1 /\ Char(text, Skipped(text, e + 1)) = ":"
      BY <1>2, <1>3, <1>5, <1>6, <1>7
    <2>2. ParseMap(text, p) = Keyed(p, Skipped(text, e + 1) + 1,
                                    SubSeq(text, Place(text, p) + 1, e - 1))
      BY <1>5, <1>7, <2>1, MapTurn
    <2>3. QED
      BY <1>6, <1>7, <2>2
  <1>10. Step(text, p) = Keyed(p, o + Len(k) + 4, k)
    BY <1>3, <1>5, <1>8, <1>9
  <1>11. QED
    BY <1>1, <1>10, KeyedIs

\* What a handler stores: a number or a string that was taken from a body.
Written(v) == v = [lex |-> "int"] \/ \E s : v = [str |-> s] /\ StringOK(s)

\* A value after a blank is taken in one turn.
LEMMA LeafTurn ==
    ASSUME NEW R, NEW text \in Seq(R), NEW v, Written(v), NEW i,
           Char(text, i) = Space, Stands(text, i, DumpsLeaf(v)), NEW open
    PROVE  Step(text, Parser(i, "value", open))
             = Deliver(Parser(i, "value", open), v, i + Len(DumpsLeaf(v)) + 1)
  <1>1. PICK p : p = Parser(i, "value", open)
    OBVIOUS
  <1>2. p.at = "value" /\ p.index = i /\ Place(text, p) = i + 1
    BY <1>1, ParserIs, PlaceIs
  <1>3. Step(text, p) = ParseValue(text, p)
    BY <1>2, StepTurn
  <1>4. CASE v = [lex |-> "int"]
    <2>1. DumpsLeaf(v) = <<"int">>
      BY <1>4 DEF DumpsLeaf
    <2>2. Stands(text, i, <<"int">>)
      BY <2>1
    <2>3. i \in Nat /\ i + 1 <= Len(text) /\ text[i + 1] = "int"
      BY <2>2 DEF Stands
    <2>4. Char(text, Place(text, p)) = "int"
      BY <1>2, <2>3 DEF Char
    <2>5. "int" \in Keywords \cup Numbers
      BY DEF Numbers
    <2>6. ParseValue(text, p) = Deliver(p, [lex |-> "int"], (i + 1) + 1)
      <3>1. ParseValue(text, p)
              = Deliver(p, [lex |-> Char(text, Place(text, p))], Place(text, p) + 1)
        BY <2>4, <2>5, ValueTurn
      <3>2. QED
        BY <1>2, <2>4, <3>1
    <2>7. (i + 1) + 1 = i + Len(DumpsLeaf(v)) + 1
      BY <2>1, <2>3
    <2>8. QED
      BY <1>1, <1>3, <1>4, <2>6, <2>7
  <1>5. CASE \E s : v = [str |-> s] /\ StringOK(s)
    <2>1. PICK s : v = [str |-> s] /\ StringOK(s)
      BY <1>5
    <2>2. DumpsLeaf(v) = <<Quote>> \o s \o <<Quote>>
      BY <2>1, Zenon DEF DumpsLeaf, DumpsString, Quote
    <2>3. Stands(text, i, <<Quote>> \o s \o <<Quote>>)
      BY <2>2
    <2>4. PICK e : e = StringEnd(text, i + 1)
      OBVIOUS
    <2>5. /\ Char(text, i + 1) = Quote /\ e = i + Len(s) + 2
          /\ SubSeq(text, i + 2, i + Len(s) + 1) = s
          /\ i \in Nat /\ Len(s) \in Nat
      BY <2>1, <2>3, <2>4, StringThere
    <2>6. /\ e # 0 /\ (i + 1) + 1 = i + 2 /\ e - 1 = i + Len(s) + 1
      BY <2>5
    <2>7. ParseValue(text, p) = Deliver(p, [str |-> SubSeq(text, (i + 1) + 1, e - 1)], e + 1)
      <3>1. Char(text, Place(text, p)) = Quote /\ StringEnd(text, Place(text, p)) # 0
        BY <1>2, <2>4, <2>5, <2>6
      <3>2. ParseValue(text, p)
              = Deliver(p, [str |-> SubSeq(text, Place(text, p) + 1,
                                           StringEnd(text, Place(text, p)) - 1)],
                        StringEnd(text, Place(text, p)) + 1)
        BY <3>1, ValueTurn
      <3>3. QED
        BY <1>2, <2>4, <3>2
    <2>8. Len(DumpsLeaf(v)) = Len(s) + 2
      <3>1. s \in Seq(Glyphs) /\ Quote \in Glyphs
        BY <2>1, StringGlyphs DEF StringOK
      <3>2. QED
        BY <2>2, <3>1, Enclosed
    <2>9. e + 1 = i + Len(DumpsLeaf(v)) + 1
      BY <2>5, <2>8
    <2>10. QED
      BY <1>1, <1>3, <2>1, <2>5, <2>6, <2>7, <2>9
  <1>6. QED
    BY <1>4, <1>5 DEF Written

-----------------------------------------------------------------------------
(* The turns at brackets and commas.                                       *)

LEMMA BraceTurn ==
    ASSUME NEW text, NEW i, Char(text, i) = Brace, NEW open
    PROVE  Step(text, Parser(i, "value", open))
             = Parser(i + 1, "loop", Push(Begun(EmptyMap, NoKey), open))
  <1>1. PICK p : p = Parser(i, "value", open)
    OBVIOUS
  <1>2. p.at = "value" /\ Place(text, p) = i
    BY <1>1, ParserIs, PlaceIs, MarksDiffer
  <1>3. Step(text, p) = ParseValue(text, p)
    BY <1>2, StepTurn
  <1>4. ParseValue(text, p) = Enter(p, [obj |-> EmptyMap, key |-> NoKey], Place(text, p))
    <2>1. Char(text, Place(text, p)) = Brace
      BY <1>2
    <2>2. QED
      BY <2>1, ValueTurn
  <1>5. Step(text, p) = Enter(p, Begun(EmptyMap, NoKey), i)
    BY <1>2, <1>3, <1>4 DEF Begun
  <1>6. QED
    BY <1>1, <1>5, EnterIs

LEMMA BracketTurn ==
    ASSUME NEW text, NEW i \in Nat, Char(text, i) = Space, Char(text, i + 1) = "[", NEW open
    PROVE  Step(text, Parser(i, "value", open))
             = Parser(i + 2, "loop", Push(Array(<<>>), open))
  <1>1. PICK p : p = Parser(i, "value", open)
    OBVIOUS
  <1>2. p.at = "value" /\ Place(text, p) = i + 1
    BY <1>1, ParserIs, PlaceIs
  <1>3. Step(text, p) = ParseValue(text, p)
    BY <1>2, StepTurn
  <1>4. ParseValue(text, p) = Enter(p, Array(<<>>), Place(text, p))
    <2>1. Char(text, Place(text, p)) = "["
      BY <1>2
    <2>2. QED
      BY <2>1, ValueTurn
  <1>5. Step(text, p) = Enter(p, Array(<<>>), i + 1)
    BY <1>2, <1>3, <1>4
  <1>6. Enter(p, Array(<<>>), i + 1) = Parser((i + 1) + 1, "loop", Push(Array(<<>>), open))
    BY <1>1, EnterIs
  <1>7. (i + 1) + 1 = i + 2
    OBVIOUS
  <1>8. QED
    BY <1>1, <1>5, <1>6, <1>7

\* A map that is an element of an array.
LEMMA RowTurn ==
    ASSUME NEW text, NEW i, Char(text, i) = Brace, NEW items, NEW rest, IsStack(rest)
    PROVE  Step(text, Parser(i, "loop", Push(Array(items), rest)))
             = Parser(i + 1, "loop",
                      Push(Begun(EmptyMap, NoKey), Push(Array(items), rest)))
  <1>1. PICK open : open = Push(Array(items), rest)
    OBVIOUS
  <1>2. PICK p : p = Parser(i, "loop", open)
    OBVIOUS
  <1>3. p.at = "loop" /\ Place(text, p) = i /\ p.open = open
    BY <1>2, ParserIs, PlaceIs, MarksDiffer
  <1>4. "arr" \in DOMAIN Head(p.open)
    BY <1>1, <1>3, PushIs DEF Array
  <1>5. Step(text, p) = ParseArray(text, p)
    BY <1>3, <1>4, StepTurn
  <1>6. Char(text, Place(text, p)) = Brace
    BY <1>3
  <1>7. ParseArray(text, p) = ParseValue(text, p)
    <2>1. Char(text, Place(text, p)) \notin {"]", Comma}
      BY <1>6, MarksDiffer
    <2>2. QED
      BY <2>1, ArrayTurn
  <1>8. ParseValue(text, p) = Enter(p, [obj |-> EmptyMap, key |-> NoKey], Place(text, p))
    BY <1>6, ValueTurn
  <1>9. Step(text, p) = Enter(p, Begun(EmptyMap, NoKey), i)
    BY <1>3, <1>5, <1>7, <1>8 DEF Begun
  <1>10. QED
    BY <1>1, <1>2, <1>9, EnterIs

LEMMA ArrayEnd ==
    ASSUME NEW text, NEW i, Char(text, i) = "]", NEW items, NEW rest, IsStack(rest)
    PROVE  Step(text, Parser(i, "loop", Push(Array(items), rest)))
             = Deliver(Parser(i, "loop", rest), Array(items), i + 1)
  <1>1. PICK open : open = Push(Array(items), rest)
    OBVIOUS
  <1>2. PICK p : p = Parser(i, "loop", open)
    OBVIOUS
  <1>3. p.at = "loop" /\ Place(text, p) = i /\ p.open = open
    BY <1>2, ParserIs, PlaceIs, MarksDiffer
  <1>4. "arr" \in DOMAIN Head(p.open)
    BY <1>1, <1>3, PushIs DEF Array
  <1>5. Step(text, p) = ParseArray(text, p)
    BY <1>3, <1>4, StepTurn
  <1>6. ParseArray(text, p) = Close(p, Place(text, p))
    <2>1. Char(text, Place(text, p)) = "]"
      BY <1>3
    <2>2. QED
      BY <2>1, ArrayTurn
  <1>7. Step(text, p) = Close(p, i)
    BY <1>3, <1>5, <1>6
  <1>8. QED
    BY <1>1, <1>2, <1>7, CloseArray

\* The turns in the loop of a map that take no key.
LEMMA MapEnd ==
    ASSUME NEW text, NEW i \in Nat, NEW f, NEW k, NEW rest, IsStack(rest)
    PROVE  /\ Char(text, i) = EndBrace =>
                Step(text, Parser(i, "loop", Push(Begun(f, k), rest)))
                  = Deliver(Parser(i, "loop", rest), Map(f), i + 1)
           /\ Char(text, i) = Comma =>
                Step(text, Parser(i, "loop", Push(Begun(f, k), rest)))
                  = Parser(i + 1, "loop", Push(Begun(f, k), rest))
  <1>1. PICK open : open = Push(Begun(f, k), rest)
    OBVIOUS
  <1>2. PICK p : p = Parser(i, "loop", open)
    OBVIOUS
  <1>3. /\ p.at = "loop" /\ p.open = open /\ p.index \in Nat
        /\ Char(text, i) # Space => Place(text, p) = i
    BY <1>2, ParserIs, PlaceIs
  <1>4. "arr" \notin DOMAIN Head(p.open)
    BY <1>1, <1>3, PushIs DEF Begun
  <1>5. Step(text, p) = ParseMap(text, p)
    BY <1>3, <1>4, StepTurn
  <1>6. ASSUME Char(text, i) = EndBrace
        PROVE  Step(text, p) = Deliver(Parser(i, "loop", rest), Map(f), i + 1)
    <2>1. Place(text, p) = i
      BY <1>3, <1>6, MarksDiffer
    <2>2. Char(text, Place(text, p)) = EndBrace
      BY <1>6, <2>1
    <2>3. ParseMap(text, p) = Close(p, Place(text, p))
      BY <1>3, <2>2, MapTurn
    <2>4. Step(text, p) = Close(p, i)
      BY <1>5, <2>1, <2>3
    <2>5. QED
      BY <1>1, <1>2, <2>4, CloseMap
  <1>7. ASSUME Char(text, i) = Comma
        PROVE  Step(text, p) = Parser(i + 1, "loop", open)
    <2>1. Place(text, p) = i
      BY <1>3, <1>7, MarksDiffer
    <2>2. Char(text, Place(text, p)) = Comma
      BY <1>7, <2>1
    <2>3. ParseMap(text, p) = [p EXCEPT !.index = Place(text, p) + 1]
      BY <1>3, <2>2, MapTurn
    <2>4. Step(text, p) = [p EXCEPT !.index = i + 1]
      BY <1>5, <2>1, <2>3
    <2>5. QED
      BY <1>2, <2>4 DEF Parser
  <1>8. QED
    BY <1>1, <1>2, <1>6, <1>7

\* The parser has no container open: the value is what the text holds.
LEMMA DeliverLast ==
    ASSUME NEW i, NEW v, NEW j
    PROVE  /\ Deliver(Parser(i, "loop", <<>>), v, j).status = "done"
           /\ Deliver(Parser(i, "loop", <<>>), v, j).out = v
  <1>1. PICK p : p = Parser(i, "loop", <<>>)
    OBVIOUS
  <1>2. Deliver(p, v, j) = [p EXCEPT !.index = j, !.out = v, !.status = "done"]
    BY <1>1, ParserIs DEF Deliver
  <1>3. QED
    BY <1>1, <1>2 DEF Parser

\* A key of one word.
LEMMA WordOK ==
    ASSUME NEW n \in Glyphs, n # Quote, n # Backslash
    PROVE  StringOK(<<n>>)
  <1>1. PICK s : s = <<n>>
    OBVIOUS
  <1>2. PICK text : text = <<Quote>> \o s \o <<Quote>>
    OBVIOUS
  <1>3. s \in Seq(Glyphs) /\ Len(s) = 1 /\ s[1] = n /\ Quote \in Glyphs
    BY <1>1, StringGlyphs
  <1>4. /\ text \in Seq(Glyphs) /\ Len(text) = 3 /\ text[1] = Quote /\ text[2] = n
        /\ text[3] = Quote
    <2>1. /\ text \in Seq(Glyphs) /\ Len(text) = Len(s) + 2 /\ text[1] = Quote
          /\ \A i \in 1 .. Len(s) : text[1 + i] = s[i]
          /\ text[Len(s) + 2] = Quote
      BY <1>2, <1>3, Enclosed
    <2>2. text[1 + 1] = s[1]
      BY <1>3, <2>1
    <2>3. QED
      BY <1>3, <2>1, <2>2
  <1>5. Closes(text, 3)
    <2>1. \E m \in 0 .. 3 - 1 :
             /\ m % 2 = 0
             /\ \A x \in 3 - m .. 3 - 1 : text[x] = Backslash
             /\ 3 - m > 1 => text[3 - m - 1] # Backslash
      <3>1. 0 % 2 = 0 /\ 0 \in 0 .. 3 - 1 /\ 3 - 0 - 1 = 2
        OBVIOUS
      <3>2. text[3 - 0 - 1] # Backslash
        BY <1>4, <3>1
      <3>3. QED
        BY <3>1, <3>2
    <2>2. QED
      BY <1>4, <2>1, ClosesIs
  <1>6. StringEnd(text, 1) = 3
    <2>1. Char(text, 1 + 1) # Quote
      BY <1>4 DEF Char
    <2>2. 3 \in 1 + 2 .. Len(text) /\ \A j \in 1 + 2 .. 3 - 1 : ~ Closes(text, j)
      BY <1>4
    <2>3. PICK i \in Nat, e \in Nat \ {0} : i = 1 /\ e = 3
      OBVIOUS
    <2>4. /\ Char(text, i + 1) # Quote /\ e \in i + 2 .. Len(text) /\ Closes(text, e)
          /\ \A j \in i + 2 .. e - 1 : ~ Closes(text, j)
      BY <1>5, <2>1, <2>2, <2>3
    <2>5. StringEnd(text, i) = e
      BY <1>4, <2>4, StringEndIs
    <2>6. QED
      BY <2>3, <2>5
  <1>7. QED
    BY <1>1, <1>2, <1>3, <1>6 DEF StringOK

\* A string without quotes and backslashes.
LEMMA CleanOK ==
    ASSUME NEW s \in Seq(Glyphs),
           \A i \in 1 .. Len(s) : s[i] # Quote /\ s[i] # Backslash
    PROVE  StringOK(s)
  <1>1. PICK text : text = <<Quote>> \o s \o <<Quote>>
    OBVIOUS
  <1>2. PICK n \in Nat : n = Len(s)
    OBVIOUS
  <1>3. /\ text \in Seq(Glyphs) /\ Len(text) = n + 2
        /\ \A i \in 1 .. n : text[1 + i] = s[i]
        /\ text[n + 2] = Quote
    BY <1>1, <1>2, StringGlyphs, Enclosed
  <1>4. PICK i \in Nat, e \in Nat \ {0} : i = 1 /\ e = n + 2
    OBVIOUS
  <1>5. CASE n = 0
    <2>1. Char(text, i + 1) = Quote /\ e = i + 1
      BY <1>3, <1>4, <1>5 DEF Char
    <2>2. StringEnd(text, i) = e
      BY <1>3, <2>1, StringEndIs
    <2>3. QED
      BY <1>1, <1>2, <1>4, <2>2 DEF StringOK
  <1>6. CASE n # 0
    <2>1. ASSUME NEW j \in 2 .. n + 1
          PROVE  text[j] # Quote /\ text[j] # Backslash
      <3>1. j - 1 \in 1 .. n /\ 1 + (j - 1) = j
        OBVIOUS
      <3>2. text[1 + (j - 1)] = s[j - 1]
        BY <1>3, <3>1
      <3>3. QED
        BY <1>2, <3>1, <3>2
    <2>2. Char(text, i + 1) # Quote
      BY <1>3, <1>4, <1>6, <2>1 DEF Char
    <2>3. \E m \in 0 .. e - 1 :
             /\ m % 2 = 0
             /\ \A x \in e - m .. e - 1 : text[x] = Backslash
             /\ e - m > 1 => text[e - m - 1] # Backslash
      <3>1. 0 % 2 = 0 /\ 0 \in 0 .. e - 1 /\ e - 0 - 1 = n + 1
        BY <1>4
      <3>2. text[e - 0 - 1] # Backslash
        BY <1>6, <2>1, <3>1
      <3>3. QED
        BY <3>1, <3>2
    <2>4. Closes(text, e)
      BY <1>3, <1>4, <2>3, ClosesIs
    <2>5. ASSUME NEW j \in i + 2 .. e - 1 PROVE ~ Closes(text, j)
      <3>1. j \in 2 .. n + 1
        BY <1>4
      <3>2. QED
        BY <2>1, <3>1, ClosesIs
    <2>6. e \in i + 2 .. Len(text)
      BY <1>3, <1>4, <1>6
    <2>7. StringEnd(text, i) = e
      BY <1>3, <2>2, <2>4, <2>5, <2>6, StringEndIs
    <2>8. QED
      BY <1>1, <1>2, <1>4, <2>7 DEF StringOK
  <1>7. QED
    BY <1>5, <1>6

-----------------------------------------------------------------------------
(* What dumps writes of a list of one map of leaves.                       *)

Colon == ":"

\* A field as it is written.
Labelled(k, text) == DumpsString(k) \o <<Colon, Space>> \o text
FieldTexts(f) == LET keys == SetToSeq(DOMAIN f)
                 IN  [i \in DOMAIN keys |-> Labelled(keys[i], DumpsLeaf(f[keys[i]]))]

Row(f) == <<Brace>> \o Separated(FieldTexts(f)) \o <<EndBrace>>
Rows(f) == <<"[">> \o Row(f) \o <<"]">>

LEMMA SeparatedOne ==
    ASSUME NEW t
    PROVE  Separated(<<t>>) = t
  <1>1. PICK texts : texts = <<t>>
    OBVIOUS
  <1>2. PICK u : /\ \A n \in Nat : u[n] = Joint(texts, n, u[n - 1])
                 /\ Separated(texts) = u[Len(texts)]
    BY SeparatedRecursion
  <1>3. Len(texts) = 1 /\ texts[1] = t /\ 1 \in Nat
    BY <1>1
  <1>4. u[1] = Joint(texts, 1, u[1 - 1])
    BY <1>2, <1>3
  <1>5. Joint(texts, 1, u[1 - 1]) = texts[1]
    BY DEF Joint
  <1>6. QED
    BY <1>1, <1>2, <1>3, <1>4, <1>5

LEMMA MapText ==
    ASSUME NEW f, NEW keys, keys = SetToSeq(DOMAIN f)
    PROVE  /\ DumpsRow(Map(f)) = <<Brace>> \o Separated([i \in DOMAIN keys |->
                 Labelled(keys[i], DumpsLeaf(f[keys[i]]))]) \o <<EndBrace>>
           /\ Dumps(Map(f)) = <<Brace>> \o Separated([i \in DOMAIN keys |->
                 Labelled(keys[i], DumpsRows(f[keys[i]]))]) \o <<EndBrace>>
  <1>1. PICK v : v = Map(f)
    OBVIOUS
  <1>2. v.obj = f /\ "lex" \notin DOMAIN v /\ "str" \notin DOMAIN v /\ "arr" \notin DOMAIN v
    BY <1>1 DEF Map
  <1>3. DumpsRow(v) = <<Brace>> \o Separated([i \in DOMAIN keys |->
                        Labelled(keys[i], DumpsLeaf(f[keys[i]]))]) \o <<EndBrace>>
    BY <1>2, Zenon DEF DumpsRow, DumpsWith, Labelled, Brace, EndBrace, Colon, Space
  <1>4. Dumps(v) = <<Brace>> \o Separated([i \in DOMAIN keys |->
                     Labelled(keys[i], DumpsRows(f[keys[i]]))]) \o <<EndBrace>>
    BY <1>2, Zenon DEF Dumps, DumpsWith, Labelled, Brace, EndBrace, Colon, Space
  <1>5. QED
    BY <1>1, <1>3, <1>4, Zenon

LEMMA RowText == \A f : DumpsRow(Map(f)) = Row(f)
  BY MapText, Zenon DEF Row, FieldTexts

LEMMA RowsText ==
    ASSUME NEW f
    PROVE  DumpsRows(Array(<<Map(f)>>)) = Rows(f)
  <1>1. PICK row : row = Map(f)
    OBVIOUS
  <1>2. PICK v : v = Array(<<row>>)
    OBVIOUS
  <1>3. v.arr = <<row>> /\ "lex" \notin DOMAIN v /\ "str" \notin DOMAIN v /\ "arr" \in DOMAIN v
    BY <1>2 DEF Array
  <1>4. DumpsRows(v) = <<"[">> \o Separated([i \in DOMAIN v.arr |-> DumpsRow(v.arr[i])])
                         \o <<"]">>
    BY <1>3, Zenon DEF DumpsRows, DumpsWith
  <1>5. [i \in DOMAIN v.arr |-> DumpsRow(v.arr[i])] = <<DumpsRow(row)>>
    <2>1. PICK one : one = <<row>>
      OBVIOUS
    <2>2. DOMAIN one = 1 .. 1 /\ one[1] = row
      BY <2>1
    <2>3. PICK d : d = DumpsRow(row)
      OBVIOUS
    <2>4. \A i \in DOMAIN one : DumpsRow(one[i]) = d
      BY <2>2, <2>3
    <2>5. [i \in DOMAIN one |-> DumpsRow(one[i])] = [i \in 1 .. 1 |-> d]
      BY <2>2, <2>4
    <2>6. [i \in 1 .. 1 |-> d] = <<d>>
      OBVIOUS
    <2>7. QED
      BY <1>3, <2>1, <2>3, <2>5, <2>6
  <1>6. DumpsRows(v) = <<"[">> \o DumpsRow(row) \o <<"]">>
    BY <1>4, <1>5, SeparatedOne
  <1>7. DumpsRow(row) = Row(f)
    BY <1>1, RowText
  <1>8. QED
    BY <1>1, <1>2, <1>6, <1>7 DEF Rows

LEMMA OneKey ==
    ASSUME NEW k
    PROVE  SetToSeq({k}) = <<k>>
  <1>1. PICK S : S = {k}
    OBVIOUS
  <1>2. IsFiniteSet(S) /\ Cardinality(S) = 1
    BY <1>1, FS_Singleton
  <1>3. SetToSeq(S) \in Seq(S) /\ Len(SetToSeq(S)) = 1
    BY <1>2, SetToSeqType
  <1>4. PICK s : s = SetToSeq(S)
    OBVIOUS
  <1>5. s \in Seq(S) /\ Len(s) = 1
    BY <1>3, <1>4
  <1>6. s[1] = k
    BY <1>1, <1>5
  <1>7. s = <<k>>
    BY <1>5, <1>6
  <1>8. QED
    BY <1>1, <1>4, <1>7

\* A list of one map under a name, and its text.
List(name, f) == Map([k \in {name} |-> Array(<<Map(f)>>)])

LEMMA ListText ==
    ASSUME NEW name, NEW f
    PROVE  Dumps(List(name, f))
             = <<Brace>> \o Labelled(name, Rows(f)) \o <<EndBrace>>
  <1>1. PICK g : g = [k \in {name} |-> Array(<<Map(f)>>)]
    OBVIOUS
  <1>2. DOMAIN g = {name} /\ g[name] = Array(<<Map(f)>>)
    BY <1>1
  <1>3. PICK keys : keys = SetToSeq(DOMAIN g)
    OBVIOUS
  <1>4. keys = <<name>>
    BY <1>2, <1>3, OneKey
  <1>5. Dumps(Map(g)) = <<Brace>> \o Separated([i \in DOMAIN keys |->
                          Labelled(keys[i], DumpsRows(g[keys[i]]))]) \o <<EndBrace>>
    BY <1>3, MapText
  <1>6. [i \in DOMAIN keys |-> Labelled(keys[i], DumpsRows(g[keys[i]]))]
          = <<Labelled(name, Rows(f))>>
    <2>1. DOMAIN keys = 1 .. 1 /\ keys[1] = name
      BY <1>4
    <2>2. PICK d : d = Labelled(name, Rows(f))
      OBVIOUS
    <2>3. DumpsRows(g[name]) = Rows(f)
      BY <1>2, RowsText
    <2>4. \A i \in DOMAIN keys : Labelled(keys[i], DumpsRows(g[keys[i]])) = d
      BY <2>1, <2>2, <2>3
    <2>5. [i \in DOMAIN keys |-> Labelled(keys[i], DumpsRows(g[keys[i]]))] = [i \in 1 .. 1 |-> d]
      BY <2>1, <2>4
    <2>6. [i \in 1 .. 1 |-> d] = <<d>>
      OBVIOUS
    <2>7. QED
      BY <2>2, <2>5, <2>6
  <1>7. Dumps(Map(g)) = <<Brace>> \o Labelled(name, Rows(f)) \o <<EndBrace>>
    BY <1>5, <1>6, SeparatedOne
  <1>8. List(name, f) = Map(g)
    BY <1>1 DEF List
  <1>9. QED
    BY <1>7, <1>8

-----------------------------------------------------------------------------
(* What stands where in that text.                                         *)

LEMMA MarkGlyphs ==
    /\ Colon \in Glyphs /\ Brace \in Glyphs /\ EndBrace \in Glyphs
    /\ "[" \in Glyphs /\ "]" \in Glyphs /\ "int" \in Glyphs
  BY Zenon DEF Glyphs, Marks, Colon, Brace, EndBrace

LEMMA LabelledIs ==
    ASSUME NEW k, StringOK(k), NEW text \in Seq(Glyphs), NEW l, l = Labelled(k, text)
    PROVE  /\ l \in Seq(Glyphs) /\ Len(k) \in Nat
           /\ Len(l) = Len(k) + 4 + Len(text)
           /\ Stands(l, 0, <<Quote>> \o k \o <<Quote>>)
           /\ l[Len(k) + 3] = Colon /\ l[Len(k) + 4] = Space
           /\ Stands(l, Len(k) + 4, text)
  <1>1. PICK own : own = <<Quote>> \o k \o <<Quote>>
    OBVIOUS
  <1>2. k \in Seq(Glyphs) /\ Quote \in Glyphs /\ Colon \in Glyphs /\ Space \in Glyphs
    BY StringGlyphs, MarkGlyphs DEF StringOK
  <1>3. own \in Seq(Glyphs) /\ Len(own) = Len(k) + 2 /\ Len(k) \in Nat
    BY <1>1, <1>2, Enclosed
  <1>4. l = own \o <<Colon, Space>> \o text
    BY <1>1, Zenon DEF Labelled, DumpsString, Quote
  <1>5. /\ l \in Seq(Glyphs) /\ Len(l) = Len(own) + 2 + Len(text)
        /\ l[Len(own) + 1] = Colon /\ l[Len(own) + 2] = Space
    <2>1. PICK m : m = own \o <<Colon, Space>> \o text
      OBVIOUS
    <2>2. m \in Seq(Glyphs)
      BY <1>2, <1>3, <2>1, Glued
    <2>3. Len(m) = Len(own) + 2 + Len(text)
      <3>1. Len(own \o <<Colon, Space>> \o text) = Len(own) + 2 + Len(text)
        BY <1>2, <1>3, Glued
      <3>2. QED
        BY <2>1, <3>1
    <2>4. m[Len(own) + 1] = Colon
      BY <1>2, <1>3, <2>1, Glued
    <2>5. m[Len(own) + 2] = Space
      BY <1>2, <1>3, <2>1, Glued
    <2>6. QED
      BY <1>4, <2>1, <2>2, <2>3, <2>4, <2>5
  <1>6. Stands(l, 0, own) /\ Stands(l, Len(own) + 2, text)
    BY <1>2, <1>3, <1>4, GluedStands
  <1>7. /\ Len(own) + 2 + Len(text) = Len(k) + 4 + Len(text)
        /\ Len(own) + 1 = Len(k) + 3 /\ Len(own) + 2 = Len(k) + 4
    BY <1>3
  <1>8. QED
    BY <1>1, <1>3, <1>5, <1>6, <1>7

LEMMA LeafSeq ==
    ASSUME NEW v, Written(v)
    PROVE  DumpsLeaf(v) \in Seq(Glyphs)
  <1>1. CASE v = [lex |-> "int"]
    <2>1. DumpsLeaf(v) = <<"int">>
      BY <1>1 DEF DumpsLeaf
    <2>2. QED
      BY <2>1, MarkGlyphs
  <1>2. CASE \E s : v = [str |-> s] /\ StringOK(s)
    <2>1. PICK s : v = [str |-> s] /\ StringOK(s)
      BY <1>2
    <2>2. DumpsLeaf(v) = <<Quote>> \o s \o <<Quote>>
      BY <2>1, Zenon DEF DumpsLeaf, DumpsString, Quote
    <2>3. s \in Seq(Glyphs) /\ Quote \in Glyphs
      BY <2>1, StringGlyphs DEF StringOK
    <2>4. QED
      BY <2>2, <2>3, Enclosed
  <1>3. QED
    BY <1>1, <1>2 DEF Written

\* The fields of a map that are written.
Storable(f) == /\ IsFiniteSet(DOMAIN f)
               /\ \A k \in DOMAIN f : StringOK(k) /\ k # <<>> /\ Written(f[k])

LEMMA FieldsText ==
    ASSUME NEW f, Storable(f), NEW keys, keys = SetToSeq(DOMAIN f), NEW F,
           F = Separated(FieldTexts(f))
    PROVE  /\ keys \in Seq(DOMAIN f) /\ Len(keys) = Len(FieldTexts(f))
           /\ Len(keys) = Cardinality(DOMAIN f) /\ Cardinality(DOMAIN f) \in Nat
           /\ \A i \in 1 .. Len(keys) :
                 /\ keys[i] \in DOMAIN f
                 /\ FieldTexts(f)[i] = Labelled(keys[i], DumpsLeaf(f[keys[i]]))
                 /\ FieldTexts(f)[i] \in Seq(Glyphs)
           /\ F \in Seq(Glyphs)
           /\ \E ends : LaidOut(F, FieldTexts(f), ends)
  <1>1. PICK D : D = DOMAIN f
    OBVIOUS
  <1>2. keys \in Seq(D) /\ Len(keys) = Cardinality(D) /\ Cardinality(D) \in Nat
    BY <1>1, SetToSeqType, FS_CardinalityType DEF Storable
  <1>3. PICK n \in Nat : n = Len(keys)
    BY <1>2
  <1>4. PICK texts : texts = [i \in 1 .. n |-> Labelled(keys[i], DumpsLeaf(f[keys[i]]))]
    OBVIOUS
  <1>5. texts = FieldTexts(f)
    BY <1>2, <1>3, <1>4 DEF FieldTexts
  <1>6. ASSUME NEW i \in 1 .. n
        PROVE  keys[i] \in D /\ texts[i] \in Seq(Glyphs)
    <2>1. keys[i] \in D
      BY <1>2, <1>3
    <2>2. StringOK(keys[i]) /\ Written(f[keys[i]])
      BY <1>1, <2>1 DEF Storable
    <2>3. DumpsLeaf(f[keys[i]]) \in Seq(Glyphs)
      BY <2>2, LeafSeq
    <2>4. Labelled(keys[i], DumpsLeaf(f[keys[i]])) \in Seq(Glyphs)
      BY <2>2, <2>3, LabelledIs
    <2>5. QED
      BY <1>4, <2>1, <2>4
  <1>7. texts \in Seq(Seq(Glyphs)) /\ Len(texts) = n
    <2>1. texts \in [1 .. n -> Seq(Glyphs)]
      BY <1>4, <1>6
    <2>2. QED
      BY <2>1
  <1>8. F \in Seq(Glyphs) /\ \E ends : LaidOut(F, texts, ends)
    BY <1>5, <1>7, SeparatedIs, StringGlyphs
  <1>9. \A i \in 1 .. n : texts[i] = Labelled(keys[i], DumpsLeaf(f[keys[i]]))
    BY <1>4
  <1>10. QED
    BY <1>1, <1>2, <1>3, <1>5, <1>6, <1>7, <1>8, <1>9

LEMMA CharThere ==
    ASSUME NEW R, NEW text \in Seq(R), NEW t, NEW o, Stands(text, o, t),
           NEW i \in Nat \ {0}, i <= Len(t), NEW n, n = o + i
    PROVE  Char(text, n) = t[i] /\ n \in Nat /\ n <= Len(text)
  <1>1. /\ o \in Nat /\ Len(t) \in Nat /\ o + Len(t) <= Len(text) /\ Len(text) \in Nat
        /\ i \in 1 .. Len(t) => text[o + i] = t[i]
    BY DEF Stands
  <1>2. i \in 1 .. Len(t) /\ n <= Len(text) /\ n \in Nat
    BY <1>1
  <1>3. QED
    BY <1>1, <1>2 DEF Char

\* Where the list puts its brackets, its name and its fields, F.
LEMMA ListLaidOut ==
    ASSUME NEW word, StringOK(<<word>>), NEW f, Storable(f),
           NEW F, F = Separated(FieldTexts(f)), NEW n, n = Len(F), NEW text,
           text = Dumps(List(<<word>>, f))
    PROVE  /\ text \in Seq(Glyphs) /\ n \in Nat
           /\ Char(text, 1) = Brace
           /\ Stands(text, 1, <<Quote>> \o <<word>> \o <<Quote>>)
           /\ Char(text, 5) = ":" /\ Char(text, 6) = Space
           /\ Char(text, 7) = "[" /\ Char(text, 8) = Brace
           /\ Stands(text, 8, F)
           /\ Char(text, n + 9) = EndBrace /\ Char(text, n + 10) = "]"
           /\ Char(text, n + 11) = EndBrace
  <1>1. F \in Seq(Glyphs) /\ n \in Nat
    BY FieldsText
  <1>2. PICK R : R = Row(f)
    OBVIOUS
  <1>3. /\ R \in Seq(Glyphs) /\ Len(R) = n + 2 /\ R[1] = Brace /\ R[n + 2] = EndBrace
        /\ Stands(R, 1, F)
    <2>1. R = <<Brace>> \o F \o <<EndBrace>>
      BY <1>2 DEF Row
    <2>2. QED
      BY <1>1, <2>1, MarkGlyphs, Enclosed, EnclosedStands
  <1>4. PICK A : A = Rows(f)
    OBVIOUS
  <1>5. /\ A \in Seq(Glyphs) /\ Len(A) = n + 4 /\ A[1] = "[" /\ A[n + 4] = "]"
        /\ Stands(A, 1, R)
    <2>1. A = <<"[">> \o R \o <<"]">>
      BY <1>2, <1>4 DEF Rows
    <2>2. /\ A \in Seq(Glyphs) /\ Len(A) = Len(R) + 2 /\ A[1] = "["
          /\ A[Len(R) + 2] = "]" /\ Stands(A, 1, R)
      BY <1>3, <2>1, MarkGlyphs, Enclosed, EnclosedStands
    <2>3. Len(R) + 2 = n + 4
      BY <1>1, <1>3
    <2>4. QED
      BY <2>2, <2>3
  <1>6. PICK l : l = Labelled(<<word>>, A)
    OBVIOUS
  <1>7. /\ l \in Seq(Glyphs) /\ Len(l) = n + 9
        /\ Stands(l, 0, <<Quote>> \o <<word>> \o <<Quote>>)
        /\ l[4] = Colon /\ l[5] = Space /\ Stands(l, 5, A)
    <2>1. PICK k : k = <<word>>
      OBVIOUS
    <2>2. Len(k) = 1 /\ StringOK(k) /\ l = Labelled(k, A)
      BY <1>6, <2>1
    <2>3. /\ l \in Seq(Glyphs) /\ Len(l) = Len(k) + 4 + Len(A)
          /\ Stands(l, 0, <<Quote>> \o k \o <<Quote>>)
          /\ l[Len(k) + 3] = Colon /\ l[Len(k) + 4] = Space
          /\ Stands(l, Len(k) + 4, A)
      BY <1>5, <2>2, LabelledIs
    <2>4. Len(k) + 4 + Len(A) = n + 9 /\ Len(k) + 3 = 4 /\ Len(k) + 4 = 5
      BY <1>1, <1>5, <2>2
    <2>5. QED
      BY <2>1, <2>3, <2>4
  <1>8. /\ text \in Seq(Glyphs) /\ Len(text) = n + 11 /\ text[1] = Brace
        /\ text[n + 11] = EndBrace /\ Stands(text, 1, l)
    <2>1. text = <<Brace>> \o l \o <<EndBrace>>
      BY <1>4, <1>6, ListText
    <2>2. /\ text \in Seq(Glyphs) /\ Len(text) = Len(l) + 2 /\ text[1] = Brace
          /\ text[Len(l) + 2] = EndBrace /\ Stands(text, 1, l)
      <3>1. l \in Seq(Glyphs) /\ Brace \in Glyphs /\ EndBrace \in Glyphs
        BY <1>7, MarkGlyphs
      <3>2. /\ text \in Seq(Glyphs) /\ Len(text) = Len(l) + 2 /\ text[1] = Brace
            /\ text[Len(l) + 2] = EndBrace
        <4>1. PICK t : t = <<Brace>> \o l \o <<EndBrace>>
          OBVIOUS
        <4>2. t \in Seq(Glyphs) /\ Len(t) = Len(l) + 2
          BY <3>1, <4>1, Enclosed
        <4>3. t[1] = Brace /\ t[Len(l) + 2] = EndBrace
          BY <3>1, <4>1, Enclosed
        <4>4. QED
          BY <2>1, <4>1, <4>2, <4>3
      <3>3. Stands(text, 1, l)
        BY <2>1, <3>1, EnclosedStands
      <3>4. QED
        BY <3>2, <3>3
    <2>3. Len(l) + 2 = n + 11
      BY <1>1, <1>7
    <2>4. QED
      BY <2>2, <2>3
  <1>9. Len(text) \in Nat
    BY <1>8
  <1>10. /\ Stands(text, 1, <<Quote>> \o <<word>> \o <<Quote>>)
         /\ Stands(text, 6, A) /\ Stands(text, 7, R) /\ Stands(text, 8, F)
    <2>1. /\ Stands(text, 1 + 0, <<Quote>> \o <<word>> \o <<Quote>>)
          /\ Stands(text, 1 + 5, A)
      BY <1>7, <1>8, <1>9, StandsIn
    <2>2. 1 + 0 = 1 /\ 1 + 5 = 6 /\ 6 + 1 = 7 /\ 7 + 1 = 8
      OBVIOUS
    <2>3. Stands(text, 6, A)
      BY <2>1, <2>2
    <2>4. Stands(text, 6 + 1, R)
      BY <1>5, <1>9, <2>3, StandsIn
    <2>5. Stands(text, 7, R)
      BY <2>2, <2>4
    <2>6. Stands(text, 7 + 1, F)
      BY <1>3, <1>9, <2>5, StandsIn
    <2>7. QED
      BY <2>1, <2>2, <2>3, <2>5, <2>6
  <1>11. Char(text, 1) = Brace /\ Char(text, n + 11) = EndBrace
    BY <1>1, <1>8 DEF Char
  <1>12. Char(text, 5) = Colon /\ Char(text, 6) = Space
    <2>1. 4 \in Nat \ {0} /\ 5 \in Nat \ {0} /\ 4 <= Len(l) /\ 5 <= Len(l)
          /\ 5 = 1 + 4 /\ 6 = 1 + 5
      BY <1>1, <1>7
    <2>2. QED
      BY <1>7, <1>8, <2>1, CharThere
  <1>13. Char(text, 7) = "[" /\ Char(text, n + 10) = "]"
    <2>1. PICK m : m = n + 4
      OBVIOUS
    <2>2. 1 \in Nat \ {0} /\ m \in Nat \ {0} /\ 1 <= Len(A) /\ m <= Len(A)
          /\ 7 = 6 + 1 /\ n + 10 = 6 + m
      BY <1>1, <1>5, <2>1
    <2>3. Char(text, 7) = A[1] /\ Char(text, n + 10) = A[m]
      BY <1>8, <1>10, <2>2, CharThere
    <2>4. QED
      BY <1>5, <2>1, <2>3
  <1>14. Char(text, 8) = Brace /\ Char(text, n + 9) = EndBrace
    <2>1. PICK m : m = n + 2
      OBVIOUS
    <2>2. 1 \in Nat \ {0} /\ m \in Nat \ {0} /\ 1 <= Len(R) /\ m <= Len(R)
          /\ 8 = 7 + 1 /\ n + 9 = 7 + m
      BY <1>1, <1>3, <2>1
    <2>3. Char(text, 8) = R[1] /\ Char(text, n + 9) = R[m]
      BY <1>8, <1>10, <2>2, CharThere
    <2>4. QED
      BY <1>3, <2>1, <2>3
  <1>15. QED
    BY <1>1, <1>8, <1>10, <1>11, <1>12, <1>13, <1>14 DEF Colon

-----------------------------------------------------------------------------
(* The fields of a map, read one by one.                                   *)

\* The first n of them.
Initial(f, keys, n) == [k \in {keys[i] : i \in 1 .. n} |-> f[k]]

LEMMA FirstNone ==
    ASSUME NEW f, NEW keys
    PROVE  Initial(f, keys, 0) = EmptyMap
  <1>1. {keys[i] : i \in 1 .. 0} = {}
    OBVIOUS
  <1>2. PICK D : D = {keys[i] : i \in 1 .. 0}
    OBVIOUS
  <1>3. [k \in D |-> f[k]] = [k \in D |-> NoKey]
    BY <1>1, <1>2
  <1>4. QED
    BY <1>1, <1>2, <1>3 DEF Initial, EmptyMap

LEMMA FirstMore ==
    ASSUME NEW f, NEW keys, NEW n \in Nat, NEW k, k = keys[n + 1]
    PROVE  With(Initial(f, keys, n), k, f[k]) = Initial(f, keys, n + 1)
  <1>1. PICK D : D = {keys[i] : i \in 1 .. n}
    OBVIOUS
  <1>2. PICK E : E = {keys[i] : i \in 1 .. n + 1}
    OBVIOUS
  <1>3. E = D \cup {k}
    <2>1. \A i \in 1 .. n + 1 : i \in 1 .. n \/ i = n + 1
      OBVIOUS
    <2>2. \A i \in 1 .. n : i \in 1 .. n + 1
      OBVIOUS
    <2>3. n + 1 \in 1 .. n + 1
      OBVIOUS
    <2>4. QED
      BY <1>1, <1>2, <2>1, <2>2, <2>3
  <1>4. PICK g : g = Initial(f, keys, n)
    OBVIOUS
  <1>5. DOMAIN g = D /\ \A x \in D : g[x] = f[x]
    BY <1>1, <1>4 DEF Initial
  <1>6. With(g, k, f[k]) = [x \in D \cup {k} |-> IF x = k THEN f[k] ELSE g[x]]
    BY <1>5 DEF With
  <1>7. \A x \in E : (IF x = k THEN f[k] ELSE g[x]) = f[x]
    BY <1>3, <1>5
  <1>8. With(g, k, f[k]) = [x \in E |-> f[x]]
    BY <1>3, <1>6, <1>7
  <1>9. QED
    BY <1>2, <1>4, <1>8 DEF Initial

LEMMA FirstAll ==
    ASSUME NEW f, IsFiniteSet(DOMAIN f), f = [k \in DOMAIN f |-> f[k]],
           NEW keys, keys = SetToSeq(DOMAIN f)
    PROVE  Initial(f, keys, Len(keys)) = f
  <1>1. PICK D : D = DOMAIN f
    OBVIOUS
  <1>2. PICK n : n = Cardinality(D)
    OBVIOUS
  <1>3. n \in Nat /\ IsFiniteSet(D)
    BY <1>1, <1>2, FS_CardinalityType
  <1>4. /\ keys \in Seq(D) /\ Len(keys) = n
        /\ \A i, j \in 1 .. n : keys[i] = keys[j] => i = j
    BY <1>1, <1>2, <1>3, SetToSeqType
  <1>5. keys \in Injection(1 .. n, D)
    <2>1. keys \in [1 .. n -> D]
      BY <1>3, <1>4
    <2>2. QED
      BY <1>4, <2>1 DEF Injection, IsInjective
  <1>6. Cardinality(1 .. n) = Cardinality(D)
    <2>1. PICK a, b : a = 1 /\ b = n
      OBVIOUS
    <2>2. Cardinality(a .. b) = IF a > b THEN 0 ELSE b - a + 1
      BY <1>3, <2>1, FS_Interval
    <2>3. (IF a > b THEN 0 ELSE b - a + 1) = n
      BY <1>3, <2>1
    <2>4. QED
      BY <1>2, <2>1, <2>2, <2>3
  <1>7. keys \in Surjection(1 .. n, D)
    BY <1>3, <1>5, <1>6, FS_Injection
  <1>8. {keys[i] : i \in 1 .. n} = D
    BY <1>7 DEF Surjection
  <1>9. Initial(f, keys, n) = [k \in D |-> f[k]]
    BY <1>8 DEF Initial
  <1>10. QED
    BY <1>1, <1>4, <1>9

\* A turn of the loop takes the parser from its start to p.
Comes(text, p) == \E n \in Nat : Turns(text)[n] = p

LEMMA ComesFirst ==
    ASSUME NEW text
    PROVE  Comes(text, Parser(1, "value", <<>>))
  <1>1. Begin = Parser(1, "value", <<>>)
    BY DEF Begin, Parser
  <1>2. QED
    BY <1>1, TurnsRecursion DEF Comes

LEMMA ComesNext ==
    ASSUME NEW text, NEW i, NEW at, NEW open, Comes(text, Parser(i, at, open)),
           NEW q, Step(text, Parser(i, at, open)) = q
    PROVE  Comes(text, q)
  <1>1. PICK p : p = Parser(i, at, open)
    OBVIOUS
  <1>2. p.status = "parsing" /\ Comes(text, p) /\ Step(text, p) = q
    BY <1>1, ParserIs
  <1>3. PICK n \in Nat : Turns(text)[n] = p
    BY <1>2 DEF Comes
  <1>4. Turns(text)[n + 1] = Turn(text, p)
    BY <1>3, TurnsRecursion
  <1>5. Turn(text, p) = q
    BY <1>2 DEF Turn
  <1>6. QED
    BY <1>3, <1>4, <1>5 DEF Comes

\* text holds f under word, as dumps writes it; the fields end where ends says.
Listed(text, word, f, ends) ==
    /\ StringOK(<<word>>) /\ Storable(f) /\ f = [k \in DOMAIN f |-> f[k]]
    /\ text = Dumps(List(<<word>>, f))
    /\ LaidOut(Separated(FieldTexts(f)), FieldTexts(f), ends)

\* What is open around the fields, and the parser in their loop.
Around(word) == Push(Array(<<>>), Push(Begun(EmptyMap, <<word>>), <<>>))
InFields(i, f, word, n) ==
    Parser(i, "loop",
           Push(Begun(Initial(f, SetToSeq(DOMAIN f), n), NoKey), Around(word)))

LEMMA AroundStack ==
    ASSUME NEW word
    PROVE  IsStack(Around(word)) /\ IsStack(Push(Begun(EmptyMap, <<word>>), <<>>))
           /\ IsStack(<<>>)
  <1>1. IsStack(<<>>)
    <2>1. <<>> \in Seq({})
      OBVIOUS
    <2>2. QED
      BY <2>1 DEF IsStack
  <1>2. QED
    BY <1>1, PushIs DEF Around

\* Two turns take the next field.
LEMMA FieldTurns ==
    ASSUME NEW text, NEW word, NEW f, NEW ends, Listed(text, word, f, ends),
           NEW n \in Nat, n < Len(SetToSeq(DOMAIN f)), NEW i \in Nat,
           \/ i = 9 + From(ends, n + 1)
           \/ i = 8 + From(ends, n + 1) /\ Char(text, i) = Space,
           Comes(text, InFields(i, f, word, n))
    PROVE  Comes(text, InFields(9 + ends[n + 1], f, word, n + 1))
  <1>1. PICK keys : keys = SetToSeq(DOMAIN f)
    OBVIOUS
  <1>2. PICK F : F = Separated(FieldTexts(f))
    OBVIOUS
  <1>3. /\ StringOK(<<word>>) /\ Storable(f) /\ LaidOut(F, FieldTexts(f), ends)
        /\ text = Dumps(List(<<word>>, f))
    BY <1>2 DEF Listed
  <1>4. text \in Seq(Glyphs) /\ Stands(text, 8, F) /\ Len(text) \in Nat
    <2>1. text \in Seq(Glyphs) /\ Stands(text, 8, F)
      BY <1>2, <1>3, ListLaidOut
    <2>2. QED
      BY <2>1
  <1>5. PICK m : m = n + 1
    OBVIOUS
  <1>6. PICK k : k = keys[m]
    OBVIOUS
  <1>7. PICK leaf : leaf = DumpsLeaf(f[k])
    OBVIOUS
  <1>8. PICK t : t = FieldTexts(f)[m]
    OBVIOUS
  <1>9. /\ m \in 1 .. Len(keys) /\ Len(keys) = Len(FieldTexts(f)) /\ Len(keys) \in Nat
        /\ k \in DOMAIN f /\ t = Labelled(k, leaf) /\ F \in Seq(Glyphs)
    <2>1. /\ Len(keys) = Len(FieldTexts(f)) /\ Len(keys) \in Nat /\ F \in Seq(Glyphs)
          /\ \A x \in 1 .. Len(keys) :
                /\ keys[x] \in DOMAIN f
                /\ FieldTexts(f)[x] = Labelled(keys[x], DumpsLeaf(f[keys[x]]))
      BY <1>1, <1>2, <1>3, FieldsText
    <2>2. m \in 1 .. Len(keys)
      BY <1>1, <1>5, <2>1
    <2>3. QED
      BY <1>6, <1>7, <1>8, <2>1, <2>2
  <1>10. StringOK(k) /\ k # <<>> /\ Written(f[k])
    BY <1>3, <1>9 DEF Storable
  <1>11. PICK l : l = Len(k)
    OBVIOUS
  <1>12. PICK y : y = Len(leaf)
    OBVIOUS
  <1>13. /\ t \in Seq(Glyphs) /\ l \in Nat /\ Len(t) = l + 4 + y /\ y \in Nat
         /\ Stands(t, 0, <<Quote>> \o k \o <<Quote>>)
         /\ t[l + 3] = Colon /\ t[l + 4] = Space
         /\ Stands(t, l + 4, leaf)
    <2>1. leaf \in Seq(Glyphs)
      BY <1>7, <1>10, LeafSeq
    <2>2. /\ t \in Seq(Glyphs) /\ Len(k) \in Nat
          /\ Len(t) = Len(k) + 4 + Len(leaf)
          /\ Stands(t, 0, <<Quote>> \o k \o <<Quote>>)
          /\ t[Len(k) + 3] = Colon /\ t[Len(k) + 4] = Space
          /\ Stands(t, Len(k) + 4, leaf)
      BY <1>9, <1>10, <2>1, LabelledIs
    <2>3. QED
      BY <1>11, <1>12, <2>1, <2>2
  <1>14. PICK b : b = From(ends, m)
    OBVIOUS
  <1>15. b \in Nat /\ ends[m] = b + Len(t) /\ ends[m] <= Len(F) /\ Stands(F, b, t)
    <2>1. /\ ends[m] = From(ends, m) + Len(FieldTexts(f)[m]) /\ From(ends, m) \in Nat
          /\ ends[m] <= Len(F)
          /\ \A x \in 1 .. Len(FieldTexts(f)[m]) :
                F[From(ends, m) + x] = FieldTexts(f)[m][x]
      BY <1>3, <1>9 DEF LaidOut
    <2>2. Len(t) \in Nat
      BY <1>13
    <2>3. QED
      BY <1>8, <1>14, <2>1, <2>2 DEF Stands
  <1>16. PICK o : o = 8 + b
    OBVIOUS
  <1>17. Stands(text, o, t) /\ o \in Nat
    <2>1. Stands(text, 8 + b, t)
      BY <1>4, <1>15, StandsIn
    <2>2. QED
      BY <1>15, <1>16, <2>1
  <1>18. Stands(text, o, <<Quote>> \o k \o <<Quote>>)
    <2>1. Stands(text, o + 0, <<Quote>> \o k \o <<Quote>>)
      BY <1>4, <1>13, <1>17, StandsIn
    <2>2. o + 0 = o
      BY <1>17
    <2>3. QED
      BY <2>1, <2>2
  <1>19. PICK c : c = o + l + 4
    OBVIOUS
  <1>20. Char(text, o + l + 3) = ":" /\ Char(text, c) = Space
    <2>1. PICK x, z, e : x = l + 3 /\ z = l + 4 /\ e = o + l + 3
      OBVIOUS
    <2>2. /\ x \in Nat \ {0} /\ z \in Nat \ {0}
          /\ x <= Len(t) /\ z <= Len(t) /\ e = o + x /\ c = o + z
      BY <1>13, <1>17, <1>19, <2>1
    <2>3. Char(text, e) = t[x]
      BY <1>4, <1>17, <2>2, CharThere
    <2>4. Char(text, c) = t[z]
      BY <1>4, <1>17, <2>2, CharThere
    <2>5. QED
      BY <1>13, <2>1, <2>3, <2>4 DEF Colon
  <1>21. Stands(text, c, leaf)
    <2>1. PICK z : z = l + 4
      OBVIOUS
    <2>2. Stands(t, z, leaf)
      BY <1>13, <2>1
    <2>3. Stands(text, o + z, leaf)
      BY <1>4, <1>17, <2>2, StandsIn
    <2>4. o + z = c
      BY <1>13, <1>17, <1>19, <2>1
    <2>5. QED
      BY <2>3, <2>4
  <1>22. PICK g : g = Initial(f, keys, n)
    OBVIOUS
  <1>23. PICK rest : rest = Around(word)
    OBVIOUS
  <1>24. IsStack(rest)
    BY <1>23, AroundStack
  <1>25. Comes(text, Parser(i, "loop", Push(Begun(g, NoKey), rest)))
    BY <1>1, <1>22, <1>23 DEF InFields
  <1>26. Place(text, Parser(i, "loop", Push(Begun(g, NoKey), rest))) = o + 1
    <2>1. Char(text, o + 1) = Quote
      BY <1>4, <1>10, <1>18, StringThere
    <2>2. i = o + 1 \/ (i = o /\ Char(text, i) = Space)
      <3>1. From(ends, n + 1) = b
        BY <1>5, <1>14
      <3>2. i = 9 + b \/ (i = 8 + b /\ Char(text, i) = Space)
        BY <3>1
      <3>3. 9 + b = o + 1 /\ 8 + b = o
        BY <1>15, <1>16
      <3>4. QED
        BY <3>2, <3>3
    <2>3. CASE i = o + 1
      BY <2>1, <2>3, PlaceIs, MarksDiffer
    <2>4. CASE i = o /\ Char(text, i) = Space
      BY <2>4, PlaceIs
    <2>5. QED
      BY <2>2, <2>3, <2>4
  <1>27. Comes(text, Parser(c, "value", Push(Begun(g, k), rest)))
    <2>1. Step(text, Parser(i, "loop", Push(Begun(g, NoKey), rest)))
            = Parser(o + Len(k) + 4, "value", Push(Begun(g, k), rest))
      <3>1. Char(text, o + Len(k) + 3) = ":"
        BY <1>11, <1>20
      <3>2. QED
        BY <1>4, <1>10, <1>18, <1>24, <1>26, <3>1, KeyTurn
    <2>2. o + Len(k) + 4 = c
      BY <1>11, <1>19
    <2>3. QED
      BY <1>25, <2>1, <2>2, ComesNext
  <1>28. PICK v : v = f[k]
    OBVIOUS
  <1>29. PICK d : d = c + y + 1
    OBVIOUS
  <1>30. Step(text, Parser(c, "value", Push(Begun(g, k), rest)))
           = Parser(d, "loop", Push(Begun(With(g, k, v), NoKey), rest))
    <2>1. PICK open : open = Push(Begun(g, k), rest)
      OBVIOUS
    <2>2. Written(v) /\ leaf = DumpsLeaf(v) /\ Stands(text, c, DumpsLeaf(v))
      BY <1>7, <1>10, <1>21, <1>28
    <2>3. Step(text, Parser(c, "value", open))
            = Deliver(Parser(c, "value", open), v, c + Len(DumpsLeaf(v)) + 1)
      BY <1>4, <1>20, <2>2, LeafTurn
    <2>4. c + Len(DumpsLeaf(v)) + 1 = d
      BY <1>12, <1>29, <2>2
    <2>5. Deliver(Parser(c, "value", Push(Begun(g, k), rest)), v, d)
            = Parser(d, "loop", Push(Begun(With(g, k, v), NoKey), rest))
      BY <1>24, DeliverMap
    <2>6. QED
      BY <2>1, <2>3, <2>4, <2>5
  <1>31. Comes(text, Parser(d, "loop", Push(Begun(With(g, k, v), NoKey), rest)))
    BY <1>27, <1>30, ComesNext
  <1>32. With(g, k, v) = Initial(f, keys, m)
    <2>1. k = keys[n + 1]
      BY <1>5, <1>6
    <2>2. With(Initial(f, keys, n), k, f[k]) = Initial(f, keys, n + 1)
      BY <2>1, FirstMore
    <2>3. QED
      BY <1>5, <1>22, <1>28, <2>2
  <1>33. d = 9 + ends[m]
    BY <1>13, <1>15, <1>16, <1>17, <1>19, <1>29
  <1>34. QED
    BY <1>1, <1>5, <1>23, <1>31, <1>32, <1>33 DEF InFields

\* So the fields are read up to their end.
LEMMA FieldsRead ==
    ASSUME NEW text, NEW word, NEW f, NEW ends, Listed(text, word, f, ends),
           Comes(text, InFields(9, f, word, 0))
    PROVE  Comes(text, InFields(9 + Len(Separated(FieldTexts(f))), f, word,
                                Len(SetToSeq(DOMAIN f))))
  <1>1. PICK keys : keys = SetToSeq(DOMAIN f)
    OBVIOUS
  <1>2. PICK F : F = Separated(FieldTexts(f))
    OBVIOUS
  <1>3. /\ StringOK(<<word>>) /\ Storable(f) /\ LaidOut(F, FieldTexts(f), ends)
        /\ text = Dumps(List(<<word>>, f))
    BY <1>2 DEF Listed
  <1>4. text \in Seq(Glyphs) /\ Stands(text, 8, F)
    BY <1>2, <1>3, ListLaidOut
  <1>5. Len(keys) = Len(FieldTexts(f)) /\ Len(keys) \in Nat /\ F \in Seq(Glyphs)
    BY <1>1, <1>2, <1>3, FieldsText
  <1>6. PICK N \in Nat : N = Len(keys)
    BY <1>5
  <1>7. ends[0] = 0 /\ ends[N] = Len(F) /\ \A n \in 0 .. N : ends[n] \in Nat
    BY <1>3, <1>5, <1>6 DEF LaidOut
  <1>8. ASSUME NEW n \in Nat, n < N, Comes(text, InFields(9 + ends[n], f, word, n))
        PROVE  Comes(text, InFields(9 + ends[n + 1], f, word, n + 1))
    <2>1. n < Len(SetToSeq(DOMAIN f))
      BY <1>1, <1>6, <1>8
    <2>2. PICK b \in Nat : b = ends[n]
      BY <1>6, <1>7, <1>8
    <2>3. CASE n = 0
      <3>1. From(ends, n + 1) = 0 /\ ends[n] = 0
        BY <1>7, <2>3 DEF From
      <3>2. PICK i \in Nat : i = 9 + ends[n]
        BY <3>1
      <3>3. i = 9 + From(ends, n + 1)
        BY <3>1, <3>2
      <3>4. Comes(text, InFields(i, f, word, n))
        BY <1>8, <3>2
      <3>5. QED
        BY <2>1, <3>3, <3>4, FieldTurns
    <2>4. CASE n # 0
      <3>1. From(ends, n + 1) = b + 2
        <4>1. n + 1 # 1 /\ (n + 1) - 1 = n
          BY <2>4
        <4>2. QED
          BY <2>2, <4>1 DEF From
      <3>2. n \in 1 .. N /\ n < Len(FieldTexts(f)) /\ n \in 1 .. Len(FieldTexts(f))
        BY <1>5, <1>6, <1>8, <2>4
      <3>3. F[b + 1] = Comma /\ F[b + 2] = Space /\ b + 2 <= Len(F)
        <4>1. F[ends[n] + 1] = Comma /\ F[ends[n] + 2] = Space
          BY <1>3, <3>2 DEF LaidOut
        <4>2. n + 1 \in 1 .. Len(FieldTexts(f))
          BY <1>5, <1>6, <1>8
        <4>3. /\ ends[n + 1] = From(ends, n + 1) + Len(FieldTexts(f)[n + 1])
              /\ ends[n + 1] <= Len(F)
          BY <1>3, <4>2 DEF LaidOut
        <4>4. Len(FieldTexts(f)[n + 1]) \in Nat
          <5>1. FieldTexts(f)[n + 1] \in Seq(Glyphs)
            <6>1. n + 1 \in 1 .. Len(keys)
              BY <1>5, <4>2
            <6>2. \A x \in 1 .. Len(keys) : FieldTexts(f)[x] \in Seq(Glyphs)
              BY <1>1, <1>2, <1>3, FieldsText
            <6>3. QED
              BY <6>1, <6>2
          <5>2. QED
            BY <5>1
        <4>5. PICK x \in Nat : x = Len(FieldTexts(f)[n + 1])
          BY <4>4
        <4>6. b + 2 + x <= Len(F) /\ Len(F) \in Nat
          <5>1. ends[n + 1] = (b + 2) + x
            BY <3>1, <4>3, <4>5
          <5>2. (b + 2) + x <= Len(F)
            BY <4>3, <5>1
          <5>3. QED
            BY <1>5, <5>2
        <4>7. QED
          BY <2>2, <4>1, <4>6
      <3>4. PICK c \in Nat, d \in Nat : c = 9 + b /\ d = 10 + b
        OBVIOUS
      <3>5. Char(text, c) = Comma /\ Char(text, d) = Space
        <4>1. PICK x, z : x = b + 1 /\ z = b + 2
          OBVIOUS
        <4>2. /\ x \in Nat \ {0} /\ z \in Nat \ {0} /\ x <= Len(F) /\ z <= Len(F)
              /\ c = 8 + x /\ d = 8 + z
          BY <1>5, <3>3, <3>4, <4>1
        <4>3. Char(text, c) = F[x]
          BY <1>4, <4>2, CharThere
        <4>4. Char(text, d) = F[z]
          BY <1>4, <4>2, CharThere
        <4>5. QED
          BY <3>3, <4>1, <4>3, <4>4
      <3>6. PICK g : g = Initial(f, keys, n)
        OBVIOUS
      <3>7. PICK rest : rest = Around(word)
        OBVIOUS
      <3>8. Comes(text, Parser(c, "loop", Push(Begun(g, NoKey), rest)))
        <4>1. c = 9 + ends[n]
          BY <2>2, <3>4
        <4>2. QED
          BY <1>1, <1>8, <3>6, <3>7, <4>1 DEF InFields
      <3>9. Comes(text, Parser(d, "loop", Push(Begun(g, NoKey), rest)))
        <4>1. Step(text, Parser(c, "loop", Push(Begun(g, NoKey), rest)))
                = Parser(c + 1, "loop", Push(Begun(g, NoKey), rest))
          <5>1. IsStack(rest)
            BY <3>7, AroundStack
          <5>2. QED
            BY <3>5, <5>1, MapEnd
        <4>2. c + 1 = d
          BY <3>4
        <4>3. QED
          BY <3>8, <4>1, <4>2, ComesNext
      <3>10. Comes(text, InFields(d, f, word, n))
        BY <1>1, <3>6, <3>7, <3>9 DEF InFields
      <3>11. d = 8 + From(ends, n + 1) /\ Char(text, d) = Space
        BY <3>1, <3>4, <3>5
      <3>12. QED
        BY <2>1, <3>10, <3>11, FieldTurns
    <2>5. QED
      BY <2>3, <2>4
  <1> DEFINE S == {n \in Nat : n <= N => Comes(text, InFields(9 + ends[n], f, word, n))}
  <1>9. 0 \in S
    <2>1. 9 + ends[0] = 9
      BY <1>7
    <2>2. QED
      BY <2>1
  <1>10. ASSUME NEW n \in Nat, n \in S PROVE n + 1 \in S
    <2>1. CASE n < N
      <3>1. Comes(text, InFields(9 + ends[n], f, word, n))
        BY <1>10, <2>1
      <3>2. Comes(text, InFields(9 + ends[n + 1], f, word, n + 1))
        BY <1>8, <2>1, <3>1
      <3>3. QED
        BY <3>2
    <2>2. CASE ~ n < N
      <3>1. ~ n + 1 <= N
        BY <2>2
      <3>2. QED
        BY <3>1
    <2>3. QED
      BY <2>1, <2>2
  <1>11. \A n \in Nat : n \in S
    <2> HIDE DEF S
    <2> QED
      BY <1>9, <1>10, NatRule
  <1>12. Comes(text, InFields(9 + ends[N], f, word, N))
    BY <1>11
  <1>13. QED
    BY <1>1, <1>2, <1>6, <1>7, <1>12

\* What dumps writes of a list, the parser reads as that list.
LEMMA ListRead ==
    ASSUME NEW text, NEW word, NEW f, NEW ends, Listed(text, word, f, ends)
    PROVE  \E m \in Nat : /\ Turns(text)[m].status = "done"
                          /\ Turns(text)[m].out = List(<<word>>, f)
  <1>1. PICK key : key = <<word>>
    OBVIOUS
  <1>2. PICK F : F = Separated(FieldTexts(f))
    OBVIOUS
  <1>3. PICK n : n = Len(F)
    OBVIOUS
  <1>4. /\ StringOK(<<word>>) /\ Storable(f)
        /\ text = Dumps(List(<<word>>, f))
    BY DEF Listed
  <1>5. /\ text \in Seq(Glyphs) /\ n \in Nat
        /\ Char(text, 1) = Brace
        /\ Stands(text, 1, <<Quote>> \o <<word>> \o <<Quote>>)
        /\ Char(text, 5) = ":" /\ Char(text, 6) = Space
        /\ Char(text, 7) = "[" /\ Char(text, 8) = Brace
        /\ Char(text, n + 9) = EndBrace /\ Char(text, n + 10) = "]"
        /\ Char(text, n + 11) = EndBrace
    BY <1>2, <1>3, <1>4, ListLaidOut
  <1>6. Len(key) = 1 /\ key # <<>> /\ StringOK(key)
        /\ Stands(text, 1, <<Quote>> \o key \o <<Quote>>)
    BY <1>1, <1>4, <1>5
  <1>7. PICK outer : outer = Push(Begun(EmptyMap, key), <<>>)
    OBVIOUS
  <1>8. PICK around : around = Push(Array(<<>>), outer)
    OBVIOUS
  <1>9. /\ around = Around(word) /\ IsStack(around) /\ IsStack(outer) /\ IsStack(<<>>)
    BY <1>1, <1>7, <1>8, AroundStack DEF Around
  <1>10. Comes(text, Parser(2, "loop", Push(Begun(EmptyMap, NoKey), <<>>)))
    <2>1. Step(text, Parser(1, "value", <<>>))
            = Parser(1 + 1, "loop", Push(Begun(EmptyMap, NoKey), <<>>))
      BY <1>5, BraceTurn
    <2>2. 1 + 1 = 2
      OBVIOUS
    <2>3. QED
      BY <2>1, <2>2, ComesFirst, ComesNext
  <1>11. Comes(text, Parser(6, "value", outer))
    <2>1. Char(text, 1 + 1) = Quote
      BY <1>5, <1>6, StringThere
    <2>2. PICK o, i \in Nat : o = 1 /\ i = 2
      OBVIOUS
    <2>3. Char(text, i) = Quote /\ i = o + 1
      BY <2>1, <2>2
    <2>4. Place(text, Parser(i, "loop", Push(Begun(EmptyMap, NoKey), <<>>))) = o + 1
      BY <2>3, PlaceIs, MarksDiffer
    <2>5. Stands(text, o, <<Quote>> \o key \o <<Quote>>) /\ Char(text, o + Len(key) + 3) = ":"
      BY <1>5, <1>6, <2>2
    <2>6. Step(text, Parser(i, "loop", Push(Begun(EmptyMap, NoKey), <<>>)))
            = Parser(o + Len(key) + 4, "value", Push(Begun(EmptyMap, key), <<>>))
      <3>1. PICK empty, g : empty = <<>> /\ g = EmptyMap
        OBVIOUS
      <3>2. IsStack(empty) /\ Place(text, Parser(i, "loop", Push(Begun(g, NoKey), empty))) = o + 1
        BY <1>9, <2>4, <3>1
      <3>3. Step(text, Parser(i, "loop", Push(Begun(g, NoKey), empty)))
              = Parser(o + Len(key) + 4, "value", Push(Begun(g, key), empty))
        <4>1. text \in Seq(Glyphs) /\ StringOK(key) /\ key # <<>>
          BY <1>5, <1>6
        <4>2. QED
          BY <2>5, <3>2, <4>1, KeyTurn
      <3>4. QED
        BY <3>1, <3>3
    <2>7. o + Len(key) + 4 = 6
      BY <1>6, <2>2
    <2>8. QED
      BY <1>7, <1>10, <2>2, <2>6, <2>7, ComesNext
  <1>12. Comes(text, Parser(8, "loop", around))
    <2>1. PICK i \in Nat : i = 6
      OBVIOUS
    <2>2. Char(text, i) = Space /\ Char(text, i + 1) = "[" /\ i + 2 = 8
      BY <1>5, <2>1
    <2>3. Step(text, Parser(i, "value", outer)) = Parser(i + 2, "loop", Push(Array(<<>>), outer))
      BY <2>2, BracketTurn
    <2>4. QED
      BY <1>8, <1>11, <2>1, <2>2, <2>3, ComesNext
  <1>13. Comes(text, InFields(9, f, word, 0))
    <2>1. PICK i \in Nat : i = 8
      OBVIOUS
    <2>2. Char(text, i) = Brace /\ i + 1 = 9
      BY <1>5, <2>1
    <2>3. Step(text, Parser(i, "loop", around))
            = Parser(i + 1, "loop", Push(Begun(EmptyMap, NoKey), around))
      BY <1>8, <1>9, <2>2, RowTurn
    <2>4. Comes(text, Parser(9, "loop", Push(Begun(EmptyMap, NoKey), around)))
      BY <1>12, <2>1, <2>2, <2>3, ComesNext
    <2>5. QED
      BY <1>9, <2>4, FirstNone DEF InFields
  <1>14. Comes(text, Parser(9 + n, "loop", Push(Begun(f, NoKey), around)))
    <2>1. Comes(text, InFields(9 + n, f, word, Len(SetToSeq(DOMAIN f))))
      BY <1>2, <1>3, <1>13, FieldsRead
    <2>2. Initial(f, SetToSeq(DOMAIN f), Len(SetToSeq(DOMAIN f))) = f
      <3>1. IsFiniteSet(DOMAIN f)
        BY <1>4 DEF Storable
      <3>2. QED
        BY <3>1, FirstAll DEF Listed
    <2>3. QED
      BY <1>9, <2>1, <2>2 DEF InFields
  <1>15. PICK row : row = Map(f)
    OBVIOUS
  <1>16. PICK i \in Nat, j \in Nat, c \in Nat :
            i = 9 + n /\ j = 10 + n /\ c = 11 + n
    BY <1>5
  <1>17. /\ Char(text, i) = EndBrace /\ Char(text, j) = "]" /\ Char(text, c) = EndBrace
         /\ i + 1 = j /\ j + 1 = c
    <2>1. n + 9 = i /\ n + 10 = j /\ n + 11 = c
      BY <1>5, <1>16
    <2>2. QED
      BY <1>5, <1>16, <2>1
  <1>18. Comes(text, Parser(j, "loop", Push(Array(<<row>>), outer)))
    <2>1. Step(text, Parser(i, "loop", Push(Begun(f, NoKey), around)))
            = Deliver(Parser(i, "loop", around), Map(f), i + 1)
      BY <1>9, <1>17, MapEnd
    <2>2. Deliver(Parser(i, "loop", Push(Array(<<>>), outer)), row, j)
            = Parser(j, "loop", Push(Array(Append(<<>>, row)), outer))
      <3>1. PICK none : none = <<>>
        OBVIOUS
      <3>2. Deliver(Parser(i, "loop", Push(Array(none), outer)), row, j)
              = Parser(j, "loop", Push(Array(Append(none, row)), outer))
        BY <1>9, DeliverArray
      <3>3. QED
        BY <3>1, <3>2
    <2>3. Append(<<>>, row) = <<row>>
      OBVIOUS
    <2>4. Step(text, Parser(i, "loop", Push(Begun(f, NoKey), around)))
            = Parser(j, "loop", Push(Array(<<row>>), outer))
      BY <1>8, <1>15, <1>17, <2>1, <2>2, <2>3
    <2>5. QED
      BY <1>14, <1>16, <2>4, ComesNext
  <1>19. PICK items : items = <<row>>
    OBVIOUS
  <1>20. PICK g : g = With(EmptyMap, key, Array(items))
    OBVIOUS
  <1>21. Comes(text, Parser(c, "loop", Push(Begun(g, NoKey), <<>>)))
    <2>1. Step(text, Parser(j, "loop", Push(Array(items), outer)))
            = Deliver(Parser(j, "loop", outer), Array(items), j + 1)
      BY <1>9, <1>17, ArrayEnd
    <2>2. Deliver(Parser(j, "loop", Push(Begun(EmptyMap, key), <<>>)), Array(items), c)
            = Parser(c, "loop", Push(Begun(With(EmptyMap, key, Array(items)), NoKey), <<>>))
      BY <1>9, DeliverMap
    <2>3. Step(text, Parser(j, "loop", Push(Array(items), outer)))
            = Parser(c, "loop", Push(Begun(g, NoKey), <<>>))
      BY <1>7, <1>17, <1>20, <2>1, <2>2
    <2>4. QED
      BY <1>18, <1>19, <2>3, ComesNext
  <1>22. PICK q : q = Deliver(Parser(c, "loop", <<>>), Map(g), c + 1)
    OBVIOUS
  <1>23. Comes(text, q)
    <2>1. Step(text, Parser(c, "loop", Push(Begun(g, NoKey), <<>>))) = q
      BY <1>9, <1>17, <1>22, MapEnd
    <2>2. QED
      BY <1>21, <2>1, ComesNext
  <1>24. q.status = "done" /\ q.out = Map(g)
    BY <1>22, DeliverLast
  <1>25. g = [x \in {key} |-> Array(items)]
    BY <1>20 DEF With, EmptyMap
  <1>26. Map(g) = List(<<word>>, f)
    BY <1>1, <1>15, <1>19, <1>25 DEF List
  <1>27. QED
    BY <1>23, <1>24, <1>26 DEF Comes

-----------------------------------------------------------------------------
(* The lists the handlers answer.                                          *)

Catalogs == {"products", "resources", "services"}
FieldNames == {"name", "price", "stock", "description", "category", "duration"}

\* No name of the program holds a quote or a backslash.
LEMMA NamesOK == \A n \in Catalogs \cup FieldNames : StringOK(<<n>>)
  <1>1. ASSUME NEW n \in Catalogs \cup FieldNames
        PROVE  n \in Glyphs /\ n # Quote /\ n # Backslash
    BY Zenon DEF Catalogs, FieldNames, Glyphs, Marks, Quote, Backslash
  <1>2. QED
    BY <1>1, WordOK

LEMMA FormsType ==
    ASSUME NEW answer \in DOMAIN Forms, NEW form, form = Forms[answer]
    PROVE  /\ form.list \in Catalogs
           /\ DOMAIN form.type \ {"active"} \subseteq FieldNames
           /\ \A k \in DOMAIN form.type : form.type[k] \in {"string", "int"}
  <1> DEFINE OK(x) == /\ x.list \in Catalogs
                      /\ DOMAIN x.type \ {"active"} \subseteq FieldNames
                      /\ \A k \in DOMAIN x.type : x.type[k] \in {"string", "int"}
                      /\ DOMAIN x = {"list", "needs", "type"}
  <1>1. OK(NewProduct)
    BY DEF NewProduct, Catalogs, FieldNames
  <1>2. OK(NewResource)
    BY DEF NewResource, Catalogs, FieldNames
  <1>3. OK(NewService)
    BY DEF NewService, Catalogs, FieldNames
  <1>4. ASSUME NEW x, OK(x) PROVE OK(Changed(x))
    BY <1>4 DEF Changed
  <1>5. ASSUME NEW x, OK(x) PROVE OK(Switched(x))
    <2>1. PICK y : y = Changed(x)
      OBVIOUS
    <2>2. OK(y)
      BY <1>4, <1>5, <2>1
    <2>3. Switched(x) = [y EXCEPT !.type = [k \in DOMAIN y.type \cup {"active"} |-> "string"]]
      BY <2>1 DEF Switched
    <2>4. QED
      BY <2>2, <2>3
  <1>6. /\ OK(Changed(NewProduct)) /\ OK(Switched(NewResource)) /\ OK(Switched(NewService))
    BY <1>1, <1>2, <1>3, <1>4, <1>5
  <1>7. form \in {NewProduct, Changed(NewProduct), NewResource, Switched(NewResource),
                  NewService, Switched(NewService)}
    BY DEF Forms
  <1> HIDE DEF OK
  <1>8. OK(form)
    BY <1>1, <1>2, <1>3, <1>6, <1>7
  <1>9. QED
    BY <1>8 DEF OK

LEMMA FieldNamesFinite == IsFiniteSet(FieldNames)
  <1>1. FieldNames = {"name"} \cup {"price"} \cup {"stock"} \cup {"description"}
                       \cup {"category"} \cup {"duration"}
    BY DEF FieldNames
  <1>2. QED
    BY <1>1, FS_Singleton, FS_Union

\* A list of what was taken from a body can be read back.
LEMMA ListingIs ==
    ASSUME NEW form, form.list \in Catalogs,
           DOMAIN form.type \ {"active"} \subseteq FieldNames,
           \A k \in DOMAIN form.type : form.type[k] \in {"string", "int"},
           NEW body, Stored(form, body),
           \A n \in Kept(form, body) : Leaf(body.obj[<<n>>])
    PROVE  \E f, ends : /\ Listing(form, body) = List(<<form.list>>, f)
                        /\ Listed(Dumps(Listing(form, body)), form.list, f, ends)
  <1>1. PICK kept : kept = Kept(form, body)
    OBVIOUS
  <1>2. PICK word : word = form.list
    OBVIOUS
  <1>3. kept \subseteq FieldNames /\ kept \subseteq Given(form, body)
    BY <1>1 DEF Kept, Given
  <1>4. PICK D : D = {<<n>> : n \in kept}
    OBVIOUS
  <1>5. PICK f : f = [k \in D |-> body.obj[k]]
    OBVIOUS
  <1>6. f = [k \in DOMAIN f |-> f[k]] /\ DOMAIN f = D
    BY <1>5
  <1>7. IsFiniteSet(D)
    <2>1. IsFiniteSet(kept)
      BY <1>3, FieldNamesFinite, FS_Subset
    <2>2. PICK one : one = [n \in kept |-> <<n>>]
      OBVIOUS
    <2>3. one \in Surjection(kept, D)
      BY <1>4, <2>2 DEF Surjection
    <2>4. QED
      BY <2>1, <2>3, FS_Surjection
  <1>8. ASSUME NEW n \in kept
        PROVE  StringOK(<<n>>) /\ <<n>> # <<>> /\ Written(body.obj[<<n>>])
    <2>1. n \in Given(form, body) /\ n \in FieldNames
      BY <1>3
    <2>2. /\ n \in DOMAIN form.type /\ "obj" \in DOMAIN body /\ <<n>> \in DOMAIN body.obj
      BY <2>1 DEF Given, HasField
    <2>3. PICK v : v = body.obj[<<n>>]
      OBVIOUS
    <2>4. Leaf(v)
      BY <1>1, <2>3
    <2>5. Converts(v, form.type[n])
      BY <2>1, <2>3 DEF Stored
    <2>6. CASE form.type[n] = "string"
      <3>1. "str" \in DOMAIN v
        BY <2>5, <2>6 DEF Converts
      <3>2. QED
        BY <2>1, <2>3, <2>4, <3>1, NamesOK DEF Leaf, Written
    <2>7. CASE form.type[n] = "int"
      <3>1. v = [lex |-> "int"]
        BY <2>5, <2>7 DEF Converts
      <3>2. QED
        BY <2>1, <2>3, <3>1, NamesOK DEF Written
    <2>8. QED
      BY <2>2, <2>6, <2>7
  <1>9. Storable(f)
    <2>1. ASSUME NEW k \in D PROVE StringOK(k) /\ k # <<>> /\ Written(f[k])
      <3>1. PICK n \in kept : k = <<n>>
        BY <1>4
      <3>2. f[k] = body.obj[<<n>>]
        BY <1>5, <3>1
      <3>3. QED
        BY <1>8, <3>1, <3>2
    <2>2. QED
      BY <1>6, <1>7, <2>1 DEF Storable
  <1>10. StringOK(<<word>>)
    BY <1>2, NamesOK
  <1>11. Listing(form, body) = List(<<word>>, f)
    BY <1>1, <1>2, <1>4, <1>5 DEF Listing, List
  <1>12. PICK keys : keys = SetToSeq(DOMAIN f)
    OBVIOUS
  <1>13. PICK F : F = Separated(FieldTexts(f))
    OBVIOUS
  <1>14. PICK ends : LaidOut(F, FieldTexts(f), ends)
    BY <1>9, <1>12, <1>13, FieldsText
  <1>15. PICK text : text = Dumps(List(<<word>>, f))
    OBVIOUS
  <1>16. Listed(text, word, f, ends)
    BY <1>6, <1>9, <1>10, <1>13, <1>14, <1>15 DEF Listed
  <1>17. QED
    BY <1>2, <1>11, <1>15, <1>16

-----------------------------------------------------------------------------
(* What a handler is given of a text or a form.                            *)

NoValue == [lex |-> "undefined"]

\* Its fields are strings, with whatever characters.
Plain(v) == "obj" \in DOMAIN v =>
              \A k \in DOMAIN v.obj : \E s \in Seq(STRING) : v.obj[k] = [str |-> s]

LEMMA PieceIn ==
    ASSUME NEW text \in Seq(STRING), NEW marks, NEW p \in Pieces(text, marks)
    PROVE  Piece(text, p) \in Seq(STRING)
  <1>1. p[1] \in 0 .. Len(text) + 1 /\ p[2] \in 0 .. Len(text) + 1 /\ p[1] < p[2]
    BY DEF Pieces
  <1>2. PICK a, b : a = p[1] + 1 /\ b = p[2] - 1
    OBVIOUS
  <1>3. a \in Nat \ {0} /\ b \in Int /\ b <= Len(text) /\ Len(text) \in Nat
    BY <1>1, <1>2
  <1>4. SubSeq(text, a, b) \in Seq(STRING)
    BY <1>3
  <1>5. QED
    BY <1>2, <1>4 DEF Piece

LEMMA SecondIn ==
    ASSUME NEW text \in Seq(STRING), NEW marks
    PROVE  Second(text, marks) \subseteq Seq(STRING)
  BY PieceIn, FormDataAssumption DEF Second

LEMMA UnescapedIn ==
    ASSUME NEW text \in Seq(STRING)
    PROVE  Unescaped(text) \in Seq(STRING)
  <1>1. \A i \in DOMAIN text : text[i] \in STRING
    OBVIOUS
  <1>2. "\"" \in STRING /\ "\\" \in STRING /\ " " \in STRING
    <2>1. {"\"", "\\", " "} \subseteq STRING
      BY Zenon, FormDataAssumption
    <2>2. QED
      BY Zenon, <2>1
  <1>3. \A i \in DOMAIN text : (CASE text[i] = "%22" -> "\""
                                 [] text[i] = "%5C" -> "\\"
                                 [] text[i] = "+" -> " "
                                 [] OTHER -> text[i]) \in STRING
    BY Zenon, <1>1, <1>2
  <1>4. Unescaped(text) \in [DOMAIN text -> STRING]
    BY Zenon, <1>3 DEF Unescaped
  <1>5. DOMAIN text = 1 .. Len(text) /\ Len(text) \in Nat
    OBVIOUS
  <1>6. QED
    BY <1>4, <1>5

LEMMA CutIn ==
    ASSUME NEW s \in Seq(STRING)
    PROVE  Cut(s) \subseteq Seq(STRING)
  <1>1. s # <<>> => Front(s) \in Seq(STRING)
    BY DEF Front
  <1>2. QED
    BY <1>1, BeginningsType DEF Cut

LEMMA TrimmedIn ==
    ASSUME NEW texts, texts \subseteq Seq(STRING)
    PROVE  Trimmed(texts) \subseteq Seq(STRING)
  <1>1. ASSUME NEW s \in texts, NEW a \in 1 .. Len(s) + 1, NEW b \in 0 .. Len(s)
        PROVE  SubSeq(s, a, b) \in Seq(STRING)
    <2>1. s \in Seq(STRING) /\ Len(s) \in Nat
      OBVIOUS
    <2>2. QED
      BY <2>1
  <1>2. SUFFICES ASSUME NEW t \in Trimmed(texts) PROVE t \in Seq(STRING)
    OBVIOUS
  <1>3. PICK s \in texts : \E r \in (1 .. Len(s) + 1) \X (0 .. Len(s)) :
                              t = SubSeq(s, r[1], r[2])
    BY Zenon DEF Trimmed
  <1>4. PICK r \in (1 .. Len(s) + 1) \X (0 .. Len(s)) : t = SubSeq(s, r[1], r[2])
    BY <1>3
  <1>5. r[1] \in 1 .. Len(s) + 1 /\ r[2] \in 0 .. Len(s)
    OBVIOUS
  <1>6. QED
    BY <1>1, <1>4, <1>5

LEMMA FormFieldsIn ==
    ASSUME NEW text \in Seq(STRING), NEW f \in FormFields(text)
    PROVE  f.value \in Seq(STRING)
  <1>1. PICK p \in Pieces(text, {"&"}) :
           f.value \in {Unescaped(s) : s \in Second(Piece(text, p), {"="})}
    BY DEF FormFields
  <1>2. QED
    BY <1>1, PieceIn, SecondIn, UnescapedIn

LEMMA PartFieldsIn ==
    ASSUME NEW text \in Seq(STRING), NEW f \in PartFields(text)
    PROVE  f.value \in Seq(STRING)
  <1> DEFINE values(rest) == Trimmed(UNION {Cut(s) : s \in Second(rest, {"blank"})})
             some(p, rest) == [at : {p[1]},
                               name : {Front(s) : s \in First(rest, {"line", "blank"})},
                               value : values(rest)]
  <1>b. PICK p \in NamedParts(text) :
           \E rest \in Second(Piece(text, p), {"cd"}) : f \in some(p, rest)
    <2>1. f \in UNION {UNION {some(p, rest) : rest \in Second(Piece(text, p), {"cd"})} :
                          p \in NamedParts(text)}
      BY DEF PartFields
    <2> HIDE DEF some
    <2>2. QED
      BY <2>1
  <1>a. \E rest \in Second(Piece(text, p), {"cd"}) : f.value \in values(rest)
    <2> HIDE DEF values
    <2>1. QED
      BY <1>b
  <1>1. PICK rest \in Second(Piece(text, p), {"cd"}) :
           f.value \in Trimmed(UNION {Cut(s) : s \in Second(rest, {"blank"})})
    BY <1>a
  <1>2. rest \in Seq(STRING)
    BY PieceIn, SecondIn DEF NamedParts
  <1>3. \A s \in Second(rest, {"blank"}) : Cut(s) \subseteq Seq(STRING)
    BY <1>2, SecondIn, CutIn
  <1>4. UNION {Cut(s) : s \in Second(rest, {"blank"})} \subseteq Seq(STRING)
    BY <1>3
  <1>5. QED
    BY <1>1, <1>4, TrimmedIn

LEMMA FilledPlain ==
    ASSUME NEW fields, \A f \in fields : f.value \in Seq(STRING), NEW v \in Filled(fields)
    PROVE  Plain(v)
  <1> DEFINE names == {f.name : f \in fields}
  <1>1. PICK chosen \in [names -> fields] :
           v = Map([k \in names |-> [str |-> chosen[k].value]])
    BY DEF Filled
  <1>2. ASSUME NEW k \in names
        PROVE  v.obj[k] = [str |-> chosen[k].value] /\ chosen[k].value \in Seq(STRING)
    <2>1. chosen[k] \in fields
      OBVIOUS
    <2>2. QED
      BY <1>1, <2>1 DEF Map
  <1>3. "obj" \in DOMAIN v => DOMAIN v.obj = names
    BY <1>1 DEF Map
  <1>4. QED
    BY <1>2, <1>3 DEF Plain

LEMMA ReadAsPlain ==
    ASSUME NEW type, NEW text \in Seq(STRING), NEW v \in ReadAs(type, text)
    PROVE  Plain(v)
  <1>1. \/ v = [str |-> text]
        \/ v \in Filled(FormFields(text))
        \/ v \in Filled(PartFields(text))
    BY DEF ReadAs
  <1>2. CASE v = [str |-> text]
    BY <1>2 DEF Plain
  <1>3. QED
    BY <1>1, <1>2, FormFieldsIn, PartFieldsIn, FilledPlain

\* A body is read by its reader, and without one there is none.
FormJob(j) ==
    /\ j.step \in {"form", "parse"} => j.step = Reader(j.req)
    /\ j.step = "receive" => j.parser.out = NoValue
    /\ j.step \in {"route", "handler"} =>
         /\ Reader(j.req) = "form" => Plain(j.parser.out)
         /\ Reader(j.req) = "route" => j.parser.out = NoValue

FormInv == \A w \in Workers : FormJob(job[w])

LEMMA FormPut ==
    ASSUME TypeOK, FormInv, NEW w \in Workers, NEW k, Put(w, k), FormJob(k)
    PROVE  FormInv'
  BY DEF TypeOK, FormInv, Put

LEMMA FormReceive ==
    ASSUME TypeOK, FormInv, NEW w \in Workers, Receive(w)
    PROVE  FormInv'
  <1> DEFINE j == job[w]
  <1>0. JobOK(j) /\ FormJob(j) /\ j.step = "receive"
    BY DEF TypeOK, FormInv, Receive, At
  <1>1. PICK t : Put(w, [j EXCEPT !.step = Reader(j.req), !.text = t])
    BY DEF Receive
  <1> DEFINE k == [j EXCEPT !.step = Reader(j.req), !.text = t]
  <1>2. k.req = j.req /\ k.parser = j.parser /\ k.step = Reader(j.req)
    BY <1>0 DEF JobOK
  <1> HIDE DEF k
  <1>3. k.parser.out = NoValue
    BY <1>0, <1>2 DEF FormJob
  <1>4. FormJob(k)
    BY <1>2, <1>3, ReaderType DEF FormJob
  <1>5. QED
    BY <1>1, <1>4, FormPut DEF k

LEMMA FormParse ==
    ASSUME TypeOK, FormInv, NEW w \in Workers, Parse(w)
    PROVE  FormInv'
  <1> DEFINE j == job[w]
             p == Step(j.text, j.parser)
             next == IF At(w, "parse") THEN "route" ELSE "end"
             k == Parsed(p, j, next)
  <1>0. JobOK(j) /\ FormJob(j)
    BY DEF TypeOK, FormInv
  <1>1. Put(w, k)
    BY DEF Parse
  <1>2. \/ j.step = "parse" /\ next = "route"
        \/ j.step = "reply" /\ next = "end"
    BY DEF Parse, At
  <1> HIDE DEF p, next
  <1>3. k.req = j.req /\ k.step \in {next, "raised", j.step}
    BY <1>0 DEF Parsed, JobOK
  <1> HIDE DEF k
  <1>4. j.step = "parse" => Reader(j.req) = "parse"
    BY <1>0 DEF FormJob
  <1>5. FormJob(k)
    BY <1>2, <1>3, <1>4 DEF FormJob
  <1>6. QED
    BY <1>1, <1>5, FormPut

LEMMA FormExhaust ==
    ASSUME TypeOK, FormInv, NEW w \in Workers, Exhaust(w)
    PROVE  FormInv'
  <1>0. JobOK(job[w]) /\ FormJob(job[w])
    BY DEF TypeOK, FormInv
  <1>1. PICK k \in {[job[w] EXCEPT !.step = "raised"], job[w]} : Put(w, k)
    BY DEF Exhaust
  <1>2. FormJob(k)
    BY <1>0, <1>1 DEF FormJob, JobOK
  <1>3. QED
    BY <1>1, <1>2, FormPut

\* Only what is read back is no text of STRING.
LEMMA FormReadForm ==
    ASSUME TypeOK, FormInv, NEW w \in Workers, ReadForm(w), job[w].value = NoValue
    PROVE  FormInv'
  <1> DEFINE j == job[w]
  <1>0. JobOK(j) /\ FormJob(j) /\ j.step = "form"
    BY DEF TypeOK, FormInv, ReadForm, At
  <1>1. Reader(j.req) = "form"
    BY <1>0 DEF FormJob
  <1>2. j.text \in Seq(STRING) /\ DOMAIN j.parser = DOMAIN Begin
    BY <1>0 DEF JobOK, ParserOK, NoValue
  <1>3. CASE Put(w, j)
    BY <1>0, <1>3, FormPut
  <1>4. CASE \E v \in ReadAs(j.req.type, j.text) :
               Put(w, [j EXCEPT !.step = "route", !.parser.out = v])
    <2>1. PICK v \in ReadAs(j.req.type, j.text) :
             Put(w, [j EXCEPT !.step = "route", !.parser.out = v])
      BY <1>4
    <2> DEFINE k == [j EXCEPT !.step = "route", !.parser.out = v]
    <2>2. k.req = j.req /\ k.step = "route" /\ k.parser.out = v
      BY <1>0, <1>2 DEF JobOK, Begin
    <2> HIDE DEF k
    <2>3. Plain(v)
      BY <1>2, ReadAsPlain
    <2>4. FormJob(k)
      BY <1>1, <2>2, <2>3 DEF FormJob
    <2>5. QED
      BY <2>1, <2>4, FormPut DEF k
  <1>5. QED
    BY <1>3, <1>4 DEF ReadForm

LEMMA FormRoute ==
    ASSUME TypeOK, FormInv, NEW w \in Workers, Route(w)
    PROVE  FormInv'
  <1> DEFINE j == job[w]
             r == HandleRequest(j.route)
             next == CASE r.answer = "none" -> "route"
                       [] r.answer \in {"raised", "terminated"} -> "raised"
                       [] r.answer = "file" -> "stat"
                       [] r.answer = "sendFiles" -> "add"
                       [] r.answer \in NoHandler -> "end"
                       [] OTHER -> "handler"
             k == [j EXCEPT !.route = r, !.step = next]
  <1>0. JobOK(j) /\ FormJob(j)
    BY DEF TypeOK, FormInv
  <1>1. Put(w, k) /\ j.step = "route"
    BY DEF Route, At
  <1>2. next \in {"route", "raised", "stat", "add", "end", "handler"}
    BY DEF NoHandler
  <1> HIDE DEF r, next
  <1>3. k.req = j.req /\ k.parser = j.parser /\ k.step = next
    BY <1>0 DEF JobOK
  <1> HIDE DEF k
  <1>4. FormJob(k)
    BY <1>0, <1>1, <1>2, <1>3 DEF FormJob
  <1>5. QED
    BY <1>1, <1>4, FormPut

LEMMA FormRest ==
    ASSUME TypeOK, FormInv, NEW w \in Workers,
           AdminMiddlewareRaises(w) \/ Handle(w) \/ SendFile(w) \/ SendFiles(w)
    PROVE  FormInv'
  <1>1. PICK k : /\ Put(w, k)
                 /\ k.step \notin {"receive", "parse", "form", "route", "handler"}
    BY LaterStep
  <1>2. FormJob(k)
    BY <1>1 DEF FormJob
  <1>3. QED
    BY <1>1, <1>2, FormPut

-----------------------------------------------------------------------------
(* What was stored is read back.                                           *)

\* The parser of what dumps wrote of value is on its way to it, or has read it.
Reading(text, parser, value) ==
    /\ Comes(text, parser)
    /\ \E m \in Nat : Turns(text)[m].status = "done" /\ Turns(text)[m].out = value

\* A list that is said to be read back.
Sure(j) == j.value # NoValue /\ (j.req.type = "json" \/ NothingToEscape(j.value))

ReadJob(j) ==
    /\ j.step = "reply" => j.value # NoValue
    /\ j.value # NoValue => j.step \in {"reply", "raised", "end"}
    /\ Sure(j) =>
         /\ Reading(j.text, j.parser, j.value)
         /\ \/ j.step = "reply" /\ j.parser.status = "parsing"
            \/ j.step = "end" /\ j.parser.status = "done"

ReadInv == \A w \in Workers : ReadJob(job[w])

LEMMA ReadPut ==
    ASSUME TypeOK, ReadInv, NEW w \in Workers, NEW k, Put(w, k), ReadJob(k)
    PROVE  ReadInv'
  BY DEF TypeOK, ReadInv, Put

\* A parser that has stopped is the only one that has.
LEMMA StoppedOnce ==
    ASSUME NEW text, NEW a \in Nat, NEW b \in Nat,
           Turns(text)[a].status # "parsing", Turns(text)[b].status # "parsing"
    PROVE  Turns(text)[a] = Turns(text)[b]
  <1>1. ASSUME NEW x \in Nat, NEW y \in Nat, x <= y, Turns(text)[x].status # "parsing"
        PROVE  Turns(text)[y] = Turns(text)[x]
    <2>1. PICK d \in Nat : y = x + d
      <3>1. y - x \in Nat /\ y = x + (y - x)
        BY <1>1
      <3>2. QED
        BY <3>1
    <2>2. QED
      BY <1>1, <2>1, Stopped
  <1>2. a <= b \/ b <= a
    OBVIOUS
  <1>3. QED
    BY <1>1, <1>2

\* A turn more on the way to a value.
LEMMA ReadingMore ==
    ASSUME NEW text, NEW parser, NEW value, Reading(text, parser, value),
           parser.status = "parsing", NEW p, p = Step(text, parser)
    PROVE  /\ Reading(text, p, value)
           /\ \/ p.status = "parsing"
              \/ p.status = "done" /\ p.out = value
  <1>1. PICK n \in Nat : Turns(text)[n] = parser
    BY DEF Reading, Comes
  <1>2. PICK m \in Nat : Turns(text)[m].status = "done" /\ Turns(text)[m].out = value
    BY DEF Reading
  <1>3. Turns(text)[n + 1] = p /\ n + 1 \in Nat
    BY <1>1, TurnsRecursion DEF Turn
  <1>4. p.status # "parsing" => p = Turns(text)[m]
    BY <1>2, <1>3, StoppedOnce
  <1>5. QED
    BY <1>2, <1>3, <1>4 DEF Reading, Comes

\* Nothing but a handler and the client's parser touches a value.
LEMMA ReadElsewhere ==
    ASSUME TypeOK, ReadInv, NEW w \in Workers, Serve(w), ~ Parse(w), ~ Handle(w)
    PROVE  ReadInv'
  <1>1. \E k : /\ Put(w, k) /\ k.value = job[w].value /\ k.step # "reply"
               /\ job[w].step \notin {"reply", "raised", "end"}
    <2>1. CASE \/ Receive(w) \/ Exhaust(w) \/ ReadForm(w) \/ Route(w)
               \/ AdminMiddlewareRaises(w) \/ Stat(w) \/ CheckInitialized(w)
               \/ SetInitialized(w) \/ Fill(w) \/ Sum(w)
      <3>1. PICK k : Put(w, k) /\ Silent(job[w], k)
        BY <2>1, SilentPut DEF SilentStep
      <3>2. job[w].step \in {"receive", "parse", "form", "route", "stat", "compute",
                             "init", "set", "fill", "sum"}
        BY <2>1 DEF Receive, Exhaust, ReadForm, Route, AdminMiddlewareRaises, Stat,
                    CheckInitialized, SetInitialized, Fill, Sum, At
      <3>3. QED
        BY <3>1, <3>2 DEF Silent, Asking, Summing
    <2>2. CASE SendHeaders(w) \/ SendBody(w)
      BY <2>2, FilePut
    <2>3. CASE SendFiles(w)
      BY <2>3, ArchivePut DEF ArchiveSteps
    <2>4. QED
      BY <2>1, <2>2, <2>3 DEF Serve, SendFile
  <1>2. PICK k : /\ Put(w, k) /\ k.value = job[w].value /\ k.step # "reply"
                 /\ job[w].step \notin {"reply", "raised", "end"}
    BY <1>1
  <1>3. ReadJob(k)
    BY <1>2 DEF ReadInv, ReadJob, Sure
  <1>4. QED
    BY <1>2, <1>3, ReadPut

LEMMA ReadParse ==
    ASSUME TypeOK, ReadInv, NEW w \in Workers, Parse(w)
    PROVE  ReadInv'
  <1> DEFINE j == job[w]
             p == Step(j.text, j.parser)
             next == IF At(w, "parse") THEN "route" ELSE "end"
             k == Parsed(p, j, next)
  <1>0. JobOK(j) /\ ReadJob(j)
    BY DEF TypeOK, ReadInv
  <1>1. Put(w, k) /\ j.parser.status = "parsing"
    BY DEF Parse
  <1>2. \/ j.step = "parse" /\ next = "route"
        \/ j.step = "reply" /\ next = "end"
    BY DEF Parse, At
  <1> HIDE DEF next
  <1>3. /\ k.text = j.text /\ k.parser = p /\ k.value = j.value /\ k.req = j.req
        /\ p.status = "done" => k.step = next
        /\ p.status = "raised" => k.step = "raised"
        /\ p.status \notin {"done", "raised"} => k.step = j.step
    BY <1>0 DEF Parsed, JobOK
  <1> HIDE DEF k
  <1>4. CASE j.step = "parse"
    <2>1. k.value = NoValue /\ k.step # "reply"
      BY <1>0, <1>2, <1>3, <1>4 DEF ReadJob
    <2>2. ReadJob(k)
      BY <2>1 DEF ReadJob, Sure
    <2>3. QED
      BY <1>1, <2>2, ReadPut
  <1>5. CASE j.step = "reply"
    <2>1. /\ j.value # NoValue
          /\ Sure(j) => Reading(j.text, j.parser, j.value)
      BY <1>0, <1>5 DEF ReadJob
    <2>a. Sure(k) <=> Sure(j)
      BY <1>3 DEF Sure
    <2>2. Sure(j) => /\ Reading(j.text, p, j.value)
                     /\ p.status \in {"parsing", "done"}
      <3> SUFFICES ASSUME Sure(j)
                   PROVE  Reading(j.text, p, j.value) /\ p.status \in {"parsing", "done"}
        OBVIOUS
      <3>1. /\ Reading(j.text, p, j.value)
            /\ \/ p.status = "parsing"
               \/ p.status = "done" /\ p.out = j.value
        BY <1>1, <2>1, ReadingMore
      <3> HIDE DEF p
      <3>2. QED
        BY <3>1
    <2> HIDE DEF p
    <2>3. ReadJob(k)
      BY <1>2, <1>3, <1>5, <2>1, <2>a, <2>2 DEF ReadJob
    <2>4. QED
      BY <1>1, <2>3, ReadPut
  <1>6. QED
    BY <1>2, <1>4, <1>5

\* Where there is nothing to escape in a list, every string in it is read as
\* it was written.
LEMMA KeptClean ==
    ASSUME NEW form, NEW body, NothingToEscape(Listing(form, body)),
           NEW n \in Kept(form, body), NEW s \in Seq(STRING), body.obj[<<n>>] = [str |-> s]
    PROVE  StringOK(s)
  <1> DEFINE list == Listing(form, body)
  <1>1. PICK f : f = [k \in {<<m>> : m \in Kept(form, body)} |-> body.obj[k]]
    OBVIOUS
  <1>2. f[<<n>>] = [str |-> s] /\ <<n>> \in DOMAIN f
    BY <1>1
  <1>3. PICK g : g = [k \in {<<form.list>>} |-> Array(<<Map(f)>>)]
    OBVIOUS
  <1>4. list = Map(g)
    BY <1>1, <1>3 DEF Listing
  <1>5. /\ <<form.list>> \in DOMAIN list.obj
        /\ list.obj[<<form.list>>].arr = <<Map(f)>>
    BY <1>3, <1>4 DEF Map, Array
  <1>6. PICK rows : rows = list.obj[<<form.list>>].arr
    OBVIOUS
  <1>7. rows = <<Map(f)>> /\ 1 \in DOMAIN rows /\ rows[1].obj = f
    BY <1>5, <1>6 DEF Map
  <1>8. \A k \in DOMAIN rows[1].obj :
           "str" \in DOMAIN rows[1].obj[k] =>
              Range(rows[1].obj[k].str) \cap {Quote, Backslash} = {}
    BY <1>5, <1>6, <1>7, Zenon DEF NothingToEscape, Quote, Backslash
  <1>9. Range(s) \cap {Quote, Backslash} = {}
    <2>1. "str" \in DOMAIN f[<<n>>] /\ f[<<n>>].str = s
      BY <1>2
    <2>2. QED
      BY <1>2, <1>7, <1>8, <2>1
  <1>10. \A i \in 1 .. Len(s) : s[i] # Quote /\ s[i] # Backslash
    BY <1>9 DEF Range
  <1>11. QED
    BY <1>10, StringGlyphs, CleanOK

\* What a handler keeps of a body, if it is JSON or nothing in it is to be escaped.
LEMMA KeptLeaves ==
    ASSUME NEW j, BodyJob(j), FormJob(j), j.req.body \in Seq(STRING), j.step = "handler",
           NEW form, j.req.type = "json" \/ NothingToEscape(Listing(form, j.parser.out)),
           NEW n \in Kept(form, j.parser.out)
    PROVE  Leaf(j.parser.out.obj[<<n>>])
  <1>1. PICK out : out = j.parser.out
    OBVIOUS
  <1>2. "obj" \in DOMAIN out /\ <<n>> \in DOMAIN out.obj
    BY <1>1 DEF Kept, Given, HasField
  <1>3. \A c : out # [lex |-> c]
    BY <1>2
  <1>4. CASE Reader(j.req) = "parse"
    <2>1. PICK k \in Nat : j.parser = Turns(j.req.body)[k]
      BY <1>1, <1>3, <1>4 DEF BodyJob
    <2>2. Strings(j.parser)
      BY <2>1, StringsTurns
    <2>3. Value(out)
      BY <1>1, <2>2 DEF Strings, Taken
    <2>4. QED
      BY <1>1, <1>2, <2>3 DEF Value, Fields
  <1>5. CASE Reader(j.req) = "form"
    <2>1. Plain(out) /\ j.req.type # "json"
      BY <1>1, <1>5 DEF FormJob, Reader
    <2>2. PICK s \in Seq(STRING) : out.obj[<<n>>] = [str |-> s]
      BY <1>2, <2>1 DEF Plain
    <2>3. StringOK(s)
      BY <1>1, <2>1, <2>2, KeptClean
    <2>4. QED
      BY <1>1, <2>2, <2>3 DEF Leaf
  <1>6. CASE Reader(j.req) = "route"
    BY <1>1, <1>3, <1>6 DEF FormJob, NoValue
  <1>7. QED
    BY <1>4, <1>5, <1>6, ReaderType

\* A list of what a handler stores is written as a text that reads as it.
LEMMA ReadHandle ==
    ASSUME TypeOK, BodyInv, FormInv, ReadInv, NEW w \in Workers, Handle(w)
    PROVE  ReadInv'
  <1> DEFINE j == job[w]
             form == Forms[j.route.answer]
             list == Listing(form, j.parser.out)
             text == Dumps(list)
             ended == [j EXCEPT !.step = "end"]
             listed == [j EXCEPT !.step = "reply", !.value = list,
                                 !.text = text, !.parser = Begin]
  <1>0. /\ JobOK(j) /\ ReadJob(j) /\ BodyJob(j) /\ FormJob(j)
        /\ j.req.body \in Seq(STRING)
    BY DEF TypeOK, ReadInv, BodyInv, FormInv, JobOK, Request
  <1>1. /\ j.step = "handler"
        /\ \/ Put(w, ended)
           \/ /\ j.route.answer \in DOMAIN Forms
              /\ Stored(form, j.parser.out) /\ Put(w, listed)
    BY DEF Handle, At
  <1>2. CASE Put(w, ended)
    <2>1. ended.value = j.value /\ ended.step = "end"
      BY <1>0 DEF JobOK
    <2>2. j.value = NoValue
      BY <1>0, <1>1 DEF ReadJob
    <2> HIDE DEF ended
    <2>3. ReadJob(ended)
      BY <2>1, <2>2 DEF ReadJob, Sure
    <2>4. QED
      BY <1>2, <2>3, ReadPut
  <1>3. CASE /\ j.route.answer \in DOMAIN Forms
             /\ Stored(form, j.parser.out) /\ Put(w, listed)
    <2>1. list # NoValue
      <3>1. DOMAIN list = {"obj"}
        BY DEF Listing, Map
      <3>2. "obj" \notin DOMAIN NoValue
        BY DEF NoValue
      <3> HIDE DEF list
      <3>3. QED
        BY <3>1, <3>2
    <2>2. Begin.status = "parsing" /\ Turns(text)[0] = Begin
      BY TurnsRecursion DEF Begin
    <2>3. ASSUME j.req.type = "json" \/ NothingToEscape(list)
          PROVE  \E m \in Nat : Turns(text)[m].status = "done" /\ Turns(text)[m].out = list
      <3>1. /\ form.list \in Catalogs
            /\ DOMAIN form.type \ {"active"} \subseteq FieldNames
            /\ \A k \in DOMAIN form.type : form.type[k] \in {"string", "int"}
        BY <1>3, FormsType
      <3> HIDE DEF form
      <3>2. \A n \in Kept(form, j.parser.out) : Leaf(j.parser.out.obj[<<n>>])
        BY <1>0, <1>1, <2>3, KeptLeaves
      <3>3. PICK f, ends : /\ list = List(<<form.list>>, f)
                           /\ Listed(text, form.list, f, ends)
        BY <1>3, <3>1, <3>2, ListingIs
      <3> HIDE DEF text, list
      <3>4. QED
        BY <3>3, ListRead
    <2> HIDE DEF form, text, list
    <2>4. /\ listed.step = "reply" /\ listed.value = list /\ listed.req = j.req
          /\ listed.text = text /\ listed.parser = Begin
      BY <1>0 DEF JobOK
    <2> HIDE DEF listed
    <2>5. Sure(listed) => Reading(text, Begin, list)
      BY <2>2, <2>3, <2>4 DEF Reading, Comes, Sure
    <2>6. ReadJob(listed)
      BY <2>1, <2>2, <2>4, <2>5 DEF ReadJob
    <2>7. QED
      BY <1>3, <2>6, ReadPut
  <1>4. QED
    BY <1>1, <1>2, <1>3

\* Whatever an administrator stores as JSON through a catalog's forms, with
\* whatever escapes, comes back: the list that dumps writes of it is read by the
\* parser, in one attempt, as that list.  So does what comes as a form or as a
\* multipart form, if no quote and no backslash is in it.
THEOREM ReadsBack == Spec => []ReadsWhatItWrites
  <1>1. Init => BodyInv /\ FormInv /\ ReadInv
    <2> SUFFICES ASSUME Init, NEW w \in Workers
                 PROVE  BodyJob(job[w]) /\ FormJob(job[w]) /\ ReadJob(job[w])
      BY DEF BodyInv, FormInv, ReadInv
    <2>1. PICK req : job[w] = Fresh(req)
      BY DEF Init
    <2>2. /\ job[w].step \in {"end", "receive"} /\ job[w].parser = Begin
          /\ job[w].value = NoValue /\ Begin.out = NoValue
      BY <2>1 DEF Fresh, NoValue, Begin
    <2>3. QED
      BY <2>2 DEF BodyJob, FormJob, ReadJob, Sure
  <1>2. TypeOK /\ BodyInv /\ FormInv /\ ReadInv /\ [Next]_vars
          => BodyInv' /\ FormInv' /\ ReadInv'
    <2> SUFFICES ASSUME TypeOK, BodyInv, FormInv, ReadInv, [Next]_vars
                 PROVE  BodyInv' /\ FormInv' /\ ReadInv'
      OBVIOUS
    <2>1. ASSUME NEW w \in Workers, Serve(w) PROVE BodyInv' /\ FormInv' /\ ReadInv'
      <3>1. BodyInv'
        BY <2>1, BodyReceive, BodyParse, BodyExhaust, BodyReadForm, BodyRoute,
             BodyRest
         DEF Serve
      <3>2. ReadForm(w) => job[w].value = NoValue
        BY DEF ReadForm, At, ReadInv, ReadJob
      <3>3. FormInv'
        BY <2>1, <3>2, FormReceive, FormParse, FormExhaust, FormReadForm, FormRoute,
             FormRest
         DEF Serve
      <3>4. ReadInv'
        BY <2>1, ReadElsewhere, ReadParse, ReadHandle
      <3>5. QED
        BY <3>1, <3>3, <3>4
    <2>2. CASE UNCHANGED vars
      BY <2>2 DEF vars, BodyInv, FormInv, ReadInv
    <2>3. QED
      BY <2>1, <2>2 DEF Next
  <1>3. ReadInv => ReadsWhatItWrites
    <2> SUFFICES ASSUME ReadInv, NEW w \in Workers, Sure(job[w])
                 PROVE  \/ job[w].step = "reply" /\ job[w].parser.status = "parsing"
                        \/ job[w].step = "end" /\ job[w].parser.out = job[w].value
      BY DEF ReadsWhatItWrites, NoValue, Sure
    <2> DEFINE j == job[w]
    <2>1. /\ Reading(j.text, j.parser, j.value)
          /\ \/ j.step = "reply" /\ j.parser.status = "parsing"
             \/ j.step = "end" /\ j.parser.status = "done"
      BY DEF ReadInv, ReadJob
    <2>2. PICK n \in Nat : Turns(j.text)[n] = j.parser
      BY <2>1 DEF Reading, Comes
    <2>3. PICK m \in Nat : Turns(j.text)[m].status = "done" /\ Turns(j.text)[m].out = j.value
      BY <2>1 DEF Reading
    <2>4. j.parser.status = "done" => j.parser.out = j.value
      BY <2>2, <2>3, StoppedOnce
    <2>5. QED
      BY <2>1, <2>4
  <1>4. QED
    BY <1>1, <1>2, <1>3, TypeCorrect, PTL DEF Spec
=============================================================================
