--------------------------- MODULE ScannerProofs ---------------------------
(***************************************************************************)
(* Proofs about Scanner and TokenConversions, for every source: where      *)
(* tokens and comments end, how far the scanner goes beyond a source, what *)
(* it counts as lines, and what the conversions make of its tokens.        *)
(***************************************************************************)
EXTENDS TokenConversions, NumberProofs, FiniteSetTheorems, TLAPS

SourceOK == source \in Seq(Character)

(* Characters and positions. *)

LEMMA NulIsNoCharacter == "nul" \notin Character
BY DEF Character, Subsequent, Initial, Letter, Digit, ExplicitSign,
       Whitespace, LineEnding, Punctuation

LEMMA Positions ==
  ASSUME SourceOK
  PROVE  /\ Len(source) \in Nat /\ End = Len(source) + 1
         /\ Past = Len(source) + 2 /\ End \in Nat /\ Past \in Nat
         /\ DOMAIN source = 1..Len(source)
BY DEF SourceOK, End, Past

(* The terminator is everywhere but in the source.                         *)
LEMMA AtPosition ==
  ASSUME SourceOK, NEW p
  PROVE  /\ p \in 1..Len(source) => At(p) \in Character /\ At(p) = source[p]
         /\ p \notin 1..Len(source) => At(p) = "nul"
         /\ At(p) = "nul" <=> p \notin 1..Len(source)
BY NulIsNoCharacter DEF SourceOK, At

(* A loop over the characters of a set ends at the first of others.        *)
LEMMA SkipAllStops ==
  ASSUME SourceOK, NEW p \in 1..End, NEW S, "nul" \notin S
  PROVE  /\ SkipAll(p, S) \in p..End
         /\ At(SkipAll(p, S)) \notin S
         /\ \A q \in p..(SkipAll(p, S) - 1) : At(q) \in S
<1> DEFINE others == {q \in p..End : At(q) \notin S}
<1>1. End \in Nat /\ End \in p..End /\ At(End) = "nul"
  BY Positions, AtPosition
<1>2. others \subseteq Nat /\ others # {}
  BY <1>1
<1>3. Min(others) \in others /\ \A q \in others : Min(others) <= q
  <2> HIDE DEF others
  <2> QED BY <1>2, MinIsLeast
<1>4. SkipAll(p, S) = Min(others)
  BY DEF SkipAll
<1> DEFINE stop == Min(others)
<1>5. stop \in p..End /\ At(stop) \notin S
  BY <1>3
<1>6. ASSUME NEW q \in p..(stop - 1) PROVE At(q) \in S
  <2> HIDE DEF stop
  <2>1. q \in p..End /\ ~(stop <= q)
    BY <1>1, <1>5
  <2>2. q \notin others
    BY <1>3, <2>1 DEF stop
  <2> QED BY <2>1, <2>2
<1> HIDE DEF stop, others
<1> QED BY <1>4, <1>5, <1>6 DEF stop

(* So it goes on as long as the set goes on.                               *)
LEMMA SkipAllNext ==
  ASSUME SourceOK, NEW p \in 1..Len(source), NEW S, "nul" \notin S, At(p) \in S
  PROVE  SkipAll(p, S) = SkipAll(p + 1, S)
<1> DEFINE a == SkipAll(p, S)
           b == SkipAll(p + 1, S)
<1>1. p \in 1..End /\ p + 1 \in 1..End
  BY Positions
<1>2. a \in p..End /\ At(a) \notin S /\ \A q \in p..(a - 1) : At(q) \in S
  BY <1>1, SkipAllStops
<1>3. /\ b \in (p + 1)..End /\ At(b) \notin S
      /\ \A q \in (p + 1)..(b - 1) : At(q) \in S
  BY <1>1, SkipAllStops
<1>4. End \in Nat
  BY Positions
<1> HIDE DEF a, b
<1>5. a # p
  BY <1>2
<1>6. ~(a < b)
  BY <1>2, <1>3, <1>4, <1>5
<1>7. ~(b < a)
  BY <1>2, <1>3, <1>4
<1>8. a = b
  BY <1>2, <1>3, <1>4, <1>6, <1>7
<1> QED BY <1>8 DEF a, b

LEMMA FirstOfStops ==
  ASSUME SourceOK, NEW stops, stops \subseteq 1..Len(source)
  PROVE  /\ FirstOf(stops) \in 1..Past /\ FirstOf(stops) # End
         /\ FirstOf(stops) = Past <=> stops = {}
         /\ stops # {} => /\ FirstOf(stops) \in stops
                          /\ \A q \in stops : FirstOf(stops) <= q
<1>1. CASE stops = {}
  BY <1>1, Positions DEF FirstOf
<1>2. CASE stops # {}
  <2>1. stops \subseteq Nat
    BY Positions
  <2>2. Min(stops) \in stops /\ \A q \in stops : Min(stops) <= q
    BY <1>2, <2>1, MinIsLeast
  <2>3. FirstOf(stops) = Min(stops)
    BY <1>2 DEF FirstOf
  <2>4. Min(stops) \in 1..Len(source)
    BY <2>2
  <2> QED BY <1>2, <2>2, <2>3, <2>4, Positions
<1> QED BY <1>1, <1>2
-----------------------------------------------------------------------------
(* Counting characters. *)

LEMMA CountIsNumber ==
  ASSUME NEW S, NEW a \in Nat, NEW b \in Nat
  PROVE  /\ IsFiniteSet({q \in a..(b - 1) : At(q) \in S})
         /\ Count(S, a, b) \in Nat
         /\ Count(S, a, b) = 0 <=> \A q \in a..(b - 1) : At(q) \notin S
<1> DEFINE T == {q \in a..(b - 1) : At(q) \in S}
<1>1. IsFiniteSet(a..(b - 1))
  BY FS_Interval
<1>2. IsFiniteSet(T)
  BY <1>1, FS_Subset
<1>3. Cardinality(T) \in Nat
  BY <1>2, FS_CardinalityType
<1>4. Cardinality(T) = 0 <=> T = {}
  BY <1>2, FS_EmptySet
<1> QED BY <1>2, <1>3, <1>4 DEF Count

LEMMA CountParts ==
  ASSUME NEW S, NEW a \in Nat, NEW b \in Nat, NEW c \in Nat, a <= b, b <= c
  PROVE  Count(S, a, c) = Count(S, a, b) + Count(S, b, c)
<1> DEFINE T(d, e) == {q \in d..(e - 1) : At(q) \in S}
<1>1. IsFiniteSet(T(a, b)) /\ IsFiniteSet(T(b, c))
  BY CountIsNumber
<1>2. T(a, c) = T(a, b) \cup T(b, c) /\ T(a, b) \cap T(b, c) = {}
  OBVIOUS
<1>3. /\ Cardinality(T(a, b) \cup T(b, c)) =
           Cardinality(T(a, b)) + Cardinality(T(b, c))
           - Cardinality(T(a, b) \cap T(b, c))
  <2> HIDE DEF T
  <2> QED BY <1>1, FS_Union
<1>4. Cardinality(T(a, b) \cap T(b, c)) = 0
  BY <1>2, FS_EmptySet
<1>5. Cardinality(T(a, b)) \in Nat /\ Cardinality(T(b, c)) \in Nat
  <2> HIDE DEF T
  <2> QED BY <1>1, FS_CardinalityType
<1>6. Cardinality(T(a, c)) = Cardinality(T(a, b)) + Cardinality(T(b, c))
  <2> HIDE DEF T
  <2> QED BY <1>2, <1>3, <1>4, <1>5
<1> QED BY <1>6 DEF Count
-----------------------------------------------------------------------------
(* An identifier in bars. *)

(* Where it looks again after an escape is inside the source, further on.  *)
AfterEscape(p) ==
  LET digits == SkipAll(p + 2, HexDigit)
  IN  IF At(digits) = "semicolon" THEN digits + 1 ELSE digits

LEMMA EscapeEnds ==
  ASSUME SourceOK, NEW p \in 1..Past, At(p) = "\\", p + 1 # End
  PROVE  /\ AfterEscape(p) \in (p + 2)..End
         /\ \A q \in (p + 2)..(AfterEscape(p) - 1) :
              At(q) \in HexDigit \cup {"semicolon"}
<1>1. p \in 1..Len(source) /\ p + 2 \in 1..End
  BY Positions, AtPosition
<1>2. "nul" \notin HexDigit
  BY DEF HexDigit, Digit
<1> DEFINE digits == SkipAll(p + 2, HexDigit)
<1>3. /\ digits \in (p + 2)..End
      /\ \A q \in (p + 2)..(digits - 1) : At(q) \in HexDigit
  BY <1>1, <1>2, SkipAllStops
<1>4. AfterEscape(p) = IF At(digits) = "semicolon" THEN digits + 1 ELSE digits
  BY DEF AfterEscape
<1> HIDE DEF digits
<1>5. At(End) = "nul"
  BY Positions, AtPosition
<1>6. digits \in Nat /\ End \in Nat
  BY <1>1, <1>3, Positions
<1>7. CASE At(digits) = "semicolon"
  <2>1. digits # End
    BY <1>5, <1>7
  <2>2. AfterEscape(p) = digits + 1
    BY <1>4, <1>7
  <2>3. \A q \in (p + 2)..digits : q \in (p + 2)..(digits - 1) \/ q = digits
    BY <1>1, <1>6
  <2>4. At(digits) \in {"semicolon"}
    BY <1>7
  <2>5. (p + 2)..(AfterEscape(p) - 1) = (p + 2)..digits
    BY <1>6, <2>2
  <2>6. \A q \in (p + 2)..(AfterEscape(p) - 1) :
          At(q) \in HexDigit \cup {"semicolon"}
    BY <1>3, <2>3, <2>4, <2>5
  <2>7. digits + 1 \in (p + 2)..End
    BY <1>1, <1>3, <1>6, <2>1
  <2> QED BY <2>2, <2>6, <2>7
<1>8. CASE At(digits) # "semicolon"
  BY <1>1, <1>3, <1>4, <1>6, <1>8
<1> QED BY <1>7, <1>8

(* The definition of BarsEnd, as an operator.                              *)
BarsEndFrom(f, p) ==
  IF p = Past THEN Past
  ELSE IF At(p) = "|" THEN p + 1
  ELSE IF At(p) # "\\" THEN f[p + 1]
  ELSE IF At(p + 1) = "x" THEN Never
  ELSE IF p + 1 = End THEN Past
  ELSE f[AfterEscape(p)]

(* It looks again only at later positions.                                 *)
LEMMA BarsEndLooksOn ==
  ASSUME SourceOK, NEW p \in 1..Past
  PROVE  /\ p # Past => p + 1 \in (p + 1)..Past
         /\ At(p) = "\\" /\ p + 1 # End => AfterEscape(p) \in (p + 1)..Past
<1>1. p # Past => p + 1 \in (p + 1)..Past
  BY Positions
<1>2. ASSUME At(p) = "\\", p + 1 # End PROVE AfterEscape(p) \in (p + 1)..Past
  <2>1. AfterEscape(p) \in (p + 2)..End
    BY <1>2, EscapeEnds
  <2> QED BY <2>1, Positions
<1> QED BY <1>1, <1>2

LEMMA BarsEndIsDefined ==
  ASSUME SourceOK
  PROVE  \A p \in 1..Past : BarsEnd[p] = BarsEndFrom(BarsEnd, p)
<1> DEFINE V == [1..Past -> Nat]
           step == [f \in V |-> [p \in 1..Past |-> BarsEndFrom(f, p)]]
<1>1. Past \in Nat
  BY Positions
<1>2. ASSUME NEW f \in V, NEW p \in 1..Past PROVE BarsEndFrom(f, p) \in Nat
  <2>1. /\ p # Past => p + 1 \in 1..Past
        /\ At(p) = "\\" /\ p + 1 # End => AfterEscape(p) \in 1..Past
    BY <1>1, BarsEndLooksOn
  <2> QED BY <1>1, <2>1 DEF BarsEndFrom, Never
<1>3. step \in [V -> V]
  BY <1>2
<1>4. \A f, g \in V : \A p \in 1..Past :
        (\A q \in (p + 1)..Past : f[q] = g[q]) => step[f][p] = step[g][p]
  <2> SUFFICES ASSUME NEW f \in V, NEW g \in V, NEW p \in 1..Past,
                      \A q \in (p + 1)..Past : f[q] = g[q]
               PROVE  BarsEndFrom(f, p) = BarsEndFrom(g, p)
    OBVIOUS
  <2>1. /\ p # Past => f[p + 1] = g[p + 1]
        /\ At(p) = "\\" /\ p + 1 # End => f[AfterEscape(p)] = g[AfterEscape(p)]
    BY BarsEndLooksOn
  <2> QED BY <2>1 DEF BarsEndFrom
<1>5. PICK f : f \in Fixed(step, Past, Nat)
  <2> HIDE DEF step
  <2>1. LooksOn(step, Past, Nat)
    BY <1>3, <1>4 DEF LooksOn
  <2>2. Nat # {}
    OBVIOUS
  <2> HIDE DEF V
  <2> QED BY <1>1, <2>1, <2>2, BackwardRecursion
<1>6. f \in V /\ f = [p \in 1..Past |-> BarsEndFrom(f, p)]
  BY <1>5 DEF Fixed
<1>7. BarsEnd = [p \in 1..Past |-> BarsEndFrom(BarsEnd, p)]
  BY <1>6 DEF BarsEnd, BarsEndFrom, AfterEscape
<1> DEFINE e == BarsEnd
<1>8. e = [p \in 1..Past |-> BarsEndFrom(e, p)]
  BY <1>7
<1> HIDE DEF e
<1>9. \A p \in 1..Past : e[p] = BarsEndFrom(e, p)
  BY <1>8
<1> QED BY <1>9 DEF e

(* If it ends, it ends later; and if it does not end within the source,    *)
(* each bar there is one of an escape.                                     *)
LEMMA BarsEndStops ==
  ASSUME SourceOK
  PROVE  \A p \in 1..Past :
           /\ BarsEnd[p] = Never \/ BarsEnd[p] \in p..Past
           /\ BarsEnd[p] = Past => \A q \in p..Len(source) :
                                     At(q) = "|" => At(q - 1) = "\\"
<1> DEFINE Ends(p) == BarsEnd[p] = Never \/ BarsEnd[p] \in p..Past
           Escaped(p) == \A q \in p..Len(source) :
                           At(q) = "|" => At(q - 1) = "\\"
           S == {p \in 1..Past : Ends(p) /\ (BarsEnd[p] = Past => Escaped(p))}
<1>1. ASSUME NEW p \in 1..Past, \A q \in (p + 1)..Past : q \in S PROVE p \in S
  <2> DEFINE e == BarsEnd
  <2>1. e[p] = BarsEndFrom(e, p)
    BY BarsEndIsDefined
  <2>2. Past = Len(source) + 2 /\ End = Len(source) + 1 /\ Len(source) \in Nat
    BY Positions
  <2> HIDE DEF e
  <2>3. CASE p = Past
    <3>1. e[p] = Past
      BY <2>1, <2>3 DEF BarsEndFrom
    <3>2. Escaped(p)
      BY <2>2, <2>3
    <3> QED BY <2>2, <3>1, <3>2 DEF e
  <2>4. CASE p # Past /\ At(p) = "|"
    <3>1. e[p] = p + 1
      BY <2>1, <2>4 DEF BarsEndFrom
    <3>2. p \in 1..Len(source)
      BY <2>4, AtPosition
    <3> QED BY <2>2, <3>1, <3>2 DEF e
  <2>5. CASE p # Past /\ At(p) # "|" /\ At(p) # "\\"
    <3>1. e[p] = e[p + 1]
      BY <2>1, <2>5 DEF BarsEndFrom
    <3>2. p + 1 \in S
      BY <1>1, <2>2, <2>5
    <3>3. Ends(p)
      BY <2>2, <3>1, <3>2 DEF e
    <3>4. ASSUME Escaped(p + 1) PROVE Escaped(p)
      <4>1. \A q \in p..Len(source) : q = p \/ q \in (p + 1)..Len(source)
        BY <2>2
      <4> QED BY <2>5, <3>4, <4>1
    <3> QED BY <3>1, <3>2, <3>3, <3>4 DEF e
  <2>6. CASE p # Past /\ At(p) = "\\" /\ At(p + 1) = "x"
    <3>1. e[p] = Never
      BY <2>1, <2>6 DEF BarsEndFrom
    <3> QED BY <2>2, <3>1 DEF e, Never
  <2>7. CASE p # Past /\ At(p) = "\\" /\ At(p + 1) # "x" /\ p + 1 = End
    <3>1. e[p] = Past
      BY <2>1, <2>7 DEF BarsEndFrom
    <3>2. \A q \in p..Len(source) : q = p
      BY <2>2, <2>7
    <3>3. Escaped(p)
      BY <2>7, <3>2
    <3> QED BY <2>2, <3>1, <3>3 DEF e
  <2>8. CASE p # Past /\ At(p) = "\\" /\ At(p + 1) # "x" /\ p + 1 # End
    <3> DEFINE next == AfterEscape(p)
    <3>1. e[p] = e[next]
      BY <2>1, <2>8 DEF BarsEndFrom
    <3>2. /\ next \in (p + 2)..End
          /\ \A q \in (p + 2)..(next - 1) :
               At(q) \in HexDigit \cup {"semicolon"}
      BY <2>8, EscapeEnds
    <3> HIDE DEF next
    <3>6. p \in Nat /\ next \in Nat /\ p + 2 <= next /\ next <= Past
      BY <2>2, <3>2
    <3>3. next \in S
      <4>1. next \in (p + 1)..Past
        BY <2>2, <3>6
      <4> QED BY <1>1, <4>1
    <3>4. Ends(p)
      BY <2>2, <3>1, <3>3, <3>6 DEF e
    <3>5. ASSUME Escaped(next) PROVE Escaped(p)
      <4> SUFFICES ASSUME NEW q \in p..Len(source), At(q) = "|"
                   PROVE  At(q - 1) = "\\"
        OBVIOUS
      <4>1. q = p \/ q = p + 1 \/ q \in (p + 2)..(next - 1)
              \/ q \in next..Len(source)
        BY <2>2, <3>6
      <4>2. "|" \notin HexDigit \cup {"semicolon"}
        BY DEF HexDigit, Digit
      <4>3. q # p
        BY <2>8
      <4>4. CASE q = p + 1
        BY <2>8, <4>4
      <4> QED BY <3>2, <3>5, <4>1, <4>2, <4>3, <4>4
    <3> QED BY <3>1, <3>3, <3>4, <3>5 DEF e
  <2> QED BY <2>3, <2>4, <2>5, <2>6, <2>7, <2>8
<1>2. Past \in Nat
  BY Positions
<1> HIDE DEF S
<1>3. \A p \in 1..Past : p \in S
  BY <1>1, <1>2, BackwardInduction
<1> QED BY <1>3 DEF S
-----------------------------------------------------------------------------
(* Nested comments. *)

(* "#|" and "|#" are two characters, and not the same two.                 *)
LEMMA Markers ==
  ASSUME SourceOK, NEW p
  PROVE  /\ AtStart(p) => p \in 1..Len(source) /\ p + 1 \in 1..Len(source)
         /\ AtEnd(p) => p \in 1..Len(source) /\ p + 1 \in 1..Len(source)
         /\ ~(AtStart(p) /\ AtEnd(p))
BY AtPosition DEF AtStart, AtEnd

LEMMA CommentTextEndStops ==
  ASSUME SourceOK, NEW p \in Nat, p >= 1
  PROVE  LET t == CommentTextEnd(p) IN
         /\ t = Past \/ /\ t \in p..Len(source) /\ t + 2 \in 1..End
                        /\ AtStart(t) \/ AtEnd(t)
         /\ \A q \in p..Len(source) : AtStart(q) \/ AtEnd(q) => t <= q
<1> DEFINE stops == {q \in p..Len(source) : AtStart(q) \/ AtEnd(q)}
           t == CommentTextEnd(p)
<1>1. Len(source) \in Nat /\ End = Len(source) + 1
  BY Positions
<1>2. stops \subseteq 1..Len(source)
  BY <1>1
<1>3. t = FirstOf(stops)
  BY DEF CommentTextEnd
<1>4. /\ t = Past <=> stops = {}
      /\ stops # {} => t \in stops /\ \A q \in stops : t <= q
  <2> HIDE DEF stops
  <2> QED BY <1>2, <1>3, FirstOfStops
<1> HIDE DEF t
<1>5. CASE stops = {}
  BY <1>4, <1>5 DEF t
<1>6. CASE stops # {}
  <2>1. t \in p..Len(source) /\ (AtStart(t) \/ AtEnd(t))
    BY <1>4, <1>6
  <2>2. t + 1 \in 1..Len(source)
    BY <2>1, Markers
  <2>3. t + 2 \in 1..End
    BY <1>1, <2>1, <2>2
  <2>4. \A q \in p..Len(source) : AtStart(q) \/ AtEnd(q) => t <= q
    BY <1>4, <1>6
  <2> QED BY <2>1, <2>3, <2>4 DEF t
<1> QED BY <1>5, <1>6

(* The definition of NestedCommentEnd, as an operator.                     *)
NestedCommentEndFrom(f, p) ==
  LET text == CommentTextEnd(p + 2)
      inner == IF text # Past /\ AtStart(text) THEN f[text] ELSE text
      stop == CommentTextEnd(inner)
  IN  IF stop = Past THEN Past ELSE stop + 2

(* It looks for the inner comment, and then for the end, further on.       *)
LEMMA CommentTextEndAfter ==
  ASSUME SourceOK, NEW p \in 1..Past
  PROVE  /\ CommentTextEnd(p) \in p..Past
         /\ CommentTextEnd(p + 2) = Past \/ CommentTextEnd(p + 2) \in (p + 1)..Past
         /\ CommentTextEnd(p) # Past => CommentTextEnd(p) + 2 \in 1..Past
<1>1. Past \in Nat /\ Past = Len(source) + 2 /\ Len(source) \in Nat
  BY Positions
<1>2. p \in Nat /\ p >= 1 /\ p + 2 \in Nat /\ p + 2 >= 1
  BY <1>1
<1> DEFINE t == CommentTextEnd(p)
           u == CommentTextEnd(p + 2)
<1>3. t = Past \/ (t \in p..Len(source) /\ t + 2 \in 1..End)
  BY <1>2, CommentTextEndStops
<1>4. u = Past \/ u \in (p + 2)..Len(source)
  BY <1>2, CommentTextEndStops
<1>5. End = Len(source) + 1
  BY Positions
<1> HIDE DEF t, u
<1>6. t \in p..Past
  BY <1>1, <1>2, <1>3
<1>7. u = Past \/ u \in (p + 1)..Past
  BY <1>1, <1>2, <1>4
<1>8. t # Past => t + 2 \in 1..Past
  BY <1>1, <1>3, <1>5
<1> QED BY <1>6, <1>7, <1>8 DEF t, u

LEMMA NestedCommentEndFromTyped ==
  ASSUME SourceOK, NEW f, NEW p \in 1..Past,
         \A q \in (p + 1)..Past : f[q] \in 1..Past
  PROVE  NestedCommentEndFrom(f, p) \in 1..Past
<1> DEFINE text == CommentTextEnd(p + 2)
           inner == IF text # Past /\ AtStart(text) THEN f[text] ELSE text
           stop == CommentTextEnd(inner)
<1>1. Past \in Nat /\ Past \in 1..Past
  BY Positions
<1>2. text = Past \/ text \in (p + 1)..Past
  BY CommentTextEndAfter
<1>3. inner \in 1..Past
  <2> HIDE DEF text
  <2> QED BY <1>1, <1>2
<1>4. stop # Past => stop + 2 \in 1..Past
  <2> HIDE DEF inner
  <2> QED BY <1>3, CommentTextEndAfter
<1>5. NestedCommentEndFrom(f, p) = IF stop = Past THEN Past ELSE stop + 2
  BY DEF NestedCommentEndFrom
<1> HIDE DEF stop
<1> QED BY <1>1, <1>4, <1>5

LEMMA NestedCommentEndIsDefined ==
  ASSUME SourceOK
  PROVE  \A p \in 1..Past :
           /\ NestedCommentEnd[p] = NestedCommentEndFrom(NestedCommentEnd, p)
           /\ NestedCommentEnd[p] \in 1..Past
<1> DEFINE R == 1..Past
           V == [1..Past -> R]
           step == [f \in V |-> [p \in 1..Past |-> NestedCommentEndFrom(f, p)]]
<1>1. Past \in Nat /\ Past \in R
  BY Positions
<1>2. ASSUME NEW f \in V, NEW p \in 1..Past PROVE NestedCommentEndFrom(f, p) \in R
  <2>1. \A q \in (p + 1)..Past : f[q] \in 1..Past
    OBVIOUS
  <2> QED BY <2>1, NestedCommentEndFromTyped
<1>3. step \in [V -> V]
  BY <1>2
<1>4. \A f, g \in V : \A p \in 1..Past :
        (\A q \in (p + 1)..Past : f[q] = g[q]) => step[f][p] = step[g][p]
  <2> SUFFICES ASSUME NEW f \in V, NEW g \in V, NEW p \in 1..Past,
                      \A q \in (p + 1)..Past : f[q] = g[q]
               PROVE  NestedCommentEndFrom(f, p) = NestedCommentEndFrom(g, p)
    OBVIOUS
  <2>1. CommentTextEnd(p + 2) # Past =>
          f[CommentTextEnd(p + 2)] = g[CommentTextEnd(p + 2)]
    BY CommentTextEndAfter
  <2> QED BY <2>1 DEF NestedCommentEndFrom
<1>5. PICK f : f \in Fixed(step, Past, R)
  <2> HIDE DEF step
  <2>1. LooksOn(step, Past, R)
    BY <1>3, <1>4 DEF LooksOn
  <2>2. R # {}
    BY <1>1
  <2> HIDE DEF V, R
  <2> QED BY <1>1, <2>1, <2>2, BackwardRecursion
<1>6. f = [p \in 1..Past |-> NestedCommentEndFrom(f, p)]
  BY <1>5 DEF Fixed
<1>7. NestedCommentEnd = [p \in 1..Past |-> NestedCommentEndFrom(NestedCommentEnd, p)]
  BY <1>6 DEF NestedCommentEnd, NestedCommentEndFrom
<1> DEFINE e == NestedCommentEnd
<1>8. e = [p \in 1..Past |-> NestedCommentEndFrom(e, p)]
  BY <1>7
<1> HIDE DEF e
<1>9. \A p \in 1..Past : e[p] = NestedCommentEndFrom(e, p)
  BY <1>8
<1> DEFINE S == {p \in 1..Past : e[p] \in 1..Past}
<1>10. ASSUME NEW p \in 1..Past, \A q \in (p + 1)..Past : q \in S PROVE p \in S
  <2>1. \A q \in (p + 1)..Past : e[q] \in 1..Past
    BY <1>10
  <2> QED BY <1>9, <2>1, NestedCommentEndFromTyped
<1>11. \A p \in 1..Past : p \in S
  <2> HIDE DEF S
  <2> QED BY <1>1, <1>10, BackwardInduction
<1> QED BY <1>9, <1>11 DEF e

(* The end of a comment is beyond its start.                               *)
LEMMA NestedCommentEndsLater ==
  ASSUME SourceOK
  PROVE  \A p \in 1..Past : /\ NestedCommentEnd[p] \in p..Past
                            /\ p # Past => p < NestedCommentEnd[p]
<1> DEFINE f == NestedCommentEnd
           text(p) == CommentTextEnd(p + 2)
           inner(p) == IF text(p) # Past /\ AtStart(text(p))
                       THEN f[text(p)] ELSE text(p)
           stop(p) == CommentTextEnd(inner(p))
           S == {p \in 1..Past : f[p] \in p..Past}
<1>1. Past \in Nat /\ Past \in 1..Past
  BY Positions
<1>2. ASSUME NEW p \in 1..Past, \A q \in (p + 1)..Past : q \in S
      PROVE  f[p] \in p..Past /\ (p # Past => p < f[p])
  <2>1. text(p) = Past \/ text(p) \in (p + 1)..Past
    BY CommentTextEndAfter
  <2>2. text(p) # Past => f[text(p)] \in text(p)..Past
    <3> HIDE DEF f, text
    <3> QED BY <1>2, <2>1
  <2>3. inner(p) \in p..Past /\ (p # Past => p < inner(p))
    <3> HIDE DEF f, text
    <3> QED BY <1>1, <2>1, <2>2
  <2>4. inner(p) \in 1..Past
    <3> HIDE DEF inner
    <3> QED BY <1>1, <2>3
  <2>5. stop(p) \in inner(p)..Past /\ (stop(p) # Past => stop(p) + 2 \in 1..Past)
    <3> HIDE DEF inner
    <3> QED BY <2>4, CommentTextEndAfter
  <2>6. f[p] = IF stop(p) = Past THEN Past ELSE stop(p) + 2
    BY NestedCommentEndIsDefined DEF NestedCommentEndFrom
  <2> HIDE DEF f, inner, stop
  <2> QED BY <1>1, <2>3, <2>5, <2>6
<1>3. \A p \in 1..Past : p \in S
  <2>1. ASSUME NEW p \in 1..Past, \A q \in (p + 1)..Past : q \in S PROVE p \in S
    BY <1>2, <2>1
  <2> HIDE DEF S
  <2> QED BY <1>1, <2>1, BackwardInduction
<1>4. ASSUME NEW p \in 1..Past PROVE f[p] \in p..Past /\ (p # Past => p < f[p])
  <2>1. \A q \in (p + 1)..Past : q \in S
    BY <1>1, <1>3
  <2> HIDE DEF S, f
  <2> QED BY <1>2, <2>1
<1> QED BY <1>4

(* The definition of Comment, as an operator.                              *)
CommentFrom(f, p, depth) ==
  IF p > Len(source) THEN [end |-> Past, opens |-> FALSE, isChain |-> TRUE]
  ELSE IF AtStart(p) THEN [f[p + 2][depth + 1] EXCEPT !.opens = TRUE]
  ELSE IF AtEnd(p) /\ depth <= 1
  THEN [end |-> p + 2, opens |-> FALSE, isChain |-> TRUE]
  ELSE IF AtEnd(p)
  THEN LET rest == f[p + 2][depth - 1]
       IN  [rest EXCEPT !.isChain = ~rest.opens]
  ELSE f[p + 1][depth]

(* What Comment says of a position and a depth.                            *)
CommentResult == [end : 1..Past, opens : BOOLEAN, isChain : BOOLEAN]

(* It looks further on only, and at another depth that is a number.        *)
LEMMA CommentFromTyped ==
  ASSUME SourceOK, NEW f, NEW p \in 1..Past, NEW depth \in Nat,
         \A q \in (p + 1)..Past : \A d \in Nat : f[q][d] \in CommentResult
  PROVE  CommentFrom(f, p, depth) \in CommentResult
<1>1. Past \in Nat /\ Past = Len(source) + 2 /\ Len(source) \in Nat
  BY Positions
<1>2. CASE p > Len(source)
  BY <1>1, <1>2 DEF CommentFrom, CommentResult
<1>7. p <= Len(source) => p + 1 \in (p + 1)..Past /\ p + 2 \in (p + 1)..Past
  BY <1>1
<1>3. CASE p <= Len(source) /\ AtStart(p)
  <2>1. f[p + 2][depth + 1] \in CommentResult
    BY <1>3, <1>7
  <2>2. [f[p + 2][depth + 1] EXCEPT !.opens = TRUE] \in CommentResult
    BY <2>1 DEF CommentResult
  <2> QED BY <1>1, <1>3, <2>2 DEF CommentFrom
<1>4. CASE p <= Len(source) /\ ~AtStart(p) /\ AtEnd(p) /\ depth <= 1
  <2>1. p + 2 \in 1..Past
    BY <1>1, <1>4, Markers
  <2> QED BY <1>1, <1>4, <2>1 DEF CommentFrom, CommentResult
<1>5. CASE p <= Len(source) /\ ~AtStart(p) /\ AtEnd(p) /\ ~(depth <= 1)
  <2> DEFINE rest == f[p + 2][depth - 1]
  <2>1. rest \in CommentResult
    <3>1. depth - 1 \in Nat
      BY <1>5
    <3> QED BY <1>5, <1>7, <3>1
  <2>2. CommentFrom(f, p, depth) = [rest EXCEPT !.isChain = ~rest.opens]
    BY <1>1, <1>5 DEF CommentFrom
  <2> HIDE DEF rest
  <2>3. [rest EXCEPT !.isChain = ~rest.opens] \in CommentResult
    BY <2>1 DEF CommentResult
  <2> QED BY <2>2, <2>3
<1>6. CASE p <= Len(source) /\ ~AtStart(p) /\ ~AtEnd(p)
  <2>1. f[p + 1][depth] \in CommentResult
    BY <1>6, <1>7
  <2> QED BY <1>1, <1>6, <2>1 DEF CommentFrom
<1> QED BY <1>1, <1>2, <1>3, <1>4, <1>5, <1>6

LEMMA CommentIsDefined ==
  ASSUME SourceOK
  PROVE  \A p \in 1..Past : \A depth \in Nat :
           /\ Comment[p][depth] = CommentFrom(Comment, p, depth)
           /\ Comment[p][depth] \in CommentResult
<1> DEFINE C == [Nat -> CommentResult]
           V == [1..Past -> C]
           step == [f \in V |-> [p \in 1..Past |->
                                   [depth \in Nat |-> CommentFrom(f, p, depth)]]]
<1>1. Past \in Nat /\ Past = Len(source) + 2 /\ Len(source) \in Nat
  BY Positions
<1>2. ASSUME NEW f \in V, NEW p \in 1..Past, NEW depth \in Nat
      PROVE  CommentFrom(f, p, depth) \in CommentResult
  <2>1. \A q \in (p + 1)..Past : \A d \in Nat : f[q][d] \in CommentResult
    OBVIOUS
  <2> QED BY <2>1, CommentFromTyped
<1>3. step \in [V -> V]
  BY <1>2
<1>4. \A f, g \in V : \A p \in 1..Past :
        (\A q \in (p + 1)..Past : f[q] = g[q]) => step[f][p] = step[g][p]
  <2> SUFFICES ASSUME NEW f \in V, NEW g \in V, NEW p \in 1..Past,
                      \A q \in (p + 1)..Past : f[q] = g[q]
               PROVE  step[f][p] = step[g][p]
    OBVIOUS
  <2>1. /\ step[f][p] = [depth \in Nat |-> CommentFrom(f, p, depth)]
        /\ step[g][p] = [depth \in Nat |-> CommentFrom(g, p, depth)]
    OBVIOUS
  <2>2. ASSUME NEW depth \in Nat
        PROVE  CommentFrom(f, p, depth) = CommentFrom(g, p, depth)
    <3>1. CASE p > Len(source)
      BY <3>1 DEF CommentFrom
    <3>2. CASE p <= Len(source)
      <4>1. p + 1 \in (p + 1)..Past /\ p + 2 \in (p + 1)..Past
        BY <1>1, <3>2
      <4>2. f[p + 1] = g[p + 1] /\ f[p + 2] = g[p + 2]
        BY <4>1
      <4> HIDE DEF step, V
      <4> QED BY <4>2 DEF CommentFrom
    <3> QED BY <1>1, <3>1, <3>2
  <2> HIDE DEF step, V
  <2> QED BY <2>1, <2>2
<1>5. PICK f : f \in Fixed(step, Past, C)
  <2> HIDE DEF step
  <2>1. LooksOn(step, Past, C)
    BY <1>3, <1>4 DEF LooksOn
  <2>2. C # {}
    <3>1. [end |-> Past, opens |-> FALSE, isChain |-> TRUE] \in CommentResult
      BY <1>1 DEF CommentResult
    <3>2. [depth \in Nat |-> [end |-> Past, opens |-> FALSE, isChain |-> TRUE]] \in C
      BY <3>1
    <3> QED BY <3>2
  <2> HIDE DEF V, C
  <2> QED BY <1>1, <2>1, <2>2, BackwardRecursion
<1>6. f = [p \in 1..Past |-> [depth \in Nat |-> CommentFrom(f, p, depth)]]
  BY <1>5 DEF Fixed
<1>7. Comment = [p \in 1..Past |-> [depth \in Nat |-> CommentFrom(Comment, p, depth)]]
  BY <1>6 DEF Comment, CommentFrom
<1> DEFINE e == Comment
<1>8. e = [p \in 1..Past |-> [depth \in Nat |-> CommentFrom(e, p, depth)]]
  BY <1>7
<1> HIDE DEF e
<1>9. ASSUME NEW p \in 1..Past, NEW depth \in Nat
      PROVE  e[p][depth] = CommentFrom(e, p, depth)
  <2>1. e[p] = [d \in Nat |-> CommentFrom(e, p, d)]
    BY <1>8
  <2> QED BY <2>1
<1> DEFINE S == {p \in 1..Past : \A d \in Nat : e[p][d] \in CommentResult}
<1>10. ASSUME NEW p \in 1..Past, \A q \in (p + 1)..Past : q \in S PROVE p \in S
  <2>1. \A q \in (p + 1)..Past : \A d \in Nat : e[q][d] \in CommentResult
    BY <1>10
  <2>2. \A d \in Nat : CommentFrom(e, p, d) \in CommentResult
    BY <2>1, CommentFromTyped
  <2> QED BY <1>9, <2>2
<1>11. \A p \in 1..Past : p \in S
  <2> HIDE DEF S
  <2> QED BY <1>1, <1>10, BackwardInduction
<1> QED BY <1>9, <1>11 DEF e

(* The cases of Comment.                                                   *)
ClosedAt(q) == [end |-> q, opens |-> FALSE, isChain |-> TRUE]

LEMMA Ahead ==
  ASSUME SourceOK, NEW p \in 1..Past
  PROVE  /\ AtStart(p) \/ AtEnd(p) => p + 2 \in (p + 1)..Past /\ p + 2 \in 1..Past
         /\ p <= Len(source) => p + 1 \in (p + 1)..Past /\ p + 1 \in 1..Past
BY Positions, Markers

LEMMA CommentCases ==
  ASSUME SourceOK, NEW p \in 1..Past, NEW depth \in Nat
  PROVE  /\ p > Len(source) => Comment[p][depth] = ClosedAt(Past)
         /\ AtStart(p) => Comment[p][depth] =
                            [Comment[p + 2][depth + 1] EXCEPT !.opens = TRUE]
         /\ AtEnd(p) /\ depth <= 1 => Comment[p][depth] = ClosedAt(p + 2)
         /\ AtEnd(p) /\ depth > 1 =>
              Comment[p][depth] = [Comment[p + 2][depth - 1] EXCEPT
                                     !.isChain = ~Comment[p + 2][depth - 1].opens]
         /\ p <= Len(source) /\ ~AtStart(p) /\ ~AtEnd(p) =>
              Comment[p][depth] = Comment[p + 1][depth]
<1>1. Past \in Nat /\ Past = Len(source) + 2 /\ Len(source) \in Nat
  BY Positions
<1>2. /\ AtStart(p) => p <= Len(source)
      /\ AtEnd(p) => p <= Len(source) /\ ~AtStart(p)
  BY <1>1, Markers
<1> DEFINE e == Comment
<1>3. e[p][depth] = CommentFrom(e, p, depth)
  BY CommentIsDefined
<1> HIDE DEF e
<1>4. p > Len(source) => e[p][depth] = ClosedAt(Past)
  BY <1>3 DEF CommentFrom, ClosedAt
<1>5. AtStart(p) => e[p][depth] = [e[p + 2][depth + 1] EXCEPT !.opens = TRUE]
  BY <1>1, <1>2, <1>3 DEF CommentFrom
<1>6. AtEnd(p) /\ depth <= 1 => e[p][depth] = ClosedAt(p + 2)
  BY <1>1, <1>2, <1>3 DEF CommentFrom, ClosedAt
<1>7. AtEnd(p) /\ depth > 1 =>
        e[p][depth] = [e[p + 2][depth - 1] EXCEPT
                         !.isChain = ~e[p + 2][depth - 1].opens]
  BY <1>1, <1>2, <1>3 DEF CommentFrom
<1>8. p <= Len(source) /\ ~AtStart(p) /\ ~AtEnd(p) =>
        e[p][depth] = e[p + 1][depth]
  BY <1>1, <1>3 DEF CommentFrom
<1> QED BY <1>4, <1>5, <1>6, <1>7, <1>8 DEF e

(* A comment ends beyond the position it is looked for from.               *)
LEMMA CommentEndsLater ==
  ASSUME SourceOK
  PROVE  \A p \in 1..Past : \A depth \in Nat :
           /\ Comment[p][depth].end \in p..Past
           /\ AtStart(p) => Comment[p][depth].end >= p + 2
<1> DEFINE S == {p \in 1..Past : \A depth \in Nat :
                   Comment[p][depth].end \in p..Past}
<1>1. Past \in Nat /\ Past = Len(source) + 2 /\ Len(source) \in Nat
  BY Positions
<1>2. ASSUME NEW p \in 1..Past, \A q \in (p + 1)..Past : q \in S PROVE p \in S
  <2> SUFFICES ASSUME NEW depth \in Nat PROVE Comment[p][depth].end \in p..Past
    OBVIOUS
  <2>1. CASE p > Len(source)
    <3>1. Comment[p][depth] = ClosedAt(Past)
      BY <2>1, CommentCases
    <3>2. Comment[p][depth].end = Past
      BY <3>1 DEF ClosedAt
    <3> QED BY <1>1, <3>2
  <2>2. CASE AtStart(p)
    <3>1. p + 2 \in S /\ p + 2 \in 1..Past
      BY <1>2, <2>2, Ahead
    <3>2. Comment[p + 2][depth + 1].end \in (p + 2)..Past
      BY <3>1
    <3>3. Comment[p + 2][depth + 1] \in CommentResult
      BY <3>1, CommentIsDefined
    <3>4. Comment[p][depth] = [Comment[p + 2][depth + 1] EXCEPT !.opens = TRUE]
      BY <2>2, CommentCases
    <3>5. Comment[p][depth].end = Comment[p + 2][depth + 1].end
      BY <3>3, <3>4 DEF CommentResult
    <3> QED BY <1>1, <3>2, <3>5
  <2>3. CASE AtEnd(p) /\ depth <= 1
    <3>1. Comment[p][depth] = ClosedAt(p + 2)
      BY <2>3, CommentCases
    <3>2. p + 2 \in 1..Past
      BY <2>3, Ahead
    <3>3. Comment[p][depth].end = p + 2
      BY <3>1 DEF ClosedAt
    <3> QED BY <1>1, <3>2, <3>3
  <2>4. CASE AtEnd(p) /\ depth > 1
    <3> DEFINE rest == Comment[p + 2][depth - 1]
    <3>1. p + 2 \in S /\ p + 2 \in 1..Past
      BY <1>2, <2>4, Ahead
    <3>0. depth - 1 \in Nat
      BY <2>4
    <3>2. rest.end \in (p + 2)..Past
      BY <3>0, <3>1
    <3>3. rest \in CommentResult
      BY <3>0, <3>1, CommentIsDefined
    <3>4. Comment[p][depth] = [rest EXCEPT !.isChain = ~rest.opens]
      BY <2>4, CommentCases
    <3>5. Comment[p][depth].end = rest.end
      <4> HIDE DEF rest
      <4> QED BY <3>3, <3>4 DEF CommentResult
    <3> HIDE DEF rest
    <3> QED BY <1>1, <3>2, <3>5
  <2>5. CASE p <= Len(source) /\ ~AtStart(p) /\ ~AtEnd(p)
    <3>1. p + 1 \in S
      BY <1>2, <2>5, Ahead
    <3>2. Comment[p][depth] = Comment[p + 1][depth]
      BY <2>5, CommentCases
    <3>3. Comment[p + 1][depth].end \in (p + 1)..Past
      BY <3>1
    <3> QED BY <1>1, <3>2, <3>3
  <2> QED BY <1>1, <2>1, <2>2, <2>3, <2>4, <2>5
<1>3. \A p \in 1..Past : p \in S
  <2> HIDE DEF S
  <2> QED BY <1>1, <1>2, BackwardInduction
<1>4. ASSUME NEW p \in 1..Past, NEW depth \in Nat, AtStart(p)
      PROVE  Comment[p][depth].end >= p + 2
  <2>1. p + 2 \in S
    BY <1>3, <1>4, Ahead
  <2>2. Comment[p + 2][depth + 1].end \in (p + 2)..Past
    BY <2>1
  <2>3. Comment[p + 2][depth + 1] \in CommentResult
    BY <2>1, CommentIsDefined
  <2>4. Comment[p][depth] = [Comment[p + 2][depth + 1] EXCEPT !.opens = TRUE]
    BY <1>4, CommentCases
  <2>5. Comment[p][depth].end = Comment[p + 2][depth + 1].end
    BY <2>3, <2>4 DEF CommentResult
  <2> QED BY <1>1, <2>2, <2>5
<1> QED BY <1>3, <1>4

(* Comment passes over text as skipNestedComment does.                     *)
LEMMA CommentText ==
  ASSUME SourceOK
  PROVE  \A p \in 1..Past : \A depth \in Nat :
           Comment[p][depth] = Comment[CommentTextEnd(p)][depth]
<1> DEFINE S == {p \in 1..Past : \A depth \in Nat :
                   Comment[p][depth] = Comment[CommentTextEnd(p)][depth]}
<1>1. Past \in Nat /\ Past = Len(source) + 2 /\ Len(source) \in Nat
  BY Positions
<1>2. ASSUME NEW p \in 1..Past, \A q \in (p + 1)..Past : q \in S PROVE p \in S
  <2> SUFFICES ASSUME NEW depth \in Nat
               PROVE  Comment[p][depth] = Comment[CommentTextEnd(p)][depth]
    OBVIOUS
  <2> DEFINE t == CommentTextEnd(p)
  <2>1. /\ t = Past \/ t \in p..Len(source)
        /\ \A q \in p..Len(source) : AtStart(q) \/ AtEnd(q) => t <= q
    BY <1>1, CommentTextEndStops
  <2>2. CASE p > Len(source)
    <3>1. t = Past
      <4> HIDE DEF t
      <4> QED BY <1>1, <2>1, <2>2
    <3>2. Past \in 1..Past /\ Past > Len(source)
      BY <1>1
    <3>3. Comment[p][depth] = ClosedAt(Past)
      BY <2>2, CommentCases
    <3>4. Comment[Past][depth] = ClosedAt(Past)
      BY <3>2, CommentCases
    <3> HIDE DEF t
    <3> QED BY <3>1, <3>3, <3>4 DEF t
  <2>3. CASE AtStart(p) \/ AtEnd(p)
    <3>1. p \in p..Len(source)
      BY <1>1, <2>3, Markers
    <3>2. t = p
      <4> HIDE DEF t
      <4>1. t <= p
        BY <2>1, <2>3, <3>1
      <4> QED BY <1>1, <2>1, <3>1, <4>1
    <3> HIDE DEF t
    <3> QED BY <3>2 DEF t
  <2>4. CASE p <= Len(source) /\ ~AtStart(p) /\ ~AtEnd(p)
    <3>1. /\ p + 1 \in 1..Past /\ p + 1 \in S
          /\ Comment[p][depth] = Comment[p + 1][depth]
      BY <1>2, <2>4, Ahead, CommentCases
    <3>2. {q \in p..Len(source) : AtStart(q) \/ AtEnd(q)}
            = {q \in (p + 1)..Len(source) : AtStart(q) \/ AtEnd(q)}
      <4>1. \A q : q \in p..Len(source) <=> q = p \/ q \in (p + 1)..Len(source)
        BY <1>1, <2>4
      <4> QED BY <2>4, <4>1
    <3>3. t = CommentTextEnd(p + 1)
      BY <3>2 DEF CommentTextEnd
    <3>4. Comment[p + 1][depth] = Comment[CommentTextEnd(p + 1)][depth]
      BY <3>1
    <3> HIDE DEF t
    <3> QED BY <3>1, <3>3, <3>4 DEF t
  <2> QED BY <1>1, <2>2, <2>3, <2>4
<1>3. \A p \in 1..Past : p \in S
  <2> HIDE DEF S
  <2> QED BY <1>1, <1>2, BackwardInduction
<1> QED BY <1>3

(* Where d more comments than k are open: those k are closed first, and    *)
(* the d others from there on.                                             *)
Nests(p, k, d) ==
  LET here == Comment[p][k]
      after == Comment[here.end][d]
      both == Comment[p][k + d]
  IN  /\ both.end = after.end
      /\ here.opens \/ after.opens => both.opens
      /\ both.isChain => here.isChain /\ ~after.opens

LEMMA CommentNests ==
  ASSUME SourceOK
  PROVE  \A p \in 1..Past : \A k, d \in Nat \ {0} : Nests(p, k, d)
<1> DEFINE S == {p \in 1..Past : \A k, d \in Nat \ {0} : Nests(p, k, d)}
<1>1. Past \in Nat /\ Past = Len(source) + 2 /\ Len(source) \in Nat
  BY Positions
<1>2. ASSUME NEW p \in 1..Past, \A q \in (p + 1)..Past : q \in S PROVE p \in S
  <2> SUFFICES ASSUME NEW k \in Nat \ {0}, NEW d \in Nat \ {0}
               PROVE  Nests(p, k, d)
    OBVIOUS
  <2>0. k \in Nat /\ d \in Nat /\ k + d \in Nat /\ k + d > 1 /\ k >= 1 /\ d >= 1
    OBVIOUS
  <2>1. CASE p > Len(source)
    <3>1. Past \in 1..Past /\ Past > Len(source)
      BY <1>1
    <3>2. /\ Comment[p][k] = ClosedAt(Past) /\ Comment[p][k + d] = ClosedAt(Past)
      BY <2>0, <2>1, CommentCases
    <3>3. Comment[Past][d] = ClosedAt(Past)
      BY <2>0, <3>1, CommentCases
    <3> QED BY <3>2, <3>3 DEF Nests, ClosedAt
  <2>2. CASE AtStart(p)
    <3> DEFINE h == Comment[p + 2][k + 1]
               b == Comment[p + 2][(k + 1) + d]
    <3>1. p + 2 \in (p + 1)..Past
      BY <2>2, Ahead
    <3>2. Nests(p + 2, k + 1, d)
      BY <1>2, <3>1
    <3>3. h \in CommentResult /\ b \in CommentResult
      <4>1. p + 2 \in 1..Past /\ k + 1 \in Nat /\ (k + 1) + d \in Nat
        BY <3>1, <2>0, <1>1
      <4> QED BY <4>1, CommentIsDefined
    <3>4. Comment[p][k] = [h EXCEPT !.opens = TRUE]
      BY <2>0, <2>2, CommentCases
    <3>5. Comment[p][k + d] = [b EXCEPT !.opens = TRUE]
      <4>1. (k + d) + 1 = (k + 1) + d
        OBVIOUS
      <4>2. Comment[p][k + d] = [Comment[p + 2][(k + d) + 1] EXCEPT !.opens = TRUE]
        BY <2>0, <2>2, CommentCases
      <4> QED BY <4>1, <4>2
    <3>6. /\ b.end = Comment[h.end][d].end
          /\ b.isChain => h.isChain /\ ~Comment[h.end][d].opens
      BY <3>2 DEF Nests
    <3> HIDE DEF h, b
    <3>7. /\ Comment[p][k].end = h.end /\ Comment[p][k].isChain = h.isChain
          /\ Comment[p][k + d].end = b.end /\ Comment[p][k + d].opens
          /\ Comment[p][k + d].isChain = b.isChain
      BY <3>3, <3>4, <3>5 DEF CommentResult
    <3> QED BY <3>6, <3>7 DEF Nests
  <2>3. CASE AtEnd(p) /\ k = 1
    <3> DEFINE r == Comment[p + 2][d]
    <3>1. Comment[p][k] = ClosedAt(p + 2)
      BY <2>0, <2>3, CommentCases
    <3>2. r \in CommentResult
      <4>1. p + 2 \in 1..Past
        BY <2>3, Ahead
      <4> QED BY <2>0, <4>1, CommentIsDefined
    <3>3. Comment[p][k + d] = [r EXCEPT !.isChain = ~r.opens]
      <4> DEFINE n == k + d
      <4>1. n - 1 = d /\ n \in Nat /\ n > 1
        BY <2>0, <2>3
      <4> HIDE DEF n
      <4>2. Comment[p][n] = [Comment[p + 2][n - 1] EXCEPT
                               !.isChain = ~Comment[p + 2][n - 1].opens]
        BY <2>3, <4>1, CommentCases
      <4> QED BY <4>1, <4>2 DEF n
    <3>4. Comment[Comment[p][k].end][d] = r
      BY <3>1 DEF ClosedAt
    <3> HIDE DEF r
    <3>5. /\ Comment[p][k + d].end = r.end /\ Comment[p][k + d].opens = r.opens
          /\ Comment[p][k + d].isChain = ~r.opens
      BY <3>2, <3>3 DEF CommentResult
    <3>6. ~Comment[p][k].opens /\ Comment[p][k].isChain
      BY <3>1 DEF ClosedAt
    <3> QED BY <3>4, <3>5, <3>6 DEF Nests
  <2>4. CASE AtEnd(p) /\ k # 1
    <3> DEFINE h == Comment[p + 2][k - 1]
               b == Comment[p + 2][(k - 1) + d]
    <3>0. /\ k - 1 \in Nat \ {0} /\ k - 1 \in Nat /\ k > 1
          /\ (k - 1) + d \in Nat
      BY <2>0, <2>4
    <3>1. p + 2 \in (p + 1)..Past
      BY <2>4, Ahead
    <3>2. Nests(p + 2, k - 1, d)
      BY <1>2, <3>0, <3>1
    <3>3. h \in CommentResult /\ b \in CommentResult
      <4>1. p + 2 \in 1..Past
        BY <2>4, Ahead
      <4> QED BY <3>0, <4>1, CommentIsDefined
    <3>4. Comment[p][k] = [h EXCEPT !.isChain = ~h.opens]
      BY <2>0, <2>4, <3>0, CommentCases
    <3>5. Comment[p][k + d] = [b EXCEPT !.isChain = ~b.opens]
      <4> DEFINE n == k + d
      <4>1. n - 1 = (k - 1) + d /\ n \in Nat /\ n > 1
        BY <2>0
      <4> HIDE DEF n
      <4>2. Comment[p][n] = [Comment[p + 2][n - 1] EXCEPT
                               !.isChain = ~Comment[p + 2][n - 1].opens]
        BY <2>4, <4>1, CommentCases
      <4> QED BY <4>1, <4>2 DEF n
    <3>6. /\ b.end = Comment[h.end][d].end
          /\ h.opens \/ Comment[h.end][d].opens => b.opens
      BY <3>2 DEF Nests
    <3> HIDE DEF h, b
    <3>7. /\ Comment[p][k].end = h.end /\ Comment[p][k].opens = h.opens
          /\ Comment[p][k].isChain = ~h.opens
          /\ Comment[p][k + d].end = b.end /\ Comment[p][k + d].opens = b.opens
          /\ Comment[p][k + d].isChain = ~b.opens
      BY <3>3, <3>4, <3>5 DEF CommentResult
    <3> QED BY <3>6, <3>7 DEF Nests
  <2>5. CASE p <= Len(source) /\ ~AtStart(p) /\ ~AtEnd(p)
    <3>1. p + 1 \in S
      BY <1>2, <2>5, Ahead
    <3>2. Nests(p + 1, k, d)
      BY <3>1
    <3>3. Comment[p][k] = Comment[p + 1][k] /\ Comment[p][k + d] = Comment[p + 1][k + d]
      BY <2>0, <2>5, CommentCases
    <3> QED BY <3>2, <3>3 DEF Nests
  <2> QED BY <1>1, <2>1, <2>2, <2>3, <2>4, <2>5
<1>3. \A p \in 1..Past : p \in S
  <2> HIDE DEF S
  <2> QED BY <1>1, <1>2, BackwardInduction
<1> QED BY <1>3

(* The next marker from a later position is a later one.                   *)
LEMMA CommentTextEndGrows ==
  ASSUME SourceOK, NEW p \in 1..Past, NEW q \in p..Past
  PROVE  CommentTextEnd(p) <= CommentTextEnd(q)
<1> DEFINE t == CommentTextEnd(p)
           u == CommentTextEnd(q)
<1>1. Past \in Nat /\ Past = Len(source) + 2 /\ Len(source) \in Nat
  BY Positions
<1>2. p \in Nat /\ q \in Nat /\ p >= 1 /\ q >= 1 /\ p <= q
  BY <1>1
<1>3. /\ t = Past \/ t \in p..Len(source)
      /\ \A r \in p..Len(source) : AtStart(r) \/ AtEnd(r) => t <= r
  BY <1>2, CommentTextEndStops
<1>4. u = Past \/ (u \in q..Len(source) /\ (AtStart(u) \/ AtEnd(u)))
  BY <1>2, CommentTextEndStops
<1> HIDE DEF t, u
<1>5. CASE u = Past
  BY <1>1, <1>2, <1>3, <1>5 DEF t, u
<1>6. CASE u # Past
  <2>1. u \in p..Len(source) /\ (AtStart(u) \/ AtEnd(u))
    BY <1>1, <1>2, <1>4, <1>6
  <2>2. t <= u
    BY <1>3, <2>1
  <2> QED BY <2>2 DEF t, u
<1> QED BY <1>5, <1>6

(* What is in a comment of any depth, after its "#|".                      *)
LEMMA CommentInside ==
  ASSUME SourceOK, NEW p \in 1..Past, NEW depth \in Nat, AtStart(p)
  PROVE  /\ p + 2 \in 1..Past
         /\ Comment[p][depth].end = Comment[p + 2][depth + 1].end
         /\ Comment[p][depth].isChain = Comment[p + 2][depth + 1].isChain
         /\ Comment[p][depth].opens
<1>1. p + 2 \in 1..Past
  BY Ahead
<1>2. Comment[p + 2][depth + 1] \in CommentResult
  BY <1>1, CommentIsDefined
<1>3. Comment[p][depth] = [Comment[p + 2][depth + 1] EXCEPT !.opens = TRUE]
  BY CommentCases
<1> QED BY <1>1, <1>2, <1>3 DEF CommentResult

(* skipNestedComment against Comment: it never goes beyond the end of the  *)
(* comment, and as far if no comment is opened after one that was closed.  *)
EndsRight(p) ==
  /\ NestedCommentEnd[p] <= Comment[p][0].end
  /\ Comment[p][0].isChain => NestedCommentEnd[p] = Comment[p][0].end

LEMMA NestedCommentEndsRight ==
  ASSUME SourceOK
  PROVE  \A p \in 1..Past : AtStart(p) => EndsRight(p)
<1> DEFINE S == {p \in 1..Past : AtStart(p) => EndsRight(p)}
<1>1. /\ Past \in Nat /\ Past = Len(source) + 2 /\ Len(source) \in Nat
      /\ Past \in 1..Past /\ Past > Len(source) /\ End = Len(source) + 1
  BY Positions
<1>2. ASSUME NEW p \in 1..Past, \A q \in (p + 1)..Past : q \in S PROVE p \in S
  <2> SUFFICES ASSUME AtStart(p) PROVE EndsRight(p)
    OBVIOUS
  <2> DEFINE text == CommentTextEnd(p + 2)
             inner == IF text # Past /\ AtStart(text)
                      THEN NestedCommentEnd[text] ELSE text
             stop == CommentTextEnd(inner)
             n == NestedCommentEnd[p]
             c == Comment[p][0]
  <2>1. p + 2 \in 1..Past /\ c.end = Comment[p + 2][1].end
          /\ c.isChain = Comment[p + 2][1].isChain
    <3>1. 0 + 1 = 1 /\ 0 \in Nat
      OBVIOUS
    <3> QED BY <3>1, CommentInside
  <2>2. Comment[p + 2][1] = Comment[text][1]
    BY <2>1, CommentText
  <2>3. n = IF stop = Past THEN Past ELSE stop + 2
    BY NestedCommentEndIsDefined DEF NestedCommentEndFrom
  <2>4. text = Past \/ /\ text \in (p + 2)..Len(source) /\ text + 2 \in 1..End
                       /\ AtStart(text) \/ AtEnd(text)
    <3>1. p + 2 \in Nat /\ p + 2 >= 1
      BY <1>1
    <3> QED BY <3>1, CommentTextEndStops
  <2>5. CASE text = Past
    <3>1. stop = Past
      <4>1. inner = Past
        BY <2>5
      <4>2. CommentTextEnd(Past) = Past
        <5>1. CommentTextEnd(Past) = Past \/ CommentTextEnd(Past) \in Past..Len(source)
          BY <1>1, CommentTextEndStops
        <5> QED BY <1>1, <5>1
      <4> QED BY <4>1, <4>2
    <3>2. Comment[Past][1] = ClosedAt(Past)
      BY <1>1, CommentCases
    <3>3. c.end = Past
      BY <2>1, <2>2, <2>5, <3>2 DEF ClosedAt
    <3>4. n = Past
      BY <2>3, <3>1
    <3> HIDE DEF n, c
    <3> QED BY <1>1, <3>3, <3>4 DEF n, c, EndsRight
  <2>6. CASE text # Past /\ AtEnd(text)
    <3>0. text \in 1..Past
      <4> HIDE DEF text
      <4> QED BY <1>1, <2>4, <2>6
    <3>1. ~AtStart(text)
      BY <2>6, Markers
    <3>2. inner = text
      BY <3>1
    <3>3. CommentTextEnd(text) = text
      <4> DEFINE u == CommentTextEnd(text)
      <4>1. /\ u = Past \/ u \in text..Len(source)
            /\ \A q \in text..Len(source) : AtStart(q) \/ AtEnd(q) => u <= q
        <5> HIDE DEF text
        <5>1. text \in Nat /\ text >= 1
          BY <1>1, <3>0
        <5> QED BY <5>1, CommentTextEndStops
      <4> HIDE DEF u, text
      <4>2. text \in text..Len(source)
        BY <1>1, <2>4, <2>6
      <4>3. u <= text
        BY <2>6, <4>1, <4>2
      <4>4. u = text
        BY <1>1, <4>1, <4>2, <4>3
      <4> QED BY <4>4 DEF u
    <3>4. n = text + 2
      BY <2>3, <2>6, <3>2, <3>3
    <3>5. Comment[text][1] = ClosedAt(text + 2)
      <4>1. 1 \in Nat /\ 1 <= 1
        OBVIOUS
      <4> HIDE DEF text
      <4> QED BY <2>6, <3>0, <4>1, CommentCases
    <3>6. c.end = text + 2
      BY <2>1, <2>2, <3>5 DEF ClosedAt
    <3>7. text + 2 \in Nat
      <4> HIDE DEF text
      <4> QED BY <1>1, <3>0
    <3> HIDE DEF n, c, text
    <3> QED BY <3>4, <3>6, <3>7 DEF n, c, EndsRight
  <2>7. CASE text # Past /\ AtStart(text)
    <3> DEFINE i == NestedCommentEnd[text]
               j == Comment[text][0].end
    <3>0. text \in 1..Past /\ text \in (p + 1)..Past /\ text + 2 \in 1..Past
      <4> HIDE DEF text
      <4> QED BY <1>1, <2>4, <2>7
    <3>1. i \in 1..Past /\ i <= j /\ (Comment[text][0].isChain => i = j)
      <4>1. text \in S
        BY <1>2, <3>0
      <4>2. EndsRight(text)
        BY <2>7, <4>1
      <4> HIDE DEF text
      <4> QED BY <3>0, <4>2, NestedCommentEndIsDefined DEF EndsRight
    <3>2. inner = i
      BY <2>7
    <3>3. /\ j = Comment[text + 2][1].end
          /\ Comment[text][0].isChain = Comment[text + 2][1].isChain
      <4>1. 0 + 1 = 1 /\ 0 \in Nat
        OBVIOUS
      <4> HIDE DEF text
      <4> QED BY <2>7, <3>0, <4>1, CommentInside
    <3>4. /\ Comment[text][1].end = Comment[text + 2][2].end
          /\ Comment[text][1].isChain = Comment[text + 2][2].isChain
      <4>1. 1 + 1 = 2 /\ 1 \in Nat
        OBVIOUS
      <4> HIDE DEF text
      <4> QED BY <2>7, <3>0, <4>1, CommentInside
    <3>5. Nests(text + 2, 1, 1)
      <4> HIDE DEF text
      <4> QED BY <3>0, CommentNests
    <3>6. /\ c.end = Comment[j][1].end
          /\ c.isChain => Comment[text + 2][1].isChain /\ ~Comment[j][1].opens
      <4>1. 1 + 1 = 2
        OBVIOUS
      <4>2. Comment[text + 2][2].end = Comment[j][1].end
        BY <3>3, <3>5, <4>1 DEF Nests
      <4>3. Comment[text + 2][2].isChain =>
              Comment[text + 2][1].isChain /\ ~Comment[j][1].opens
        BY <3>3, <3>5, <4>1 DEF Nests
      <4> HIDE DEF text, j, c
      <4> QED BY <2>1, <2>2, <3>4, <4>2, <4>3
    <3>7. j \in 1..Past
      <4> HIDE DEF text
      <4>1. Comment[text][0] \in CommentResult
        BY <3>0, CommentIsDefined
      <4> QED BY <4>1 DEF CommentResult
    <3> DEFINE u == CommentTextEnd(j)
               v == CommentTextEnd(i)
    <3>8. v <= u
      <4> HIDE DEF i, j
      <4>1. j \in i..Past
        BY <1>1, <3>1, <3>7
      <4> QED BY <3>1, <4>1, CommentTextEndGrows
    <3>9. n = IF v = Past THEN Past ELSE v + 2
      <4> HIDE DEF inner, i
      <4> QED BY <2>3, <3>2
    <3>10. Comment[j][1] = Comment[u][1]
      <4> HIDE DEF j
      <4> QED BY <3>7, CommentText
    <3>11. u = Past \/ (u \in 1..Len(source) /\ (AtStart(u) \/ AtEnd(u)))
      <4> HIDE DEF j
      <4>1. j \in Nat /\ j >= 1
        BY <1>1, <3>7
      <4>2. u = Past \/ (u \in j..Len(source) /\ (AtStart(u) \/ AtEnd(u)))
        BY <4>1, CommentTextEndStops
      <4> HIDE DEF u
      <4> QED BY <1>1, <4>1, <4>2
    <3>12. v = Past \/ v \in 1..Len(source)
      <4> HIDE DEF i
      <4>1. i \in Nat /\ i >= 1
        BY <1>1, <3>1
      <4>2. v = Past \/ v \in i..Len(source)
        BY <4>1, CommentTextEndStops
      <4> HIDE DEF v
      <4> QED BY <1>1, <4>1, <4>2
    <3>13. c.isChain => v = u
      <4>1. c.isChain => i = j
        <5> HIDE DEF c, i, j, text
        <5> QED BY <3>1, <3>3, <3>6
      <4> QED BY <4>1
    <3> HIDE DEF c, n, u, v, i, j
    <3>14. CASE u = Past
      <4>1. c.end = Past
        <5>1. Comment[Past][1] = ClosedAt(Past)
          BY <1>1, CommentCases
        <5> QED BY <3>6, <3>10, <3>14, <5>1 DEF ClosedAt
      <4>2. n <= Past /\ (v = u => n = Past)
        BY <1>1, <3>9, <3>12, <3>14
      <4> QED BY <1>1, <3>13, <4>1, <4>2 DEF EndsRight, n, c
    <3>15. CASE u # Past /\ AtEnd(u)
      <4>1. c.end = u + 2
        <5>1. u \in 1..Past
          BY <1>1, <3>11, <3>15
        <5>2. Comment[u][1] = ClosedAt(u + 2)
          <6>1. 1 \in Nat /\ 1 <= 1
            OBVIOUS
          <6> QED BY <3>15, <5>1, <6>1, CommentCases
        <5> QED BY <3>6, <3>10, <5>2 DEF ClosedAt
      <4>2. n <= u + 2 /\ (v = u => n = u + 2)
        BY <1>1, <3>8, <3>9, <3>11, <3>12, <3>15
      <4> QED BY <3>13, <4>1, <4>2 DEF EndsRight, n, c
    <3>16. CASE u # Past /\ AtStart(u)
      <4>0. u \in 1..Past
        BY <1>1, <3>11, <3>16
      <4>1. c.end >= u + 2 /\ c.end \in Nat
        <5>1. Comment[u][1].end >= u + 2 /\ Comment[u][1].end \in u..Past
          BY <3>16, <4>0, CommentEndsLater
        <5>2. c.end = Comment[u][1].end
          BY <3>6, <3>10
        <5> QED BY <1>1, <4>0, <5>1, <5>2
      <4>2. n <= u + 2 /\ n \in Nat
        BY <1>1, <3>8, <3>9, <3>11, <3>12, <3>16
      <4>3. Comment[j][1].opens
        <5>1. Comment[u][1].opens
          BY <3>16, <4>0, CommentInside
        <5> QED BY <3>10, <5>1
      <4>4. ~c.isChain
        BY <3>6, <4>3
      <4>5. n <= c.end
        BY <1>1, <4>0, <4>1, <4>2
      <4> QED BY <4>4, <4>5 DEF EndsRight, n, c
    <3> QED BY <3>11, <3>14, <3>15, <3>16
  <2> QED BY <2>4, <2>5, <2>6, <2>7
<1>3. \A p \in 1..Past : p \in S
  <2> HIDE DEF S
  <2> QED BY <1>1, <1>2, BackwardInduction
<1> QED BY <1>3
-----------------------------------------------------------------------------
(* The inductive invariant. *)

(* What the conversions need to know of a token.                           *)
NumberOK ==
  token.type = "number" =>
    /\ token.start \in 1..Len(source) /\ At(token.start) \in Digit
    /\ token.end = SkipAll(token.start + 1, Digit)

BooleanOK == token.type = "boolean" => token.start + 2 <= token.end

(* A token is scanned only from the source and its terminator.             *)
IInv ==
  /\ SourceOK
  /\ current \in 1..Past /\ line \in Nat \ {0} /\ skipping \in BOOLEAN
  /\ ~skipping => current <= End
  /\ token \in [type : TokenType, start : 1..Past, end : 1..Past]
  /\ token.end <= current
  /\ token.type \notin {"none", "eof"} => token.start < token.end
  /\ NumberOK /\ BooleanOK

(* A token of this type that ends here keeps the invariant, and goes       *)
(* beyond the source only from what is left open.                          *)
Fits(type, end) ==
  /\ type \in TokenType \ {"none"} /\ end \in current..Past
  /\ current < end \/ (type = "eof" /\ At(current) = "nul")
  /\ type = "boolean" => current + 2 <= end
  /\ type = "number" => /\ current \in 1..Len(source) /\ At(current) \in Digit
                        /\ end = SkipAll(current + 1, Digit)
  /\ end > End => IsLeftOpen(current)

Takes == Token(token'.type, current') /\ Fits(token'.type, current')

(* What makes the count of lines unsure, from one position to another.     *)
Unsure(from, to) ==
  \/ Count({"semicolon", "#", "|", "cr"}, from, to) > 0
  \/ At(from) \in ExplicitSign /\ At(from + 1) = "."

Reads ==
  line' = line + Count({"lf"}, current, current') \/ Unsure(current, current')

LEMMA CharacterSets ==
  /\ "nul" \notin Digit /\ "nul" \notin HexDigit /\ "nul" \notin Initial
  /\ "nul" \notin Subsequent /\ "nul" \notin SignSubsequent
  /\ "nul" \notin DotSubsequent /\ "nul" \notin ExplicitSign
  /\ "nul" \notin Punctuation /\ "nul" \notin Letter /\ "nul" \notin Whitespace
  /\ "lf" \notin Digit /\ "lf" \notin HexDigit /\ "lf" \notin Initial
  /\ "lf" \notin Subsequent /\ "lf" \notin SignSubsequent
  /\ "lf" \notin DotSubsequent /\ "lf" \notin ExplicitSign
  /\ "lf" \notin Punctuation
BY DEF Digit, HexDigit, Initial, Letter, Subsequent, SignSubsequent,
       DotSubsequent, ExplicitSign, Punctuation, Whitespace, LineEnding

LEMMA Here ==
  ASSUME IInv
  PROVE  /\ SourceOK /\ current \in 1..Past /\ current \in Nat /\ line \in Nat
         /\ Len(source) \in Nat /\ End = Len(source) + 1 /\ Past = Len(source) + 2
         /\ End \in Nat /\ Past \in Nat
         /\ At(current) # "nul" =>
              current \in 1..Len(source) /\ current + 1 \in (current + 1)..End
                /\ current + 1 \in 1..End
         /\ At(current + 1) # "nul" =>
              current + 2 \in (current + 1)..End /\ current + 2 \in 1..End
BY Positions, AtPosition DEF IInv

LEMMA TakesToken ==
  ASSUME NEW type, NEW end, Token(type, end), Fits(type, end)
  PROVE  Takes /\ current' = end
BY DEF Takes, Token

LEMMA ReadsNoLine ==
  ASSUME IInv, line' = line, current' \in current..Past,
         \A q \in current..(current' - 1) : At(q) # "lf"
  PROVE  Reads
<1>1. current \in Nat /\ line \in Nat /\ Past \in Nat
  BY Here
<1>2. current' \in Nat
  BY <1>1
<1> DEFINE to == current'
<1> HIDE DEF to
<1>3. Count({"lf"}, current, to) = 0
  BY <1>1, <1>2, CountIsNumber DEF to
<1> QED BY <1>1, <1>3 DEF Reads, to

(* What an unsure character does as soon as it has been passed.            *)
LEMMA ReadsUnsure ==
  ASSUME IInv, current' \in (current + 1)..Past,
         At(current) \in {"semicolon", "#", "|", "cr"}
  PROVE  Reads
<1> DEFINE to == current'
           X == {"semicolon", "#", "|", "cr"}
<1>1. current \in Nat /\ to \in Nat /\ current \in current..(to - 1)
  BY Here
<1> HIDE DEF to, X
<1>2. Count(X, current, to) \in Nat /\ Count(X, current, to) # 0
  BY <1>1, CountIsNumber DEF X
<1>3. Count(X, current, to) > 0
  BY <1>2
<1> QED BY <1>3 DEF Reads, Unsure, to, X

(* A run of characters of a set, after some that are no line feed.         *)
LEMMA RunOf ==
  ASSUME IInv, NEW p \in (current + 1)..End, NEW S, "nul" \notin S, "lf" \notin S,
         \A q \in current..(p - 1) : At(q) # "lf"
  PROVE  /\ SkipAll(p, S) \in p..End /\ SkipAll(p, S) \in (current + 1)..End
         /\ \A q \in current..(SkipAll(p, S) - 1) : At(q) # "lf"
<1> DEFINE stop == SkipAll(p, S)
<1>1. current \in Nat /\ current >= 1 /\ End \in Nat /\ p \in 1..End /\ SourceOK
  BY Here
<1>2. stop \in p..End /\ \A q \in p..(stop - 1) : At(q) \in S
  BY <1>1, SkipAllStops
<1> HIDE DEF stop
<1>3. stop \in (current + 1)..End
  BY <1>1, <1>2
<1>4. ASSUME NEW q \in current..(stop - 1) PROVE At(q) # "lf"
  <2>1. q \in current..(p - 1) \/ q \in p..(stop - 1)
    BY <1>1, <1>2
  <2> QED BY <1>2, <2>1
<1> QED BY <1>2, <1>3, <1>4 DEF stop

(* A token within the source that is no number and no boolean.             *)
LEMMA FitsPlain ==
  ASSUME IInv, NEW type \in TokenType \ {"none", "number", "boolean"},
         NEW end \in (current + 1)..End
  PROVE  Fits(type, end)
<1>1. end \in current..Past /\ current < end /\ ~(end > End)
  BY Here
<1> QED BY <1>1 DEF Fits
-----------------------------------------------------------------------------
(* One lemma for each kind of token. *)

LEMMA TokenTypes ==
  /\ {"eof", "number", "identifier", "period", "comma", "commaAt", "string",
      "boolean", "character", "#(", "#u8(", "error"} \cup Punctuation
       \subseteq TokenType \ {"none"}
  /\ \A t \in Punctuation : t \notin {"eof", "number", "boolean"}
BY DEF TokenType, Punctuation

LEMMA EndOfFileTakes ==
  ASSUME IInv, EndOfFile
  PROVE  Takes /\ Reads
<1>1. Token("eof", current) /\ line' = line /\ ~skipping /\ At(current) = "nul"
  BY DEF EndOfFile, Scanning
<1>2. current <= End /\ current \in current..Past
  BY <1>1, Here DEF IInv
<1>3. Fits("eof", current)
  BY <1>1, <1>2, Here, TokenTypes DEF Fits
<1>4. Takes /\ current' = current
  BY <1>1, <1>3, TakesToken
<1>5. \A q \in current..(current' - 1) : At(q) # "lf"
  BY <1>4, Here
<1> QED BY <1>1, <1>2, <1>4, <1>5, ReadsNoLine

LEMMA NumberTakes ==
  ASSUME IInv, Number
  PROVE  Takes /\ Reads
<1> DEFINE stop == SkipAll(current + 1, Digit)
<1>1. Token("number", stop) /\ line' = line /\ At(current) \in Digit
  BY DEF Number, Scanning
<1>2. current \in 1..Len(source) /\ current + 1 \in (current + 1)..End
  BY <1>1, Here, CharacterSets
<1>3. \A q \in current..((current + 1) - 1) : At(q) # "lf"
  BY <1>1, <1>2, CharacterSets
<1>4. /\ stop \in (current + 1)..End
      /\ \A q \in current..(stop - 1) : At(q) # "lf"
  BY <1>2, <1>3, RunOf, CharacterSets
<1>5. stop \in current..Past /\ current < stop /\ ~(stop > End)
  <2> HIDE DEF stop
  <2> QED BY <1>4, Here
<1>6. Fits("number", stop)
  BY <1>1, <1>2, <1>5, TokenTypes DEF Fits
<1> HIDE DEF stop
<1>7. Takes /\ current' = stop
  BY <1>1, <1>6, TakesToken
<1> QED BY <1>1, <1>4, <1>5, <1>7, ReadsNoLine

(* The other tokens that have no line feed and stay in the source.         *)
LEMMA PlainTakes ==
  ASSUME IInv, NEW type \in TokenType \ {"none", "number", "boolean"},
         NEW end \in (current + 1)..End, Token(type, end), line' = line,
         \A q \in current..(end - 1) : At(q) # "lf"
  PROVE  Takes /\ Reads
<1>1. Takes /\ current' = end
  BY FitsPlain, TakesToken
<1>2. end \in current..Past
  BY Here
<1> QED BY <1>1, <1>2, ReadsNoLine

LEMMA IdentifierTakes ==
  ASSUME IInv, Identifier
  PROVE  Takes /\ Reads
<1> DEFINE stop == SkipAll(current + 1, Subsequent)
<1>1. /\ \E type \in {"identifier", "'"} : Token(type, stop)
      /\ line' = line /\ At(current) \in Initial
  BY DEF Identifier, Scanning
<1>2. current + 1 \in (current + 1)..End
  BY <1>1, Here, CharacterSets
<1>3. \A q \in current..((current + 1) - 1) : At(q) # "lf"
  BY <1>1, <1>2, Here, CharacterSets
<1>4. /\ stop \in (current + 1)..End
      /\ \A q \in current..(stop - 1) : At(q) # "lf"
  BY <1>2, <1>3, RunOf, CharacterSets
<1>5. {"identifier", "'"} \subseteq TokenType \ {"none", "number", "boolean"}
  BY TokenTypes DEF TokenType, Punctuation
<1> HIDE DEF stop
<1>6. PICK type \in {"identifier", "'"} : Token(type, stop)
  BY <1>1
<1> QED BY <1>1, <1>4, <1>5, <1>6, PlainTakes

LEMMA OneCharacterTakes ==
  ASSUME IInv, OneCharacter
  PROVE  Takes /\ Reads
<1>1. /\ Token(At(current), current + 1) /\ line' = line
      /\ At(current) \in Punctuation
  BY DEF OneCharacter, Scanning
<1>2. current + 1 \in (current + 1)..End
  BY <1>1, Here, CharacterSets
<1>3. \A q \in current..((current + 1) - 1) : At(q) # "lf"
  BY <1>1, <1>2, Here, CharacterSets
<1>4. At(current) \in TokenType \ {"none", "number", "boolean"}
  BY <1>1, TokenTypes
<1> QED BY <1>1, <1>2, <1>3, <1>4, PlainTakes

LEMMA UnexpectedTakes ==
  ASSUME IInv, Unexpected
  PROVE  Takes /\ Reads
<1>1. /\ Token("error", current + 1) /\ line' = line
      /\ At(current) \in {"\\", "["}
  BY DEF Unexpected, Scanning
<1>2. current + 1 \in (current + 1)..End
  BY <1>1, Here
<1>3. \A q \in current..((current + 1) - 1) : At(q) # "lf"
  BY <1>1, <1>2, Here
<1>4. "error" \in TokenType \ {"none", "number", "boolean"}
  BY TokenTypes
<1> QED BY <1>1, <1>2, <1>3, <1>4, PlainTakes

LEMMA CommaTakes ==
  ASSUME IInv, Comma
  PROVE  Takes /\ Reads
<1>1. line' = line /\ At(current) = "comma"
  BY DEF Comma, Scanning
<1>2. current + 1 \in (current + 1)..End
  BY <1>1, Here
<1>3. {"comma", "commaAt"} \subseteq TokenType \ {"none", "number", "boolean"}
  BY TokenTypes
<1>4. CASE At(current + 1) = "@"
  <2>1. Token("commaAt", current + 2) /\ current + 2 \in (current + 1)..End
    BY <1>4, Here DEF Comma
  <2>2. \A q \in current..((current + 2) - 1) : q = current \/ q = current + 1
    BY Here
  <2>3. \A q \in current..((current + 2) - 1) : At(q) # "lf"
    BY <1>1, <1>4, <2>2
  <2> QED BY <1>1, <1>3, <2>1, <2>3, PlainTakes
<1>5. CASE At(current + 1) # "@"
  <2>1. Token("comma", current + 1)
    BY <1>5 DEF Comma
  <2>2. \A q \in current..((current + 1) - 1) : At(q) # "lf"
    BY <1>1, Here
  <2> QED BY <1>1, <1>2, <1>3, <2>1, <2>2, PlainTakes
<1> QED BY <1>4, <1>5

LEMMA PeriodTakes ==
  ASSUME IInv, Period
  PROVE  Takes /\ Reads
<1>1. line' = line /\ At(current) = "."
  BY DEF Period, Scanning
<1>2. current + 1 \in (current + 1)..End
  BY <1>1, Here
<1>3. {"identifier", "period"} \subseteq TokenType \ {"none", "number", "boolean"}
  BY TokenTypes
<1>4. CASE At(current + 1) \in DotSubsequent
  <2> DEFINE stop == SkipAll(current + 2, Subsequent)
  <2>1. Token("identifier", stop)
    BY <1>4 DEF Period
  <2>2. current + 2 \in (current + 1)..End
    BY <1>4, Here, CharacterSets
  <2>3. \A q \in current..((current + 2) - 1) : q = current \/ q = current + 1
    BY Here
  <2>4. \A q \in current..((current + 2) - 1) : At(q) # "lf"
    BY <1>1, <1>4, <2>3, CharacterSets
  <2>5. /\ stop \in (current + 1)..End
        /\ \A q \in current..(stop - 1) : At(q) # "lf"
    BY <2>2, <2>4, RunOf, CharacterSets
  <2> HIDE DEF stop
  <2> QED BY <1>1, <1>3, <2>1, <2>5, PlainTakes
<1>5. CASE At(current + 1) \notin DotSubsequent
  <2>1. Token("period", current + 1)
    BY <1>5 DEF Period
  <2>2. \A q \in current..((current + 1) - 1) : At(q) # "lf"
    BY <1>1, Here
  <2> QED BY <1>1, <1>2, <1>3, <2>1, <2>2, PlainTakes
<1> QED BY <1>4, <1>5

(* The last characters of the source, as a sequence.                       *)
LEMMA LastTwo ==
  ASSUME SourceOK, NEW p \in 1..Len(source), Len(source) = p + 1
  PROVE  SubSeq(source, p, Len(source)) = <<source[p], source[p + 1]>>
<1> DEFINE rest == SubSeq(source, p, Len(source))
<1>1. p \in Nat /\ Len(source) \in Nat
  BY Positions
<1>2. rest \in Seq(Character) /\ Len(rest) = 2
  BY <1>1 DEF SourceOK
<1>3. rest[1] = source[p] /\ rest[2] = source[p + 1]
  BY <1>1 DEF SourceOK
<1> HIDE DEF rest
<1>4. rest = <<rest[1], rest[2]>>
  BY <1>2
<1> QED BY <1>3, <1>4 DEF rest

LEMMA LastOne ==
  ASSUME SourceOK, NEW p \in 1..Len(source), Len(source) = p
  PROVE  SubSeq(source, p, Len(source)) = <<source[p]>>
<1> DEFINE rest == SubSeq(source, p, Len(source))
<1>1. p \in Nat /\ Len(source) \in Nat
  BY Positions
<1>2. rest \in Seq(Character) /\ Len(rest) = 1
  BY <1>1 DEF SourceOK
<1>3. rest[1] = source[p]
  BY <1>1 DEF SourceOK
<1> HIDE DEF rest
<1>4. rest = <<rest[1]>>
  BY <1>2
<1> QED BY <1>3, <1>4 DEF rest

LEMMA SignedIdentifierTakes ==
  ASSUME IInv, SignedIdentifier
  PROVE  Takes /\ Reads
<1> DEFINE p == current + 1
           stop == IF At(p) = "." /\ p + 1 = End THEN Past
                   ELSE IF At(p) = "." THEN SkipAll(p + 2, Subsequent)
                   ELSE IF At(p) \in SignSubsequent THEN SkipAll(p + 1, Subsequent)
                   ELSE p
<1>1. /\ Token("identifier", stop) /\ line' = line
      /\ At(current) \in ExplicitSign
  BY DEF SignedIdentifier, Scanning
<1>2. /\ current \in 1..Len(source) /\ current \in Nat /\ p \in (current + 1)..End
      /\ At(p) # "nul" => p + 1 \in (current + 1)..End
  BY <1>1, Here, CharacterSets
<1>3. "identifier" \in TokenType \ {"none", "number", "boolean"}
  BY TokenTypes
<1>4. CASE At(p) = "." /\ p + 1 = End
  <2>1. stop = Past /\ Past \in current..Past /\ current < Past
          /\ Len(source) = current + 1
    BY <1>4, Here
  <2>2. IsLeftOpen(current)
    <3> DEFINE rest == SubSeq(source, current, Len(source))
    <3>1. source[current] = At(current) /\ source[current + 1] = "."
      <4>1. current + 1 \in 1..Len(source)
        BY <1>4, <1>2, Here, AtPosition
      <4> QED BY <1>2, <1>4, <4>1, Here, AtPosition
    <3>2. rest = <<At(current), ".">>
      <4>1. rest = <<source[current], source[current + 1]>>
        BY <1>2, <2>1, LastTwo, Here
      <4> QED BY <3>1, <4>1
    <3>3. <<At(current), ".">> \in {<<s, ".">> : s \in ExplicitSign}
      BY <1>1
    <3> HIDE DEF rest
    <3> QED BY <3>2, <3>3 DEF IsLeftOpen, rest
  <2>3. Fits("identifier", stop)
    BY <1>3, <2>1, <2>2 DEF Fits
  <2>4. Takes
    <3> HIDE DEF stop
    <3> QED BY <1>1, <2>3, TakesToken
  <2>5. Reads
    BY <1>1, <1>4 DEF Reads, Unsure
  <2> QED BY <2>4, <2>5
<1>5. CASE At(p) = "." /\ p + 1 # End
  <2>1. p + 2 \in 1..End /\ p + 2 \in (current + 1)..End
    BY <1>2, <1>5, Here
  <2>2. stop = SkipAll(p + 2, Subsequent)
    BY <1>5
  <2>3. stop \in (p + 2)..End
    <3>1. SkipAll(p + 2, Subsequent) \in (p + 2)..End
      <4> DEFINE r == p + 2
      <4>1. r \in 1..End
        BY <2>1
      <4> HIDE DEF r, stop
      <4>2. SkipAll(r, Subsequent) \in r..End
        BY <4>1, SkipAllStops, CharacterSets, Here
      <4> QED BY <4>2 DEF r
    <3> HIDE DEF stop
    <3> QED BY <2>2, <3>1
  <2>4. stop \in (current + 1)..End
    <3> HIDE DEF stop
    <3> QED BY <1>2, <2>3, Here
  <2>5. Fits("identifier", stop)
    <3> HIDE DEF stop
    <3> QED BY <1>3, <2>4, FitsPlain
  <2>6. Takes
    <3> HIDE DEF stop
    <3> QED BY <1>1, <2>5, TakesToken
  <2>7. Reads
    BY <1>1, <1>5 DEF Reads, Unsure
  <2> QED BY <2>6, <2>7
<1>6. \A q \in current..(p - 1) : At(q) # "lf"
  BY <1>1, <1>2, CharacterSets
<1>7. CASE At(p) # "." /\ At(p) \in SignSubsequent
  <2>1. stop = SkipAll(p + 1, Subsequent)
    BY <1>7
  <2>2. p + 1 \in (current + 1)..End
    BY <1>2, <1>7, CharacterSets
  <2>3. \A q \in current..((p + 1) - 1) : At(q) # "lf"
    <3>1. \A q \in current..((p + 1) - 1) : q = p \/ q \in current..(p - 1)
      BY <1>2
    <3> HIDE DEF p
    <3> QED BY <1>6, <1>7, <3>1, CharacterSets
  <2>4. /\ stop \in (current + 1)..End
        /\ \A q \in current..(stop - 1) : At(q) # "lf"
    <3> HIDE DEF p
    <3> QED BY <2>1, <2>2, <2>3, RunOf, CharacterSets
  <2> HIDE DEF stop
  <2> QED BY <1>1, <1>3, <2>4, PlainTakes
<1>8. CASE At(p) # "." /\ At(p) \notin SignSubsequent
  <2>1. stop = p
    BY <1>8
  <2> HIDE DEF stop, p
  <2> QED BY <1>1, <1>2, <1>3, <1>6, <2>1, PlainTakes
<1> QED BY <1>4, <1>5, <1>7, <1>8

LEMMA StringTakes ==
  ASSUME IInv, String
  PROVE  Takes /\ Reads
<1> DEFINE S == Character \ {"quotation"}
           stop == SkipAll(current + 1, S)
<1>1. /\ IF stop = End THEN Token("error", stop) ELSE Token("string", stop + 1)
      /\ line' = line + Count({"lf"}, current, stop)
      /\ At(current) = "quotation"
  BY DEF String, Scanning
<1>2. /\ current \in Nat /\ End \in Nat /\ Past = End + 1 /\ current >= 1
      /\ current + 1 \in (current + 1)..End /\ current + 1 \in 1..End
  BY <1>1, Here
<1>3. stop \in (current + 1)..End /\ At(stop) \notin S
  <2>1. "nul" \notin S
    BY NulIsNoCharacter
  <2> HIDE DEF S
  <2> QED BY <1>2, <2>1, Here, SkipAllStops
<1>4. {"error", "string"} \subseteq TokenType \ {"none", "number", "boolean"}
  BY TokenTypes
<1> HIDE DEF stop
<1>5. CASE stop = End
  <2>1. Fits("error", stop)
    BY <1>3, <1>4, FitsPlain
  <2>2. Takes /\ current' = stop
    BY <1>1, <1>5, <2>1, TakesToken
  <2> QED BY <1>1, <2>2 DEF Reads
<1>6. CASE stop # End
  <2>1. stop \in Nat /\ stop + 1 \in (current + 1)..End
    BY <1>2, <1>3, <1>6
  <2>2. Fits("string", stop + 1)
    BY <1>4, <2>1, FitsPlain
  <2>3. Takes /\ current' = stop + 1
    BY <1>1, <1>6, <2>2, TakesToken
  <2>4. At(stop) # "lf"
    <3>1. stop \in 1..Len(source)
      BY <1>2, <1>3, <1>6, Here
    <3>2. At(stop) \in Character
      BY <3>1, Here, AtPosition
    <3> QED BY <1>3, <3>2
  <2>5. Count({"lf"}, stop, stop + 1) = 0
    <3> DEFINE to == stop + 1
    <3>1. to \in Nat /\ \A q \in stop..(to - 1) : q = stop
      BY <2>1
    <3>2. \A q \in stop..(to - 1) : At(q) \notin {"lf"}
      BY <2>4, <3>1
    <3> HIDE DEF to
    <3>3. Count({"lf"}, stop, to) = 0
      BY <2>1, <3>1, <3>2, CountIsNumber
    <3> QED BY <3>3 DEF to
  <2>6. Count({"lf"}, current, stop + 1) =
          Count({"lf"}, current, stop) + Count({"lf"}, stop, stop + 1)
    <3>1. current <= stop /\ stop <= stop + 1 /\ stop + 1 \in Nat
      BY <1>2, <1>3, <2>1
    <3> QED BY <1>2, <2>1, <3>1, CountParts
  <2>7. Count({"lf"}, current, stop) \in Nat
    BY <1>2, <2>1, CountIsNumber
  <2>8. Count({"lf"}, current, stop + 1) = Count({"lf"}, current, stop)
    BY <2>5, <2>6, <2>7
  <2> QED BY <1>1, <2>3, <2>8 DEF Reads
<1> QED BY <1>5, <1>6

LEMMA IdentifierInBarsTakes ==
  ASSUME IInv, IdentifierInBars
  PROVE  Takes /\ Reads
<1> DEFINE stop == BarsEnd[current + 1]
<1>1. /\ Token("identifier", stop) /\ stop # Never /\ At(current) = "|"
  BY DEF IdentifierInBars, Scanning
<1>2. /\ current \in 1..Len(source) /\ current \in Nat /\ End \in Nat
      /\ Past = End + 1 /\ Len(source) \in Nat /\ End = Len(source) + 1
      /\ current + 1 \in 1..Past
  BY <1>1, Here
<1>3. /\ stop \in (current + 1)..Past
      /\ stop = Past => \A q \in (current + 1)..Len(source) :
                          At(q) = "|" => At(q - 1) = "\\"
  BY <1>1, <1>2, Here, BarsEndStops
<1> HIDE DEF stop
<1>4. stop > End => IsLeftOpen(current)
  <2>1. stop > End => stop = Past
    BY <1>2, <1>3
  <2> QED BY <1>1, <1>3, <2>1 DEF IsLeftOpen
<1>5. Fits("identifier", stop)
  <2>1. stop \in current..Past /\ current < stop
    BY <1>2, <1>3
  <2> QED BY <1>4, <2>1, TokenTypes DEF Fits
<1>6. Takes /\ current' = stop
  BY <1>1, <1>5, TakesToken
<1>7. At(current) \in {"semicolon", "#", "|", "cr"}
  BY <1>1
<1> QED BY <1>3, <1>6, <1>7, ReadsUnsure
-----------------------------------------------------------------------------
(* poundSomething. *)

(* What is compared and found is in the source.                            *)
LEMMA MatchesIsInside ==
  ASSUME SourceOK, NEW p \in 1..End, NEW C, "nul" \notin C,
         NEW text \in Seq(C), Matches(p, text)
  PROVE  p + Len(text) \in p..End
<1> DEFINE n == Len(text)
<1>1. n \in Nat /\ End \in Nat /\ End = Len(source) + 1 /\ Len(source) \in Nat
  BY Positions
<1>2. CASE n = 0
  BY <1>1, <1>2
<1>3. CASE n # 0
  <2>1. n \in 1..n
    BY <1>1, <1>3
  <2>2. At(p + n - 1) = text[n] /\ text[n] \in C
    BY <2>1 DEF Matches
  <2>3. p + n - 1 \in 1..Len(source)
    BY <2>2, AtPosition
  <2> HIDE DEF n
  <2> QED BY <1>1, <2>3 DEF n
<1> QED BY <1>2, <1>3

(* A token after a pound sign, in the source or left open at its end.      *)
LEMMA PoundTakes ==
  ASSUME IInv, At(current) = "#", NEW type, NEW end, Token(type, end),
         type \in TokenType \ {"none", "eof", "number"},
         type = "boolean" => current + 2 <= end,
         end \in (current + 1)..Past, end > End => IsLeftOpen(current)
  PROVE  Takes /\ Reads
<1>1. end \in current..Past /\ current < end
  BY Here
<1>2. Fits(type, end)
  BY <1>1 DEF Fits
<1>3. Takes /\ current' = end
  BY <1>2, TakesToken
<1>4. At(current) \in {"semicolon", "#", "|", "cr"}
  OBVIOUS
<1> QED BY <1>3, <1>4, ReadsUnsure

LEMMA BooleanTakes ==
  ASSUME IInv, At(current) = "#", At(current + 1) # "nul",
         NEW second \in Letter, NEW rest \in Seq(Letter),
         Boolean(current + 1, second, rest)
  PROVE  Takes /\ Reads
<1> DEFINE p == current + 1
<1>1. /\ current \in Nat /\ End \in Nat /\ Past = End + 1 /\ Len(source) \in Nat
      /\ End = Len(source) + 1 /\ SourceOK /\ p + 1 \in (current + 1)..End
  BY Here
<1>2. {"boolean", "error"} \subseteq TokenType \ {"none", "eof", "number"}
  BY TokenTypes
<1>3. ASSUME NEW type \in {"boolean", "error"}, NEW end \in (p + 1)..End,
             Token(type, end)
      PROVE  Takes /\ Reads
  <2>1. end \in (current + 1)..Past /\ ~(end > End) /\ current + 2 <= end
    BY <1>1
  <2> QED BY <1>2, <1>3, <2>1, PoundTakes
<1>4. CASE At(p + 1) # second
  <2>1. Token("boolean", p + 1)
    BY <1>4 DEF Boolean
  <2>2. p + 1 \in (p + 1)..End
    BY <1>1
  <2> QED BY <1>3, <2>1, <2>2
<1>5. CASE At(p + 1) = second
  <2>1. At(p + 1) # "nul"
    BY <1>5, CharacterSets
  <2>2. p + 1 \in 1..Len(source)
    BY <1>1, <2>1, AtPosition
  <2>3. p + 2 \in (p + 1)..End /\ p + 2 \in 1..End
    BY <1>1, <2>2
  <2>4. CASE ~Matches(p + 2, rest)
    <3>1. Token("error", p + 2)
      BY <1>5, <2>4 DEF Boolean
    <3> HIDE DEF p
    <3> QED BY <1>3, <2>3, <3>1
  <2>5. CASE Matches(p + 2, rest)
    <3>1. Token("boolean", p + 2 + Len(rest))
      BY <1>5, <2>5 DEF Boolean
    <3>2. p + 2 + Len(rest) \in (p + 2)..End
      <4> DEFINE r == p + 2
      <4>1. r \in 1..End /\ Matches(r, rest)
        BY <2>3, <2>5
      <4> HIDE DEF r
      <4>2. r + Len(rest) \in r..End
        BY <1>1, <4>1, CharacterSets, MatchesIsInside
      <4> QED BY <4>2 DEF r
    <3>3. p + 2 + Len(rest) \in (p + 1)..End
      BY <1>1, <3>2
    <3> HIDE DEF p
    <3> QED BY <1>3, <3>1, <3>3
  <2> QED BY <2>4, <2>5
<1> QED BY <1>4, <1>5

LEMMA CharacterNamesOK ==
  /\ DOMAIN CharacterNames = {"t", "n", "a", "s", "d", "e", "r", "b"}
  /\ \A l \in DOMAIN CharacterNames : CharacterNames[l] \in Seq(Letter)
  /\ "nul" \notin DOMAIN CharacterNames
<1>1. /\ <<"a", "b">> \in Seq(Letter) /\ <<"u", "l", "l">> \in Seq(Letter)
      /\ <<"l", "a", "r", "m">> \in Seq(Letter)
      /\ <<"p", "a", "c", "e">> \in Seq(Letter)
  BY DEF Letter
<1>2. <<"e", "l", "e", "t", "e">> \in Seq(Letter)
  BY DEF Letter
<1>3. <<"s", "c", "a", "p", "e">> \in Seq(Letter)
  BY DEF Letter
<1>4. <<"e", "t", "u", "r", "n">> \in Seq(Letter)
  BY DEF Letter
<1>5. <<"a", "c", "k", "s", "p", "a", "c", "e">> \in Seq(Letter)
  BY DEF Letter
<1> DEFINE Names == Seq(Letter)
<1> HIDE DEF Names
<1>6. DOMAIN CharacterNames = {"t", "n", "a", "s", "d", "e", "r", "b"}
  BY DEF CharacterNames
<1>7. CharacterNames.t \in Names /\ CharacterNames.n \in Names
        /\ CharacterNames.a \in Names /\ CharacterNames.s \in Names
        /\ CharacterNames.d \in Names /\ CharacterNames.e \in Names
        /\ CharacterNames.r \in Names /\ CharacterNames.b \in Names
  BY <1>1, <1>2, <1>3, <1>4, <1>5 DEF CharacterNames, Names
<1>8. \A l \in DOMAIN CharacterNames : CharacterNames[l] \in Names
  BY <1>6, <1>7
<1> QED BY <1>6, <1>8 DEF Names

LEMMA ScanCharacterTakes ==
  ASSUME IInv, At(current) = "#", At(current + 1) = "\\",
         ScanCharacter(current + 2)
  PROVE  Takes /\ Reads
<1> DEFINE p == current + 2
<1>1. /\ current \in Nat /\ current >= 1 /\ End \in Nat /\ Past = End + 1
      /\ Len(source) \in Nat /\ End = Len(source) + 1 /\ SourceOK
      /\ p \in (current + 1)..End /\ current \in 1..Len(source)
  BY Here
<1>2. {"character", "error"} \subseteq TokenType \ {"none", "eof", "number"}
  BY TokenTypes
<1>3. ASSUME NEW type \in {"character", "error"}, NEW end \in p..End,
             Token(type, end)
      PROVE  Takes /\ Reads
  <2>1. end \in (current + 1)..Past /\ ~(end > End) /\ type # "boolean"
    BY <1>1
  <2> QED BY <1>2, <1>3, <2>1, PoundTakes
<1>4. At(p) # "nul" => p + 1 \in p..End /\ p + 1 \in 1..End
  <2>1. At(p) # "nul" => p \in 1..Len(source)
    BY <1>1, AtPosition
  <2> QED BY <1>1, <2>1
<1>5. CASE At(p) = "x" /\ At(p + 1) \in HexDigit
  <2>1. Token("character", SkipAll(p + 1, HexDigit))
    BY <1>5 DEF ScanCharacter
  <2>2. SkipAll(p + 1, HexDigit) \in (p + 1)..End
    <3> DEFINE r == p + 1
    <3>1. r \in 1..End
      BY <1>4, <1>5
    <3> HIDE DEF r
    <3>2. SkipAll(r, HexDigit) \in r..End
      BY <1>1, <3>1, SkipAllStops, CharacterSets
    <3> QED BY <3>2 DEF r
  <2>3. SkipAll(p + 1, HexDigit) \in p..End
    BY <1>1, <2>2
  <2> HIDE DEF p
  <2> QED BY <1>3, <2>1, <2>3
<1>6. CASE ~(At(p) = "x" /\ At(p + 1) \in HexDigit)
             /\ At(p) \notin DOMAIN CharacterNames
  <2>1. Token("character", p + 1)
    BY <1>6 DEF ScanCharacter
  <2>2. CASE At(p) # "nul"
    <3> HIDE DEF p
    <3> QED BY <1>3, <1>4, <2>1, <2>2
  <2>3. CASE At(p) = "nul"
    <3>1. p = End /\ Len(source) = current + 1
      <4>1. p \notin 1..Len(source)
        BY <1>1, <2>3, AtPosition
      <4> QED BY <1>1, <4>1
    <3>2. IsLeftOpen(current)
      <4> DEFINE rest == SubSeq(source, current, Len(source))
      <4>1. source[current] = "#" /\ source[current + 1] = "\\"
        <5>1. current + 1 \in 1..Len(source)
          BY <1>1, <3>1
        <5> QED BY <1>1, <5>1, AtPosition
      <4>2. rest = <<"#", "\\">>
        BY <1>1, <3>1, <4>1, LastTwo
      <4> HIDE DEF rest
      <4> QED BY <4>2 DEF IsLeftOpen, rest
    <3>3. p + 1 \in (current + 1)..Past
      BY <1>1, <3>1
    <3>4. "character" # "boolean"
      OBVIOUS
    <3> HIDE DEF p
    <3> QED BY <1>2, <2>1, <3>2, <3>3, <3>4, PoundTakes
  <2> QED BY <2>2, <2>3
<1>7. CASE ~(At(p) = "x" /\ At(p + 1) \in HexDigit)
             /\ At(p) \in DOMAIN CharacterNames
  <2> DEFINE rest == CharacterNames[At(p)]
  <2>1. p + 1 \in p..End /\ p + 1 \in 1..End
    BY <1>4, <1>7, CharacterNamesOK
  <2>2. rest \in Seq(Letter)
    BY <1>7, CharacterNamesOK
  <2>3. IF Matches(p + 1, rest) THEN Token("character", p + 1 + Len(rest))
        ELSE IF At(p + 1) \in Letter THEN Token("error", p + 1)
        ELSE Token("character", p + 1)
    BY <1>7 DEF ScanCharacter
  <2> HIDE DEF rest
  <2>4. CASE Matches(p + 1, rest)
    <3>1. p + 1 + Len(rest) \in (p + 1)..End
      <4> DEFINE r == p + 1
      <4>1. r \in 1..End /\ Matches(r, rest)
        BY <2>1, <2>4
      <4> HIDE DEF r
      <4>2. r + Len(rest) \in r..End
        BY <1>1, <2>2, <4>1, CharacterSets, MatchesIsInside
      <4> QED BY <4>2 DEF r
    <3>2. p + 1 + Len(rest) \in p..End
      BY <1>1, <3>1
    <3> HIDE DEF p
    <3> QED BY <1>3, <2>3, <2>4, <3>2
  <2>5. CASE ~Matches(p + 1, rest)
    <3> HIDE DEF p
    <3> QED BY <1>3, <2>1, <2>3, <2>5
  <2> QED BY <2>4, <2>5
<1> QED BY <1>5, <1>6, <1>7

LEMMA PoundSomethingTakes ==
  ASSUME IInv, PoundSomething
  PROVE  Takes /\ Reads
<1> DEFINE p == current + 1
<1>1. At(current) = "#"
  BY DEF PoundSomething, Scanning
<1>2. /\ current \in 1..Len(source) /\ current \in Nat /\ End \in Nat
      /\ Past = End + 1 /\ End = Len(source) + 1 /\ SourceOK
      /\ Len(source) \in Nat /\ p \in (current + 1)..End
  BY <1>1, Here
<1>3. CASE At(p) = "t"
  <2>1. Boolean(p, "r", <<"u", "e">>)
    BY <1>3 DEF PoundSomething
  <2>2. "r" \in Letter /\ <<"u", "e">> \in Seq(Letter)
    BY DEF Letter
  <2> QED BY <1>1, <1>3, <2>1, <2>2, BooleanTakes
<1>4. CASE At(p) = "f"
  <2>1. Boolean(p, "a", <<"l", "s", "e">>)
    BY <1>4 DEF PoundSomething
  <2>2. "a" \in Letter /\ <<"l", "s", "e">> \in Seq(Letter)
    BY DEF Letter
  <2> QED BY <1>1, <1>4, <2>1, <2>2, BooleanTakes
<1>5. CASE At(p) = "\\"
  <2>1. ScanCharacter(p + 1) /\ p + 1 = current + 2
    BY <1>2, <1>5 DEF PoundSomething
  <2> QED BY <1>1, <1>5, <2>1, ScanCharacterTakes
<1>6. CASE At(p) \notin {"t", "f", "\\"}
  <2> DEFINE type == IF At(p) = "(" THEN "#("
                     ELSE IF At(p) = "u"
                     THEN IF At(p + 1) = "8" \/ At(p + 2) # "("
                          THEN "error" ELSE "#u8("
                     ELSE "error"
  <2>1. Token(type, p + 1)
    BY <1>6 DEF PoundSomething
  <2>2. type \in TokenType \ {"none", "eof", "number"} /\ type # "boolean"
    BY TokenTypes
  <2>3. p + 1 \in (current + 1)..Past
    BY <1>2
  <2>4. p + 1 > End => IsLeftOpen(current)
    <3> SUFFICES ASSUME p + 1 > End PROVE IsLeftOpen(current)
      OBVIOUS
    <3>1. Len(source) = current
      BY <1>2
    <3>2. source[current] = "#"
      BY <1>1, <1>2, AtPosition
    <3> DEFINE rest == SubSeq(source, current, Len(source))
    <3>3. rest = <<"#">>
      BY <1>2, <3>1, <3>2, LastOne
    <3> HIDE DEF rest
    <3> QED BY <3>3 DEF IsLeftOpen, rest
  <2> HIDE DEF type, p
  <2> QED BY <1>1, <2>1, <2>2, <2>3, <2>4, PoundTakes
<1> QED BY <1>3, <1>4, <1>5, <1>6
-----------------------------------------------------------------------------
(* The intertoken space. *)

Skips ==
  /\ source' = source /\ token' = token /\ skipping' \in BOOLEAN
  /\ ~skipping' => current' <= End
  /\ current' \in current..Past
  /\ current' > End => IsLeftOpen(current)
  /\ current < current' \/ (current = current' /\ skipping /\ ~skipping')

LEMMA SkippingTo ==
  ASSUME IInv, Skipping, source' = source, token' = token, skipping' = skipping,
         current' \in current..Past, current' > End => IsLeftOpen(current),
         current < current'
  PROVE  Skips
BY DEF Skips, Skipping, IInv

(* Without carriage returns, line endings are line feeds.                  *)
LEMMA LineEndingsAreLineFeeds ==
  ASSUME NEW a \in Nat, NEW b \in Nat,
         Count({"semicolon", "#", "|", "cr"}, a, b) = 0
  PROVE  Count(LineEnding, a, b) = Count({"lf"}, a, b)
<1>1. \A q \in a..(b - 1) : At(q) \notin {"semicolon", "#", "|", "cr"}
  BY CountIsNumber
<1>2. \A q \in a..(b - 1) : At(q) \in LineEnding <=> At(q) \in {"lf"}
  BY <1>1 DEF LineEnding
<1>3. {q \in a..(b - 1) : At(q) \in LineEnding}
        = {q \in a..(b - 1) : At(q) \in {"lf"}}
  BY <1>2
<1> QED BY <1>3 DEF Count

LEMMA SkipWhitespaceSkips ==
  ASSUME IInv, SkipWhitespace
  PROVE  Skips /\ Reads /\ line' \in Nat \ {0}
<1> DEFINE stop == SkipAll(current, Whitespace)
           to == current'
           X == {"semicolon", "#", "|", "cr"}
<1>1. /\ Skipping /\ to = stop /\ line' = line + Count(LineEnding, current, to)
      /\ source' = source /\ token' = token /\ skipping' = skipping
      /\ At(current) \in Whitespace
  BY DEF SkipWhitespace
<1>2. current \in 1..End /\ current \in Nat /\ line \in Nat \ {0}
  BY <1>1, Here DEF Skipping, IInv
<1>3. stop \in current..End /\ At(stop) \notin Whitespace
  BY <1>2, Here, SkipAllStops, CharacterSets
<1>4. to \in Nat /\ to \in current..Past /\ ~(to > End) /\ current < to
  <2> HIDE DEF stop
  <2> QED BY <1>1, <1>2, <1>3, Here
<1>5. Skips
  BY <1>1, <1>4, SkippingTo
<1> HIDE DEF to
<1>6. Count(LineEnding, current, to) \in Nat /\ Count(X, current, to) \in Nat
  BY <1>2, <1>4, CountIsNumber
<1>7. Reads
  <2>1. CASE Count(X, current, to) = 0
    <3>1. Count(LineEnding, current, to) = Count({"lf"}, current, to)
      BY <1>2, <1>4, <2>1, LineEndingsAreLineFeeds
    <3> QED BY <1>1, <3>1 DEF Reads, to
  <2>2. CASE Count(X, current, to) # 0
    <3> HIDE DEF X
    <3>1. Count(X, current, to) > 0
      BY <1>6, <2>2
    <3> QED BY <3>1 DEF X, to, Reads, Unsure
  <2> QED BY <2>1, <2>2
<1>8. line' \in Nat \ {0}
  BY <1>1, <1>2, <1>6
<1> QED BY <1>5, <1>7, <1>8

LEMMA SkipLineCommentSkips ==
  ASSUME IInv, SkipLineComment
  PROVE  Skips /\ Reads /\ line' \in Nat \ {0}
<1> DEFINE stops == {q \in current..Len(source) : At(q) \in LineEnding}
           stop == FirstOf(stops)
           to == IF At(stop) = "lf" THEN stop + 1 ELSE stop
<1>1. /\ Skipping /\ current' = to /\ line' = line
      /\ source' = source /\ token' = token /\ skipping' = skipping
      /\ At(current) = "semicolon"
  BY DEF SkipLineComment
<1>2. /\ current \in 1..Len(source) /\ current \in Nat /\ line \in Nat \ {0}
      /\ Len(source) \in Nat /\ End = Len(source) + 1 /\ Past = Len(source) + 2
  BY <1>1, Here DEF IInv
<1>3. stops \subseteq 1..Len(source)
  BY <1>2
<1>4. CASE stops = {}
  <2>1. stop = Past
    BY <1>4 DEF FirstOf
  <2>2. At(Past) = "nul"
    BY <1>2, Here, AtPosition
  <2>3. to = Past
    BY <2>1, <2>2
  <2>4. IsLeftOpen(current)
    BY <1>1, <1>4 DEF IsLeftOpen
  <2>5. Past \in current..Past /\ Past \in (current + 1)..Past /\ current < Past
    BY <1>2
  <2> HIDE DEF to
  <2>6. Skips
    BY <1>1, <2>3, <2>4, <2>5, SkippingTo
  <2>7. Reads
    BY <1>1, <2>3, <2>5, ReadsUnsure
  <2> QED BY <1>1, <1>2, <2>6, <2>7
<1>5. CASE stops # {}
  <2>1. stop \in stops
    <3> HIDE DEF stops
    <3> QED BY <1>3, <1>5, Here, FirstOfStops
  <2>2. stop \in current..Len(source) /\ At(stop) \in LineEnding
    BY <2>1
  <2> HIDE DEF stop
  <2>3. stop # current
    BY <1>1, <2>2 DEF LineEnding
  <2>4. to \in (current + 1)..End
    BY <1>2, <2>2, <2>3
  <2> HIDE DEF to
  <2>5. /\ to \in current..Past /\ to \in (current + 1)..Past /\ ~(to > End)
        /\ current < to
    BY <1>2, <2>4
  <2>6. Skips
    BY <1>1, <2>5, SkippingTo
  <2>7. Reads
    BY <1>1, <2>5, ReadsUnsure
  <2> QED BY <1>1, <1>2, <2>6, <2>7
<1> QED BY <1>4, <1>5

LEMMA SkipNestedCommentSkips ==
  ASSUME IInv, SkipNestedComment
  PROVE  Skips /\ Reads /\ line' \in Nat \ {0}
<1> DEFINE to == NestedCommentEnd[current]
           c == Comment[current][0]
<1>1. /\ Skipping /\ current' = to /\ line' = line /\ AtStart(current)
      /\ source' = source /\ token' = token /\ skipping' = skipping
  BY DEF SkipNestedComment
<1>2. /\ current \in 1..Past /\ current \in Nat /\ line \in Nat \ {0}
      /\ End \in Nat /\ Past = End + 1 /\ current # Past
  BY <1>1, Here DEF IInv, Skipping
<1>3. to \in (current + 1)..Past /\ to \in current..Past /\ current < to
  <2>1. to \in current..Past /\ current < to
    BY <1>2, Here, NestedCommentEndsLater
  <2> HIDE DEF to
  <2> QED BY <1>2, <2>1
<1>4. to > End => IsLeftOpen(current)
  <2> SUFFICES ASSUME to > End PROVE IsLeftOpen(current)
    OBVIOUS
  <2>1. to <= c.end
    BY <1>1, <1>2, Here, NestedCommentEndsRight DEF EndsRight
  <2>2. c.end \in current..Past
    BY <1>2, Here, CommentEndsLater
  <2> HIDE DEF to, c
  <2>3. c.end = Past
    BY <1>2, <1>3, <2>1, <2>2
  <2> QED BY <1>1, <2>3 DEF IsLeftOpen, c
<1> HIDE DEF to
<1>5. Skips
  BY <1>1, <1>3, <1>4, SkippingTo
<1>6. At(current) \in {"semicolon", "#", "|", "cr"}
  BY <1>1 DEF AtStart
<1>7. Reads
  BY <1>1, <1>3, <1>6, ReadsUnsure
<1> QED BY <1>1, <1>2, <1>5, <1>7

LEMMA EndOfSpaceSkips ==
  ASSUME IInv, EndOfSpace
  PROVE  Skips /\ Reads /\ line' \in Nat \ {0}
<1>1. /\ current <= End /\ current' = current /\ line' = line /\ skipping
      /\ source' = source /\ token' = token /\ skipping' = FALSE
  BY DEF EndOfSpace, Skipping
<1>2. /\ current \in 1..Past /\ current \in Nat /\ line \in Nat \ {0}
      /\ End \in Nat /\ Past = End + 1
  BY Here DEF IInv
<1>3. current \in current..Past /\ ~(current > End)
  BY <1>1, <1>2
<1>4. Skips
  BY <1>1, <1>3 DEF Skips
<1>5. \A q \in current..(current' - 1) : At(q) # "lf"
  BY <1>1, <1>2
<1>6. Reads
  BY <1>1, <1>3, <1>5, ReadsNoLine
<1> QED BY <1>1, <1>2, <1>4, <1>6
-----------------------------------------------------------------------------
(* Every step keeps the invariant. *)

LEMMA SkipIntertokenSpaceSkips ==
  ASSUME IInv, SkipIntertokenSpace
  PROVE  Skips /\ Reads /\ line' \in Nat \ {0}
<1>1. CASE SkipWhitespace
  BY <1>1, SkipWhitespaceSkips
<1>2. CASE SkipLineComment
  BY <1>2, SkipLineCommentSkips
<1>3. CASE SkipNestedComment
  BY <1>3, SkipNestedCommentSkips
<1>4. CASE EndOfSpace
  BY <1>4, EndOfSpaceSkips
<1> QED BY <1>1, <1>2, <1>3, <1>4 DEF SkipIntertokenSpace

LEMMA ScanTokenTakes ==
  ASSUME IInv, ScanToken
  PROVE  Takes /\ Reads
<1>1. CASE EndOfFile
  BY <1>1, EndOfFileTakes
<1>2. CASE Number
  BY <1>2, NumberTakes
<1>3. CASE Identifier
  BY <1>3, IdentifierTakes
<1>4. CASE SignedIdentifier
  BY <1>4, SignedIdentifierTakes
<1>5. CASE Period
  BY <1>5, PeriodTakes
<1>6. CASE OneCharacter
  BY <1>6, OneCharacterTakes
<1>7. CASE Comma
  BY <1>7, CommaTakes
<1>8. CASE String
  BY <1>8, StringTakes
<1>9. CASE IdentifierInBars
  BY <1>9, IdentifierInBarsTakes
<1>10. CASE PoundSomething
  BY <1>10, PoundSomethingTakes
<1>11. CASE Unexpected
  BY <1>11, UnexpectedTakes
<1> QED BY <1>1, <1>2, <1>3, <1>4, <1>5, <1>6, <1>7, <1>8, <1>9, <1>10, <1>11
        DEF ScanToken

LEMMA ScanTokenLine ==
  ASSUME IInv, ScanToken
  PROVE  line' \in Nat \ {0}
<1>1. line \in Nat \ {0} /\ current \in Nat
  BY Here DEF IInv
<1>2. CASE String
  <2> DEFINE S == Character \ {"quotation"}
             stop == SkipAll(current + 1, S)
  <2>1. line' = line + Count({"lf"}, current, stop) /\ At(current) = "quotation"
    BY <1>2 DEF String, Scanning
  <2>2. current + 1 \in 1..End /\ End \in Nat
    BY <2>1, Here
  <2>3. stop \in (current + 1)..End
    <3>1. "nul" \notin S
      BY NulIsNoCharacter
    <3> HIDE DEF S
    <3> QED BY <2>2, <3>1, Here, SkipAllStops
  <2> HIDE DEF stop
  <2>4. stop \in Nat
    BY <1>1, <2>2, <2>3
  <2>5. Count({"lf"}, current, stop) \in Nat
    BY <1>1, <2>4, CountIsNumber
  <2> QED BY <1>1, <2>1, <2>5
<1>3. CASE ~String
  <2>1. line' = line
    BY <1>3 DEF ScanToken, EndOfFile, Number, Identifier, SignedIdentifier, Period,
                OneCharacter, Comma, IdentifierInBars, PoundSomething, Unexpected
  <2> QED BY <1>1, <2>1
<1> QED BY <1>2, <1>3

LEMMA SameSource ==
  ASSUME source' = source
  PROVE  /\ End' = End /\ Past' = Past /\ SourceOK' <=> SourceOK
         /\ Len(source)' = Len(source)
BY DEF End, Past, SourceOK

LEMMA SameNumber ==
  ASSUME source' = source, NumberOK,
         token' = token
  PROVE  NumberOK'
BY DEF NumberOK, SkipAll, At, End

LEMMA SkipsKeepIInv ==
  ASSUME IInv, Skips, line' \in Nat \ {0}
  PROVE  IInv'
<1>1. source' = source /\ token' = token
  BY DEF Skips
<1>2. NumberOK'
  BY <1>1, SameNumber DEF IInv
<1>3. BooleanOK'
  BY <1>1 DEF IInv, BooleanOK
<1>4. current \in Nat /\ End \in Nat /\ Past \in Nat
  BY Here
<1>5. End' = End /\ Past' = Past /\ SourceOK'
  BY <1>1, SameSource DEF IInv
<1>6. current' \in 1..Past /\ token.end <= current'
  BY <1>4 DEF Skips, IInv
<1>7. /\ token' \in [type : TokenType, start : 1..Past, end : 1..Past]
      /\ token'.type \notin {"none", "eof"} => token'.start < token'.end
  BY <1>1 DEF IInv
<1>8. TokenType' = TokenType
  BY DEF TokenType, Punctuation
<1> QED BY <1>1, <1>2, <1>3, <1>5, <1>6, <1>7, <1>8 DEF IInv, Skips

LEMMA TakesKeepsIInv ==
  ASSUME IInv, Takes, line' \in Nat \ {0}
  PROVE  IInv'
<1> DEFINE type == token'.type
           end == current'
<1>1. /\ source' = source /\ skipping' = TRUE
      /\ token' = [type |-> type, start |-> current, end |-> end]
  BY DEF Takes, Token
<1>2. Fits(type, end)
  BY DEF Takes
<1> HIDE DEF type, end
<1>3. current \in 1..Past /\ current \in Nat /\ Past \in Nat
  BY Here
<1>4. type \in TokenType /\ end \in 1..Past /\ end \in current..Past
  BY <1>2, <1>3 DEF Fits
<1>5. token'.type = type /\ token'.start = current /\ token'.end = end
  BY <1>1
<1>6. token' \in [type : TokenType, start : 1..Past, end : 1..Past]
  BY <1>1, <1>3, <1>4
<1>7. /\ token'.end <= current'
      /\ token'.type \notin {"none", "eof"} => token'.start < token'.end
  BY <1>2, <1>3, <1>4, <1>5 DEF Fits, end
<1>8. BooleanOK'
  BY <1>2, <1>5 DEF BooleanOK, Fits
<1>9. NumberOK'
  BY <1>1, <1>2, <1>5 DEF NumberOK, Fits, SkipAll, At, End
<1>10. End' = End /\ Past' = Past /\ SourceOK'
  BY <1>1, SameSource DEF IInv
<1>11. TokenType' = TokenType
  BY DEF TokenType, Punctuation
<1> QED BY <1>1, <1>4, <1>6, <1>7, <1>8, <1>9, <1>10, <1>11 DEF IInv, end

LEMMA InitOK ==
  ASSUME Init
  PROVE  IInv
<1>1. SourceOK
  BY ScannerAssumption DEF Init, SourceOK
<1>2. 1 \in 1..Past
  BY <1>1, Positions
<1>3. "none" \in TokenType
  BY DEF TokenType
<1> QED BY <1>1, <1>2, <1>3 DEF Init, IInv, NumberOK, BooleanOK

LEMMA NextOK ==
  ASSUME IInv, [Next]_vars
  PROVE  IInv'
<1>1. CASE SkipIntertokenSpace
  BY <1>1, SkipIntertokenSpaceSkips, SkipsKeepIInv
<1>2. CASE ScanToken
  BY <1>2, ScanTokenTakes, ScanTokenLine, TakesKeepsIInv
<1>3. CASE UNCHANGED vars
  BY <1>3 DEF vars, IInv, SourceOK, NumberOK, BooleanOK, TokenType, Punctuation,
              End, Past, SkipAll, At
<1> QED BY <1>1, <1>2, <1>3 DEF Next

(* The inductive invariant holds.                                          *)
THEOREM Invariant == Spec => []IInv
BY InitOK, NextOK, PTL DEF Spec

LEMMA StepMoves ==
  ASSUME IInv, Next
  PROVE  /\ source' = source /\ current' \in current..Past /\ Reads
         /\ current' > End => IsLeftOpen(current)
<1>1. CASE SkipIntertokenSpace
  BY <1>1, SkipIntertokenSpaceSkips DEF Skips
<1>2. CASE ScanToken
  BY <1>2, ScanTokenTakes DEF Takes, Token, Fits
<1> QED BY <1>1, <1>2 DEF Next

LEMMA StepAdvances ==
  ASSUME IInv, Next
  PROVE  \/ current < current'
         \/ (current = current' /\ skipping /\ ~skipping')
         \/ At(current) = "nul"
<1>1. CASE SkipIntertokenSpace
  BY <1>1, SkipIntertokenSpaceSkips DEF Skips
<1>2. CASE ScanToken
  BY <1>2, ScanTokenTakes DEF Takes, Fits
<1> QED BY <1>1, <1>2 DEF Next

LEMMA StepCountsLines ==
  ASSUME IInv, Next, LinesAreCounted
  PROVE  LinesAreCounted'
<1> DEFINE X == {"semicolon", "#", "|", "cr"}
           to == current'
           Signs(end) == \E q \in 1..end : /\ At(q) \in ExplicitSign
                                           /\ At(q + 1) = "."
<1>1. source' = source /\ to \in current..Past /\ Reads
  BY StepMoves
<1>2. current \in Nat /\ current >= 1 /\ to \in Nat /\ to >= current /\ line \in Nat
  BY <1>1, Here
<1>3. line = 1 + Count({"lf"}, 1, current) \/ Count(X, 1, current) > 0 \/ Signs(current)
  BY DEF LinesAreCounted
<1>4. \/ line' = line + Count({"lf"}, current, to)
      \/ Count(X, current, to) > 0
      \/ At(current) \in ExplicitSign /\ At(current + 1) = "."
  BY <1>1 DEF Reads, Unsure
<1>5. LinesAreCounted' <=> \/ line' = 1 + Count({"lf"}, 1, to)
                           \/ Count(X, 1, to) > 0
                           \/ Signs(to)
  BY <1>1 DEF LinesAreCounted, Count, At, ExplicitSign
<1> HIDE DEF to, X
<1>6. ASSUME NEW S
      PROVE  /\ Count(S, 1, to) = Count(S, 1, current) + Count(S, current, to)
             /\ Count(S, 1, current) \in Nat /\ Count(S, current, to) \in Nat
  <2>1. 1 \in Nat /\ 1 <= current /\ current <= to
    BY <1>2
  <2>2. Count(S, 1, to) = Count(S, 1, current) + Count(S, current, to)
    BY <1>2, <2>1, CountParts
  <2>3. Count(S, 1, current) \in Nat /\ Count(S, current, to) \in Nat
    BY <1>2, <2>1, CountIsNumber
  <2> QED BY <2>2, <2>3
<1>7. CASE Signs(current)
  <2>1. Signs(to)
    BY <1>2, <1>7
  <2> QED BY <1>5, <2>1
<1>8. CASE At(current) \in ExplicitSign /\ At(current + 1) = "."
  <2>1. current \in 1..to
    BY <1>2
  <2>2. Signs(to)
    BY <1>8, <2>1
  <2> QED BY <1>5, <2>2
<1> HIDE DEF Signs
<1>9. CASE Count(X, 1, current) > 0 \/ Count(X, current, to) > 0
  <2>1. Count(X, 1, to) > 0
    BY <1>6, <1>9
  <2> QED BY <1>5, <2>1
<1>10. CASE /\ line = 1 + Count({"lf"}, 1, current)
            /\ line' = line + Count({"lf"}, current, to)
  <2>1. line' = 1 + Count({"lf"}, 1, to)
    BY <1>6, <1>10
  <2> QED BY <1>5, <2>1
<1> QED BY <1>3, <1>4, <1>7, <1>8, <1>9, <1>10
-----------------------------------------------------------------------------
(* Whatever the source, the scanner's state is what its type says: it is   *)
(* never more than one character beyond the terminator, and a token that   *)
(* is not the last has some text.                                          *)
THEOREM TypeIsCorrect == Spec => []TypeOK
<1>1. IInv => TypeOK
  BY DEF IInv, TypeOK
<1> QED BY <1>1, Invariant, PTL

(* The line is the number of line feeds so far and one, unless a character *)
(* has been passed that makes the scanner miss some.                       *)
THEOREM LinesAreCountedAlways == Spec => []LinesAreCounted
<1>1. Init => LinesAreCounted
  <2> SUFFICES ASSUME Init PROVE LinesAreCounted
    OBVIOUS
  <2>1. 1 \in Nat /\ \A q \in 1..(1 - 1) : At(q) \notin {"lf"}
    OBVIOUS
  <2>2. Count({"lf"}, 1, 1) = 0
    BY <2>1, CountIsNumber
  <2> QED BY <2>2 DEF Init, LinesAreCounted
<1>2. IInv /\ LinesAreCounted /\ [Next]_vars => LinesAreCounted'
  <2>1. CASE Next
    BY <2>1, StepCountsLines
  <2>2. CASE UNCHANGED vars
    BY <2>2 DEF vars, LinesAreCounted, Count, At, ExplicitSign
  <2> QED BY <2>1, <2>2
<1> QED BY <1>1, <1>2, Invariant, PTL DEF Spec

(* The scanner goes beyond the source only from what is left open at its   *)
(* end.                                                                    *)
THEOREM SourceIsLeftOnlyFromWhatIsOpen == Spec => StaysInSource
<1>1. IInv /\ [Next]_vars => [current' > End => IsLeftOpen(current)]_vars
  BY StepMoves
<1> QED BY <1>1, Invariant, PTL DEF Spec, StaysInSource

(***************************************************************************)
(* No step before the terminator leaves the scanner where it is, whatever  *)
(* the source: it gets to the end in at most two steps for each character, *)
(* unless it stops in an escape of an identifier in bars.                  *)
(***************************************************************************)
THEOREM ScanningAdvances == Spec => EveryStepAdvances
<1>1. IInv /\ [Next]_vars
        => [\/ current < current'
            \/ (current = current' /\ skipping /\ ~skipping')
            \/ At(current) = "nul"]_vars
  BY StepAdvances
<1> QED BY <1>1, Invariant, PTL DEF Spec, EveryStepAdvances

(* No code is lost in a comment, and none of a comment is taken for code   *)
(* unless one inside it comes after another.                               *)
THEOREM CommentsEndRight == Spec => CommentsEnd
<1> DEFINE Right == LET comment == Comment[current][0] IN
                    /\ current' <= comment.end
                    /\ comment.isChain => current' = comment.end
<1>1. ASSUME IInv, SkipNestedComment PROVE Right
  <2>1. current' = NestedCommentEnd[current] /\ AtStart(current)
    BY <1>1 DEF SkipNestedComment
  <2>2. EndsRight(current)
    BY <1>1, <2>1, Here, NestedCommentEndsRight
  <2> QED BY <2>1, <2>2 DEF EndsRight
<1>2. IInv /\ [Next]_vars => [SkipNestedComment => Right]_vars
  BY <1>1
<1> QED BY <1>2, Invariant, PTL DEF Spec, CommentsEnd
-----------------------------------------------------------------------------
(* What the conversions make of the tokens. *)

(* strtod reads no less than it looks at.                                  *)
LEMMA MantissaEnds ==
  ASSUME SourceOK, NEW p \in 1..End, NEW S, "nul" \notin S
  PROVE  /\ MantissaEnd(p, S) \in p..End
         /\ At(SkipAll(p, S)) # "." => MantissaEnd(p, S) = SkipAll(p, S)
         /\ At(SkipAll(p, S)) = "." => MantissaEnd(p, S) > SkipAll(p, S)
<1> DEFINE whole == SkipAll(p, S)
<1>1. whole \in p..End
  BY SkipAllStops
<1>2. MantissaEnd(p, S) = IF At(whole) = "." THEN SkipAll(whole + 1, S) ELSE whole
  BY DEF MantissaEnd
<1> HIDE DEF whole
<1>3. /\ Len(source) \in Nat /\ End = Len(source) + 1
  BY Positions
<1>4. CASE At(whole) # "."
  BY <1>1, <1>2, <1>4 DEF whole
<1>5. CASE At(whole) = "."
  <2> DEFINE r == whole + 1
  <2>1. whole \in 1..Len(source)
    BY <1>5, AtPosition
  <2>2. r \in 1..End
    BY <1>3, <2>1
  <2> HIDE DEF r
  <2>3. SkipAll(r, S) \in r..End
    BY <2>2, SkipAllStops
  <2>4. SkipAll(whole + 1, S) \in (whole + 1)..End
    BY <2>3 DEF r
  <2> DEFINE m == MantissaEnd(p, S)
  <2>5. m \in (whole + 1)..End
    BY <1>2, <1>5, <2>4
  <2> HIDE DEF m
  <2>6. m \in p..End /\ m > whole
    BY <1>1, <1>3, <2>1, <2>5
  <2> QED BY <1>5, <2>6 DEF m, whole
<1> QED BY <1>4, <1>5

LEMMA ExponentEnds ==
  ASSUME SourceOK, NEW p \in 1..End, NEW letter
  PROVE  /\ ExponentEnd(p, letter) >= p /\ ExponentEnd(p, letter) \in Nat
         /\ ExponentEnd(p, letter) # p =>
              At(p) = letter /\ ExponentEnd(p, letter) > p
<1> DEFINE digits == IF At(p + 1) \in ExplicitSign THEN p + 2 ELSE p + 1
           e == ExponentEnd(p, letter)
<1>1. e = IF At(p) = letter /\ At(digits) \in Digit THEN SkipAll(digits, Digit) ELSE p
  BY DEF ExponentEnd
<1>2. /\ Len(source) \in Nat /\ End = Len(source) + 1 /\ p \in Nat
  BY Positions
<1>3. digits \in Nat /\ digits > p
  BY <1>2
<1> HIDE DEF digits, e
<1>4. CASE At(p) = letter /\ At(digits) \in Digit
  <2>1. digits \in 1..Len(source)
    BY <1>4, AtPosition, CharacterSets
  <2>2. digits \in 1..End
    BY <1>2, <2>1
  <2>3. SkipAll(digits, Digit) \in digits..End
    BY <2>2, SkipAllStops, CharacterSets
  <2>4. e \in digits..End
    BY <1>1, <1>4, <2>3
  <2>5. e \in Nat /\ e > p
    BY <1>2, <1>3, <2>4
  <2> QED BY <1>2, <1>4, <2>5 DEF e
<1>5. CASE ~(At(p) = letter /\ At(digits) \in Digit)
  BY <1>1, <1>2, <1>5 DEF e
<1> QED BY <1>4, <1>5

LEMMA NumbersConvert ==
  ASSUME IInv
  PROVE  NumbersAreTokens
<1> SUFFICES ASSUME token.type = "number" PROVE NumbersAreTokens
  BY DEF NumbersAreTokens
<1> DEFINE s == token.start
           e == token.end
           stop == StrtodEnd(s)
<1>1. /\ s \in 1..Len(source) /\ At(s) \in Digit /\ e = SkipAll(s + 1, Digit)
      /\ s + 1 \in 1..End /\ s \in 1..End /\ SourceOK
      /\ Len(source) \in Nat /\ End = Len(source) + 1
  BY Here DEF IInv, NumberOK
<1>2. e \in (s + 1)..End /\ At(e) \notin Digit
        /\ \A q \in (s + 1)..(e - 1) : At(q) \in Digit
  <2> DEFINE r == s + 1
  <2>1. r \in 1..End /\ e = SkipAll(r, Digit)
    BY <1>1
  <2> HIDE DEF r, e, s
  <2>2. e \in r..End /\ At(e) \notin Digit /\ \A q \in r..(e - 1) : At(q) \in Digit
    BY <1>1, <2>1, SkipAllStops, CharacterSets
  <2> QED BY <2>2 DEF r
<1> HIDE DEF s, e, stop
<1>3. e = SkipAll(s, Digit)
  BY <1>1, SkipAllNext, CharacterSets
<1>4. e \in Nat /\ s \in Nat
  BY <1>1, <1>2
<1>5. CASE IsHexadecimal(s)
  <2> DEFINE r == s + 2
             m == MantissaEnd(r, HexDigit)
  <2>1. At(s + 1) = "x"
    BY <1>5 DEF IsHexadecimal
  <2>2. s + 1 \in 1..Len(source) /\ r \in 1..End
    <3>1. s + 1 \in 1..Len(source)
      BY <1>1, <2>1, AtPosition
    <3> QED BY <1>1, <3>1
  <2>3. e = s + 1
    <3>1. "x" \notin Digit
      BY DEF Digit
    <3>2. e # s + 1 => s + 1 \in (s + 1)..(e - 1)
      BY <1>1, <1>2, <1>4
    <3> QED BY <1>2, <2>1, <3>1, <3>2
  <2>4. stop = ExponentEnd(m, "p")
    BY <1>5 DEF StrtodEnd, stop
  <2> HIDE DEF r
  <2>5. m \in r..End
    BY <1>1, <2>2, MantissaEnds, CharacterSets
  <2> HIDE DEF m
  <2>6. m \in 1..End /\ m \in Nat /\ m >= s + 2
    BY <1>1, <2>2, <2>5 DEF r
  <2>7. stop \in Nat /\ stop >= m
    BY <1>1, <2>4, <2>6, ExponentEnds
  <2>8. stop > e
    BY <1>4, <2>3, <2>6, <2>7
  <2>9. At(e) \in {".", "e", "x"}
    BY <2>1, <2>3
  <2> QED BY <2>8, <2>9 DEF NumbersAreTokens, stop, s, e
<1>6. CASE ~IsHexadecimal(s)
  <2> DEFINE m == MantissaEnd(s, Digit)
  <2>1. stop = ExponentEnd(m, "e")
    BY <1>6 DEF StrtodEnd, stop
  <2>2. /\ m \in s..End
        /\ At(e) # "." => m = e
        /\ At(e) = "." => m > e
    BY <1>1, <1>3, MantissaEnds, CharacterSets
  <2> HIDE DEF m
  <2>3. m \in 1..End /\ m \in Nat
    BY <1>1, <2>2
  <2>4. /\ stop >= m /\ stop \in Nat
        /\ stop # m => At(m) = "e" /\ stop > m
    BY <1>1, <2>1, <2>3, ExponentEnds
  <2>5. CASE At(e) = "."
    <3>1. stop > e
      BY <1>4, <2>2, <2>3, <2>4, <2>5
    <3>2. At(e) \in {".", "e", "x"}
      BY <2>5
    <3> QED BY <3>1, <3>2 DEF NumbersAreTokens, stop, s, e
  <2>6. CASE At(e) # "." /\ stop # m
    <3>1. stop > e /\ At(e) = "e"
      BY <2>2, <2>4, <2>6
    <3>2. At(e) \in {".", "e", "x"}
      BY <3>1
    <3> QED BY <3>1, <3>2 DEF NumbersAreTokens, stop, s, e
  <2>7. CASE At(e) # "." /\ stop = m
    <3>1. stop = e
      BY <2>2, <2>7
    <3> QED BY <3>1 DEF NumbersAreTokens, stop, s, e
  <2> QED BY <2>5, <2>6, <2>7
<1> QED BY <1>5, <1>6

(* strtod reads the digits of a number token, and more than those only     *)
(* where a fraction, an exponent or an x comes after them.                 *)
THEOREM NumbersAreAlwaysTokens == Spec => []NumbersAreTokens
<1>1. IInv => NumbersAreTokens
  BY NumbersConvert
<1> QED BY <1>1, Invariant, PTL
=============================================================================
