---------------------------- MODULE ParserProofs ----------------------------
(***************************************************************************)
(* Proofs about Parser, for lines and nesting of any length: no error is   *)
(* swallowed by panic mode, a span is only ever empty where a vector ends, *)
(* the AST of a line without errors is the line, and a line of lists and   *)
(* data has an error just when it is not well formed.                      *)
(***************************************************************************)
EXTENDS Parser, FiniteSetTheorems, SequenceTheorems, TLAPS

Text == Seq(Token \cup {"null"})
Opens == {"#(", "#u8("}

(* What has been read of the line, and what was reported about it.         *)
InputOK ==
  /\ input \in Seq(Token) \ {<<>>} /\ Len(input) <= MaxTokens + 1
  /\ current # "eof" => Len(input) <= MaxTokens
  /\ skipped \in BOOLEAN
  /\ errors \in [had : BOOLEAN, panic : BOOLEAN]
  /\ PanicWasReported

(* A call began before the current token, and a vector's at the one that   *)
(* opens it.                                                               *)
Fits(c, line) ==
  /\ c \in Calls
  /\ c.start \in 1..(Len(line) - 1)
  /\ Len(c.text) <= MaxText
  /\ c.parses \in {"vector", "bytes"} => line[c.start] \in Opens

(* There are no more of them than tokens that have been passed.            *)
CallsOK ==
  /\ calls \in Seq(Calls) /\ Len(calls) < Len(input)
  /\ \A i \in 1..Len(calls) : Fits(calls[i], input)

(* What the functions are at, and which of them may be.                    *)
ControlOK ==
  /\ todo \in {"idle", "next", "expression", "synchronize", "opened", "elements",
               "close", "return", "aborted"}
  /\ ast \in Text /\ Len(ast) <= MaxText
  /\ result \in Text /\ Len(result) <= MaxText
  /\ todo \in {"opened", "elements", "close"} => calls # <<>>
  /\ todo \in {"idle", "next"} => calls = <<>>
  /\ todo = "opened" => top.parses = "list"
  /\ todo = "elements" => top.parses \in {"vector", "bytes"}
  /\ todo = "close" => top.parses # "quote" /\ current \in {")", "eof"}
  /\ todo = "idle" => current = "eof"
  /\ OnlyVectorsAbort

IInv == InputOK /\ CallsOK /\ ControlOK
-----------------------------------------------------------------------------
(* The line only grows.                                                    *)
Grows ==
  /\ Len(input) <= Len(input')
  /\ \A i \in 1..Len(input) : input'[i] = input[i]

Errors == {e \in [had : BOOLEAN, panic : BOOLEAN] : e.panic => e.had}

(* Reporting an error, and calming down, keep panic mode behind a report.  *)
LEMMA ErrorsStay ==
  ASSUME NEW e \in Errors
  PROVE  /\ ErrorAt(e) \in Errors /\ ErrorAt(e).had = TRUE
         /\ Calmed(e) \in Errors /\ Calmed(e).had = e.had
<1>1. e.had \in BOOLEAN /\ e.panic \in BOOLEAN /\ (e.panic => e.had)
  BY DEF Errors
<1>2. ErrorAt(e).had = TRUE /\ ErrorAt(e).panic = TRUE
  BY <1>1 DEF ErrorAt
<1>3. ErrorAt(e) \in [had : BOOLEAN, panic : BOOLEAN]
  BY <1>1 DEF ErrorAt
<1>4. /\ Calmed(e) \in [had : BOOLEAN, panic : BOOLEAN]
      /\ Calmed(e).had = e.had /\ Calmed(e).panic = FALSE
  BY <1>1 DEF Calmed, Errors
<1> QED BY <1>2, <1>3, <1>4 DEF Errors

(* parserAdvance adds the next token that is not an error.                 *)
LEMMA AdvanceFacts ==
  ASSUME InputOK, NEW e \in Errors, Advance(e), current # "eof"
  PROVE  /\ InputOK' /\ Grows
         /\ Len(input') = Len(input) + 1
         /\ current' \in Token \ {"error"}
         /\ e.had = TRUE => errors'.had = TRUE
         /\ errors'.had = FALSE => skipped' = skipped
         /\ skipped = TRUE => skipped' = TRUE
         /\ errors'.had = TRUE /\ e.had = FALSE => skipped' = TRUE
<1>1. PICK t \in Token \ {"error"}, bad \in BOOLEAN :
        /\ t # "eof" => Len(input) < MaxTokens
        /\ input' = Append(input, t)
        /\ skipped' = (skipped \/ bad)
        /\ errors' = IF bad THEN ErrorAt(e) ELSE e
  BY ParserAssumption DEF Advance, NextToken, InputOK
<1>2. /\ input' \in Seq(Token) \ {<<>>} /\ Len(input') = Len(input) + 1
      /\ current' = t /\ Grows
  BY <1>1 DEF InputOK, current, Grows
<1>3. errors' \in Errors /\ (bad => errors'.had = TRUE) /\ (~bad => errors' = e)
  BY <1>1, ErrorsStay
<1>4. /\ Len(input') <= MaxTokens + 1
      /\ current' # "eof" => Len(input') <= MaxTokens
  BY <1>1, <1>2, ParserAssumption DEF InputOK
<1>5. skipped' \in BOOLEAN
  BY <1>1 DEF InputOK
<1>6. errors' \in [had : BOOLEAN, panic : BOOLEAN] /\ PanicWasReported'
  BY <1>3 DEF Errors, PanicWasReported
<1>7. InputOK'
  BY <1>2, <1>4, <1>5, <1>6 DEF InputOK
<1>8. e.had = TRUE => errors'.had = TRUE
  BY <1>3
<1>9. /\ errors'.had = FALSE => skipped' = skipped
      /\ skipped = TRUE => skipped' = TRUE
      /\ errors'.had = TRUE /\ e.had = FALSE => skipped' = TRUE
  <2>1. CASE bad = TRUE
    <3>1. skipped' = TRUE /\ errors'.had = TRUE
      BY <1>1, <1>3, <2>1
    <3> QED BY <3>1
  <2>2. CASE bad = FALSE
    <3>1. errors' = e
      BY <1>3, <2>2
    <3>2. skipped' = skipped
      BY <1>1, <2>2 DEF InputOK
    <3> QED BY <3>1, <3>2
  <2> QED BY <2>1, <2>2
<1> QED BY <1>1, <1>2, <1>6, <1>7, <1>8, <1>9

(* What is reported so far.                                                *)
LEMMA ErrorsFacts ==
  ASSUME InputOK
  PROVE  /\ errors \in Errors /\ ErrorAt(errors) \in Errors
         /\ Calmed(errors) \in Errors /\ Calmed(ErrorAt(errors)) \in Errors
         /\ Calmed(errors).had = errors.had
         /\ Calmed(ErrorAt(errors)).had = TRUE /\ ErrorAt(errors).had = TRUE
         /\ errors.had \in BOOLEAN
<1>1. errors \in Errors /\ errors.had \in BOOLEAN
  BY DEF InputOK, Errors, PanicWasReported
<1> QED BY <1>1, ErrorsStay

(* parserAdvance while panic mode is on, which ends after it.              *)
LEMMA AdvanceCalmedFacts ==
  ASSUME InputOK, NEW bad \in BOOLEAN, NextToken(bad), current # "eof",
         errors' = Calmed(ErrorAt(errors))
  PROVE  /\ InputOK' /\ Grows
         /\ Len(input') = Len(input) + 1
         /\ errors'.had = TRUE
         /\ skipped = TRUE => skipped' = TRUE
<1>1. PICK t \in Token \ {"error"} :
        /\ t # "eof" => Len(input) < MaxTokens
        /\ input' = Append(input, t)
        /\ skipped' = (skipped \/ bad)
  BY ParserAssumption DEF NextToken, InputOK
<1>2. /\ input' \in Seq(Token) \ {<<>>} /\ Len(input') = Len(input) + 1
      /\ current' = t /\ Grows
  BY <1>1 DEF InputOK, current, Grows
<1>3. errors' \in Errors /\ errors'.had = TRUE
  BY ErrorsFacts
<1>4. /\ Len(input') <= MaxTokens + 1
      /\ current' # "eof" => Len(input') <= MaxTokens
  BY <1>1, <1>2, ParserAssumption DEF InputOK
<1>5. skipped' \in BOOLEAN /\ (skipped = TRUE => skipped' = TRUE)
  BY <1>1 DEF InputOK
<1>6. errors' \in [had : BOOLEAN, panic : BOOLEAN] /\ PanicWasReported'
  BY <1>3 DEF Errors, PanicWasReported
<1>7. InputOK'
  BY <1>2, <1>4, <1>5, <1>6 DEF InputOK
<1> QED BY <1>2, <1>3, <1>5, <1>7

(* Nothing is read.                                                        *)
LEMMA StayFacts ==
  ASSUME InputOK, NEW e \in Errors, Stay(e)
  PROVE  /\ InputOK' /\ Grows
         /\ input' = input /\ current' = current
         /\ errors' = e /\ skipped' = skipped
<1>1. input' = input /\ errors' = e /\ skipped' = skipped
  BY DEF Stay
<1>2. current' = current
  BY <1>1 DEF current
<1>3. errors' \in [had : BOOLEAN, panic : BOOLEAN] /\ PanicWasReported'
  BY <1>1 DEF Errors, PanicWasReported
<1> QED BY <1>1, <1>2, <1>3 DEF InputOK, Grows

(* consume reads the token it is for, and otherwise reports an error.      *)
LEMMA ConsumeFacts ==
  ASSUME InputOK, Consume(")"), current \in {")", "eof"}
  PROVE  /\ InputOK' /\ Grows
         /\ errors.had = TRUE => errors'.had = TRUE
         /\ current = "eof" => errors'.had = TRUE /\ input' = input
         /\ current = ")" => Len(input') = Len(input) + 1
         /\ errors'.had = FALSE => skipped' = skipped
         /\ skipped = TRUE => skipped' = TRUE
         /\ errors'.had = TRUE /\ errors.had = FALSE =>
              skipped' = TRUE \/ current = "eof"
<1>1. errors \in Errors
  BY DEF InputOK, Errors, PanicWasReported
<1>2. CASE current = ")"
  <2>1. Advance(errors)
    BY <1>2 DEF Consume
  <2> QED BY <1>1, <1>2, <2>1, AdvanceFacts
<1>3. CASE current = "eof"
  <2>1. Stay(ErrorAt(errors))
    BY <1>3 DEF Consume
  <2>2. ErrorAt(errors) \in Errors /\ ErrorAt(errors).had = TRUE
    BY <1>1, ErrorsStay
  <2>3. /\ InputOK' /\ Grows /\ errors'.had = TRUE
        /\ input' = input /\ skipped' = skipped
    BY <2>1, <2>2, StayFacts
  <2> QED BY <1>3, <2>3
<1> QED BY <1>2, <1>3

(* Texts stay within the bound.                                            *)
LEMMA ExtendFacts ==
  ASSUME NEW text \in Text, NEW more \in Text, Len(text) <= MaxText
  PROVE  Extend(text, more) \in Text /\ Len(Extend(text, more)) <= MaxText
<1>1. /\ Len(text) \in Nat /\ Len(more) \in Nat /\ text \o more \in Text
      /\ Len(text \o more) = Len(text) + Len(more) /\ MaxText \in Nat
  BY ConcatProperties, ParserAssumption DEF Text
<1>2. CASE Len(text) + Len(more) > MaxText
  BY <1>2 DEF Extend
<1>3. CASE ~(Len(text) + Len(more) > MaxText)
  <2>1. Extend(text, more) = text \o more
    BY <1>3 DEF Extend
  <2> QED BY <1>1, <1>3, <2>1
<1> QED BY <1>2, <1>3

(* What a call knows of its start and its text.                            *)
LEMMA CallFacts ==
  ASSUME NEW c, NEW line, Fits(c, line)
  PROVE  /\ c.text \in Text /\ Len(c.text) <= MaxText
         /\ c.start \in 1..(Len(line) - 1)
         /\ c.parses \in {"list", "quote", "vector", "bytes"}
<1>1. c \in Calls
  BY DEF Fits
<1>2. c.parses \in {"list", "quote", "vector", "bytes"} /\ c.text \in Text
  BY <1>1 DEF Calls, Text
<1> QED BY <1>2 DEF Fits

(* A waiting call is as good for a longer line.                            *)
LEMMA FitsLonger ==
  ASSUME InputOK, InputOK', Grows, NEW c, Fits(c, input)
  PROVE  Fits(c, input')
<1>1. Len(input) \in Nat /\ Len(input') \in Nat /\ Len(input) <= Len(input')
  BY DEF InputOK, Grows
<1>2. c.start \in 1..(Len(input) - 1)
  BY DEF Fits
<1>3. c.start \in 1..(Len(input') - 1) /\ input'[c.start] = input[c.start]
  BY <1>1, <1>2 DEF Grows
<1> QED BY <1>3 DEF Fits

(* Calls that are all old ones, or fit the line as it is now.              *)
LEMMA CallsStay ==
  ASSUME InputOK, InputOK', CallsOK, Grows, NEW n \in 0..Len(calls),
         calls' \in Seq(Calls),
         Len(calls') = n \/ (Len(calls') = n + 1 /\ Fits(calls'[n + 1], input')),
         Len(calls') < Len(input'),
         \A i \in 1..n : calls'[i] = calls[i]
  PROVE  CallsOK'
<1>1. Len(calls) \in Nat
  BY DEF CallsOK
<1>2. ASSUME NEW i \in 1..Len(calls') PROVE Fits(calls'[i], input')
  <2>1. CASE i \in 1..n
    <3>1. Fits(calls[i], input) /\ calls'[i] = calls[i]
      BY <1>1, <2>1 DEF CallsOK
    <3> QED BY <3>1, FitsLonger
  <2>2. CASE i \notin 1..n
    <3>1. i = n + 1 /\ Len(calls') = n + 1
      BY <1>1, <2>2
    <3> QED BY <3>1
  <2> QED BY <2>1, <2>2
<1> QED BY <1>2 DEF CallsOK

(* Calls that stay as they are stay good while the line grows. *)
LEMMA CallsKept ==
  ASSUME InputOK, InputOK', CallsOK, Grows, calls' = calls
  PROVE  CallsOK'
<1>1. calls \in Seq(Calls) /\ Len(calls) \in Nat /\ Len(calls) < Len(input)
  BY DEF CallsOK
<1>2. Len(input) \in Nat /\ Len(input') \in Nat /\ Len(input) <= Len(input')
  BY DEF InputOK, Grows
<1> QED BY <1>1, <1>2, CallsStay

(* A call that begins at the current token.                                *)
LEMMA CallsPushed ==
  ASSUME InputOK, InputOK', CallsOK, Grows, Len(input') = Len(input) + 1,
         NEW what \in {"list", "quote", "vector", "bytes"},
         Push(what, Len(input)),
         what \in {"vector", "bytes"} => current \in Opens
  PROVE  /\ CallsOK' /\ Len(calls') = Len(calls) + 1
         /\ \A i \in 1..Len(calls) : calls'[i] = calls[i]
         /\ top' = [parses |-> what, start |-> Len(input),
                    text |-> <<current>>]
         /\ calls' # <<>>
<1> DEFINE c == [parses |-> what, start |-> Len(input), text |-> <<current>>]
<1>1. /\ Len(input) \in Nat \ {0} /\ current \in Token
      /\ input[Len(input)] = current
  BY DEF InputOK, current
<1>2. <<current>> \in Text /\ Len(<<current>>) = 1 /\ 1 <= MaxText
  BY <1>1, ParserAssumption DEF Text
<1>3. /\ c \in Calls /\ c.start = Len(input) /\ c.text = <<current>>
      /\ c.parses = what
  BY <1>1, <1>2 DEF Calls, Text
<1>4. calls' = Append(calls, c) /\ calls \in Seq(Calls)
  BY DEF Push, CallsOK
<1> HIDE DEF c
<1>5. /\ calls' \in Seq(Calls) /\ Len(calls') = Len(calls) + 1
      /\ \A i \in 1..Len(calls) : calls'[i] = calls[i]
      /\ calls'[Len(calls) + 1] = c /\ Len(calls) \in Nat
  BY <1>3, <1>4
<1>6. Len(calls') < Len(input')
  BY <1>1, <1>5 DEF CallsOK
<1>7. Fits(c, input')
  <2>1. input'[Len(input)] = current
    BY <1>1 DEF Grows
  <2>2. c.start \in 1..(Len(input') - 1) /\ Len(c.text) <= MaxText
    BY <1>1, <1>2, <1>3
  <2> QED BY <1>3, <2>1, <2>2 DEF Fits
<1>8. CallsOK'
  BY <1>5, <1>6, <1>7, CallsStay
<1>9. top' = c /\ calls' # <<>>
  BY <1>3, <1>5 DEF top
<1> QED BY <1>5, <1>8, <1>9 DEF c

(* A call that returns.                                                    *)
LEMMA CallsPopped ==
  ASSUME InputOK, InputOK', CallsOK, Grows, calls # <<>>, Pop
  PROVE  /\ CallsOK' /\ Len(calls') = Len(calls) - 1
         /\ \A i \in 1..Len(calls') : calls'[i] = calls[i]
<1>1. /\ calls \in Seq(Calls) /\ Len(calls) \in Nat \ {0}
      /\ Len(calls) < Len(input)
  BY DEF CallsOK
<1>2. Len(input) \in Nat /\ Len(input') \in Nat /\ Len(input) <= Len(input')
  BY DEF InputOK, Grows
<1>3. \A i \in 1..(Len(calls) - 1) : calls[i] \in Calls
  BY <1>1
<1>4. /\ calls' \in Seq(Calls) /\ Len(calls') = Len(calls) - 1
      /\ \A i \in 1..(Len(calls) - 1) : calls'[i] = calls[i]
  <2> DEFINE n == Len(calls) - 1
  <2>1. n \in Int /\ 1 \in Int /\ calls' = SubSeq(calls, 1, n) /\ n >= 0
    BY <1>1 DEF Pop
  <2>2. \A i \in 1..n : calls[i] \in Calls
    BY <1>3
  <2> HIDE DEF n
  <2>3. /\ SubSeq(calls, 1, n) \in Seq(Calls)
        /\ Len(SubSeq(calls, 1, n)) = IF 1 <= n THEN n - 1 + 1 ELSE 0
        /\ \A i \in 1..(n - 1 + 1) : SubSeq(calls, 1, n)[i] = calls[1 + i - 1]
    BY <2>1, <2>2, SubSeqProperties
  <2>4. Len(calls') = n /\ \A i \in 1..n : calls'[i] = calls[i]
    BY <2>1, <2>3
  <2> QED BY <2>1, <2>3, <2>4 DEF n
<1>5. Len(calls) - 1 \in 0..Len(calls) /\ Len(calls') < Len(input')
  BY <1>1, <1>2, <1>4
<1>6. CallsOK'
  BY <1>4, <1>5, CallsStay
<1> QED BY <1>4, <1>6

(* A call whose text gets longer.                                          *)
LEMMA CallsExtended ==
  ASSUME InputOK, InputOK', CallsOK, Grows, calls # <<>>, NEW more \in Text,
         calls' = [calls EXCEPT ![Len(calls)].text = Extend(@, more)]
  PROVE  /\ CallsOK' /\ Len(calls') = Len(calls)
         /\ \A i \in 1..(Len(calls) - 1) : calls'[i] = calls[i]
         /\ top'.text = Extend(top.text, more)
         /\ top'.parses = top.parses /\ top'.start = top.start
         /\ calls' # <<>>
<1>1. /\ calls \in Seq(Calls) /\ Len(calls) \in Nat \ {0}
      /\ Len(calls) < Len(input)
  BY DEF CallsOK
<1>2. /\ top = calls[Len(calls)] /\ top \in Calls /\ Fits(top, input)
  BY <1>1 DEF top, CallsOK
<1> DEFINE text == Extend(top.text, more)
           c == [top EXCEPT !.text = text]
<1>3. text \in Text /\ Len(text) <= MaxText
  BY <1>2, CallFacts, ExtendFacts
<1>4. calls' = [calls EXCEPT ![Len(calls)] = c]
  BY <1>2
<1> HIDE DEF text
<1>5. /\ c \in Calls /\ c.start = top.start /\ c.parses = top.parses
      /\ c.text = text
  BY <1>2, <1>3 DEF Calls, Text
<1> HIDE DEF c
<1>6. /\ calls' \in Seq(Calls) /\ Len(calls') = Len(calls)
      /\ \A i \in 1..Len(calls) :
            calls'[i] = IF i = Len(calls) THEN c ELSE calls[i]
  BY <1>1, <1>4, <1>5, ExceptSeq
<1>7. /\ \A i \in 1..(Len(calls) - 1) : calls'[i] = calls[i]
      /\ calls'[Len(calls)] = c
  BY <1>1, <1>6
<1>8. Fits(c, input')
  <2>1. Fits(c, input)
    BY <1>2, <1>3, <1>5 DEF Fits
  <2> QED BY <2>1, FitsLonger
<1>9. Len(calls') < Len(input')
  <2>1. Len(input) \in Nat /\ Len(input') \in Nat
    BY DEF InputOK
  <2> QED BY <1>1, <1>6, <2>1 DEF Grows
<1>10. CallsOK'
  <2>1. Len(calls) - 1 \in 0..Len(calls)
    BY <1>1
  <2>2. Len(calls') = (Len(calls) - 1) + 1 /\ (Len(calls) - 1) + 1 = Len(calls)
    BY <1>1, <1>6
  <2>3. Fits(calls'[(Len(calls) - 1) + 1], input')
    BY <1>7, <1>8, <2>2
  <2> QED BY <1>6, <1>7, <1>9, <2>1, <2>2, <2>3, CallsStay
<1>11. top' = c /\ calls' # <<>>
  BY <1>1, <1>6, <1>7 DEF top
<1> QED BY <1>5, <1>6, <1>7, <1>10, <1>11 DEF text

-----------------------------------------------------------------------------
(* The call that the parser is in.                                         *)
LEMMA TopFacts ==
  ASSUME InputOK, CallsOK, calls # <<>>
  PROVE  /\ Fits(top, input) /\ Len(calls) \in Nat \ {0}
         /\ top.text \in Text /\ Len(top.text) <= MaxText
         /\ top.start \in 1..(Len(input) - 1)
         /\ top.parses \in {"list", "quote", "vector", "bytes"}
<1>1. Len(calls) \in Nat \ {0} /\ Fits(top, input)
  BY DEF CallsOK, top
<1> QED BY <1>1, CallFacts

(* The texts of single tokens.                                             *)
LEMMA Texts ==
  ASSUME InputOK
  PROVE  /\ <<>> \in Text /\ null \in Text /\ <<current>> \in Text
         /\ <<"(", ")">> \in Text /\ <<")">> \in Text /\ <<"number">> \in Text
         /\ Len(null) = 1 /\ Len(<<current>>) = 1 /\ Len(<<"(", ")">>) = 2
         /\ Len(<<>>) = 0 /\ 2 <= MaxText /\ MaxText \in Nat
         /\ current \in Token
<1>1. current \in Token
  BY DEF InputOK, current
<1>2. 2 <= MaxText /\ MaxText \in Nat
  BY ParserAssumption
<1>3. "(" \in Token /\ ")" \in Token /\ "number" \in Token
  BY ParserAssumption
<1> QED BY <1>1, <1>2, <1>3 DEF Text, null

(* A syntax object is made, or the assertion fails.                        *)
LEMMA MakeSyntaxFacts ==
  ASSUME NEW start, NEW text, MakeSyntax(start, text),
         text \in Text, Len(text) <= MaxText,
         result \in Text, Len(result) <= MaxText
  PROVE  /\ todo' \in {"return", "aborted"}
         /\ result' \in Text /\ Len(result') <= MaxText
         /\ Len(input') > start => todo' = "return" /\ result' = text
         /\ ~(Len(input') > start) => todo' = "aborted"
BY DEF MakeSyntax, Return
-----------------------------------------------------------------------------
(* A function returns, or goes on with an expression.                      *)
LEMMA ControlReturned ==
  ASSUME todo' \in {"return", "expression", "synchronize"},
         ast' \in Text, Len(ast') <= MaxText,
         result' \in Text, Len(result') <= MaxText
  PROVE  ControlOK'
BY DEF ControlOK, OnlyVectorsAbort

(* A line is entered and its first token fetched. *)
LEMMA InterpretStep == ASSUME IInv, Interpret PROVE IInv'
<1>1. PICK t \in Token : input' = <<t>>
  BY DEF Interpret
<1>2. /\ input' \in Seq(Token) \ {<<>>} /\ Len(input') = 1
      /\ 1 <= MaxTokens /\ 0 <= MaxText
  BY <1>1, ParserAssumption
<1>3. InputOK'
  <2>1. /\ skipped' = FALSE /\ errors' = [had |-> FALSE, panic |-> FALSE]
        /\ MaxTokens \in Nat
    BY ParserAssumption DEF Interpret
  <2>2. PanicWasReported' /\ errors' \in [had : BOOLEAN, panic : BOOLEAN]
    BY <2>1 DEF PanicWasReported
  <2>3. /\ Len(input') <= MaxTokens + 1 /\ Len(input') <= MaxTokens
    BY <1>2, <2>1
  <2>4. skipped' \in BOOLEAN
    BY <2>1
  <2> QED BY <1>2, <2>2, <2>3, <2>4 DEF InputOK
<1>4. calls' = <<>> /\ <<>> \in Seq(Calls) /\ Len(<<>>) = 0 /\ <<>> \in Text
  BY DEF Interpret, Text
<1>5. CallsOK'
  BY <1>2, <1>4 DEF CallsOK
<1>6. ControlOK'
  BY <1>2, <1>4 DEF ControlOK, Interpret, OnlyVectorsAbort
<1> QED BY <1>3, <1>5, <1>6 DEF IInv

(* parse goes on to the next expression, or ends. *)
LEMMA NextExpressionStep == ASSUME IInv, NextExpression PROVE IInv'
<1>1. /\ UNCHANGED <<input, skipped, errors, ast, calls, result>>
      /\ todo' = IF current = "eof" THEN "idle" ELSE "expression"
      /\ todo = "next"
  BY DEF NextExpression
<1>2. current' = current
  BY <1>1 DEF current
<1>3. InputOK' /\ CallsOK'
  BY <1>1, <1>2 DEF IInv, InputOK, CallsOK, PanicWasReported
<1>4. ControlOK'
  BY <1>1, <1>2 DEF IInv, ControlOK, OnlyVectorsAbort
<1> QED BY <1>3, <1>4 DEF IInv

(* What parseExpression returned is appended to the AST. *)
LEMMA AppendToASTStep == ASSUME IInv, AppendToAST PROVE IInv'
<1>1. /\ UNCHANGED <<input, skipped, errors, calls>> /\ calls = <<>>
      /\ todo' = "next" /\ ast' = Extend(ast, result) /\ result' = <<>>
  BY DEF AppendToAST
<1>2. current' = current
  BY <1>1 DEF current
<1>3. InputOK' /\ CallsOK'
  BY <1>1, <1>2 DEF IInv, InputOK, CallsOK, PanicWasReported
<1>4. ast' \in Text /\ Len(ast') <= MaxText
  BY <1>1, ExtendFacts DEF IInv, ControlOK
<1>5. result' \in Text /\ Len(result') <= MaxText
  BY <1>1, Texts DEF IInv
<1>6. ControlOK'
  BY <1>1, <1>4, <1>5 DEF ControlOK, OnlyVectorsAbort
<1> QED BY <1>3, <1>6 DEF IInv

(* A token that is an expression by itself. *)
LEMMA ParseSimpleStep == ASSUME IInv, ParseSimple PROVE IInv'
<1>1. /\ Advance(errors) /\ current # "eof" /\ ast' = ast /\ calls' = calls
      /\ todo' = "return" /\ result' = <<current>>
  BY DEF ParseSimple, Expression, Return
<1>2. InputOK' /\ Grows
  BY <1>1, ErrorsFacts, AdvanceFacts DEF IInv
<1>3. CallsOK'
  BY <1>1, <1>2, CallsKept DEF IInv
<1>4. result' \in Text /\ Len(result') <= MaxText
  BY <1>1, Texts DEF IInv
<1>5. ControlOK'
  BY <1>1, <1>4, ControlReturned DEF IInv, ControlOK
<1> QED BY <1>2, <1>3, <1>5 DEF IInv

(* A closing parenthesis where an expression has to be. *)
LEMMA UnexpectedParenthesisStep ==
  ASSUME IInv, UnexpectedParenthesis PROVE IInv'
<1>1. /\ \E bad \in BOOLEAN : NextToken(bad)
      /\ errors' = Calmed(ErrorAt(errors)) /\ current # "eof"
      /\ ast' = ast /\ calls' = calls /\ result' = result
      /\ todo' = "synchronize"
  BY DEF UnexpectedParenthesis, Expression
<1>2. InputOK' /\ Grows
  BY <1>1, AdvanceCalmedFacts DEF IInv
<1>3. CallsOK'
  BY <1>1, <1>2, CallsKept DEF IInv
<1>4. ControlOK'
  BY <1>1, ControlReturned DEF IInv, ControlOK
<1> QED BY <1>2, <1>3, <1>4 DEF IInv

(* A token that begins no expression, or the end of the line. *)
LEMMA NothingToParseStep == ASSUME IInv, NothingToParse PROVE IInv'
<1>1. /\ Stay(Calmed(errors)) /\ ast' = ast /\ calls' = calls
      /\ todo' \in {"return", "synchronize"} /\ result' \in {result, null}
  BY DEF NothingToParse, Return
<1>2. InputOK' /\ Grows
  BY <1>1, ErrorsFacts, StayFacts DEF IInv
<1>3. CallsOK'
  BY <1>1, <1>2, CallsKept DEF IInv
<1>4. result' \in Text /\ Len(result') <= MaxText
  BY <1>1, Texts DEF IInv, ControlOK
<1>5. ControlOK'
  BY <1>1, <1>4, ControlReturned DEF IInv, ControlOK
<1> QED BY <1>2, <1>3, <1>5 DEF IInv

(* Tokens are passed over until an expression may begin. *)
LEMMA SynchronizeStep == ASSUME IInv, Synchronize PROVE IInv'
<1>1. /\ Stay(errors) \/ (Advance(errors) /\ current # "eof")
      /\ ast' = ast /\ calls' = calls
      /\ todo' \in {"return", "synchronize"} /\ result' \in {result, null}
  BY DEF Synchronize, AtSynchronisation, Return
<1>2. InputOK' /\ Grows
  BY <1>1, ErrorsFacts, StayFacts, AdvanceFacts DEF IInv
<1>3. CallsOK'
  BY <1>1, <1>2, CallsKept DEF IInv
<1>4. result' \in Text /\ Len(result') <= MaxText
  BY <1>1, Texts DEF IInv, ControlOK
<1>5. ControlOK'
  BY <1>1, <1>4, ControlReturned DEF IInv, ControlOK
<1> QED BY <1>2, <1>3, <1>5 DEF IInv

(* A list begins. *)
LEMMA OpenListStep == ASSUME IInv, OpenList PROVE IInv'
<1>1. /\ Advance(errors) /\ current # "eof" /\ Push("list", Len(input))
      /\ todo' = "opened" /\ ast' = ast /\ result' = result
  BY DEF OpenList, Expression
<1>2. InputOK' /\ Grows /\ Len(input') = Len(input) + 1
  BY <1>1, ErrorsFacts, AdvanceFacts DEF IInv
<1>3. CallsOK' /\ calls' # <<>> /\ top'.parses = "list"
  BY <1>1, <1>2, CallsPushed DEF IInv
<1>4. ControlOK'
  BY <1>1, <1>3 DEF IInv, ControlOK, OnlyVectorsAbort
<1> QED BY <1>2, <1>3, <1>4 DEF IInv

(* The list ends before it has an element. *)
LEMMA EmptyListStep == ASSUME IInv, EmptyList PROVE IInv'
<1>1. /\ Advance(errors) /\ current = ")" /\ Pop /\ ast' = ast
      /\ MakeSyntax(top.start, <<"(", ")">>)
      /\ todo = "opened" /\ calls # <<>> /\ top.parses = "list"
  BY DEF EmptyList, IInv, ControlOK
<1>2. InputOK' /\ Grows /\ Len(input') = Len(input) + 1
  BY <1>1, ErrorsFacts, AdvanceFacts DEF IInv
<1>3. CallsOK'
  BY <1>1, <1>2, CallsPopped DEF IInv
<1>4. <<"(", ")">> \in Text /\ Len(<<"(", ")">>) <= MaxText
  BY <1>1, Texts DEF IInv
<1>5. Len(input') > top.start
  BY <1>1, <1>2, TopFacts DEF IInv
<1>6. todo' = "return" /\ result' \in Text /\ Len(result') <= MaxText
  BY <1>1, <1>4, <1>5, MakeSyntaxFacts DEF IInv, ControlOK
<1>7. ControlOK'
  BY <1>1, <1>6, ControlReturned DEF IInv, ControlOK
<1> QED BY <1>2, <1>3, <1>7 DEF IInv

(* The list has at least one element. *)
LEMMA FirstElementStep == ASSUME IInv, FirstElement PROVE IInv'
<1>1. /\ \E e \in {errors, ErrorAt(errors)} : Stay(e)
      /\ todo' = "expression" /\ ast' = ast /\ calls' = calls
      /\ result' = result
  BY DEF FirstElement
<1>2. InputOK' /\ Grows
  BY <1>1, ErrorsFacts, StayFacts DEF IInv
<1>3. CallsOK'
  BY <1>1, <1>2, CallsKept DEF IInv
<1>4. ControlOK'
  BY <1>1, ControlReturned DEF IInv, ControlOK
<1> QED BY <1>2, <1>3, <1>4 DEF IInv

(* An element is appended to its list. *)
LEMMA ListElementStep == ASSUME IInv, ListElement PROVE IInv'
<1>1. /\ UNCHANGED <<input, skipped, errors, ast>> /\ calls # <<>>
      /\ calls' = [calls EXCEPT ![Len(calls)].text = Extend(@, result)]
      /\ todo' = IF CanContinueList THEN "expression" ELSE "close"
      /\ result' = <<>> /\ top.parses = "list"
  BY DEF ListElement
<1>2. current' = current
  BY <1>1 DEF current
<1>3. InputOK' /\ Grows
  BY <1>1, <1>2 DEF IInv, InputOK, PanicWasReported, Grows
<1>4. CallsOK' /\ calls' # <<>> /\ top'.parses = "list"
  BY <1>1, <1>3, CallsExtended DEF IInv, ControlOK
<1>5. todo' = "close" => current' \in {")", "eof"}
  BY <1>1, <1>2 DEF CanContinueList
<1>6. result' \in Text /\ Len(result') <= MaxText
  BY <1>1, Texts DEF IInv
<1>7. ControlOK'
  BY <1>1, <1>4, <1>5, <1>6 DEF IInv, ControlOK, OnlyVectorsAbort
<1> QED BY <1>3, <1>4, <1>7 DEF IInv

(* The list ends, or its parenthesis is missing. *)
LEMMA CloseListStep == ASSUME IInv, CloseList PROVE IInv'
<1>1. /\ Consume(")") /\ Pop /\ ast' = ast
      /\ MakeSyntax(top.start, Extend(top.text, <<")">>))
      /\ todo = "close" /\ calls # <<>> /\ top.parses = "list"
      /\ current \in {")", "eof"}
  BY DEF CloseList, IInv, ControlOK
<1>2. InputOK' /\ Grows
  BY <1>1, ConsumeFacts DEF IInv
<1>3. CallsOK'
  BY <1>1, <1>2, CallsPopped DEF IInv
<1>4. /\ Extend(top.text, <<")">>) \in Text
      /\ Len(Extend(top.text, <<")">>)) <= MaxText
  BY <1>1, Texts, TopFacts, ExtendFacts DEF IInv
<1>5. Len(input') > top.start
  <2>1. Len(input) \in Nat /\ Len(input') \in Nat /\ Len(input) <= Len(input')
    BY <1>2 DEF IInv, InputOK, Grows
  <2> QED BY <1>1, <2>1, TopFacts DEF IInv
<1>6. todo' = "return" /\ result' \in Text /\ Len(result') <= MaxText
  BY <1>1, <1>4, <1>5, MakeSyntaxFacts DEF IInv, ControlOK
<1>7. ControlOK'
  BY <1>1, <1>6, ControlReturned DEF IInv, ControlOK
<1> QED BY <1>2, <1>3, <1>7 DEF IInv

(* An abbreviation begins. *)
LEMMA OpenAbbreviationStep == ASSUME IInv, OpenAbbreviation PROVE IInv'
<1>1. /\ Advance(errors) /\ current # "eof" /\ Push("quote", Len(input))
      /\ todo' = "expression" /\ ast' = ast /\ result' = result
  BY DEF OpenAbbreviation, Expression
<1>2. InputOK' /\ Grows /\ Len(input') = Len(input) + 1
  BY <1>1, ErrorsFacts, AdvanceFacts DEF IInv
<1>3. CallsOK'
  BY <1>1, <1>2, CallsPushed DEF IInv
<1>4. ControlOK'
  BY <1>1, ControlReturned DEF IInv, ControlOK
<1> QED BY <1>2, <1>3, <1>4 DEF IInv

(* The datum of an abbreviation is there, or missing. *)
LEMMA FinishAbbreviationStep == ASSUME IInv, FinishAbbreviation PROVE IInv'
<1>1. /\ Stay(errors) /\ Pop /\ ast' = ast
      /\ MakeSyntax(top.start, Extend(top.text, result)) /\ calls # <<>>
  BY DEF FinishAbbreviation
<1>2. InputOK' /\ Grows /\ input' = input
  BY <1>1, ErrorsFacts, StayFacts DEF IInv
<1>3. CallsOK'
  BY <1>1, <1>2, CallsPopped DEF IInv
<1>4. /\ Extend(top.text, result) \in Text
      /\ Len(Extend(top.text, result)) <= MaxText
  BY <1>1, TopFacts, ExtendFacts DEF IInv, ControlOK
<1>5. Len(input') > top.start
  <2>1. Len(input) \in Nat
    BY DEF IInv, InputOK
  <2> QED BY <1>1, <1>2, <2>1, TopFacts DEF IInv
<1>6. todo' = "return" /\ result' \in Text /\ Len(result') <= MaxText
  BY <1>1, <1>4, <1>5, MakeSyntaxFacts DEF IInv, ControlOK
<1>7. ControlOK'
  BY <1>1, <1>6, ControlReturned DEF IInv, ControlOK
<1> QED BY <1>2, <1>3, <1>7 DEF IInv

(* A vector or bytevector begins. *)
LEMMA OpenVectorStep == ASSUME IInv, OpenVector PROVE IInv'
<1>1. PICK what \in {"vector", "bytes"} :
        /\ Advance(errors) /\ current \in Opens /\ Push(what, Len(input))
        /\ todo' = "elements" /\ ast' = ast /\ result' = result
  BY DEF OpenVector, Expression, Opens
<1>2. InputOK' /\ Grows /\ Len(input') = Len(input) + 1
  <2>1. current # "eof"
    BY <1>1 DEF Opens
  <2> QED BY <1>1, <2>1, ErrorsFacts, AdvanceFacts DEF IInv
<1>3. CallsOK' /\ calls' # <<>> /\ top'.parses = what
  BY <1>1, <1>2, CallsPushed DEF IInv
<1>4. ControlOK'
  BY <1>1, <1>3 DEF IInv, ControlOK, OnlyVectorsAbort
<1> QED BY <1>2, <1>3, <1>4 DEF IInv

(* Whether a vector has another element. *)
LEMMA VectorElementsStep == ASSUME IInv, VectorElements PROVE IInv'
<1>1. /\ UNCHANGED <<input, skipped, errors, ast, calls, result>>
      /\ todo' = IF CanContinueList THEN "expression" ELSE "close"
      /\ todo = "elements"
  BY DEF VectorElements
<1>2. current' = current /\ top' = top
  BY <1>1 DEF current, top
<1>3. InputOK' /\ CallsOK'
  BY <1>1, <1>2 DEF IInv, InputOK, CallsOK, PanicWasReported
<1>4. todo' = "close" => current' \in {")", "eof"}
  BY <1>1, <1>2 DEF CanContinueList
<1>5. ControlOK'
  BY <1>1, <1>2, <1>4 DEF IInv, ControlOK, OnlyVectorsAbort
<1> QED BY <1>3, <1>5 DEF IInv

(* An element is appended to its vector. *)
LEMMA VectorElementStep == ASSUME IInv, VectorElement PROVE IInv'
<1>1. /\ UNCHANGED <<input, skipped, errors, ast>> /\ calls # <<>>
      /\ calls' = [calls EXCEPT ![Len(calls)].text = Extend(@, result)]
      /\ todo' = "elements" /\ result' = <<>> /\ top.parses = "vector"
  BY DEF VectorElement
<1>2. current' = current
  BY <1>1 DEF current
<1>3. InputOK' /\ Grows
  BY <1>1, <1>2 DEF IInv, InputOK, PanicWasReported, Grows
<1>4. CallsOK' /\ calls' # <<>> /\ top'.parses = "vector"
  BY <1>1, <1>3, CallsExtended DEF IInv, ControlOK
<1>5. result' \in Text /\ Len(result') <= MaxText
  BY <1>1, Texts DEF IInv
<1>6. ControlOK'
  BY <1>1, <1>4, <1>5 DEF IInv, ControlOK, OnlyVectorsAbort
<1> QED BY <1>3, <1>4, <1>6 DEF IInv

(* A bytevector's element is a number, or an error. *)
LEMMA ByteElementStep == ASSUME IInv, ByteElement PROVE IInv'
<1>1. /\ \E e \in {errors, ErrorAt(errors)} :
            Stay(e) \/ (Advance(e) /\ current # "eof")
      /\ calls' = [calls EXCEPT ![Len(calls)].text = Extend(@, <<"number">>)]
      /\ UNCHANGED <<ast, todo, result>>
      /\ todo = "elements" /\ calls # <<>> /\ top.parses = "bytes"
  BY DEF ByteElement, IInv, ControlOK, CanContinueList
<1>2. InputOK' /\ Grows
  BY <1>1, ErrorsFacts, StayFacts, AdvanceFacts DEF IInv
<1>3. CallsOK' /\ calls' # <<>> /\ top'.parses = "bytes"
  BY <1>1, <1>2, CallsExtended, Texts DEF IInv
<1>4. ControlOK'
  BY <1>1, <1>3 DEF IInv, ControlOK, OnlyVectorsAbort
<1> QED BY <1>2, <1>3, <1>4 DEF IInv

(* Here the assertion fails, and a vector has been opened.                 *)
LEMMA CloseVectorStep == ASSUME IInv, CloseVector PROVE IInv' /\ todo' = "aborted"
<1>1. /\ Consume(")") /\ Pop /\ ast' = ast
      /\ MakeSyntax(Len(input'), Extend(top.text, <<")">>))
      /\ todo = "close" /\ calls # <<>> /\ top.parses \in {"vector", "bytes"}
      /\ current \in {")", "eof"}
  BY DEF CloseVector, IInv, ControlOK
<1>2. InputOK' /\ Grows
  BY <1>1, ConsumeFacts DEF IInv
<1>3. CallsOK'
  BY <1>1, <1>2, CallsPopped DEF IInv
<1>4. /\ Extend(top.text, <<")">>) \in Text
      /\ Len(Extend(top.text, <<")">>)) <= MaxText
  BY <1>1, Texts, TopFacts, ExtendFacts DEF IInv
<1>5. ~(Len(input') > Len(input'))
  <2>1. Len(input') \in Nat
    BY <1>2 DEF InputOK
  <2> QED BY <2>1
<1>6. todo' = "aborted" /\ result' \in Text /\ Len(result') <= MaxText
  BY <1>1, <1>4, <1>5, MakeSyntaxFacts DEF IInv, ControlOK
<1>7. \E i \in 1..Len(input') : input'[i] \in Opens
  <2>1. top.start \in 1..(Len(input) - 1) /\ input[top.start] \in Opens
    BY <1>1, TopFacts DEF IInv, Fits
  <2>2. Len(input) \in Nat /\ Len(input') \in Nat /\ Len(input) <= Len(input')
    BY <1>2 DEF IInv, InputOK, Grows
  <2>3. top.start \in 1..Len(input') /\ input'[top.start] = input[top.start]
    BY <1>2, <2>1, <2>2 DEF Grows
  <2> QED BY <2>1, <2>3
<1>8. ControlOK'
  BY <1>1, <1>6, <1>7 DEF IInv, ControlOK, OnlyVectorsAbort, Opens
<1> QED BY <1>2, <1>3, <1>6, <1>8 DEF IInv

(***************************************************************************)
(* The inductive invariant: a waiting call began at a token that the line  *)
(* has, a vector's at one that opens a vector.                             *)
(***************************************************************************)
THEOREM Invariant == Spec => []IInv
<1>1. Init => IInv
  <2> SUFFICES ASSUME Init PROVE IInv
    OBVIOUS
  <2>1. /\ <<"eof">> \in Seq(Token) \ {<<>>} /\ Len(<<"eof">>) = 1
        /\ <<"eof">>[1] = "eof" /\ 1 <= MaxTokens + 1 /\ 0 <= MaxText
    BY ParserAssumption
  <2>2. InputOK
    BY <2>1 DEF Init, InputOK, current, PanicWasReported
  <2>3. <<>> \in Seq(Calls) /\ Len(<<>>) = 0 /\ <<>> \in Text
    BY DEF Text
  <2>4. CallsOK
    BY <2>1, <2>3 DEF Init, CallsOK
  <2>5. ControlOK
    BY <2>1, <2>3 DEF Init, ControlOK, OnlyVectorsAbort, current
  <2> QED BY <2>2, <2>4, <2>5 DEF IInv
<1>2. IInv /\ [Next]_vars => IInv'
  <2> SUFFICES ASSUME IInv, [Next]_vars PROVE IInv'
    OBVIOUS
  <2>1. CASE Interpret
    BY <2>1, InterpretStep
  <2>2. CASE ParseAll
    BY <2>2, NextExpressionStep, AppendToASTStep DEF ParseAll
  <2>3. CASE ParseExpression
    BY <2>3, ParseSimpleStep, UnexpectedParenthesisStep, NothingToParseStep,
       SynchronizeStep DEF ParseExpression
  <2>4. CASE ParseList
    BY <2>4, OpenListStep, EmptyListStep, FirstElementStep, ListElementStep,
       CloseListStep DEF ParseList
  <2>5. CASE ParseAbbreviation
    BY <2>5, OpenAbbreviationStep, FinishAbbreviationStep DEF ParseAbbreviation
  <2>6. CASE ParseVector
    BY <2>6, OpenVectorStep, VectorElementsStep, VectorElementStep,
       ByteElementStep, CloseVectorStep DEF ParseVector
  <2>7. CASE UNCHANGED vars
    <3>1. current' = current /\ top' = top
      BY <2>7 DEF vars, current, top
    <3> QED BY <2>7, <3>1 DEF vars, IInv, InputOK, CallsOK, ControlOK,
            PanicWasReported, OnlyVectorsAbort
  <2> QED BY <2>1, <2>2, <2>3, <2>4, <2>5, <2>6, <2>7 DEF Next, Parse
<1> QED BY <1>1, <1>2, PTL DEF Spec

(***************************************************************************)
(* Every variable keeps its type, a line has no more tokens than the       *)
(* bounds allow, and no call is deeper than there are tokens.              *)
(***************************************************************************)
THEOREM TypeCorrect == Spec => []TypeOK
<1>1. IInv => TypeOK
  <2> SUFFICES ASSUME IInv PROVE TypeOK
    OBVIOUS
  <2>1. Len(calls) <= MaxTokens
    <3>1. /\ Len(calls) < Len(input) /\ Len(input) <= MaxTokens + 1
          /\ Len(calls) \in Nat /\ Len(input) \in Nat
      BY DEF IInv, InputOK, CallsOK
    <3> QED BY <3>1, ParserAssumption
  <2> QED BY <2>1 DEF IInv, InputOK, CallsOK, ControlOK, TypeOK, Text
<1> QED BY <1>1, Invariant, PTL

(***************************************************************************)
(* Panic mode keeps errors back only in a line that has reported one.      *)
(***************************************************************************)
THEOREM NoErrorIsSwallowed == Spec => []PanicWasReported
<1>1. IInv => PanicWasReported
  BY DEF IInv, InputOK
<1> QED BY <1>1, Invariant, PTL

(***************************************************************************)
(* The assertion on spans fails only in lines that open a vector.          *)
(***************************************************************************)
THEOREM SpansOfListsGoForward == Spec => []OnlyVectorsAbort
<1>1. IInv => OnlyVectorsAbort
  BY DEF IInv, ControlOK
<1> QED BY <1>1, Invariant, PTL
-----------------------------------------------------------------------------
(* Progress. *)

LEMMA StepsAreFew == StepsHere \in 0..6 /\ StepsHere' \in 0..6
BY DEF StepsHere

(* A token more makes up for a call more and whatever there is to do.      *)
LEMMA ReadsOn ==
  ASSUME IInv, IInv', Len(input') = Len(input) + 1,
         Len(calls') <= Len(calls) + 1
  PROVE  Progress < Progress'
<1> DEFINE n == Len(input)
           k == Len(calls)
           s == StepsHere
           n1 == Len(input')
           k1 == Len(calls')
           s1 == StepsHere'
<1>1. n \in Nat /\ k \in Nat /\ n1 \in Nat /\ k1 \in Nat
  BY DEF IInv, InputOK, CallsOK
<1>2. s \in 0..6 /\ s1 \in 0..6
  BY StepsAreFew
<1>3. Progress = 10 * n - 3 * k - s /\ Progress' = 10 * n1 - 3 * k1 - s1
  BY DEF Progress
<1>4. n1 = n + 1 /\ k1 <= k + 1
  OBVIOUS
<1> HIDE DEF n, k, s, n1, k1, s1
<1> QED BY <1>1, <1>2, <1>3, <1>4

(* Without one, there is less to do than before.                           *)
LEMMA DoesLess ==
  ASSUME IInv, input' = input,
         \/ Len(calls') = Len(calls) /\ StepsHere' < StepsHere
         \/ Len(calls') = Len(calls) - 1 /\ StepsHere' < StepsHere + 3
  PROVE  Progress < Progress'
<1> DEFINE n == Len(input)
           k == Len(calls)
           s == StepsHere
           k1 == Len(calls')
           s1 == StepsHere'
<1>1. n \in Nat /\ k \in Nat
  BY DEF IInv, InputOK, CallsOK
<1>2. s \in 0..6 /\ s1 \in 0..6
  BY StepsAreFew
<1>3. Progress = 10 * n - 3 * k - s /\ Progress' = 10 * n - 3 * k1 - s1
  BY DEF Progress
<1>4. (k1 = k /\ s1 < s) \/ (k1 = k - 1 /\ s1 < s + 3)
  OBVIOUS
<1> HIDE DEF n, k, s, k1, s1
<1> QED BY <1>1, <1>2, <1>3, <1>4

LEMMA ParseAllAdvances == ASSUME IInv, ParseAll PROVE Progress < Progress'
<1>1. input' = input /\ calls' = calls
  BY DEF ParseAll, NextExpression, AppendToAST
<1>2. current' = current
  BY <1>1 DEF current
<1>3. CASE NextExpression
  <2>1. StepsHere = 1 /\ StepsHere' = 0
    BY <1>2, <1>3 DEF NextExpression, StepsHere
  <2> QED BY <1>1, <2>1, DoesLess
<1>4. CASE AppendToAST
  <2>1. StepsHere = 3 /\ StepsHere' = 1
    BY <1>4 DEF AppendToAST, StepsHere
  <2> QED BY <1>1, <2>1, DoesLess
<1> QED BY <1>3, <1>4 DEF ParseAll

LEMMA ParseExpressionAdvances ==
  ASSUME IInv, IInv', ParseExpression
  PROVE  MakesNoProgress \/ Progress < Progress'
<1>1. calls' = calls /\ Len(calls) \in Nat
  BY DEF ParseExpression, ParseSimple, UnexpectedParenthesis, NothingToParse,
         Synchronize, IInv, CallsOK
<1>2. CASE ParseSimple
  <2>1. Advance(errors) /\ current # "eof"
    BY <1>2 DEF ParseSimple, Expression
  <2>2. Len(input') = Len(input) + 1
    BY <2>1, ErrorsFacts, AdvanceFacts DEF IInv
  <2> QED BY <1>1, <2>2, ReadsOn
<1>3. CASE UnexpectedParenthesis
  <2>1. /\ \E bad \in BOOLEAN : NextToken(bad)
        /\ errors' = Calmed(ErrorAt(errors)) /\ current # "eof"
    BY <1>3 DEF UnexpectedParenthesis, Expression
  <2>2. Len(input') = Len(input) + 1
    BY <2>1, AdvanceCalmedFacts DEF IInv
  <2> QED BY <1>1, <2>2, ReadsOn
<1>4. CASE NothingToParse
  <2>1. CASE current # "eof"
    BY <1>4, <2>1 DEF NothingToParse, Expression, MakesNoProgress
  <2>2. CASE current = "eof"
    <3>1. input' = input /\ todo = "expression"
          /\ todo' \in {"return", "synchronize"}
      BY <1>4 DEF NothingToParse, Expression, Stay, Return
    <3>2. StepsHere = 5 /\ StepsHere' \in {3, 4}
      BY <2>2, <3>1 DEF StepsHere
    <3> QED BY <1>1, <3>1, <3>2, DoesLess
  <2> QED BY <2>1, <2>2
<1>5. CASE Synchronize
  <2>1. CASE AtSynchronisation
    <3>1. input' = input /\ todo = "synchronize" /\ todo' = "return"
      BY <1>5, <2>1 DEF Synchronize, Stay, Return
    <3>2. StepsHere = 4 /\ StepsHere' = 3
      BY <3>1 DEF StepsHere
    <3> QED BY <1>1, <3>1, <3>2, DoesLess
  <2>2. CASE ~AtSynchronisation
    <3>1. Advance(errors) /\ current # "eof"
      BY <1>5, <2>2 DEF Synchronize, AtSynchronisation
    <3>2. Len(input') = Len(input) + 1
      BY <3>1, ErrorsFacts, AdvanceFacts DEF IInv
    <3> QED BY <1>1, <3>2, ReadsOn
  <2> QED BY <2>1, <2>2
<1> QED BY <1>2, <1>3, <1>4, <1>5 DEF ParseExpression

(* What opens a list, an abbreviation or a vector is read.                 *)
LEMMA OpeningAdvances ==
  ASSUME IInv, IInv', Advance(errors), current # "eof",
         NEW what, NEW start, Push(what, start)
  PROVE  Progress < Progress'
<1>1. Len(input') = Len(input) + 1
  BY ErrorsFacts, AdvanceFacts DEF IInv
<1>2. Len(calls') = Len(calls) + 1
  BY DEF Push, IInv, CallsOK
<1> QED BY <1>1, <1>2, ReadsOn

(* What closes one is read, or the line has ended and the call returns.    *)
LEMMA ClosingAdvances ==
  ASSUME IInv, IInv', todo = "close", Consume(")"), Pop, calls # <<>>,
         NEW start, NEW text, MakeSyntax(start, text)
  PROVE  Progress < Progress'
<1>1. current \in {")", "eof"}
  BY DEF IInv, ControlOK
<1>2. /\ current = "eof" => input' = input
      /\ current = ")" => Len(input') = Len(input) + 1
      /\ Grows /\ InputOK'
  BY <1>1, ConsumeFacts DEF IInv
<1>3. Len(calls') = Len(calls) - 1 /\ Len(calls) \in Nat
  BY <1>2, CallsPopped DEF IInv, CallsOK
<1>4. StepsHere = 1 /\ StepsHere' \in {0, 3}
  BY DEF MakeSyntax, Return, StepsHere
<1>5. CASE current = "eof"
  BY <1>2, <1>3, <1>4, <1>5, DoesLess
<1>6. CASE current = ")"
  BY <1>2, <1>3, <1>6, ReadsOn
<1> QED BY <1>1, <1>5, <1>6

LEMMA ParseListAdvances ==
  ASSUME IInv, IInv', ParseList PROVE Progress < Progress'
<1>1. CASE OpenList
  BY <1>1, OpeningAdvances DEF OpenList, Expression
<1>2. CASE EmptyList
  <2>1. Advance(errors) /\ current # "eof" /\ Pop /\ calls # <<>>
    BY <1>2 DEF EmptyList, IInv, ControlOK
  <2>2. Len(input') = Len(input) + 1 /\ Grows
    BY <2>1, ErrorsFacts, AdvanceFacts DEF IInv
  <2>3. Len(calls') = Len(calls) - 1 /\ Len(calls) \in Nat
    BY <2>1, <2>2, CallsPopped DEF IInv, CallsOK
  <2> QED BY <2>2, <2>3, ReadsOn
<1>3. CASE FirstElement
  <2>1. /\ input' = input /\ calls' = calls
        /\ todo = "opened" /\ todo' = "expression"
    BY <1>3 DEF FirstElement, Stay
  <2>2. StepsHere = 6 /\ StepsHere' \in {0, 5}
    BY <2>1 DEF StepsHere
  <2> QED BY <2>1, <2>2, DoesLess
<1>4. CASE ListElement
  <2>1. /\ input' = input /\ todo = "return" /\ calls # <<>>
        /\ calls' = [calls EXCEPT ![Len(calls)].text = Extend(@, result)]
        /\ todo' = IF CanContinueList THEN "expression" ELSE "close"
    BY <1>4 DEF ListElement
  <2>2. current' = current
    BY <2>1 DEF current
  <2>3. StepsHere = 3 /\ StepsHere' \in {0, 1}
    BY <2>1, <2>2 DEF StepsHere, CanContinueList
  <2>4. Len(calls') = Len(calls)
    BY <2>1 DEF IInv, CallsOK
  <2>5. input' = input
    BY <2>1
  <2> QED BY <2>3, <2>4, <2>5, DoesLess
<1>5. CASE CloseList
  <2>1. /\ todo = "close" /\ Consume(")") /\ Pop /\ calls # <<>>
        /\ MakeSyntax(top.start, Extend(top.text, <<")">>))
    BY <1>5 DEF CloseList, IInv, ControlOK
  <2> QED BY <2>1, ClosingAdvances
<1> QED BY <1>1, <1>2, <1>3, <1>4, <1>5 DEF ParseList

LEMMA ParseAbbreviationAdvances ==
  ASSUME IInv, IInv', ParseAbbreviation PROVE Progress < Progress'
<1>1. CASE OpenAbbreviation
  BY <1>1, OpeningAdvances DEF OpenAbbreviation, Expression
<1>2. CASE FinishAbbreviation
  <2>1. /\ input' = input /\ todo = "return" /\ Pop /\ calls # <<>> /\ Grows
        /\ todo' \in {"return", "aborted"}
    BY <1>2 DEF FinishAbbreviation, Stay, MakeSyntax, Return, IInv, InputOK,
                Grows
  <2>2. StepsHere = 3 /\ StepsHere' \in {0, 3}
    BY <2>1 DEF StepsHere
  <2>3. Len(calls') = Len(calls) - 1
    BY <2>1, CallsPopped DEF IInv
  <2> QED BY <2>1, <2>2, <2>3, DoesLess
<1> QED BY <1>1, <1>2 DEF ParseAbbreviation

LEMMA ParseVectorAdvances ==
  ASSUME IInv, IInv', ParseVector
  PROVE  MakesNoProgress \/ Progress < Progress'
<1>1. CASE OpenVector
  BY <1>1, OpeningAdvances DEF OpenVector, Expression
<1>2. CASE VectorElements
  <2>1. /\ input' = input /\ calls' = calls /\ todo = "elements"
        /\ todo' = IF CanContinueList THEN "expression" ELSE "close"
    BY <1>2 DEF VectorElements
  <2>2. current' = current
    BY <2>1 DEF current
  <2>3. StepsHere = 2 /\ StepsHere' \in {0, 1}
    BY <2>1, <2>2 DEF StepsHere, CanContinueList
  <2> QED BY <2>1, <2>3, DoesLess
<1>3. CASE VectorElement
  <2>1. /\ input' = input /\ todo = "return" /\ todo' = "elements"
        /\ calls' = [calls EXCEPT ![Len(calls)].text = Extend(@, result)]
    BY <1>3 DEF VectorElement
  <2>2. StepsHere = 3 /\ StepsHere' = 2
    BY <2>1 DEF StepsHere
  <2>3. Len(calls') = Len(calls)
    BY <2>1 DEF IInv, CallsOK
  <2>4. input' = input
    BY <2>1
  <2> QED BY <2>2, <2>3, <2>4, DoesLess
<1>4. CASE ByteElement
  <2>1. CASE current # "number"
    BY <1>4, <2>1 DEF ByteElement, MakesNoProgress
  <2>2. CASE current = "number"
    <3>1. PICK e \in {errors, ErrorAt(errors)} : Advance(e)
      BY <1>4, <2>2 DEF ByteElement
    <3>2. Len(input') = Len(input) + 1
      BY <2>2, <3>1, ErrorsFacts, AdvanceFacts DEF IInv
    <3>3. Len(calls') = Len(calls) /\ Len(calls) \in Nat
      BY <1>4 DEF ByteElement, IInv, CallsOK
    <3> QED BY <3>2, <3>3, ReadsOn
  <2> QED BY <2>1, <2>2
<1>5. CASE CloseVector
  <2>1. /\ todo = "close" /\ Consume(")") /\ Pop /\ calls # <<>>
        /\ MakeSyntax(Len(input'), Extend(top.text, <<")">>))
    BY <1>5 DEF CloseVector, IInv, ControlOK
  <2> QED BY <2>1, ClosingAdvances
<1> QED BY <1>1, <1>2, <1>3, <1>4, <1>5 DEF ParseVector

(***************************************************************************)
(* Whatever the line, a parse comes nearer to its end at every step,       *)
(* unless it is at a token that nothing is there to parse and that is not  *)
(* passed over.                                                            *)
(***************************************************************************)
THEOREM ParsingAdvances == Spec => ParseAdvances
<1>1. ASSUME IInv, IInv', Next, todo # "idle"
      PROVE  MakesNoProgress \/ Progress < Progress'
  <2>1. ~Interpret
    BY <1>1 DEF Interpret
  <2> QED BY <1>1, <2>1, ParseAllAdvances, ParseExpressionAdvances,
             ParseListAdvances, ParseAbbreviationAdvances, ParseVectorAdvances
          DEF Next, Parse
<1>2. IInv /\ IInv' /\ [Next]_vars
        => [todo # "idle" => MakesNoProgress \/ Progress < Progress']_vars
  BY <1>1
<1> QED BY <1>2, Invariant, PTL DEF Spec, ParseAdvances

(* A line of n tokens takes no more than 10 * n steps.                     *)
THEOREM ParsesAreShort == Spec => [](Progress \in 0..(10 * Len(input)))
<1>1. ASSUME IInv PROVE Progress \in 0..(10 * Len(input))
  <2> DEFINE n == Len(input)
             k == Len(calls)
             s == StepsHere
  <2>1. n \in Nat /\ k \in Nat /\ k < n /\ s \in 0..6
    BY <1>1, StepsAreFew DEF IInv, InputOK, CallsOK
  <2>2. Progress = 10 * n - 3 * k - s
    BY DEF Progress
  <2> HIDE DEF n, k, s
  <2>3. Progress \in 0..(10 * n)
    BY <2>1, <2>2
  <2> QED BY <2>3 DEF n
<1>2. IInv => Progress \in 0..(10 * Len(input))
  BY <1>1
<1> QED BY <1>2, Invariant, PTL
-----------------------------------------------------------------------------
(***************************************************************************)
(* The AST.  As long as nothing is wrong with the line, the AST and the    *)
(* texts of the waiting calls, one after the other, are the line up to the *)
(* current token.                                                          *)
(***************************************************************************)

(* The first n tokens of text are those of the line that begin at from.    *)
Copies(text, n, from, line) == \A j \in 1..n : text[j] = line[from + j - 1]

(* text is what the line has from there up to its last token.              *)
Read(text, from, line) ==
  /\ from + Len(text) = Len(line)
  /\ Copies(text, Len(text), from, line)

(* The same, and NULL for what an abbreviation at the end is short of.     *)
ReadNull(text, from, line) ==
  /\ line[Len(line)] = "eof" /\ from + Len(text) = Len(line) + 1
  /\ Len(text) >= 1 /\ text[Len(text)] = "null"
  /\ Copies(text, Len(text) - 1, from, line)
  /\ Len(line) >= 2 /\ line[Len(line) - 1] = "quote"

(* Each call goes on where the text of the one that waits for it ends.     *)
Chained(cs, tree, line) ==
  \A i \in 1..Len(cs) :
    /\ Copies(cs[i].text, Len(cs[i].text), cs[i].start, line)
    /\ cs[i].start + Len(cs[i].text) <= Len(line)
    /\ cs[i].start = IF i = 1 THEN Len(tree) + 1
                     ELSE cs[i - 1].start + Len(cs[i - 1].text)
    /\ cs[i].parses = "quote" => cs[i].text = <<"quote">>

ReadTo == IF calls = <<>> THEN Len(ast) + 1 ELSE top.start + Len(top.text)

Waits(kinds) == \E i \in 1..Len(calls) : calls[i].parses \in kinds

(* An error was reported, or will be, or the parse will never end.         *)
Hopeless ==
  \/ errors.had = TRUE \/ todo = "aborted"
  \/ current \in {".", "error"}
  \/ Waits({"vector", "bytes"})
  \/ current = "eof" /\ Waits({"list"})

Exact ==
  /\ Chained(calls, ast, input)
  /\ todo \in {"next", "idle"} => Read(ast, 1, input) \/ ReadNull(ast, 1, input)
  /\ todo \notin {"next", "idle"} =>
       Copies(ast, Len(ast), 1, input) /\ Len(ast) < Len(input)
  /\ todo \in {"expression", "opened", "close"} => ReadTo = Len(input)
  /\ todo = "expression" /\ calls = <<>> => current # "eof"
  /\ todo = "opened" => top.text = <<"(">>
  /\ todo = "return" =>
       Read(result, ReadTo, input) \/ ReadNull(result, ReadTo, input)

Faithful ==
  /\ todo = "synchronize" => errors.had = TRUE
  /\ Hopeless \/ Exact
-----------------------------------------------------------------------------
(* A copy of a part of the line is one of the same part of a longer line.  *)
LEMMA CopiesLonger ==
  ASSUME InputOK, InputOK', Grows, NEW text, NEW n \in Nat,
         NEW from \in Nat \ {0}, from + n <= Len(input) + 1,
         Copies(text, n, from, input)
  PROVE  Copies(text, n, from, input')
<1>1. Len(input) \in Nat
  BY DEF InputOK
<1> QED BY <1>1 DEF Copies, Grows

(* Copies of adjacent parts make one copy.                                 *)
LEMMA CopiesConcat ==
  ASSUME NEW text \in Text, NEW more \in Text, NEW m \in 0..Len(more),
         NEW from \in Nat \ {0}, NEW line,
         Copies(text, Len(text), from, line),
         Copies(more, m, from + Len(text), line)
  PROVE  Copies(text \o more, Len(text) + m, from, line)
<1>1. Len(text) \in Nat /\ Len(more) \in Nat
  BY DEF Text
<1>2. ASSUME NEW j \in 1..(Len(text) + m)
      PROVE  (text \o more)[j] = line[from + j - 1]
  <2>1. (text \o more)[j] = IF j <= Len(text) THEN text[j]
                            ELSE more[j - Len(text)]
    BY <1>1, ConcatProperties DEF Text
  <2>2. CASE j <= Len(text)
    BY <1>1, <2>1, <2>2 DEF Copies
  <2>3. CASE ~(j <= Len(text))
    <3>1. /\ j - Len(text) \in 1..m
          /\ from + Len(text) + (j - Len(text)) - 1 = from + j - 1
      BY <1>1, <2>3
    <3>2. more[j - Len(text)] = line[from + Len(text) + (j - Len(text)) - 1]
      BY <3>1 DEF Copies
    <3> QED BY <2>1, <2>3, <3>1, <3>2
  <2> QED BY <2>2, <2>3
<1> QED BY <1>2 DEF Copies

(* A text that goes on to the end of what was read is not cut short.       *)
LEMMA Extended ==
  ASSUME NEW line \in Seq(Token), Len(line) <= MaxTokens + 1,
         NEW text \in Text, NEW more \in Text, NEW from \in Nat \ {0},
         from + Len(text) + Len(more) <= Len(line) + 1
  PROVE  /\ Extend(text, more) = text \o more
         /\ Len(text \o more) = Len(text) + Len(more)
<1>1. Len(text) \in Nat /\ Len(more) \in Nat /\ Len(line) \in Nat
  BY DEF Text
<1>2. Len(text) + Len(more) <= MaxText
  BY <1>1, ParserAssumption
<1>3. Len(text \o more) = Len(text) + Len(more)
  BY ConcatProperties DEF Text
<1> QED BY <1>1, <1>2, <1>3, ParserAssumption DEF Extend

(* A text that goes on with the rest of what was read.                     *)
LEMMA ExtendedRead ==
  ASSUME NEW line \in Seq(Token), Len(line) <= MaxTokens + 1,
         NEW text \in Text, NEW more \in Text, NEW from \in Nat \ {0},
         Copies(text, Len(text), from, line),
         Read(more, from + Len(text), line)
  PROVE  Read(Extend(text, more), from, line)
<1>1. Len(text) \in Nat /\ Len(more) \in Nat /\ Len(line) \in Nat
  BY DEF Text
<1>2. /\ from + Len(text) + Len(more) = Len(line)
      /\ Copies(more, Len(more), from + Len(text), line)
  BY DEF Read
<1>3. /\ Extend(text, more) = text \o more
      /\ Len(text \o more) = Len(text) + Len(more)
  <2>1. from + Len(text) + Len(more) <= Len(line) + 1
    BY <1>1, <1>2
  <2> QED BY <2>1, Extended
<1>4. Copies(text \o more, Len(text) + Len(more), from, line)
  BY <1>1, <1>2, CopiesConcat
<1> QED BY <1>1, <1>2, <1>3, <1>4 DEF Read

(* The same for the rest and NULL.                                         *)
LEMMA ExtendedReadNull ==
  ASSUME NEW line \in Seq(Token), Len(line) <= MaxTokens + 1,
         NEW text \in Text, NEW more \in Text, NEW from \in Nat \ {0},
         Copies(text, Len(text), from, line),
         ReadNull(more, from + Len(text), line)
  PROVE  ReadNull(Extend(text, more), from, line)
<1>1. Len(text) \in Nat /\ Len(more) \in Nat /\ Len(line) \in Nat
  BY DEF Text
<1>2. /\ from + Len(text) + Len(more) = Len(line) + 1 /\ Len(more) >= 1
      /\ Copies(more, Len(more) - 1, from + Len(text), line)
      /\ more[Len(more)] = "null"
  BY DEF ReadNull
<1>3. /\ Extend(text, more) = text \o more
      /\ Len(text \o more) = Len(text) + Len(more)
  <2>1. from + Len(text) + Len(more) <= Len(line) + 1
    BY <1>1, <1>2
  <2> QED BY <2>1, Extended
<1>4. Copies(text \o more, Len(text) + (Len(more) - 1), from, line)
  BY <1>1, <1>2, CopiesConcat
<1>5. (text \o more)[Len(text) + Len(more)] = "null"
  <2>1. (text \o more)[Len(text) + Len(more)] = more[Len(more)]
    BY <1>1, <1>2, ConcatProperties DEF Text
  <2> QED BY <1>2, <2>1
<1>6. Len(text) + (Len(more) - 1) = Len(text \o more) - 1
  BY <1>1, <1>3
<1> QED BY <1>1, <1>2, <1>3, <1>4, <1>5, <1>6 DEF ReadNull
-----------------------------------------------------------------------------
(* The chain of calls for a longer line.                                   *)
LEMMA ChainedLonger ==
  ASSUME InputOK, InputOK', Grows, CallsOK, Chained(calls, ast, input)
  PROVE  Chained(calls, ast, input')
<1>1. Len(input) \in Nat /\ Len(input') \in Nat /\ Len(input) <= Len(input')
  BY DEF InputOK, Grows
<1>2. ASSUME NEW i \in 1..Len(calls)
      PROVE  /\ Copies(calls[i].text, Len(calls[i].text), calls[i].start, input')
             /\ calls[i].start + Len(calls[i].text) <= Len(input')
  <2>1. /\ Copies(calls[i].text, Len(calls[i].text), calls[i].start, input)
        /\ calls[i].start + Len(calls[i].text) <= Len(input)
    BY DEF Chained
  <2>2. /\ calls[i].start \in Nat \ {0} /\ calls[i].text \in Text
        /\ Len(calls[i].text) \in Nat
    BY <1>1, CallFacts DEF CallsOK, Text
  <2> QED BY <1>1, <2>1, <2>2, CopiesLonger
<1> QED BY <1>2 DEF Chained

(* A call that begins where what was read ends.                            *)
LEMMA ChainedPushed ==
  ASSUME InputOK, InputOK', Grows, Len(input') = Len(input) + 1, CallsOK,
         Chained(calls, ast, input), ReadTo = Len(input), ast' = ast,
         NEW what \in {"list", "quote"}, Push(what, Len(input)),
         what = "quote" => current = "quote"
  PROVE  Chained(calls', ast', input') /\ ReadTo' = Len(input')
<1>1. /\ Len(input) \in Nat \ {0} /\ Len(calls) \in Nat
      /\ input[Len(input)] = current
  BY DEF InputOK, CallsOK, current
<1>2. /\ Len(calls') = Len(calls) + 1 /\ calls' # <<>>
      /\ \A i \in 1..Len(calls) : calls'[i] = calls[i]
      /\ top'.start = Len(input) /\ top'.text = <<current>>
      /\ top'.parses = what /\ top' = calls'[Len(calls) + 1]
  BY CallsPushed DEF top
<1>3. Chained(calls, ast, input')
  BY ChainedLonger
<1>4. Len(top'.text) = 1 /\ ReadTo' = Len(input')
  BY <1>1, <1>2 DEF ReadTo
<1>5. ASSUME NEW i \in 1..Len(calls')
      PROVE  /\ Copies(calls'[i].text, Len(calls'[i].text), calls'[i].start, input')
             /\ calls'[i].start + Len(calls'[i].text) <= Len(input')
             /\ calls'[i].start = IF i = 1 THEN Len(ast) + 1
                         ELSE calls'[i - 1].start + Len(calls'[i - 1].text)
             /\ calls'[i].parses = "quote" => calls'[i].text = <<"quote">>
  <2>1. CASE i \in 1..Len(calls)
    <3>1. calls'[i] = calls[i] /\ (i # 1 => calls'[i - 1] = calls[i - 1])
      BY <1>1, <1>2, <2>1
    <3> QED BY <1>3, <2>1, <3>1 DEF Chained
  <2>2. CASE i = Len(calls) + 1
    <3>1. calls'[i] = top' /\ (i # 1 => calls'[i - 1] = calls[i - 1])
      BY <1>1, <1>2, <2>2
    <3>2. Copies(<<current>>, 1, Len(input), input')
      BY <1>1 DEF Copies, Grows
    <3>3. Len(input) = IF i = 1 THEN Len(ast) + 1
                       ELSE calls[i - 1].start + Len(calls[i - 1].text)
      BY <1>1, <2>2 DEF ReadTo, top
    <3>4. /\ calls'[i].text = <<current>> /\ calls'[i].start = Len(input)
          /\ calls'[i].parses = what /\ Len(calls'[i].text) = 1
      BY <1>2, <1>4, <3>1
    <3>5. calls'[i].start = IF i = 1 THEN Len(ast) + 1
                            ELSE calls'[i - 1].start + Len(calls'[i - 1].text)
      BY <3>1, <3>3, <3>4
    <3>6. Copies(calls'[i].text, Len(calls'[i].text), calls'[i].start, input')
      BY <3>2, <3>4
    <3> QED BY <1>1, <3>4, <3>5, <3>6
  <2> QED BY <1>1, <1>2, <2>1, <2>2
<1> QED BY <1>4, <1>5 DEF Chained

(* Without the last call, what was read ends where that call began.        *)
LEMMA ChainedPopped ==
  ASSUME InputOK, InputOK', Grows, CallsOK, calls # <<>>, Pop,
         Chained(calls, ast, input), ast' = ast
  PROVE  Chained(calls', ast', input') /\ ReadTo' = top.start
<1>1. Len(calls) \in Nat \ {0} /\ top = calls[Len(calls)]
  BY DEF CallsOK, top
<1>2. /\ Len(calls') = Len(calls) - 1
      /\ \A i \in 1..Len(calls') : calls'[i] = calls[i]
  BY CallsPopped
<1>3. Chained(calls, ast, input')
  BY ChainedLonger
<1>4. ASSUME NEW i \in 1..Len(calls')
      PROVE  /\ i \in 1..Len(calls) /\ calls'[i] = calls[i]
             /\ i # 1 => calls'[i - 1] = calls[i - 1]
  BY <1>1, <1>2
<1>5. Chained(calls', ast', input')
  BY <1>3, <1>4 DEF Chained
<1>6. CASE Len(calls) = 1
  <2>1. calls' = <<>>
    BY <1>2, <1>6, CallsPopped DEF CallsOK
  <2> QED BY <1>1, <1>5, <1>6, <2>1 DEF ReadTo, Chained
<1>7. CASE Len(calls) # 1
  <2>1. calls' # <<>> /\ top' = calls[Len(calls) - 1]
    BY <1>1, <1>2, <1>7 DEF top
  <2>2. top.start = calls[Len(calls) - 1].start + Len(calls[Len(calls) - 1].text)
    <3>1. Len(calls) \in 1..Len(calls)
      BY <1>1
    <3> QED BY <1>1, <1>7, <3>1 DEF Chained
  <2> QED BY <1>5, <2>1, <2>2 DEF ReadTo
<1> QED BY <1>6, <1>7

(* A list that takes in an element that was read up to the current token.  *)
LEMMA ChainedExtended ==
  ASSUME IInv, InputOK', Grows, UNCHANGED <<input, ast>>, calls # <<>>,
         top.parses = "list",
         calls' = [calls EXCEPT ![Len(calls)].text = Extend(@, result)],
         Chained(calls, ast, input), Read(result, ReadTo, input)
  PROVE  Chained(calls', ast', input') /\ ReadTo' = Len(input')
<1>1. /\ Len(calls) \in Nat \ {0} /\ top = calls[Len(calls)]
      /\ result \in Text /\ Len(input) \in Nat
      /\ top.text \in Text /\ top.start \in Nat \ {0}
  BY TopFacts DEF IInv, InputOK, CallsOK, ControlOK, top
<1>2. /\ Len(calls') = Len(calls) /\ calls' # <<>>
      /\ \A i \in 1..(Len(calls) - 1) : calls'[i] = calls[i]
      /\ top'.text = Extend(top.text, result)
      /\ top'.parses = "list" /\ top'.start = top.start
      /\ top' = calls'[Len(calls)]
  BY <1>1, CallsExtended DEF IInv, top
<1>3. /\ Copies(top.text, Len(top.text), top.start, input)
      /\ top.start = IF Len(calls) = 1 THEN Len(ast) + 1
                     ELSE calls[Len(calls) - 1].start
                            + Len(calls[Len(calls) - 1].text)
  <2>1. Len(calls) \in 1..Len(calls)
    BY <1>1
  <2> QED BY <1>1, <2>1 DEF Chained
<1>4. Read(top'.text, top.start, input)
  <2>1. Read(result, top.start + Len(top.text), input)
    BY DEF ReadTo
  <2>2. input \in Seq(Token) /\ Len(input) <= MaxTokens + 1
    BY DEF IInv, InputOK
  <2> QED BY <1>1, <1>2, <1>3, <2>1, <2>2, ExtendedRead
<1>5. /\ top.start + Len(top'.text) = Len(input)
      /\ Copies(top'.text, Len(top'.text), top.start, input)
  BY <1>4 DEF Read
<1>6. ReadTo' = Len(input')
  BY <1>2, <1>5 DEF ReadTo
<1>7. ASSUME NEW i \in 1..Len(calls')
      PROVE  /\ Copies(calls'[i].text, Len(calls'[i].text), calls'[i].start, input')
             /\ calls'[i].start + Len(calls'[i].text) <= Len(input')
             /\ calls'[i].start = IF i = 1 THEN Len(ast') + 1
                         ELSE calls'[i - 1].start + Len(calls'[i - 1].text)
             /\ calls'[i].parses = "quote" => calls'[i].text = <<"quote">>
  <2>1. i # 1 => calls'[i - 1] = calls[i - 1]
    BY <1>1, <1>2
  <2>2. CASE i # Len(calls)
    <3>1. calls'[i] = calls[i] /\ i \in 1..Len(calls)
      BY <1>1, <1>2, <2>2
    <3> QED BY <2>1, <3>1 DEF Chained
  <2>3. CASE i = Len(calls)
    <3>1. /\ calls'[i].text = top'.text /\ calls'[i].start = top.start
          /\ calls'[i].parses = "list"
      BY <1>2, <2>3
    <3>2. calls'[i].start = IF i = 1 THEN Len(ast') + 1
                            ELSE calls'[i - 1].start + Len(calls'[i - 1].text)
      BY <1>3, <2>1, <2>3, <3>1
    <3> QED BY <1>1, <1>5, <3>1, <3>2
  <2> QED BY <2>2, <2>3
<1> QED BY <1>6, <1>7 DEF Chained
-----------------------------------------------------------------------------
(* What was read of the AST is there in a longer line.                     *)
LEMMA TreeLonger ==
  ASSUME InputOK, InputOK', Grows, ast \in Text,
         Copies(ast, Len(ast), 1, input), Len(ast) < Len(input)
  PROVE  Copies(ast, Len(ast), 1, input') /\ Len(ast) < Len(input')
<1>1. Len(ast) \in Nat /\ Len(input) \in Nat /\ Len(input') \in Nat
  BY DEF Text, InputOK
<1>2. 1 + Len(ast) <= Len(input) + 1 /\ 1 \in Nat \ {0}
  BY <1>1
<1> QED BY <1>1, <1>2, CopiesLonger DEF Grows

(* Waiting calls of some kind stay, with more calls or longer texts.       *)
LEMMA WaitsKept ==
  ASSUME CallsOK, CallsOK', NEW kinds, Waits(kinds), Len(calls) <= Len(calls'),
         \A i \in 1..Len(calls) : calls'[i].parses = calls[i].parses
  PROVE  Waits(kinds)'
<1>1. Len(calls) \in Nat /\ Len(calls') \in Nat
  BY DEF CallsOK
<1>2. PICK i \in 1..Len(calls) : calls[i].parses \in kinds
  BY DEF Waits
<1>3. i \in 1..Len(calls') /\ calls'[i].parses \in kinds
  BY <1>1, <1>2
<1> QED BY <1>3 DEF Waits

(* They stay when a call of another kind returns.                          *)
LEMMA WaitsPopped ==
  ASSUME CallsOK, CallsOK', NEW kinds, Waits(kinds), calls # <<>>,
         top.parses \notin kinds, Len(calls') = Len(calls) - 1,
         \A i \in 1..Len(calls') : calls'[i] = calls[i]
  PROVE  Waits(kinds)'
<1>1. Len(calls) \in Nat /\ Len(calls') \in Nat
  BY DEF CallsOK
<1>2. PICK i \in 1..Len(calls) : calls[i].parses \in kinds
  BY DEF Waits
<1>3. i # Len(calls)
  BY <1>2 DEF top
<1>4. i \in 1..Len(calls') /\ calls'[i].parses \in kinds
  BY <1>1, <1>2, <1>3
<1> QED BY <1>4 DEF Waits

(* The last call is one that waits.                                        *)
LEMMA TopWaits ==
  ASSUME CallsOK, calls # <<>>, NEW kinds, top.parses \in kinds
  PROVE  Waits(kinds)
<1>1. Len(calls) \in 1..Len(calls)
  BY DEF CallsOK
<1> QED BY <1>1 DEF Waits, top

(* What is wrong with a line stays wrong.                                  *)
LEMMA StillHopeless ==
  ASSUME Hopeless, todo # "aborted",
         errors.had = TRUE => errors'.had = TRUE,
         current' = current \/ current \notin {".", "error", "eof"},
         Waits({"vector", "bytes"}) => Waits({"vector", "bytes"})',
         current = "eof" /\ Waits({"list"}) => Waits({"list"})'
  PROVE  Hopeless'
BY DEF Hopeless

(* A step that leaves the calls alone.                                     *)
LEMMA KeptHopeless ==
  ASSUME Hopeless, CallsOK, CallsOK', todo # "aborted", calls' = calls,
         errors.had = TRUE => errors'.had = TRUE,
         current' = current \/ current \notin {".", "error", "eof"}
  PROVE  Hopeless'
<1>1. \A i \in 1..Len(calls) : calls'[i].parses = calls[i].parses
  OBVIOUS
<1>2. Len(calls) \in Nat /\ Len(calls) <= Len(calls')
  BY DEF CallsOK
<1> QED BY <1>1, <1>2, WaitsKept, StillHopeless

(* A step that makes a call at a token that is not at fault.               *)
LEMMA PushedHopeless ==
  ASSUME Hopeless, CallsOK, CallsOK', todo # "aborted",
         Len(calls') = Len(calls) + 1,
         \A i \in 1..Len(calls) : calls'[i] = calls[i],
         errors.had = TRUE => errors'.had = TRUE,
         current \notin {".", "error", "eof"}
  PROVE  Hopeless'
<1>1. \A i \in 1..Len(calls) : calls'[i].parses = calls[i].parses
  OBVIOUS
<1>2. Len(calls) \in Nat /\ Len(calls) <= Len(calls')
  BY DEF CallsOK
<1> QED BY <1>1, <1>2, WaitsKept, StillHopeless
-----------------------------------------------------------------------------
(* At the first token the AST and the line before it are both empty. *)
LEMMA InterpretFaithful ==
  ASSUME IInv, IInv', Faithful, Interpret PROVE Faithful'
<1>1. PICK t \in Token : input' = <<t>>
  BY DEF Interpret
<1>2. /\ Len(input') = 1 /\ ast' = <<>> /\ calls' = <<>> /\ todo' = "next"
      /\ Len(ast') = 0 /\ Len(calls') = 0
  BY <1>1 DEF Interpret
<1>3. Read(ast', 1, input')
  BY <1>2 DEF Read, Copies
<1>4. Chained(calls', ast', input')
  BY <1>2 DEF Chained
<1>5. Exact'
  BY <1>2, <1>3, <1>4 DEF Exact
<1> QED BY <1>2, <1>5 DEF Faithful

(* Between expressions the AST is the line so far. *)
LEMMA NextExpressionFaithful ==
  ASSUME IInv, IInv', Faithful, NextExpression PROVE Faithful'
<1>1. /\ UNCHANGED <<input, skipped, errors, ast, calls, result>>
      /\ todo' = IF current = "eof" THEN "idle" ELSE "expression"
      /\ todo = "next" /\ calls = <<>>
  BY DEF NextExpression, IInv, ControlOK
<1>2. current' = current
  BY <1>1 DEF current
<1>3. CASE Hopeless
  BY <1>1, <1>2, <1>3, KeptHopeless DEF IInv, Faithful
<1>4. CASE Exact
  <2>1. Chained(calls', ast', input')
    BY <1>1, <1>4 DEF Exact
  <2>2. Read(ast, 1, input) \/ ReadNull(ast, 1, input)
    BY <1>1, <1>4 DEF Exact
  <2>3. CASE current = "eof"
    BY <1>1, <2>1, <2>2, <2>3 DEF Faithful, Exact
  <2>4. CASE current # "eof"
    <3>1. Read(ast, 1, input)
      BY <2>2, <2>4 DEF ReadNull, current
    <3>2. Len(ast) \in Nat /\ Len(input) \in Nat
      BY DEF IInv, InputOK, ControlOK, Text
    <3>3. Len(ast) + 1 = Len(input) /\ Copies(ast, Len(ast), 1, input)
      BY <3>1, <3>2 DEF Read
    <3>4. ReadTo' = Len(input')
      BY <1>1, <3>3 DEF ReadTo
    <3>5. Len(ast) < Len(input)
      BY <3>2, <3>3
    <3> QED BY <1>1, <1>2, <2>1, <2>4, <3>3, <3>4, <3>5 DEF Faithful, Exact
  <2> QED BY <2>3, <2>4
<1> QED BY <1>3, <1>4 DEF Faithful

(* An expression's text follows the AST's. *)
LEMMA AppendToASTFaithful ==
  ASSUME IInv, IInv', Faithful, AppendToAST PROVE Faithful'
<1>1. /\ UNCHANGED <<input, skipped, errors, calls>> /\ calls = <<>>
      /\ todo' = "next" /\ ast' = Extend(ast, result) /\ todo = "return"
  BY DEF AppendToAST
<1>2. current' = current
  BY <1>1 DEF current
<1>3. CASE Hopeless
  BY <1>1, <1>2, <1>3, KeptHopeless DEF IInv, Faithful
<1>4. CASE Exact
  <2>1. Chained(calls', ast', input')
    BY <1>1 DEF Chained
  <2>2. /\ ast \in Text /\ result \in Text /\ Len(ast) \in Nat
        /\ input \in Seq(Token) /\ Len(input) <= MaxTokens + 1
    BY DEF IInv, InputOK, ControlOK, Text
  <2>3. ReadTo = 1 + Len(ast)
    BY <1>1, <2>2 DEF ReadTo
  <2>4. /\ Copies(ast, Len(ast), 1, input)
        /\ Read(result, 1 + Len(ast), input) \/ ReadNull(result, 1 + Len(ast), input)
    BY <1>1, <1>4, <2>3 DEF Exact
  <2>5. Read(ast', 1, input') \/ ReadNull(ast', 1, input')
    BY <1>1, <2>2, <2>4, ExtendedRead, ExtendedReadNull
  <2> QED BY <1>1, <2>1, <2>5 DEF Faithful, Exact
<1> QED BY <1>3, <1>4 DEF Faithful

(* A token is its own text. *)
LEMMA ParseSimpleFaithful ==
  ASSUME IInv, IInv', Faithful, ParseSimple PROVE Faithful'
<1>1. /\ Advance(errors) /\ current \notin {"eof", ".", "error"}
      /\ ast' = ast /\ calls' = calls
      /\ todo = "expression" /\ todo' = "return" /\ result' = <<current>>
  BY DEF ParseSimple, Expression, Return
<1>2. /\ Grows /\ Len(input') = Len(input) + 1
      /\ errors.had = TRUE => errors'.had = TRUE
  BY <1>1, ErrorsFacts, AdvanceFacts DEF IInv
<1>3. CASE Hopeless
  BY <1>1, <1>2, <1>3, KeptHopeless DEF IInv, Faithful
<1>4. CASE Exact
  <2>1. Chained(calls', ast', input')
    BY <1>1, <1>2, <1>4, ChainedLonger DEF Exact, IInv
  <2>2. Copies(ast', Len(ast'), 1, input') /\ Len(ast') < Len(input')
    BY <1>1, <1>2, <1>4, TreeLonger DEF Exact, IInv, ControlOK
  <2>3. ReadTo' = Len(input)
    BY <1>1, <1>4 DEF Exact, ReadTo, top
  <2>4. Read(result', Len(input), input')
    <3>1. Len(input) \in Nat \ {0} /\ input'[Len(input)] = current
      BY <1>2 DEF IInv, InputOK, Grows, current
    <3> QED BY <1>1, <1>2, <3>1 DEF Read, Copies
  <2> QED BY <1>1, <2>1, <2>2, <2>3, <2>4 DEF Faithful, Exact
<1> QED BY <1>3, <1>4 DEF Faithful

(* A parenthesis too many leaves a line that nothing mends. *)
LEMMA UnexpectedParenthesisFaithful ==
  ASSUME IInv, UnexpectedParenthesis PROVE Faithful'
<1>1. /\ \E bad \in BOOLEAN : NextToken(bad)
      /\ errors' = Calmed(ErrorAt(errors)) /\ current # "eof"
  BY DEF UnexpectedParenthesis, Expression
<1>2. errors'.had = TRUE
  BY <1>1, AdvanceCalmedFacts DEF IInv
<1> QED BY <1>2 DEF Faithful, Hopeless

(* Whoever passes over tokens has reported an error. *)
LEMMA SynchronizeFaithful ==
  ASSUME IInv, Faithful, Synchronize PROVE Faithful'
<1>1. /\ Stay(errors) \/ (Advance(errors) /\ current # "eof")
      /\ errors.had = TRUE
  BY DEF Synchronize, AtSynchronisation, Faithful
<1>2. errors'.had = TRUE
  BY <1>1, ErrorsFacts, StayFacts, AdvanceFacts DEF IInv
<1> QED BY <1>2 DEF Faithful, Hopeless

(* Only the end of the line leaves an abbreviation with NULL.              *)
LEMMA NothingToParseFaithful ==
  ASSUME IInv, IInv', Faithful, NothingToParse PROVE Faithful'
<1>1. /\ Stay(Calmed(errors)) /\ ast' = ast /\ calls' = calls
      /\ todo = "expression" /\ current \in {".", "error", "eof"}
      /\ todo' \in {"return", "synchronize"}
      /\ errors.panic # TRUE => todo' = "return" /\ result' = null
  BY DEF NothingToParse, Return, Expression
<1>2. /\ input' = input /\ current' = current /\ errors'.had = errors.had
  BY <1>1, ErrorsFacts, StayFacts DEF IInv
<1>3. errors.had # TRUE => todo' = "return" /\ result' = null
  BY <1>1 DEF IInv, InputOK, PanicWasReported
<1>4. todo' = "synchronize" => errors'.had = TRUE
  BY <1>2, <1>3
<1>5. CASE Hopeless
  BY <1>1, <1>2, <1>4, <1>5, KeptHopeless DEF IInv, Faithful
<1>6. CASE ~Hopeless
  <2>1. Exact /\ errors.had # TRUE /\ current = "eof"
    BY <1>1, <1>6 DEF Faithful, Hopeless
  <2>2. todo' = "return" /\ result' = null
    BY <1>3, <2>1
  <2>3. calls # <<>> /\ ReadTo = Len(input)
    BY <1>1, <2>1 DEF Exact
  <2>4. top.parses = "quote"
    <3>1. ~Waits({"vector", "bytes"}) /\ ~Waits({"list"})
      BY <1>6, <2>1 DEF Hopeless
    <3> QED BY <2>3, <3>1, TopWaits, TopFacts DEF IInv
  <2>5. top.text = <<"quote">> /\ Copies(top.text, Len(top.text), top.start, input)
    <3>1. Len(calls) \in 1..Len(calls)
      BY <2>3 DEF IInv, CallsOK
    <3> QED BY <2>1, <2>4, <3>1 DEF Exact, Chained, top
  <2>6. /\ top.start \in Nat \ {0} /\ top.start + 1 = Len(input)
        /\ input[top.start] = "quote"
    <3>1. top.start \in Nat \ {0} /\ Len(input) \in Nat
      BY <2>3, TopFacts DEF IInv, InputOK
    <3>2. top.start + 1 = Len(input)
      BY <2>3, <2>5 DEF ReadTo
    <3>3. input[top.start + 1 - 1] = "quote"
      BY <2>5 DEF Copies
    <3> QED BY <3>1, <3>2, <3>3
  <2>7. ReadNull(null, Len(input), input)
    BY <2>1, <2>6 DEF ReadNull, Copies, null, current
  <2>8. ReadTo' = ReadTo
    BY <1>1 DEF ReadTo, top
  <2>9. Exact'
    BY <1>1, <1>2, <2>1, <2>2, <2>3, <2>7, <2>8 DEF Exact
  <2> QED BY <1>4, <2>9 DEF Faithful
<1> QED BY <1>5, <1>6

(* A list's text begins with its parenthesis. *)
LEMMA OpenListFaithful ==
  ASSUME IInv, IInv', Faithful, OpenList PROVE Faithful'
<1>1. /\ Advance(errors) /\ current = "(" /\ Push("list", Len(input))
      /\ todo = "expression" /\ todo' = "opened" /\ ast' = ast
  BY DEF OpenList, Expression
<1>2. /\ InputOK' /\ Grows /\ Len(input') = Len(input) + 1
      /\ errors.had = TRUE => errors'.had = TRUE
  BY <1>1, ErrorsFacts, AdvanceFacts DEF IInv
<1>3. /\ Len(calls') = Len(calls) + 1 /\ top'.text = <<current>>
      /\ \A i \in 1..Len(calls) : calls'[i] = calls[i]
  BY <1>1, <1>2, CallsPushed DEF IInv
<1>4. CASE Hopeless
  BY <1>1, <1>2, <1>3, <1>4, PushedHopeless DEF IInv, Faithful
<1>5. CASE Exact
  <2>1. Chained(calls', ast', input') /\ ReadTo' = Len(input')
    BY <1>1, <1>2, <1>5, ChainedPushed DEF Exact, IInv
  <2>2. Copies(ast', Len(ast'), 1, input') /\ Len(ast') < Len(input')
    BY <1>1, <1>2, <1>5, TreeLonger DEF Exact, IInv, ControlOK
  <2> QED BY <1>1, <1>3, <2>1, <2>2 DEF Faithful, Exact
<1> QED BY <1>4, <1>5 DEF Faithful

(* An abbreviation's text begins with its sign. *)
LEMMA OpenAbbreviationFaithful ==
  ASSUME IInv, IInv', Faithful, OpenAbbreviation PROVE Faithful'
<1>1. /\ Advance(errors) /\ current = "quote" /\ Push("quote", Len(input))
      /\ todo = "expression" /\ todo' = "expression" /\ ast' = ast
  BY DEF OpenAbbreviation, Expression
<1>2. /\ InputOK' /\ Grows /\ Len(input') = Len(input) + 1
      /\ errors.had = TRUE => errors'.had = TRUE
  BY <1>1, ErrorsFacts, AdvanceFacts DEF IInv
<1>3. /\ Len(calls') = Len(calls) + 1 /\ calls' # <<>>
      /\ \A i \in 1..Len(calls) : calls'[i] = calls[i]
  BY <1>1, <1>2, CallsPushed DEF IInv
<1>4. CASE Hopeless
  BY <1>1, <1>2, <1>3, <1>4, PushedHopeless DEF IInv, Faithful
<1>5. CASE Exact
  <2>1. Chained(calls', ast', input') /\ ReadTo' = Len(input')
    BY <1>1, <1>2, <1>5, ChainedPushed DEF Exact, IInv
  <2>2. Copies(ast', Len(ast'), 1, input') /\ Len(ast') < Len(input')
    BY <1>1, <1>2, <1>5, TreeLonger DEF Exact, IInv, ControlOK
  <2> QED BY <1>1, <1>3, <2>1, <2>2 DEF Faithful, Exact
<1> QED BY <1>4, <1>5 DEF Faithful

(* What a call that returns leaves as it is.                               *)
LEMMA PoppedHopeless ==
  ASSUME Hopeless, CallsOK, CallsOK', todo # "aborted", calls # <<>>,
         Len(calls') = Len(calls) - 1,
         \A i \in 1..Len(calls') : calls'[i] = calls[i],
         errors.had = TRUE => errors'.had = TRUE,
         current' = current \/ current \notin {".", "error", "eof"},
         top.parses \notin {"vector", "bytes"},
         top.parses = "list" => current # "eof"
  PROVE  Hopeless'
<1>1. Waits({"vector", "bytes"}) => Waits({"vector", "bytes"})'
  BY WaitsPopped
<1>2. current = "eof" /\ Waits({"list"}) => Waits({"list"})'
  BY WaitsPopped
<1> QED BY <1>1, <1>2, StillHopeless

(* The empty list is its two parentheses. *)
LEMMA EmptyListFaithful ==
  ASSUME IInv, IInv', Faithful, EmptyList PROVE Faithful'
<1>1. /\ Advance(errors) /\ current = ")" /\ Pop /\ ast' = ast
      /\ MakeSyntax(top.start, <<"(", ")">>)
      /\ todo = "opened" /\ calls # <<>> /\ top.parses = "list"
  BY DEF EmptyList, IInv, ControlOK
<1>2. /\ InputOK' /\ Grows /\ Len(input') = Len(input) + 1
      /\ errors.had = TRUE => errors'.had = TRUE
  BY <1>1, ErrorsFacts, AdvanceFacts DEF IInv
<1>3. /\ Len(calls') = Len(calls) - 1
      /\ \A i \in 1..Len(calls') : calls'[i] = calls[i]
  BY <1>1, <1>2, CallsPopped DEF IInv
<1>4. top.start \in 1..(Len(input) - 1) /\ Len(input) \in Nat
  BY <1>1, TopFacts DEF IInv, InputOK
<1>5. todo' = "return" /\ result' = <<"(", ")">>
  BY <1>1, <1>2, <1>4 DEF MakeSyntax, Return
<1>6. CASE Hopeless
  BY <1>1, <1>2, <1>3, <1>5, <1>6, PoppedHopeless DEF IInv, Faithful
<1>7. CASE Exact
  <2>1. Chained(calls', ast', input') /\ ReadTo' = top.start
    BY <1>1, <1>2, <1>7, ChainedPopped DEF Exact, IInv
  <2>2. Copies(ast', Len(ast'), 1, input') /\ Len(ast') < Len(input')
    BY <1>1, <1>2, <1>7, TreeLonger DEF Exact, IInv, ControlOK
  <2>3. /\ top.text = <<"(">> /\ top.start + 1 = Len(input)
        /\ Copies(top.text, Len(top.text), top.start, input)
    <3>1. Len(calls) \in 1..Len(calls)
      BY <1>1 DEF IInv, CallsOK
    <3> QED BY <1>1, <1>7, <3>1 DEF Exact, Chained, ReadTo, top
  <2>4. input[top.start] = "(" /\ input[top.start + 1] = ")"
    <3>1. input[top.start + 1 - 1] = "("
      BY <2>3 DEF Copies
    <3> QED BY <1>1, <1>4, <2>3, <3>1 DEF current
  <2>5. input'[top.start] = "(" /\ input'[top.start + 1] = ")"
    BY <1>2, <1>4, <2>3, <2>4 DEF Grows
  <2>6. Read(<<"(", ")">>, top.start, input')
    <3>1. ASSUME NEW j \in 1..2
          PROVE  <<"(", ")">>[j] = input'[top.start + j - 1]
      <4>1. j = 1 \/ j = 2
        OBVIOUS
      <4>2. top.start + 1 - 1 = top.start /\ top.start + 2 - 1 = top.start + 1
        BY <1>4
      <4> QED BY <2>5, <4>1, <4>2
    <3>2. top.start + 2 = Len(input')
      BY <1>2, <1>4, <2>3
    <3> QED BY <3>1, <3>2 DEF Read, Copies
  <2> QED BY <1>5, <2>1, <2>2, <2>6 DEF Faithful, Exact
<1> QED BY <1>6, <1>7 DEF Faithful

(* Before its first element a list has no text of its own. *)
LEMMA FirstElementFaithful ==
  ASSUME IInv, IInv', Faithful, FirstElement PROVE Faithful'
<1>1. /\ Stay(IF current = "eof" THEN ErrorAt(errors) ELSE errors)
      /\ todo = "opened" /\ todo' = "expression" /\ ast' = ast
      /\ calls' = calls /\ calls # <<>>
  BY DEF FirstElement, IInv, ControlOK
<1>2. /\ input' = input /\ current' = current
      /\ errors.had = TRUE => errors'.had = TRUE
  BY <1>1, ErrorsFacts, StayFacts DEF IInv
<1>3. CASE Hopeless
  BY <1>1, <1>2, <1>3, KeptHopeless DEF IInv, Faithful
<1>4. CASE Exact
  <2>1. ReadTo' = ReadTo
    BY <1>1 DEF ReadTo, top
  <2> QED BY <1>1, <1>2, <1>4, <2>1 DEF Faithful, Exact
<1> QED BY <1>3, <1>4 DEF Faithful

(* An element's text follows those before it. *)
LEMMA ListElementFaithful ==
  ASSUME IInv, IInv', Faithful, ListElement PROVE Faithful'
<1>1. /\ UNCHANGED <<input, skipped, errors, ast>> /\ calls # <<>>
      /\ calls' = [calls EXCEPT ![Len(calls)].text = Extend(@, result)]
      /\ todo = "return" /\ todo' \in {"expression", "close"}
      /\ top.parses = "list"
  BY DEF ListElement
<1>2. current' = current /\ Grows
  BY <1>1 DEF current, Grows, IInv, InputOK
<1>3. /\ Len(calls') = Len(calls) /\ calls' # <<>>
      /\ \A i \in 1..(Len(calls) - 1) : calls'[i] = calls[i]
      /\ calls'[Len(calls)].parses = calls[Len(calls)].parses
  BY <1>1, <1>2, CallsExtended DEF IInv, ControlOK, top
<1>4. CASE Hopeless
  <2>1. \A i \in 1..Len(calls) : calls'[i].parses = calls[i].parses
    <3>1. Len(calls) \in Nat
      BY DEF IInv, CallsOK
    <3> QED BY <1>3, <3>1
  <2>2. Len(calls) <= Len(calls')
    BY <1>3 DEF IInv, CallsOK
  <2>3. Hopeless'
    BY <1>1, <1>2, <1>4, <2>1, <2>2, WaitsKept, StillHopeless DEF IInv
  <2> QED BY <1>1, <2>3 DEF Faithful
<1>5. CASE ~Hopeless
  <2>1. Exact /\ current # "eof"
    <3>1. Waits({"list"})
      BY <1>1, TopWaits DEF IInv
    <3> QED BY <1>5, <3>1 DEF Faithful, Hopeless
  <2>2. Read(result, ReadTo, input)
    BY <1>1, <2>1 DEF Exact, ReadNull, current
  <2>3. Chained(calls', ast', input') /\ ReadTo' = Len(input')
    BY <1>1, <1>2, <2>1, <2>2, ChainedExtended DEF Exact, IInv
  <2> QED BY <1>1, <1>3, <2>1, <2>3 DEF Faithful, Exact
<1> QED BY <1>4, <1>5

(* A list's text ends with its parenthesis. *)
LEMMA CloseListFaithful ==
  ASSUME IInv, IInv', Faithful, CloseList PROVE Faithful'
<1>1. /\ Consume(")") /\ Pop /\ ast' = ast
      /\ MakeSyntax(top.start, Extend(top.text, <<")">>))
      /\ todo = "close" /\ calls # <<>> /\ top.parses = "list"
      /\ current \in {")", "eof"}
  BY DEF CloseList, IInv, ControlOK
<1>2. /\ InputOK' /\ Grows
      /\ errors.had = TRUE => errors'.had = TRUE
      /\ current = "eof" => errors'.had = TRUE
      /\ current = ")" => Len(input') = Len(input) + 1
  BY <1>1, ConsumeFacts DEF IInv
<1>3. /\ Len(calls') = Len(calls) - 1
      /\ \A i \in 1..Len(calls') : calls'[i] = calls[i]
  BY <1>1, <1>2, CallsPopped DEF IInv
<1>4. /\ top.start \in 1..(Len(input) - 1) /\ top.text \in Text
      /\ Len(input) \in Nat /\ Len(input') \in Nat /\ Len(input) <= Len(input')
      /\ Len(top.text) \in Nat
  BY <1>1, <1>2, TopFacts DEF IInv, InputOK, Grows, Text
<1>5. todo' = "return" /\ result' = Extend(top.text, <<")">>)
  BY <1>1, <1>4 DEF MakeSyntax, Return
<1>6. CASE current = "eof"
  BY <1>2, <1>5, <1>6 DEF Faithful, Hopeless
<1>7. CASE current # "eof" /\ Hopeless
  BY <1>1, <1>2, <1>3, <1>5, <1>7, PoppedHopeless DEF IInv, Faithful
<1>8. CASE current # "eof" /\ Exact
  <2>1. Chained(calls', ast', input') /\ ReadTo' = top.start
    BY <1>1, <1>2, <1>8, ChainedPopped DEF Exact, IInv
  <2>2. Copies(ast', Len(ast'), 1, input') /\ Len(ast') < Len(input')
    BY <1>1, <1>2, <1>8, TreeLonger DEF Exact, IInv, ControlOK
  <2>3. /\ Copies(top.text, Len(top.text), top.start, input)
        /\ top.start + Len(top.text) = Len(input)
    <3>1. Len(calls) \in 1..Len(calls)
      BY <1>1 DEF IInv, CallsOK
    <3> QED BY <1>1, <1>8, <3>1 DEF Exact, Chained, ReadTo, top
  <2>4. Copies(top.text, Len(top.text), top.start, input')
    <3>1. /\ top.start \in Nat \ {0}
          /\ top.start + Len(top.text) <= Len(input) + 1
      BY <1>4, <2>3
    <3> QED BY <1>2, <1>4, <2>3, <3>1, CopiesLonger DEF IInv
  <2>5. Read(<<")">>, top.start + Len(top.text), input')
    <3>1. current = ")" /\ Len(input') = Len(input) + 1
      BY <1>1, <1>2, <1>8
    <3>2. input'[Len(input)] = ")" /\ Len(<<")">>) = 1
      BY <1>2, <1>4, <3>1 DEF Grows, current
    <3>3. Len(input) + 1 - 1 = Len(input)
      BY <1>4
    <3> QED BY <2>3, <3>1, <3>2, <3>3 DEF Read, Copies
  <2>6. Read(Extend(top.text, <<")">>), top.start, input')
    <3>1. top.start \in Nat \ {0} /\ <<")">> \in Text
      BY <1>4, Texts DEF IInv
    <3>2. input' \in Seq(Token) /\ Len(input') <= MaxTokens + 1
      BY <1>2 DEF InputOK
    <3> QED BY <1>4, <2>4, <2>5, <3>1, <3>2, ExtendedRead
  <2> QED BY <1>5, <2>1, <2>2, <2>6 DEF Faithful, Exact
<1> QED BY <1>6, <1>7, <1>8 DEF Faithful

(* An abbreviation's text is its sign and its datum's. *)
LEMMA FinishAbbreviationFaithful ==
  ASSUME IInv, IInv', Faithful, FinishAbbreviation PROVE Faithful'
<1>1. /\ Stay(errors) /\ Pop /\ ast' = ast /\ todo = "return"
      /\ MakeSyntax(top.start, Extend(top.text, result))
      /\ calls # <<>> /\ top.parses = "quote"
  BY DEF FinishAbbreviation
<1>2. /\ InputOK' /\ Grows /\ input' = input /\ current' = current
      /\ errors.had = TRUE => errors'.had = TRUE
  BY <1>1, ErrorsFacts, StayFacts DEF IInv
<1>3. /\ Len(calls') = Len(calls) - 1
      /\ \A i \in 1..Len(calls') : calls'[i] = calls[i]
  BY <1>1, <1>2, CallsPopped DEF IInv
<1>4. /\ top.start \in 1..(Len(input) - 1) /\ top.text \in Text
      /\ Len(input) \in Nat /\ result \in Text
  BY <1>1, TopFacts DEF IInv, InputOK, ControlOK
<1>5. todo' = "return" /\ result' = Extend(top.text, result)
  BY <1>1, <1>2, <1>4 DEF MakeSyntax, Return
<1>6. CASE Hopeless
  BY <1>1, <1>2, <1>3, <1>5, <1>6, PoppedHopeless DEF IInv, Faithful
<1>7. CASE Exact
  <2>1. Chained(calls', ast', input') /\ ReadTo' = top.start
    BY <1>1, <1>2, <1>7, ChainedPopped DEF Exact, IInv
  <2>2. Copies(ast', Len(ast'), 1, input') /\ Len(ast') < Len(input')
    BY <1>1, <1>2, <1>7 DEF Exact
  <2>3. Copies(top.text, Len(top.text), top.start, input)
    <3>1. Len(calls) \in 1..Len(calls)
      BY <1>1 DEF IInv, CallsOK
    <3> QED BY <1>7, <3>1 DEF Exact, Chained, top
  <2>4. \/ Read(result, top.start + Len(top.text), input)
        \/ ReadNull(result, top.start + Len(top.text), input)
    BY <1>1, <1>7 DEF Exact, ReadTo
  <2>5. /\ top.start \in Nat \ {0} /\ input \in Seq(Token)
        /\ Len(input) <= MaxTokens + 1
    BY <1>4 DEF IInv, InputOK
  <2>6. Read(result', top.start, input) \/ ReadNull(result', top.start, input)
    BY <1>4, <1>5, <2>3, <2>4, <2>5, ExtendedRead, ExtendedReadNull
  <2> QED BY <1>2, <1>5, <2>1, <2>2, <2>6 DEF Faithful, Exact
<1> QED BY <1>6, <1>7 DEF Faithful

(* A vector that is opened is never in an AST: its end is an abort.        *)
LEMMA VectorsFaithful ==
  ASSUME IInv, IInv',
         OpenVector \/ VectorElements \/ VectorElement \/ ByteElement
  PROVE  Faithful'
<1>1. calls' # <<>> /\ top'.parses \in {"vector", "bytes"}
  <2>1. CASE OpenVector
    <3>1. todo' = "elements"
      BY <2>1 DEF OpenVector
    <3> QED BY <3>1 DEF IInv, ControlOK
  <2>2. CASE VectorElements
    <3>1. calls' = calls /\ todo = "elements"
      BY <2>2 DEF VectorElements
    <3> QED BY <3>1 DEF IInv, ControlOK, top
  <2>3. CASE VectorElement \/ ByteElement
    <3>1. todo' = "elements"
      BY <2>3 DEF VectorElement, ByteElement
    <3> QED BY <3>1 DEF IInv, ControlOK
  <2> QED BY <2>1, <2>2, <2>3
<1>2. Waits({"vector", "bytes"})'
  <2>1. Len(calls') \in 1..Len(calls')
    BY <1>1 DEF IInv, CallsOK
  <2> QED BY <1>1, <2>1 DEF Waits, top
<1>3. todo' # "synchronize"
  BY DEF OpenVector, VectorElements, VectorElement, ByteElement
<1> QED BY <1>2, <1>3 DEF Faithful, Hopeless

(* Faithful is kept by every step. *)
LEMMA FaithfulStep ==
  ASSUME IInv, IInv', Faithful, [Next]_vars PROVE Faithful'
<1>1. CASE Interpret
  BY <1>1, InterpretFaithful
<1>2. CASE ParseAll
  BY <1>2, NextExpressionFaithful, AppendToASTFaithful DEF ParseAll
<1>3. CASE ParseExpression
  BY <1>3, ParseSimpleFaithful, UnexpectedParenthesisFaithful,
     NothingToParseFaithful, SynchronizeFaithful DEF ParseExpression
<1>4. CASE ParseList
  BY <1>4, OpenListFaithful, EmptyListFaithful, FirstElementFaithful,
     ListElementFaithful, CloseListFaithful DEF ParseList
<1>5. CASE ParseAbbreviation
  BY <1>5, OpenAbbreviationFaithful, FinishAbbreviationFaithful
     DEF ParseAbbreviation
<1>6. CASE ParseVector
  <2>1. CASE CloseVector
    <3>1. todo' = "aborted"
      BY <2>1, CloseVectorStep
    <3> QED BY <3>1 DEF Faithful, Hopeless
  <2> QED BY <1>6, <2>1, VectorsFaithful DEF ParseVector
<1>7. CASE UNCHANGED vars
  <2>1. current' = current /\ top' = top
    BY <1>7 DEF vars, current, top
  <2>2. ReadTo' = ReadTo
    BY <1>7, <2>1 DEF vars, ReadTo
  <2>3. Exact => Exact'
    BY <1>7, <2>1, <2>2 DEF vars, Exact
  <2>4. Hopeless => Hopeless'
    BY <1>7, <2>1 DEF vars, Hopeless, Waits
  <2> QED BY <1>7, <2>3, <2>4 DEF vars, Faithful
<1> QED BY <1>1, <1>2, <1>3, <1>4, <1>5, <1>6, <1>7 DEF Next, Parse

(* Of a line that was parsed without an error.                             *)
LEMMA ParsedExactly == ASSUME IInv, Faithful PROVE ASTIsTheInput
<1> SUFFICES ASSUME Parsed
             PROVE  \/ ast = tokens
                    \/ ast = Append(tokens, "null") /\ tokens[Len(tokens)] = "quote"
  BY DEF ASTIsTheInput
<1>1. todo = "idle" /\ errors.had # TRUE /\ calls = <<>> /\ current = "eof"
  BY DEF Parsed, IInv, ControlOK
<1>2. ~Hopeless
  <2>1. 1..Len(calls) = {}
    BY <1>1
  <2>2. ~Waits({"vector", "bytes"}) /\ ~Waits({"list"})
    BY <2>1 DEF Waits
  <2> QED BY <1>1, <2>2 DEF Hopeless
<1>3. Read(ast, 1, input) \/ ReadNull(ast, 1, input)
  BY <1>1, <1>2 DEF Faithful, Exact
<1>4. /\ ast \in Text /\ input \in Seq(Token) /\ Len(input) \in Nat \ {0}
      /\ Len(ast) \in Nat /\ input \in Text
  BY DEF IInv, InputOK, ControlOK, Text
<1> DEFINE n == Len(input) - 1
<1>5. /\ tokens \in Text /\ Len(tokens) = n
      /\ \A i \in 1..n : tokens[i] = input[i]
  <2>1. /\ n \in Int /\ 1 \in Int /\ n \in Nat
        /\ \A i \in 1..n : input[i] \in Token \cup {"null"}
    BY <1>4 DEF Text
  <2>2. tokens = SubSeq(input, 1, n)
    BY DEF tokens
  <2> HIDE DEF n
  <2>3. /\ SubSeq(input, 1, n) \in Text
        /\ Len(SubSeq(input, 1, n)) = IF 1 <= n THEN n - 1 + 1 ELSE 0
        /\ \A i \in 1..(n - 1 + 1) : SubSeq(input, 1, n)[i] = input[1 + i - 1]
    BY <2>1, SubSeqProperties DEF Text
  <2>4. Len(tokens) = n
    BY <2>1, <2>2, <2>3
  <2>5. \A i \in 1..n : tokens[i] = input[i]
    BY <2>1, <2>2, <2>3
  <2> QED BY <2>2, <2>3, <2>4, <2>5
<1>6. CASE Read(ast, 1, input)
  <2>1. Len(ast) = Len(tokens)
    BY <1>4, <1>5, <1>6 DEF Read
  <2>2. \A i \in 1..Len(ast) : ast[i] = tokens[i]
    <3> SUFFICES ASSUME NEW i \in 1..Len(ast) PROVE ast[i] = tokens[i]
      OBVIOUS
    <3>1. ast[i] = input[1 + i - 1] /\ 1 + i - 1 = i
      BY <1>4, <1>6 DEF Read, Copies
    <3>2. tokens[i] = input[i]
      BY <1>5, <2>1
    <3> QED BY <3>1, <3>2
  <2> QED BY <1>4, <1>5, <2>1, <2>2, SeqEqual DEF Text
<1>7. CASE ReadNull(ast, 1, input)
  <2> DEFINE more == Append(tokens, "null")
  <2>1. /\ more \in Text /\ Len(more) = Len(tokens) + 1
        /\ \A i \in 1..Len(tokens) : more[i] = tokens[i]
        /\ more[Len(tokens) + 1] = "null"
    BY <1>5 DEF Text
  <2> HIDE DEF more
  <2>2. Len(ast) = Len(input) /\ Len(ast) = Len(more)
    BY <1>4, <1>5, <1>7, <2>1 DEF ReadNull
  <2>3. \A i \in 1..Len(ast) : ast[i] = more[i]
    <3> SUFFICES ASSUME NEW i \in 1..Len(ast) PROVE ast[i] = more[i]
      OBVIOUS
    <3>1. CASE i = Len(ast)
      <4>1. ast[i] = "null"
        BY <1>7, <3>1 DEF ReadNull
      <4>2. i = Len(tokens) + 1
        BY <1>4, <2>1, <2>2, <3>1
      <4> QED BY <2>1, <4>1, <4>2
    <3>2. CASE i # Len(ast)
      <4>1. i \in 1..(Len(ast) - 1) /\ 1 + i - 1 = i
        BY <1>4, <3>2
      <4>2. ast[i] = input[1 + i - 1]
        BY <1>7, <4>1 DEF ReadNull, Copies
      <4>3. i \in 1..Len(tokens)
        BY <1>4, <1>5, <2>2, <4>1
      <4> QED BY <1>5, <2>1, <4>1, <4>2, <4>3
    <3> QED BY <3>1, <3>2
  <2>4. ast = more
    BY <1>4, <2>1, <2>2, <2>3, SeqEqual DEF Text
  <2>5. tokens[Len(tokens)] = "quote"
    <3>1. n \in 1..n /\ input[n] = "quote"
      BY <1>4, <1>7 DEF ReadNull
    <3> QED BY <1>5, <3>1
  <2> QED BY <2>4, <2>5 DEF more
<1> QED BY <1>3, <1>6, <1>7

(***************************************************************************)
(* A line that is parsed without an error is in the AST as it was read,    *)
(* however long it is and however deep its lists are.                      *)
(***************************************************************************)
THEOREM AcceptedLinesAreKept == Spec => []ASTIsTheInput
<1>1. Init => Faithful
  <2> SUFFICES ASSUME Init PROVE Faithful
    OBVIOUS
  <2>1. /\ input = <<"eof">> /\ ast = <<>> /\ calls = <<>> /\ todo = "idle"
        /\ Len(input) = 1 /\ Len(ast) = 0 /\ Len(calls) = 0
    BY DEF Init
  <2>2. Chained(calls, ast, input) /\ Read(ast, 1, input)
    BY <2>1 DEF Chained, Read, Copies
  <2> QED BY <2>1, <2>2 DEF Faithful, Exact
<1>2. IInv /\ IInv' /\ Faithful /\ [Next]_vars => Faithful'
  BY FaithfulStep
<1>3. IInv /\ Faithful => ASTIsTheInput
  BY ParsedExactly
<1> QED BY <1>1, <1>2, <1>3, Invariant, PTL DEF Spec
-----------------------------------------------------------------------------
(***************************************************************************)
(* The errors, in a line of lists and data.  Until there is one, the lists *)
(* that wait are those that the line has left open; once there is one, the *)
(* line has a fault that no further token can mend.                        *)
(***************************************************************************)

(* How many tokens of this type the first n are. *)
Count(t, n, line) == Cardinality({i \in 1..n : line[i] = t})
Nesting(n, line) == Count("(", n, line) - Count(")", n, line)
Lists(cs) == Cardinality({i \in 1..Len(cs) : cs[i].parses = "list"})

(* An abbreviation of nothing. *)
Dangles(n, line) == line[n - 1] = "quote" /\ line[n] = ")"

Sound ==
  /\ skipped = FALSE
  /\ \A n \in 1..(Len(input) - 1) : Nesting(n, input) >= 0
  /\ \A n \in 2..(Len(input) - 1) : ~Dangles(n, input)
  /\ Nesting(Len(input) - 1, input) = Lists(calls)

Faulty ==
  \/ skipped = TRUE
  \/ \E n \in 1..(Len(input) - 1) : Nesting(n, input) < 0
  \/ \E n \in 2..(Len(input) - 1) : Dangles(n, input)
  \/ current = "eof" /\ Nesting(Len(input) - 1, input) # 0

(* What comes before the current token, as long as there is no error.      *)
Preceded ==
  /\ todo = "opened" => input[Len(input) - 1] = "("
  /\ todo \in {"return", "close"} /\ current = ")" =>
       input[Len(input) - 1] # "quote"
  /\ todo = "expression" /\ current = ")" =>
       calls = <<>> \/ input[Len(input) - 1] = "quote"

Judged ==
  IsPlain(input) => /\ errors.had = FALSE => Sound /\ Preceded
                    /\ errors.had = TRUE => Faulty
-----------------------------------------------------------------------------
(* A set of the first numbers, counted up to the last of them.             *)
LEMMA CardinalityNext ==
  ASSUME NEW n \in Nat, NEW S, S \subseteq 1..(n + 1)
  PROVE  /\ Cardinality(S) \in Nat /\ Cardinality(S \cap (1..n)) \in Nat
         /\ Cardinality(S) = Cardinality(S \cap (1..n))
                               + (IF n + 1 \in S THEN 1 ELSE 0)
<1> DEFINE T == S \cap (1..n)
<1>1. IsFiniteSet(S) /\ IsFiniteSet(T)
  <2>1. IsFiniteSet(1..(n + 1)) /\ IsFiniteSet(1..n)
    BY FS_Interval
  <2> QED BY <2>1, FS_Subset
<1>2. Cardinality(S) \in Nat /\ Cardinality(T) \in Nat
  BY <1>1, FS_CardinalityType
<1>3. n + 1 \notin T /\ \A x \in S : x \in T \/ x = n + 1
  <2>1. \A x \in 1..(n + 1) : x \in 1..n \/ x = n + 1
    OBVIOUS
  <2> QED BY <2>1
<1>4. CASE n + 1 \in S
  <2>1. S = T \cup {n + 1}
    BY <1>3, <1>4
  <2>2. Cardinality(T \cup {n + 1}) = Cardinality(T) + 1
    BY <1>1, <1>3, FS_AddElement
  <2> QED BY <1>2, <1>4, <2>1, <2>2
<1>5. CASE n + 1 \notin S
  <2>1. S = T
    BY <1>3, <1>5
  <2> QED BY <1>2, <1>5, <2>1
<1> QED BY <1>4, <1>5

(* One token more, and the same tokens in another line.                    *)
LEMMA CountNext ==
  ASSUME NEW t, NEW n \in Nat, NEW line
  PROVE  /\ Count(t, n, line) \in Nat /\ Count(t, n + 1, line) \in Nat
         /\ Count(t, n + 1, line) =
              Count(t, n, line) + (IF line[n + 1] = t THEN 1 ELSE 0)
<1> DEFINE S == {i \in 1..(n + 1) : line[i] = t}
<1>1. S \cap (1..n) = {i \in 1..n : line[i] = t}
  OBVIOUS
<1>2. S \subseteq 1..(n + 1) /\ (n + 1 \in S <=> line[n + 1] = t)
  OBVIOUS
<1> HIDE DEF S
<1> QED BY <1>1, <1>2, CardinalityNext DEF Count, S

(* Each token moves the nesting by at most one. *)
LEMMA NestingNext ==
  ASSUME NEW n \in Nat, NEW line
  PROVE  /\ Nesting(n, line) \in Int
         /\ Nesting(n + 1, line) =
              Nesting(n, line) + (IF line[n + 1] = "(" THEN 1
                                  ELSE IF line[n + 1] = ")" THEN -1 ELSE 0)
BY CountNext DEF Nesting

(* The nesting depends on the tokens that it counts alone. *)
LEMMA NestingSame ==
  ASSUME NEW n, NEW line, NEW other, \A i \in 1..n : other[i] = line[i]
  PROVE  Nesting(n, other) = Nesting(n, line)
<1>1. ASSUME NEW t PROVE Count(t, n, other) = Count(t, n, line)
  <2>1. {i \in 1..n : other[i] = t} = {i \in 1..n : line[i] = t}
    OBVIOUS
  <2> QED BY <2>1 DEF Count
<1> QED BY <1>1 DEF Nesting

(* The lists among the calls, with one call more or with the same kinds.   *)
LEMMA ListsOfMore ==
  ASSUME NEW cs, NEW more, Len(cs) \in Nat, Len(more) = Len(cs) + 1,
         \A i \in 1..Len(cs) : more[i].parses = cs[i].parses
  PROVE  /\ Lists(cs) \in Nat
         /\ Lists(more) = Lists(cs)
              + (IF more[Len(more)].parses = "list" THEN 1 ELSE 0)
<1> DEFINE n == Len(cs)
           S == {i \in 1..(n + 1) : more[i].parses = "list"}
<1>1. S \cap (1..n) = {i \in 1..n : cs[i].parses = "list"}
  OBVIOUS
<1>2. S \subseteq 1..(n + 1) /\ (n + 1 \in S <=> more[n + 1].parses = "list")
  OBVIOUS
<1>3. Cardinality(S) = Cardinality(S \cap (1..n))
                        + (IF n + 1 \in S THEN 1 ELSE 0)
        /\ Cardinality(S \cap (1..n)) \in Nat
  <2> HIDE DEF S
  <2> QED BY <1>2, CardinalityNext
<1> QED BY <1>1, <1>2, <1>3 DEF Lists

(* The open lists are those of calls that parse the same. *)
LEMMA ListsSame ==
  ASSUME NEW cs, NEW others, Len(others) = Len(cs),
         \A i \in 1..Len(cs) : others[i].parses = cs[i].parses
  PROVE  Lists(others) = Lists(cs)
<1>1. {i \in 1..Len(others) : others[i].parses = "list"} =
        {i \in 1..Len(cs) : cs[i].parses = "list"}
  OBVIOUS
<1> QED BY <1>1 DEF Lists

(* Without calls no list is open. *)
LEMMA NoLists == Lists(<<>>) = 0
<1>1. {i \in 1..Len(<<>>) : <<>>[i].parses = "list"} = {}
  OBVIOUS
<1> QED BY <1>1, FS_EmptySet DEF Lists

(* A list that waits is one that is open.                                  *)
LEMMA ListsPopped ==
  ASSUME CallsOK, calls # <<>>, Len(calls') = Len(calls) - 1,
         \A i \in 1..Len(calls') : calls'[i] = calls[i]
  PROVE  /\ Lists(calls') \in Nat
         /\ Lists(calls) = Lists(calls')
                             + (IF top.parses = "list" THEN 1 ELSE 0)
<1>1. /\ Len(calls) \in Nat \ {0} /\ Len(calls') \in Nat
      /\ Len(calls) = Len(calls') + 1
  BY DEF CallsOK
<1>2. \A i \in 1..Len(calls') : calls[i].parses = calls'[i].parses
  OBVIOUS
<1> QED BY <1>1, <1>2, ListsOfMore DEF top

(* With a list on top at least one is. *)
LEMMA ListsOpen ==
  ASSUME CallsOK, calls # <<>>, top.parses = "list"
  PROVE  Lists(calls) \in Nat \ {0}
<1> DEFINE less == [i \in 1..(Len(calls) - 1) |-> calls[i]]
<1>1. /\ Len(calls) \in Nat \ {0} /\ calls \in Seq(Calls)
  BY DEF CallsOK
<1>2. /\ less \in Seq(Calls) /\ Len(less) = Len(calls) - 1
      /\ \A i \in 1..(Len(calls) - 1) : less[i] = calls[i]
  BY <1>1
<1> HIDE DEF less
<1>3. /\ Len(less) \in Nat /\ Len(calls) = Len(less) + 1
      /\ \A i \in 1..Len(less) : calls[i].parses = less[i].parses
  BY <1>1, <1>2
<1>4. Lists(less) \in Nat /\ Lists(calls) = Lists(less) + 1
  BY <1>3, ListsOfMore DEF top
<1> QED BY <1>4

(* The open lists are finitely many. *)
LEMMA ListsAreCounted == ASSUME CallsOK PROVE Lists(calls) \in Nat
<1>1. Len(calls) \in Nat
  BY DEF CallsOK
<1> DEFINE S == {i \in 1..Len(calls) : calls[i].parses = "list"}
<1>2. IsFiniteSet(S)
  <2>1. IsFiniteSet(1..Len(calls)) /\ S \in SUBSET (1..Len(calls))
    BY <1>1, FS_Interval
  <2> QED BY <2>1, FS_Subset
<1> QED BY <1>2, FS_CardinalityType DEF Lists
-----------------------------------------------------------------------------
(* A line that stays one of lists and data was one.                        *)
LEMMA PlainBefore ==
  ASSUME InputOK, InputOK', Grows, IsPlain(input')
  PROVE  IsPlain(input)
<1>1. Len(input) \in Nat /\ Len(input') \in Nat /\ Len(input) <= Len(input')
  BY DEF InputOK, Grows
<1> QED BY <1>1 DEF IsPlain, Grows

(* No vector waits in such a line.                                         *)
LEMMA PlainHasNoVectors ==
  ASSUME InputOK, CallsOK, calls # <<>>, top.parses \in {"vector", "bytes"}
  PROVE  ~IsPlain(input)
<1>1. top.start \in 1..(Len(input) - 1) /\ input[top.start] \in Opens
  BY TopFacts DEF Fits
<1>2. top.start \in 1..Len(input)
  BY <1>1 DEF InputOK
<1> QED BY <1>1, <1>2 DEF IsPlain, Plain, Opens

(* A fault is there in every longer line.                                  *)
LEMMA FaultyStays ==
  ASSUME InputOK, InputOK', Faulty, Grows, skipped = TRUE => skipped' = TRUE,
         input' = input \/ current # "eof"
  PROVE  Faulty'
<1>1. Len(input) \in Nat /\ Len(input') \in Nat /\ Len(input) <= Len(input')
  BY DEF InputOK, Grows
<1>2. CASE input' = input
  BY <1>2 DEF Faulty, current
<1>3. CASE skipped = TRUE
  BY <1>3 DEF Faulty
<1>4. CASE \E n \in 1..(Len(input) - 1) : Nesting(n, input) < 0
  <2>1. PICK n \in 1..(Len(input) - 1) : Nesting(n, input) < 0
    BY <1>4
  <2>2. n \in 1..(Len(input') - 1) /\ \A i \in 1..n : input'[i] = input[i]
    BY <1>1 DEF Grows
  <2>3. Nesting(n, input') < 0
    BY <2>1, <2>2, NestingSame
  <2> QED BY <2>2, <2>3 DEF Faulty
<1>5. CASE \E n \in 2..(Len(input) - 1) : Dangles(n, input)
  <2>1. PICK n \in 2..(Len(input) - 1) : Dangles(n, input)
    BY <1>5
  <2>2. n \in 2..(Len(input') - 1) /\ n \in 1..Len(input) /\ n - 1 \in 1..Len(input)
    BY <1>1
  <2>3. Dangles(n, input')
    BY <2>1, <2>2 DEF Dangles, Grows
  <2> QED BY <2>2, <2>3 DEF Faulty
<1> QED BY <1>2, <1>3, <1>4, <1>5 DEF Faulty

(* A token that is passed and is no fault.                                 *)
LEMMA SoundPassed ==
  ASSUME InputOK, InputOK', Grows, Len(input') = Len(input) + 1,
         Sound, skipped' = skipped,
         Lists(calls') \in Nat,
         Lists(calls') = Lists(calls) + (IF current = "(" THEN 1
                                       ELSE IF current = ")" THEN -1 ELSE 0),
         current = ")" /\ Len(input) >= 2 => input[Len(input) - 1] # "quote"
  PROVE  Sound'
<1>1. /\ Len(input) \in Nat \ {0} /\ Len(input') - 1 = Len(input)
      /\ input[Len(input)] = current
  BY DEF InputOK, current
<1>0. Len(input) \in Nat
  BY <1>1
<1>2. ASSUME NEW n \in 0..Len(input)
      PROVE  Nesting(n, input') = Nesting(n, input)
  <2>1. \A i \in 1..n : input'[i] = input[i]
    BY <1>1 DEF Grows
  <2> QED BY <2>1, NestingSame
<1>3. Nesting(Len(input), input) = Lists(calls')
  <2>1. Len(input) - 1 \in Nat /\ (Len(input) - 1) + 1 = Len(input)
    BY <1>1
  <2>2. Nesting(Len(input), input) =
          Nesting(Len(input) - 1, input) + (IF current = "(" THEN 1
                                       ELSE IF current = ")" THEN -1 ELSE 0)
    BY <1>1, <2>1, NestingNext
  <2> QED BY <2>2 DEF Sound
<1>4. Nesting(Len(input') - 1, input') = Lists(calls')
  BY <1>1, <1>2, <1>3
<1>5. ASSUME NEW n \in 1..(Len(input') - 1) PROVE Nesting(n, input') >= 0
  <2>0. n \in 1..Len(input)
    BY <1>1
  <2>1. CASE n = Len(input)
    BY <1>1, <1>4, <2>1
  <2>2. CASE n # Len(input)
    <3>1. n \in 1..(Len(input) - 1) /\ n \in 0..Len(input)
      BY <1>0, <2>0, <2>2
    <3> QED BY <1>2, <3>1 DEF Sound
  <2> QED BY <2>1, <2>2
<1>6. ASSUME NEW n \in 2..(Len(input') - 1) PROVE ~Dangles(n, input')
  <2>1. /\ n \in 1..Len(input) /\ n - 1 \in 1..Len(input)
        /\ input'[n] = input[n] /\ input'[n - 1] = input[n - 1]
    BY <1>1 DEF Grows
  <2>2. CASE n = Len(input)
    BY <1>1, <2>1, <2>2 DEF Dangles
  <2>3. CASE n # Len(input)
    <3>1. n \in 2..(Len(input) - 1)
      BY <1>0, <2>1, <2>3
    <3> QED BY <2>1, <3>1 DEF Sound, Dangles
  <2> QED BY <2>2, <2>3
<1> QED BY <1>4, <1>5, <1>6 DEF Sound

(* What is left to show of a step.                                         *)
LEMMA JudgedStep ==
  ASSUME InputOK, InputOK', Judged, Grows,
         input' = input \/ current # "eof",
         skipped = TRUE => skipped' = TRUE,
         errors.had = TRUE => errors'.had = TRUE,
         IsPlain(input') /\ errors'.had = TRUE /\ errors.had = FALSE
           /\ Sound /\ Preceded => Faulty',
         IsPlain(input') /\ errors'.had = FALSE /\ Sound /\ Preceded
           => Sound' /\ Preceded'
  PROVE  Judged'
<1> SUFFICES ASSUME IsPlain(input')
             PROVE  /\ errors'.had = FALSE => Sound' /\ Preceded'
                    /\ errors'.had = TRUE => Faulty'
  BY DEF Judged
<1>1. IsPlain(input)
  BY PlainBefore
<1>2. errors.had \in BOOLEAN /\ errors'.had \in BOOLEAN
  BY DEF InputOK
<1>3. CASE errors.had = TRUE
  <2>1. Faulty
    BY <1>1, <1>3 DEF Judged
  <2>2. Faulty'
    BY <2>1, FaultyStays
  <2> QED BY <1>3, <2>2
<1>4. CASE errors.had = FALSE
  <2>1. Sound /\ Preceded
    BY <1>1, <1>4 DEF Judged
  <2> QED BY <1>4, <2>1
<1> QED BY <1>2, <1>3, <1>4

(* A step that reads and reports nothing and leaves the lists as they are. *)
LEMMA SameJudged ==
  ASSUME InputOK, InputOK', Judged, input' = input, skipped' = skipped,
         errors'.had = errors.had, Lists(calls') = Lists(calls),
         errors.had = FALSE /\ Preceded => Preceded'
  PROVE  Judged'
<1>1. Grows
  BY DEF Grows, InputOK
<1>2. Sound => Sound'
  BY DEF Sound
<1>3. errors.had \in BOOLEAN
  BY DEF InputOK
<1> QED BY <1>1, <1>2, <1>3, JudgedStep
-----------------------------------------------------------------------------
(* A new line has neither an error nor a list that is open. *)
LEMMA InterpretJudged == ASSUME IInv, IInv', Interpret PROVE Judged'
<1>1. PICK t \in Token : input' = <<t>>
  BY DEF Interpret
<1>2. /\ Len(input') = 1 /\ calls' = <<>> /\ todo' = "next"
      /\ errors'.had = FALSE /\ skipped' = FALSE
  BY <1>1 DEF Interpret
<1>3. Nesting(Len(input') - 1, input') = 0
  <2>1. Len(input') - 1 = 0 /\ 1..0 = {}
    BY <1>2
  <2>2. ASSUME NEW k PROVE Count(k, 0, input') = 0
    <3>1. {i \in 1..0 : input'[i] = k} = {}
      OBVIOUS
    <3> QED BY <3>1, FS_EmptySet DEF Count
  <2>3. Count("(", 0, input') = 0 /\ Count(")", 0, input') = 0
    BY <2>2
  <2>4. Nesting(0, input') = 0
    BY <2>3 DEF Nesting
  <2> QED BY <2>1, <2>4
<1>4. Sound'
  BY <1>2, <1>3, NoLists DEF Sound
<1>5. Preceded'
  BY <1>2 DEF Preceded
<1> QED BY <1>2, <1>4, <1>5 DEF Judged

(* parse itself neither reads nor reports. *)
LEMMA ParseAllJudged ==
  ASSUME IInv, IInv', Judged, ParseAll PROVE Judged'
<1>1. /\ input' = input /\ skipped' = skipped /\ errors' = errors
      /\ calls' = calls /\ todo' \in {"idle", "expression", "next"}
      /\ todo' = "expression" => calls = <<>>
  BY DEF ParseAll, NextExpression, AppendToAST, IInv, ControlOK
<1>2. Preceded => Preceded'
  BY <1>1 DEF Preceded
<1> QED BY <1>1, <1>2, SameJudged DEF IInv

(* A datum opens and closes nothing. *)
LEMMA ParseSimpleJudged ==
  ASSUME IInv, IInv', Judged, ParseSimple PROVE Judged'
<1>1. /\ Advance(errors) /\ current \in {"datum", "number"}
      /\ calls' = calls /\ todo' = "return"
  BY DEF ParseSimple, Expression, Return
<1>2. /\ Grows /\ Len(input') = Len(input) + 1
      /\ errors.had = TRUE => errors'.had = TRUE
      /\ errors'.had = FALSE => skipped' = skipped
      /\ skipped = TRUE => skipped' = TRUE
      /\ errors'.had = TRUE /\ errors.had = FALSE => skipped' = TRUE
  BY <1>1, ErrorsFacts, AdvanceFacts DEF IInv
<1>3. ASSUME errors'.had = FALSE, Sound PROVE Sound' /\ Preceded'
  <2>1. Lists(calls) \in Nat
    BY ListsAreCounted DEF IInv
  <2>2. Sound'
    BY <1>1, <1>2, <1>3, <2>1, SoundPassed DEF IInv
  <2>3. input'[Len(input') - 1] = current
    BY <1>2 DEF IInv, InputOK, Grows, current
  <2> QED BY <1>1, <2>2, <2>3 DEF Preceded
<1>4. errors'.had = TRUE /\ errors.had = FALSE => Faulty'
  BY <1>2 DEF Faulty
<1> QED BY <1>1, <1>2, <1>3, <1>4, JudgedStep DEF IInv

(* A parenthesis that closes nothing, or that an abbreviation meets.       *)
LEMMA UnexpectedParenthesisJudged ==
  ASSUME IInv, IInv', Judged, UnexpectedParenthesis PROVE Judged'
<1>1. /\ \E bad \in BOOLEAN : NextToken(bad)
      /\ errors' = Calmed(ErrorAt(errors)) /\ current = ")"
      /\ todo = "expression" /\ calls' = calls
  BY DEF UnexpectedParenthesis, Expression
<1>2. /\ Grows /\ Len(input') = Len(input) + 1 /\ errors'.had = TRUE
      /\ skipped = TRUE => skipped' = TRUE
  BY <1>1, AdvanceCalmedFacts DEF IInv
<1>3. /\ Len(input) \in Nat \ {0} /\ Len(input') - 1 = Len(input)
      /\ input'[Len(input)] = ")"
  BY <1>1, <1>2 DEF IInv, InputOK, Grows, current
<1>4. ASSUME Sound, Preceded PROVE Faulty'
  <2>1. CASE calls = <<>>
    <3>1. Nesting(Len(input) - 1, input) = 0
      BY <1>4, <2>1, NoLists DEF Sound
    <3>2. Nesting(Len(input) - 1, input') = 0
      <4>1. \A i \in 1..(Len(input) - 1) : input'[i] = input[i]
        BY <1>2, <1>3 DEF Grows
      <4> QED BY <3>1, <4>1, NestingSame
    <3>3. Len(input) - 1 \in Nat /\ (Len(input) - 1) + 1 = Len(input)
      BY <1>3
    <3>4. Nesting(Len(input), input') < 0
      <4>1. Nesting((Len(input) - 1) + 1, input') =
              Nesting(Len(input) - 1, input')
                + (IF input'[(Len(input) - 1) + 1] = "(" THEN 1
                   ELSE IF input'[(Len(input) - 1) + 1] = ")" THEN -1 ELSE 0)
        BY <3>3, NestingNext
      <4>2. input'[(Len(input) - 1) + 1] = ")"
        BY <1>3, <3>3
      <4>3. Nesting((Len(input) - 1) + 1, input') = -1
        BY <3>2, <4>1, <4>2
      <4> QED BY <3>3, <4>3
    <3>5. Len(input) \in 1..(Len(input') - 1)
      BY <1>3
    <3> QED BY <3>4, <3>5 DEF Faulty
  <2>2. CASE calls # <<>>
    <3>1. input[Len(input) - 1] = "quote"
      BY <1>1, <1>4, <2>2 DEF Preceded
    <3>2. Len(input) >= 2
      <4>1. Len(calls) \in Nat \ {0} /\ Len(calls) < Len(input)
        BY <2>2 DEF IInv, CallsOK
      <4> QED BY <1>3, <4>1
    <3>3. input'[Len(input) - 1] = "quote"
      BY <1>2, <1>3, <3>1, <3>2 DEF Grows
    <3>4. Dangles(Len(input), input')
      BY <1>3, <3>3 DEF Dangles
    <3>5. Len(input) \in 2..(Len(input') - 1)
      BY <1>3, <3>2
    <3> QED BY <3>4, <3>5 DEF Faulty
  <2> QED BY <2>1, <2>2
<1> QED BY <1>1, <1>2, <1>4, JudgedStep DEF IInv

(* A token that begins no expression is neither read nor reported. *)
LEMMA NothingToParseJudged ==
  ASSUME IInv, IInv', Judged, NothingToParse PROVE Judged'
<1>1. /\ Stay(Calmed(errors)) /\ calls' = calls
      /\ current \in {".", "error", "eof"}
      /\ todo' \in {"return", "synchronize"}
  BY DEF NothingToParse, Return, Expression
<1>2. /\ input' = input /\ current' = current /\ errors'.had = errors.had
      /\ skipped' = skipped
  BY <1>1, ErrorsFacts, StayFacts DEF IInv
<1>3. Preceded'
  BY <1>1, <1>2 DEF Preceded
<1> QED BY <1>1, <1>2, <1>3, SameJudged DEF IInv

(* Passing over tokens makes no fault good. *)
LEMMA SynchronizeJudged ==
  ASSUME IInv, IInv', Faithful, Judged, Synchronize PROVE Judged'
<1>1. /\ Stay(errors) \/ (Advance(errors) /\ current # "eof")
      /\ errors.had = TRUE
  BY DEF Synchronize, AtSynchronisation, Faithful
<1>2. /\ Grows /\ errors'.had = TRUE
      /\ skipped = TRUE => skipped' = TRUE
      /\ input' = input \/ current # "eof"
  BY <1>1, ErrorsFacts, StayFacts, AdvanceFacts DEF IInv
<1> QED BY <1>1, <1>2, JudgedStep DEF IInv

(* One parenthesis and one list more. *)
LEMMA OpenListJudged ==
  ASSUME IInv, IInv', Judged, OpenList PROVE Judged'
<1>1. /\ Advance(errors) /\ current = "(" /\ Push("list", Len(input))
      /\ todo' = "opened"
  BY DEF OpenList, Expression
<1>2. /\ Grows /\ Len(input') = Len(input) + 1
      /\ errors.had = TRUE => errors'.had = TRUE
      /\ errors'.had = FALSE => skipped' = skipped
      /\ skipped = TRUE => skipped' = TRUE
      /\ errors'.had = TRUE /\ errors.had = FALSE => skipped' = TRUE
  BY <1>1, ErrorsFacts, AdvanceFacts DEF IInv
<1>3. Lists(calls) \in Nat /\ Lists(calls') = Lists(calls) + 1
  <2>1. /\ Len(calls') = Len(calls) + 1 /\ top'.parses = "list"
        /\ \A i \in 1..Len(calls) : calls'[i] = calls[i]
    BY <1>1, <1>2, CallsPushed DEF IInv
  <2>2. Len(calls) \in Nat
    BY DEF IInv, CallsOK
  <2>3. \A i \in 1..Len(calls) : calls'[i].parses = calls[i].parses
    BY <2>1
  <2> QED BY <2>1, <2>2, <2>3, ListsOfMore DEF top
<1>4. ASSUME errors'.had = FALSE, Sound PROVE Sound' /\ Preceded'
  <2>1. Sound'
    BY <1>1, <1>2, <1>3, <1>4, SoundPassed DEF IInv
  <2>2. input'[Len(input') - 1] = current
    BY <1>2 DEF IInv, InputOK, Grows, current
  <2> QED BY <1>1, <2>1, <2>2 DEF Preceded
<1>5. errors'.had = TRUE /\ errors.had = FALSE => Faulty'
  BY <1>2 DEF Faulty
<1> QED BY <1>1, <1>2, <1>4, <1>5, JudgedStep DEF IInv

(* A sign opens no list. *)
LEMMA OpenAbbreviationJudged ==
  ASSUME IInv, IInv', Judged, OpenAbbreviation PROVE Judged'
<1>1. /\ Advance(errors) /\ current = "quote" /\ Push("quote", Len(input))
      /\ todo' = "expression"
  BY DEF OpenAbbreviation, Expression
<1>2. /\ Grows /\ Len(input') = Len(input) + 1
      /\ errors.had = TRUE => errors'.had = TRUE
      /\ errors'.had = FALSE => skipped' = skipped
      /\ skipped = TRUE => skipped' = TRUE
      /\ errors'.had = TRUE /\ errors.had = FALSE => skipped' = TRUE
  BY <1>1, ErrorsFacts, AdvanceFacts DEF IInv
<1>3. Lists(calls) \in Nat /\ Lists(calls') = Lists(calls)
  <2>1. /\ Len(calls') = Len(calls) + 1 /\ top'.parses = "quote"
        /\ \A i \in 1..Len(calls) : calls'[i] = calls[i]
    BY <1>1, <1>2, CallsPushed DEF IInv
  <2>2. Len(calls) \in Nat
    BY DEF IInv, CallsOK
  <2>3. \A i \in 1..Len(calls) : calls'[i].parses = calls[i].parses
    BY <2>1
  <2> QED BY <2>1, <2>2, <2>3, ListsOfMore DEF top
<1>4. ASSUME errors'.had = FALSE, Sound PROVE Sound' /\ Preceded'
  <2>1. Sound'
    BY <1>1, <1>2, <1>3, <1>4, SoundPassed DEF IInv
  <2>2. input'[Len(input') - 1] = current
    BY <1>2 DEF IInv, InputOK, Grows, current
  <2> QED BY <1>1, <2>1, <2>2 DEF Preceded
<1>5. errors'.had = TRUE /\ errors.had = FALSE => Faulty'
  BY <1>2 DEF Faulty
<1> QED BY <1>1, <1>2, <1>4, <1>5, JudgedStep DEF IInv

(* One parenthesis and one list less, without elements. *)
LEMMA EmptyListJudged ==
  ASSUME IInv, IInv', Judged, EmptyList PROVE Judged'
<1>1. /\ Advance(errors) /\ current = ")" /\ Pop
      /\ MakeSyntax(top.start, <<"(", ")">>)
      /\ todo = "opened" /\ calls # <<>> /\ top.parses = "list"
  BY DEF EmptyList, IInv, ControlOK
<1>2. /\ Grows /\ Len(input') = Len(input) + 1
      /\ errors.had = TRUE => errors'.had = TRUE
      /\ errors'.had = FALSE => skipped' = skipped
      /\ skipped = TRUE => skipped' = TRUE
      /\ errors'.had = TRUE /\ errors.had = FALSE => skipped' = TRUE
  BY <1>1, ErrorsFacts, AdvanceFacts DEF IInv
<1>3. Lists(calls') \in Nat /\ Lists(calls) = Lists(calls') + 1
  <2>1. /\ Len(calls') = Len(calls) - 1
        /\ \A i \in 1..Len(calls') : calls'[i] = calls[i]
    BY <1>1, <1>2, CallsPopped DEF IInv
  <2> QED BY <1>1, <2>1, ListsPopped DEF IInv
<1>4. ASSUME errors'.had = FALSE, Sound, Preceded PROVE Sound' /\ Preceded'
  <2>1. input[Len(input) - 1] # "quote"
    BY <1>1, <1>4 DEF Preceded
  <2>2. Sound'
    BY <1>1, <1>2, <1>3, <1>4, <2>1, SoundPassed DEF IInv
  <2>3. input'[Len(input') - 1] = current
    BY <1>2 DEF IInv, InputOK, Grows, current
  <2>4. todo' \in {"return", "aborted"}
    BY <1>1 DEF MakeSyntax, Return
  <2> QED BY <1>1, <2>2, <2>3, <2>4 DEF Preceded
<1>5. errors'.had = TRUE /\ errors.had = FALSE => Faulty'
  BY <1>2 DEF Faulty
<1> QED BY <1>1, <1>2, <1>4, <1>5, JudgedStep DEF IInv

(* The end of the line leaves a list open.                                 *)
LEMMA FirstElementJudged ==
  ASSUME IInv, IInv', Judged, FirstElement PROVE Judged'
<1>1. /\ todo = "opened" /\ todo' = "expression" /\ current # ")"
      /\ calls' = calls /\ calls # <<>> /\ top.parses = "list"
      /\ Stay(IF current = "eof" THEN ErrorAt(errors) ELSE errors)
  BY DEF FirstElement, IInv, ControlOK
<1>2. CASE current = "eof"
  <2>1. /\ input' = input /\ current' = current /\ skipped' = skipped
        /\ errors'.had = TRUE /\ Grows
    BY <1>1, <1>2, ErrorsFacts, StayFacts DEF IInv
  <2>2. Lists(calls) # 0
    BY <1>1, ListsOpen DEF IInv
  <2>3. ASSUME Sound PROVE Faulty'
    BY <1>2, <2>1, <2>2, <2>3 DEF Sound, Faulty
  <2> QED BY <2>1, <2>3, JudgedStep DEF IInv
<1>3. CASE current # "eof"
  <2>1. /\ input' = input /\ current' = current /\ skipped' = skipped
        /\ errors' = errors
    BY <1>1, <1>3, ErrorsFacts, StayFacts DEF IInv
  <2>2. Preceded'
    BY <1>1, <2>1 DEF Preceded
  <2> QED BY <1>1, <2>1, <2>2, SameJudged DEF IInv
<1> QED BY <1>2, <1>3

(* An element appended reads nothing. *)
LEMMA ListElementJudged ==
  ASSUME IInv, IInv', Judged, ListElement PROVE Judged'
<1>1. /\ UNCHANGED <<input, skipped, errors>> /\ calls # <<>>
      /\ calls' = [calls EXCEPT ![Len(calls)].text = Extend(@, result)]
      /\ todo = "return" /\ todo' \in {"expression", "close"}
      /\ todo' = "expression" => current # ")"
  BY DEF ListElement, CanContinueList
<1>2. current' = current /\ Grows
  BY <1>1 DEF current, Grows, IInv, InputOK
<1>3. Lists(calls') = Lists(calls)
  <2>1. /\ Len(calls') = Len(calls) /\ Len(calls) \in Nat
        /\ \A i \in 1..(Len(calls) - 1) : calls'[i] = calls[i]
        /\ calls'[Len(calls)].parses = calls[Len(calls)].parses
    BY <1>1, <1>2, CallsExtended DEF IInv, ControlOK, CallsOK, top
  <2>2. \A i \in 1..Len(calls) : calls'[i].parses = calls[i].parses
    BY <2>1
  <2> QED BY <2>1, <2>2, ListsSame
<1>4. Preceded => Preceded'
  BY <1>1, <1>2 DEF Preceded
<1> QED BY <1>1, <1>3, <1>4, SameJudged DEF IInv

(* One parenthesis and one list less, or a list left open. *)
LEMMA CloseListJudged ==
  ASSUME IInv, IInv', Judged, CloseList PROVE Judged'
<1>1. /\ Consume(")") /\ Pop
      /\ MakeSyntax(top.start, Extend(top.text, <<")">>))
      /\ todo = "close" /\ calls # <<>> /\ top.parses = "list"
      /\ current \in {")", "eof"}
  BY DEF CloseList, IInv, ControlOK
<1>2. /\ Grows
      /\ errors.had = TRUE => errors'.had = TRUE
      /\ current = "eof" => errors'.had = TRUE /\ input' = input
      /\ current = ")" => Len(input') = Len(input) + 1
      /\ errors'.had = FALSE => skipped' = skipped
      /\ skipped = TRUE => skipped' = TRUE
      /\ errors'.had = TRUE /\ errors.had = FALSE =>
           skipped' = TRUE \/ current = "eof"
  BY <1>1, ConsumeFacts DEF IInv
<1>3. Lists(calls') \in Nat /\ Lists(calls) = Lists(calls') + 1
  <2>1. /\ Len(calls') = Len(calls) - 1
        /\ \A i \in 1..Len(calls') : calls'[i] = calls[i]
    BY <1>1, <1>2, CallsPopped DEF IInv
  <2> QED BY <1>1, <2>1, ListsPopped DEF IInv
<1>4. ASSUME errors'.had = FALSE, Sound, Preceded PROVE Sound' /\ Preceded'
  <2>1. current = ")" /\ Len(input') = Len(input) + 1
    BY <1>1, <1>2, <1>4
  <2>2. input[Len(input) - 1] # "quote"
    BY <1>1, <1>4, <2>1 DEF Preceded
  <2>3. Sound'
    BY <1>2, <1>3, <1>4, <2>1, <2>2, SoundPassed DEF IInv
  <2>4. input'[Len(input') - 1] = current
    BY <1>2, <2>1 DEF IInv, InputOK, Grows, current
  <2>5. todo' \in {"return", "aborted"}
    BY <1>1 DEF MakeSyntax, Return
  <2> QED BY <2>1, <2>3, <2>4, <2>5 DEF Preceded
<1>5. ASSUME errors'.had = TRUE, errors.had = FALSE, Sound PROVE Faulty'
  <2>1. CASE current = "eof"
    <3>1. input' = input /\ current' = "eof"
      BY <1>2, <2>1 DEF current
    <3>2. Nesting(Len(input) - 1, input) # 0
      BY <1>3, <1>5 DEF Sound
    <3> QED BY <3>1, <3>2 DEF Faulty
  <2>2. CASE current # "eof"
    BY <1>2, <1>5, <2>2 DEF Faulty
  <2> QED BY <2>1, <2>2
<1>6. input' = input \/ current # "eof"
  BY <1>2
<1> QED BY <1>2, <1>4, <1>5, <1>6, JudgedStep DEF IInv

(* An abbreviation that ends closes no list. *)
LEMMA FinishAbbreviationJudged ==
  ASSUME IInv, IInv', Judged, FinishAbbreviation PROVE Judged'
<1>1. /\ Stay(errors) /\ Pop /\ todo = "return"
      /\ MakeSyntax(top.start, Extend(top.text, result))
      /\ calls # <<>> /\ top.parses = "quote"
  BY DEF FinishAbbreviation
<1>2. /\ Grows /\ input' = input /\ current' = current /\ errors' = errors
      /\ skipped' = skipped
  BY <1>1, ErrorsFacts, StayFacts DEF IInv
<1>3. Lists(calls') = Lists(calls)
  <2>1. /\ Len(calls') = Len(calls) - 1
        /\ \A i \in 1..Len(calls') : calls'[i] = calls[i]
    BY <1>1, <1>2, CallsPopped DEF IInv
  <2>2. Lists(calls') \in Nat /\ Lists(calls) = Lists(calls') + 0
    BY <1>1, <2>1, ListsPopped DEF IInv
  <2> QED BY <2>2
<1>4. todo' \in {"return", "aborted"}
  BY <1>1 DEF MakeSyntax, Return
<1>5. Preceded => Preceded'
  BY <1>1, <1>2, <1>4 DEF Preceded
<1> QED BY <1>2, <1>3, <1>5, SameJudged DEF IInv

(* No line that opens a vector is one of lists and data.                   *)
LEMMA VectorsJudged ==
  ASSUME IInv, IInv', ParseVector PROVE Judged'
<1>1. CASE OpenVector
  <2>1. Advance(errors) /\ current \in Opens
    BY <1>1 DEF OpenVector, Expression, Opens
  <2>2. /\ Grows /\ Len(input) \in Nat \ {0} /\ Len(input') = Len(input) + 1
        /\ input[Len(input)] = current
    <3>1. current # "eof"
      BY <2>1 DEF Opens
    <3>2. Len(input) \in Nat \ {0} /\ input[Len(input)] = current
      BY DEF IInv, InputOK, current
    <3>3. Grows /\ Len(input') = Len(input) + 1
      BY <2>1, <3>1, ErrorsFacts, AdvanceFacts DEF IInv
    <3> QED BY <3>2, <3>3
  <2>3. Len(input) \in 1..Len(input') /\ input'[Len(input)] \in Opens
    BY <2>1, <2>2 DEF Grows
  <2>4. ~IsPlain(input')
    BY <2>3 DEF IsPlain, Plain, Opens
  <2> QED BY <2>4 DEF Judged
<1>2. CASE VectorElements \/ VectorElement \/ ByteElement \/ CloseVector
  <2>1. /\ calls # <<>> /\ top.parses \in {"vector", "bytes"}
    <3>1. CASE VectorElements \/ ByteElement
      <4>1. todo = "elements"
        BY <3>1 DEF VectorElements, ByteElement
      <4> QED BY <4>1 DEF IInv, ControlOK
    <3>2. CASE VectorElement
      BY <3>2 DEF VectorElement
    <3>3. CASE CloseVector
      BY <3>3 DEF CloseVector, IInv, ControlOK
    <3> QED BY <1>2, <3>1, <3>2, <3>3
  <2>2. Grows
    <3>1. CASE VectorElements \/ VectorElement
      <4>1. input' = input
        BY <3>1 DEF VectorElements, VectorElement
      <4> QED BY <4>1 DEF Grows, IInv, InputOK
    <3>2. CASE ByteElement
      <4>1. \E e \in {errors, ErrorAt(errors)} :
               Stay(e) \/ (Advance(e) /\ current # "eof")
        BY <3>2 DEF ByteElement, CanContinueList
      <4> QED BY <4>1, ErrorsFacts, StayFacts, AdvanceFacts DEF IInv
    <3>3. CASE CloseVector
      <4>1. Consume(")") /\ current \in {")", "eof"}
        BY <3>3 DEF CloseVector, IInv, ControlOK
      <4> QED BY <4>1, ConsumeFacts DEF IInv
    <3> QED BY <1>2, <3>1, <3>2, <3>3
  <2>3. ~IsPlain(input')
    BY <2>1, <2>2, PlainHasNoVectors, PlainBefore DEF IInv
  <2> QED BY <2>3 DEF Judged
<1> QED BY <1>1, <1>2 DEF ParseVector

(* Judged is kept by every step. *)
LEMMA StepJudged ==
  ASSUME IInv, IInv', Faithful, Judged, [Next]_vars PROVE Judged'
<1>1. CASE Interpret
  BY <1>1, InterpretJudged
<1>2. CASE ParseAll
  BY <1>2, ParseAllJudged
<1>3. CASE ParseExpression
  BY <1>3, ParseSimpleJudged, UnexpectedParenthesisJudged,
     NothingToParseJudged, SynchronizeJudged DEF ParseExpression
<1>4. CASE ParseList
  BY <1>4, OpenListJudged, EmptyListJudged, FirstElementJudged,
     ListElementJudged, CloseListJudged DEF ParseList
<1>5. CASE ParseAbbreviation
  BY <1>5, OpenAbbreviationJudged, FinishAbbreviationJudged
     DEF ParseAbbreviation
<1>6. CASE ParseVector
  BY <1>6, VectorsJudged
<1>7. CASE UNCHANGED vars
  <2>1. current' = current
    BY <1>7 DEF vars, current
  <2>2. Preceded => Preceded'
    BY <1>7, <2>1 DEF vars, Preceded
  <2> QED BY <1>7, <2>2, SameJudged DEF vars, IInv
<1> QED BY <1>1, <1>2, <1>3, <1>4, <1>5, <1>6, <1>7 DEF Next, Parse

(* At the end of a line, its nesting is that of all its tokens.            *)
LEMMA JudgedExactly == ASSUME IInv, Judged PROVE ErrorsAreExact
<1> SUFFICES ASSUME todo = "idle", IsPlain(input)
             PROVE  errors.had <=> skipped \/ ~WellFormed
  BY DEF ErrorsAreExact
<1> DEFINE n == Len(input) - 1
<1>1. /\ current = "eof" /\ calls = <<>> /\ n \in Nat
      /\ input \in Seq(Token) /\ Len(input) = n + 1
      /\ errors.had \in BOOLEAN /\ skipped \in BOOLEAN
  BY DEF IInv, ControlOK, InputOK
<1>2. Len(tokens) = n /\ \A i \in 1..n : tokens[i] = input[i]
  <2>1. n \in Int /\ 1 \in Int /\ \A i \in 1..n : input[i] \in Token
    BY <1>1
  <2>2. tokens = SubSeq(input, 1, n) /\ n \in Nat
    BY <1>1 DEF tokens
  <2> HIDE DEF n
  <2>3. /\ Len(SubSeq(input, 1, n)) = IF 1 <= n THEN n - 1 + 1 ELSE 0
        /\ \A i \in 1..(n - 1 + 1) : SubSeq(input, 1, n)[i] = input[1 + i - 1]
    BY <2>1, SubSeqProperties
  <2>4. Len(tokens) = n
    BY <2>2, <2>3
  <2>5. \A i \in 1..n : tokens[i] = input[i]
    BY <2>2, <2>3
  <2> QED BY <2>4, <2>5
<1> HIDE DEF n
<1>3. ASSUME NEW m \in 0..n PROVE Depth(m) = Nesting(m, input)
  <2>1. \A i \in 1..m : tokens[i] = input[i]
    BY <1>1, <1>2
  <2>2. Depth(m) = Nesting(m, tokens)
    BY DEF Depth, Nesting, Count
  <2> QED BY <2>1, <2>2, NestingSame
<1>4. \A m \in 2..n : tokens[m - 1] = input[m - 1] /\ tokens[m] = input[m]
  BY <1>1, <1>2
<1>5. n \in 0..n /\ \A m \in 1..n : m \in 0..n
  BY <1>1
<1>6. WellFormed <=> /\ \A m \in 1..n : Nesting(m, input) >= 0
                     /\ Nesting(n, input) = 0
                     /\ \A m \in 2..n : ~Dangles(m, input)
  BY <1>2, <1>3, <1>4, <1>5 DEF WellFormed, Dangles
<1>7. CASE errors.had = FALSE
  <2>1. Sound
    BY <1>7 DEF Judged
  <2>2. Nesting(n, input) = 0
    BY <1>1, <2>1, NoLists DEF Sound, n
  <2>3. WellFormed /\ skipped = FALSE
    BY <1>6, <2>1, <2>2 DEF Sound, n
  <2> QED BY <1>7, <2>3
<1>8. CASE errors.had = TRUE
  <2>1. Faulty
    BY <1>8 DEF Judged
  <2>2. ASSUME NEW m \in 1..n, Nesting(m, input) < 0
        PROVE  ~(Nesting(m, input) >= 0)
    <3>1. Nesting(m, input) \in Int
      <4>1. m \in Nat
        BY <1>1
      <4> QED BY <4>1, NestingNext
    <3> QED BY <2>2, <3>1
  <2>3. skipped = TRUE \/ ~WellFormed
    BY <1>6, <2>1, <2>2 DEF Faulty, n
  <2> QED BY <1>8, <2>3
<1> QED BY <1>1, <1>7, <1>8

(***************************************************************************)
(* The parser reports an error exactly for the lines of lists and data     *)
(* that have one, however long and however deep they are, and whatever it  *)
(* passes over after the first error.                                      *)
(***************************************************************************)
THEOREM ErrorsAreReportedExactly == Spec => []ErrorsAreExact
<1>1. Init => Faithful /\ Judged
  <2> SUFFICES ASSUME Init PROVE Faithful /\ Judged
    OBVIOUS
  <2>1. /\ input = <<"eof">> /\ ast = <<>> /\ calls = <<>> /\ todo = "idle"
        /\ Len(input) = 1 /\ Len(ast) = 0 /\ Len(calls) = 0
        /\ skipped = FALSE /\ errors.had = FALSE
    BY DEF Init
  <2>2. Faithful
    BY <2>1 DEF Faithful, Exact, Chained, Read, Copies
  <2>3. Nesting(0, input) = 0
    <3>1. ASSUME NEW t PROVE Count(t, 0, input) = 0
      <4>1. {i \in 1..0 : input[i] = t} = {}
        OBVIOUS
      <4> QED BY <4>1, FS_EmptySet DEF Count
    <3> QED BY <3>1 DEF Nesting
  <2>4. Sound
    BY <2>1, <2>3, NoLists DEF Sound
  <2>5. Preceded
    BY <2>1 DEF Preceded
  <2> QED BY <2>1, <2>2, <2>4, <2>5 DEF Judged
<1>2. /\ IInv /\ IInv' /\ Faithful /\ Judged /\ [Next]_vars
           => Faithful' /\ Judged'
  BY FaithfulStep, StepJudged
<1>3. IInv /\ Judged => ErrorsAreExact
  BY JudgedExactly
<1> QED BY <1>1, <1>2, <1>3, Invariant, PTL DEF Spec
=============================================================================
