------------------------------- MODULE Parser -------------------------------
(***************************************************************************)
(* Ecsi's parser (src/src/parser.c and src/src/parser_internals): recursive *)
(* descent over the tokens of one line after another, with errors that put *)
(* it in panic mode and a search for a place to go on.                     *)
(*                                                                         *)
(* The functions that call each other are a stack of calls here, and a     *)
(* step is what one of them does up to its next call or loop condition.  A *)
(* syntax object is the sequence of tokens that its value would be printed *)
(* as, with "null" for the NULL that parseExpression returns when there is *)
(* nothing to parse.  Tokens are scanned as they are asked for.  What the  *)
(* parser does to the collector is in Collector.                           *)
(***************************************************************************)
EXTENDS Integers, Sequences, FiniteSets

CONSTANTS
  Token,      \* the types of token that the scanner can produce
  MaxTokens,  \* bound: a line of lists and data ends after as many tokens
  MaxMixed,   \* bound: a line with any other token in it ends here
  MaxText     \* bound: what a syntax object can hold

(***************************************************************************)
(* "datum" is any token that is a datum on its own, except for a number,   *)
(* and "quote" is any of the four abbreviations.                           *)
(***************************************************************************)
ASSUME ParserAssumption ==
  /\ Token \subseteq {"datum", "number", "(", ")", "quote", "#(", "#u8(",
                      ".", "error", "eof"}
  /\ {"(", ")", "number", "eof"} \subseteq Token
  /\ MaxMixed \in Nat /\ MaxTokens \in Nat \ {0} /\ MaxMixed <= MaxTokens
  /\ MaxText \in Nat /\ MaxText >= 2 * MaxTokens + 2

VARIABLES
  input,    \* the tokens that parser.current has had in this line
  skipped,  \* history: parserAdvance has passed over an error token
  errors,   \* parser.hadError and parser.panicMode
  ast,      \* parser.ast
  calls,    \* the calls of parseExpression that wait for another one
  todo,     \* what comes next
  result    \* what the last call returned

vars == <<input, skipped, errors, ast, calls, todo, result>>

(* The tokens of lists and data. *)
Plain == {"datum", "(", ")", "quote", "eof"}
IsPlain(line) == \A i \in 1..Len(line) : line[i] \in Plain

null == <<"null">>
Calls == [parses : {"list", "quote", "vector", "bytes"}, start : Nat,
          text : Seq(Token \cup {"null"})]

Init ==
  /\ input = <<"eof">> /\ skipped = FALSE
  /\ errors = [had |-> FALSE, panic |-> FALSE]
  /\ ast = <<>> /\ calls = <<>> /\ todo = "idle" /\ result = <<>>
-----------------------------------------------------------------------------
current == input[Len(input)]
previous == input[IF Len(input) = 1 THEN 1 ELSE Len(input) - 1]
top == calls[Len(calls)]

ErrorAt(e) == [had |-> e.had \/ ~e.panic, panic |-> TRUE]
Calmed(e) == [e EXCEPT !.panic = FALSE]

(* The loop of parserAdvance: error tokens are passed over.                *)
NextToken(bad) ==
  \E t \in Token \ {"error"} :
    /\ bad => "error" \in Token
    /\ t # "eof" => Len(input) < (IF IsPlain(Append(input, t)) THEN MaxTokens
                                  ELSE MaxMixed)
    /\ input' = Append(input, t)
    /\ skipped' = (skipped \/ bad)

(* parserAdvance, after errors have become e. *)
Advance(e) ==
  \E bad \in BOOLEAN :
    NextToken(bad) /\ errors' = IF bad THEN ErrorAt(e) ELSE e

Stay(e) == errors' = e /\ UNCHANGED <<input, skipped>>

CanContinueList == current \notin {")", "eof"}

(* consume. *)
Consume(t) == IF current = t THEN Advance(errors) ELSE Stay(ErrorAt(errors))

(* Text that would be too long is left out. *)
Extend(text, more) ==
  IF Len(text) + Len(more) > MaxText THEN text ELSE text \o more

Push(what, start) ==
  calls' = Append(calls, [parses |-> what, start |-> start, text |-> <<current>>])
Pop == calls' = SubSeq(calls, 1, Len(calls) - 1)
Return(text) == todo' = "return" /\ result' = text

(* makeSyntaxFromTokenToCurrent: a span has to end after its start.        *)
MakeSyntax(start, text) ==
  IF Len(input') > start THEN Return(text)
  ELSE todo' = "aborted" /\ UNCHANGED result
-----------------------------------------------------------------------------
(* A new line: initParser.  An error token that comes first stays.         *)
Interpret ==
  /\ todo = "idle"
  /\ \E t \in Token : input' = <<t>>
  /\ errors' = [had |-> FALSE, panic |-> FALSE]
  /\ skipped' = FALSE /\ ast' = <<>> /\ calls' = <<>> /\ todo' = "next"
  /\ result' = <<>>

(* The loop of parseAllTokens, and compile after it.                       *)
NextExpression ==
  /\ todo = "next"
  /\ todo' = IF current = "eof" THEN "idle" ELSE "expression"
  /\ UNCHANGED <<input, skipped, errors, ast, calls, result>>

AppendToAST ==
  /\ todo = "return" /\ calls = <<>>
  /\ ast' = Extend(ast, result)
  /\ todo' = "next" /\ result' = <<>>
  /\ UNCHANGED <<input, skipped, errors, calls>>

(* The cases of parseExpression. *)
Expression(types) == todo = "expression" /\ current \in types

ParseSimple ==
  /\ Expression({"datum", "number"})
  /\ Advance(errors)
  /\ Return(<<current>>)
  /\ UNCHANGED <<ast, calls>>

(* Fault: a right parenthesis with nothing to close is not passed over.    *)
UnexpectedParenthesisStays ==
  /\ Expression({")"})
  /\ Stay(Calmed(ErrorAt(errors)))
  /\ todo' = "synchronize"
  /\ UNCHANGED <<ast, calls, result>>

(* Fault: a right parenthesis with nothing to close is not an error.       *)
UnexpectedParenthesisQuietly ==
  /\ Expression({")"})
  /\ \E bad \in BOOLEAN :
       /\ NextToken(bad)
       /\ errors' = Calmed(IF bad THEN ErrorAt(errors) ELSE errors)
  /\ todo' = "synchronize"
  /\ UNCHANGED <<ast, calls, result>>

(* An error token after the parenthesis is not reported: synchronize calms *)
(* the panic only then.                                                    *)
UnexpectedParenthesis ==
  /\ Expression({")"})
  /\ \E bad \in BOOLEAN : NextToken(bad)
  /\ errors' = Calmed(ErrorAt(errors))
  /\ todo' = "synchronize"
  /\ UNCHANGED <<ast, calls, result>>

(* The default case does not pass over its token.                          *)
NothingToParse ==
  /\ Expression({".", "error", "eof"})
  /\ Stay(Calmed(errors))
  /\ IF errors.panic THEN todo' = "synchronize" /\ UNCHANGED result
     ELSE Return(null)
  /\ UNCHANGED <<ast, calls>>

AtSynchronisation == current = "eof" \/ previous = ")" \/ current = "("

Synchronize ==
  /\ todo = "synchronize"
  /\ IF AtSynchronisation THEN Stay(errors) /\ Return(null)
     ELSE Advance(errors) /\ UNCHANGED <<todo, result>>
  /\ UNCHANGED <<ast, calls>>
-----------------------------------------------------------------------------
(* parseList. *)

(* Fault: the start of the list is a pointer to the current token.         *)
OpenListAtCurrent ==
  /\ Expression({"("})
  /\ Advance(errors)
  /\ Push("list", MaxTokens + 1)
  /\ todo' = "opened"
  /\ UNCHANGED <<ast, result>>

(* Fault: the parenthesis is not consumed.                                 *)
OpenListStays ==
  /\ Expression({"("})
  /\ Stay(errors)
  /\ Push("list", Len(input))
  /\ todo' = "expression"
  /\ UNCHANGED <<ast, result>>

OpenList ==
  /\ Expression({"("})
  /\ Advance(errors)
  /\ Push("list", Len(input))
  /\ todo' = "opened"
  /\ UNCHANGED <<ast, result>>

EmptyList ==
  /\ todo = "opened" /\ current = ")"
  /\ Advance(errors)
  /\ MakeSyntax(top.start, <<"(", ")">>)
  /\ Pop /\ UNCHANGED ast

(* At the end of the input it goes on, after an error, to parse a datum.   *)
FirstElement ==
  /\ todo = "opened" /\ current # ")"
  /\ Stay(IF current = "eof" THEN ErrorAt(errors) ELSE errors)
  /\ todo' = "expression"
  /\ UNCHANGED <<ast, calls, result>>

ListElement ==
  /\ todo = "return" /\ calls # <<>> /\ top.parses = "list"
  /\ calls' = [calls EXCEPT ![Len(calls)].text = Extend(@, result)]
  /\ todo' = IF CanContinueList THEN "expression" ELSE "close"
  /\ result' = <<>>
  /\ UNCHANGED <<input, skipped, errors, ast>>

(* Fault: a list that the end of the input closes is no error.             *)
CloseListQuietly ==
  /\ todo = "close" /\ top.parses = "list"
  /\ IF current = ")" THEN Advance(errors) ELSE Stay(errors)
  /\ MakeSyntax(top.start, Extend(top.text, <<")">>))
  /\ Pop /\ UNCHANGED ast

CloseList ==
  /\ todo = "close" /\ top.parses = "list"
  /\ Consume(")")
  /\ MakeSyntax(top.start, Extend(top.text, <<")">>))
  /\ Pop /\ UNCHANGED ast
-----------------------------------------------------------------------------
(* parseAbbreviation. *)

OpenAbbreviation ==
  /\ Expression({"quote"})
  /\ Advance(errors)
  /\ Push("quote", Len(input))
  /\ todo' = "expression"
  /\ UNCHANGED <<ast, result>>

FinishAbbreviation ==
  /\ todo = "return" /\ calls # <<>> /\ top.parses = "quote"
  /\ Stay(errors)
  /\ MakeSyntax(top.start, Extend(top.text, result))
  /\ Pop /\ UNCHANGED ast
-----------------------------------------------------------------------------
(* parseVectorUsing, for parseVector and parseBytevector.                  *)

OpenVector ==
  /\ Expression({"#(", "#u8("})
  /\ Advance(errors)
  /\ Push(IF current = "#(" THEN "vector" ELSE "bytes", Len(input))
  /\ todo' = "elements"
  /\ UNCHANGED <<ast, result>>

(* The condition of its loop. *)
VectorElements ==
  /\ todo = "elements" /\ (top.parses = "vector" \/ ~CanContinueList)
  /\ todo' = IF CanContinueList THEN "expression" ELSE "close"
  /\ UNCHANGED <<input, skipped, errors, ast, calls, result>>

VectorElement ==
  /\ todo = "return" /\ calls # <<>> /\ top.parses = "vector"
  /\ calls' = [calls EXCEPT ![Len(calls)].text = Extend(@, result)]
  /\ todo' = "elements" /\ result' = <<>>
  /\ UNCHANGED <<input, skipped, errors, ast>>

(***************************************************************************)
(* parseBytevectorElement: what is not a number is not passed over, and a  *)
(* number may be out of range.                                             *)
(***************************************************************************)
ByteElement ==
  /\ todo = "elements" /\ top.parses = "bytes" /\ CanContinueList
  /\ IF current = "number"
     THEN \E e \in {errors, ErrorAt(errors)} : Advance(e)
     ELSE Stay(ErrorAt(errors))
  /\ calls' = [calls EXCEPT ![Len(calls)].text = Extend(@, <<"number">>)]
  /\ UNCHANGED <<ast, todo, result>>

(* The start it gives is a pointer to parser.current, which has moved on.  *)
CloseVector ==
  /\ todo = "close" /\ top.parses \in {"vector", "bytes"}
  /\ Consume(")")
  /\ MakeSyntax(Len(input'), Extend(top.text, <<")">>))
  /\ Pop /\ UNCHANGED ast
-----------------------------------------------------------------------------
ParseAll == NextExpression \/ AppendToAST
ParseExpression ==
  ParseSimple \/ UnexpectedParenthesis \/ NothingToParse \/ Synchronize
ParseList == OpenList \/ EmptyList \/ FirstElement \/ ListElement \/ CloseList
ParseAbbreviation == OpenAbbreviation \/ FinishAbbreviation
ParseVector ==
  OpenVector \/ VectorElements \/ VectorElement \/ ByteElement \/ CloseVector

Parse ==
  ParseAll \/ ParseExpression \/ ParseList \/ ParseAbbreviation \/ ParseVector

Next == Interpret \/ Parse

(* Nothing keeps the parser waiting, except for the next line.             *)
Spec == Init /\ [][Next]_vars /\ WF_vars(Parse)
-----------------------------------------------------------------------------
(* No call is deeper than there are tokens to call for it.                 *)
TypeOK ==
  /\ input \in Seq(Token) \ {<<>>} /\ Len(input) <= MaxTokens + 1
  /\ skipped \in BOOLEAN
  /\ errors \in [had : BOOLEAN, panic : BOOLEAN]
  /\ ast \in Seq(Token \cup {"null"}) /\ Len(ast) <= MaxText
  /\ calls \in Seq(Calls) /\ Len(calls) <= MaxTokens
  /\ todo \in {"idle", "next", "expression", "synchronize", "opened", "elements",
               "close", "return", "aborted"}
  /\ result \in Seq(Token \cup {"null"}) /\ Len(result) <= MaxText

(***************************************************************************)
(* Errors are only left out after one that was reported in the same line,  *)
(* so that a line with any error in it never gets to be printed.           *)
(***************************************************************************)
PanicWasReported == errors.panic => errors.had

(* What a line without an error would be compiled from. *)
Parsed == todo = "idle" /\ ~errors.had
tokens == SubSeq(input, 1, Len(input) - 1)

(***************************************************************************)
(* A line that the parser accepts is in the AST as it was read: no token   *)
(* is lost, moved to another list, or there twice.  A NULL, which printAST *)
(* would follow, can only come from an abbreviation that the line ends     *)
(* with.                                                                   *)
(***************************************************************************)
ASTIsTheInput ==
  Parsed => \/ ast = tokens
            \/ ast = Append(tokens, "null") /\ tokens[Len(tokens)] = "quote"

(***************************************************************************)
(* Of the lines of lists and data, those without an error: every           *)
(* parenthesis has its other one, and an abbreviation is not the last in   *)
(* its list.                                                               *)
(***************************************************************************)
Depth(n) == LET Count(t) == {i \in 1..n : tokens[i] = t}
            IN  Cardinality(Count("(")) - Cardinality(Count(")"))

WellFormed ==
  /\ \A n \in 1..Len(tokens) : Depth(n) >= 0
  /\ Depth(Len(tokens)) = 0
  /\ \A n \in 2..Len(tokens) : ~(tokens[n - 1] = "quote" /\ tokens[n] = ")")

(***************************************************************************)
(* The parser reports an error exactly for the lines that have one: it     *)
(* misses none, whatever it skipped to get out of panic mode, and finds    *)
(* none where there is none, whatever happened in the line before.         *)
(***************************************************************************)
ErrorsAreExact ==
  todo = "idle" /\ IsPlain(input) => (errors.had <=> skipped \/ ~WellFormed)

(***************************************************************************)
(* The assertion of makeSyntaxFromTokenToCurrent, whose comment says that  *)
(* a syntax object's span ends after it starts.                            *)
(***************************************************************************)
SpansGoForward == todo # "aborted"

(***************************************************************************)
(* The assertion fails where a vector or bytevector is closed and nowhere  *)
(* else: every list and every abbreviation gets a span, whatever is inside *)
(* it and whether an error ended it.                                       *)
(***************************************************************************)
OnlyVectorsAbort ==
  todo = "aborted" => \E i \in 1..Len(input) : input[i] \in {"#(", "#u8("}

(* A token that nothing is there to parse and that is not passed over.     *)
MakesNoProgress ==
  \/ Expression({".", "error"})
  \/ /\ todo = "elements" /\ top.parses = "bytes"
     /\ CanContinueList /\ current # "number"

(***************************************************************************)
(* How far a parse has come: ten for each token, less what may still be    *)
(* done before the next one is asked for.                                  *)
(***************************************************************************)
StepsHere ==
  CASE todo = "opened" -> 6
    [] todo = "expression" /\ current = "eof" -> 5
    [] todo = "synchronize" -> 4
    [] todo = "return" -> 3
    [] todo = "elements" -> 2
    [] todo \in {"close", "next"} -> 1
    [] OTHER -> 0

Progress == 10 * Len(input) - 3 * Len(calls) - StepsHere

(***************************************************************************)
(* Every step of the parser brings it on, in and out of panic mode and at  *)
(* the end of a line in the middle of anything: nothing but those tokens   *)
(* can keep it from the end of the line.                                   *)
(***************************************************************************)
ParseAdvances ==
  [][todo # "idle" => MakesNoProgress \/ Progress < Progress']_vars

(* A parse comes to its end, unless it gets to such a token.               *)
ParseEnds == todo # "idle" ~> (todo \in {"idle", "aborted"} \/ MakesNoProgress)
=============================================================================
