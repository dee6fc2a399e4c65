------------------------------ MODULE Scanner ------------------------------
(***************************************************************************)
(* Ecsi's scanner (src/src/scanner.c and src/src/scanner_internals): one   *)
(* source string, from which scanToken takes one token after another, with *)
(* whitespace and comments between them.                                   *)
(*                                                                         *)
(* A character is a string of one character, or a name of it; "nul" is the *)
(* terminator.  A position beyond the terminator is Past: what is read     *)
(* from there is not the source's, so nothing is scanned after it.         *)
(* A keyword is an identifier here, but for quote, which the parser takes  *)
(* for the character that abbreviates it; and an error token has the place *)
(* of what is wrong instead of its message.                                *)
(***************************************************************************)
EXTENDS Integers, Sequences, FiniteSets, FiniteSetsExt

CONSTANT Sources   \* the source strings

Letter == {"a", "b", "c", "d", "e", "f", "g", "h", "i", "j", "k", "l", "m",
           "n", "o", "p", "q", "r", "s", "t", "u", "v", "w", "x", "y", "z"}
Digit == {"0", "1", "2", "3", "4", "5", "6", "7", "8", "9"}
HexDigit == Digit \cup {"a", "b", "c", "d", "e", "f"}
Initial == Letter \cup {"$", "%", "&", "*", "/", ":", "<", "=", ">", "?", "@",
                        "^", "underscore", "~", "!"}
ExplicitSign == {"+", "-"}
Subsequent == Initial \cup Digit \cup ExplicitSign \cup {".", "@"}
SignSubsequent == Initial \cup ExplicitSign
DotSubsequent == SignSubsequent \cup {"."}
LineEnding == {"lf", "cr"}
Whitespace == LineEnding \cup {"space", "tab"}
Punctuation == {"(", ")", "'", "backquote"}

(* "[" stands for every character that starts nothing.  Capital letters    *)
(* are left out: they are letters too, but no name, escape or keyword has  *)
(* one.                                                                    *)
Character == Subsequent \cup Whitespace \cup Punctuation
               \cup {"comma", "semicolon", "#", "|", "\\", "quotation", "["}

ASSUME ScannerAssumption == Sources \subseteq Seq(Character)

VARIABLES
  source,    \* the source string
  current,   \* scanner.current, from 1
  line,      \* scanner.line
  skipping,  \* scanToken is in skipIntertokenSpace
  token      \* the last token, with the positions of its text

vars == <<source, current, line, skipping, token>>

Init ==
  /\ source \in Sources
  /\ current = 1 /\ line = 1 /\ skipping = TRUE
  /\ token = [type |-> "none", start |-> 1, end |-> 1]

End == Len(source) + 1
Past == End + 1

At(p) == IF p \in DOMAIN source THEN source[p] ELSE "nul"

(* A loop that stops at a character outside S, such as the terminator.     *)
SkipAll(p, S) == Min({q \in p..End : At(q) \notin S})

(* A loop that has no test for the terminator.                             *)
FirstOf(stops) == IF stops = {} THEN Past ELSE Min(stops)

Count(S, from, to) == Cardinality({q \in from..(to - 1) : At(q) \in S})
-----------------------------------------------------------------------------
(* skipIntertokenSpace, one atmosphere after another.                      *)

AtStart(p) == At(p) = "#" /\ At(p + 1) = "|"
AtEnd(p) == At(p) = "|" /\ At(p + 1) = "#"

Skipping == skipping /\ current <= End

SkipWhitespace ==
  /\ Skipping /\ At(current) \in Whitespace
  /\ current' = SkipAll(current, Whitespace)
  /\ line' = line + Count(LineEnding, current, current')
  /\ UNCHANGED <<source, skipping, token>>

(* The line ending after a comment is not counted if it is passed over.    *)
SkipLineComment ==
  /\ Skipping /\ At(current) = "semicolon"
  /\ LET stop == FirstOf({q \in current..Len(source) : At(q) \in LineEnding})
     IN  current' = IF At(stop) = "lf" THEN stop + 1 ELSE stop
  /\ UNCHANGED <<source, line, skipping, token>>

CommentTextEnd(p) == FirstOf({q \in p..Len(source) : AtStart(q) \/ AtEnd(q)})

(***************************************************************************)
(* skipNestedComment: only one comment inside it is looked for, and what   *)
(* comes after that and its text is taken for the end.                     *)
(***************************************************************************)
NestedCommentEnd[p \in 1..Past] ==
  LET text == CommentTextEnd(p + 2)
      inner == IF text # Past /\ AtStart(text) THEN NestedCommentEnd[text]
               ELSE text
      stop == CommentTextEnd(inner)
  IN  IF stop = Past THEN Past ELSE stop + 2

(* Fault: a comment inside the comment is not looked for.                  *)
SkipFlatComment ==
  /\ Skipping /\ AtStart(current)
  /\ LET stop == FirstOf({q \in (current + 2)..Len(source) : AtEnd(q)})
     IN  current' = IF stop = Past THEN Past ELSE stop + 2
  /\ UNCHANGED <<source, line, skipping, token>>

SkipNestedComment ==
  /\ Skipping /\ AtStart(current)
  /\ current' = NestedCommentEnd[current]
  /\ UNCHANGED <<source, line, skipping, token>>

EndOfSpace ==
  /\ Skipping
  /\ At(current) \notin Whitespace \cup {"semicolon"} /\ ~AtStart(current)
  /\ skipping' = FALSE
  /\ UNCHANGED <<source, current, line, token>>

SkipIntertokenSpace ==
  SkipWhitespace \/ SkipLineComment \/ SkipNestedComment \/ EndOfSpace
-----------------------------------------------------------------------------
(* The tokens.                                                             *)

(* makeToken and errorToken.                                               *)
Token(type, end) ==
  /\ current' = end
  /\ token' = [type |-> type, start |-> current, end |-> end]
  /\ skipping' = TRUE
  /\ UNCHANGED source

Scanning(first) == ~skipping /\ At(current) \in first

EndOfFile == Scanning({"nul"}) /\ Token("eof", current) /\ UNCHANGED line

(* Fault: only the first digit belongs to the number.                      *)
NumberFirstDigit ==
  /\ Scanning(Digit)
  /\ Token("number", current + 1)
  /\ UNCHANGED line

Number ==
  /\ Scanning(Digit)
  /\ Token("number", SkipAll(current + 1, Digit))
  /\ UNCHANGED line

(* genericIdentifier, and keywordType of the one keyword that the parser   *)
(* does not read as a symbol.                                              *)
Identifier ==
  /\ Scanning(Initial)
  /\ LET end == SkipAll(current + 1, Subsequent) IN
     Token(IF SubSeq(source, current, end - 1) = <<"q", "u", "o", "t", "e">>
           THEN "'" ELSE "identifier", end)
  /\ UNCHANGED line

(* A dot after the sign: the character after it is passed over, whatever   *)
(* it is; dotSubsequent drops the error token.                             *)
SignedIdentifier ==
  /\ Scanning(ExplicitSign)
  /\ LET p == current + 1 IN
     Token("identifier",
           IF At(p) = "." /\ p + 1 = End THEN Past
           ELSE IF At(p) = "." THEN SkipAll(p + 2, Subsequent)
           ELSE IF At(p) \in SignSubsequent THEN SkipAll(p + 1, Subsequent)
           ELSE p)
  /\ UNCHANGED line

Period ==
  /\ Scanning({"."})
  /\ IF At(current + 1) \in DotSubsequent
     THEN Token("identifier", SkipAll(current + 2, Subsequent))
     ELSE Token("period", current + 1)
  /\ UNCHANGED line

OneCharacter ==
  /\ Scanning(Punctuation)
  /\ Token(At(current), current + 1)
  /\ UNCHANGED line

Comma ==
  /\ Scanning({"comma"})
  /\ IF At(current + 1) = "@" THEN Token("commaAt", current + 2)
     ELSE Token("comma", current + 1)
  /\ UNCHANGED line

(* Fault: the lines inside a string are not counted.                       *)
StringUncounted ==
  /\ Scanning({"quotation"})
  /\ LET stop == SkipAll(current + 1, Character \ {"quotation"})
     IN  IF stop = End THEN Token("error", stop) ELSE Token("string", stop + 1)
  /\ UNCHANGED line

(* Fault: the closing quote is passed over although it is missing.         *)
StringUnterminated ==
  /\ Scanning({"quotation"})
  /\ LET stop == SkipAll(current + 1, Character \ {"quotation"}) IN
     /\ Token("string", stop + 1)
     /\ line' = line + Count({"lf"}, current, stop)

String ==
  /\ Scanning({"quotation"})
  /\ LET stop == SkipAll(current + 1, Character \ {"quotation"}) IN
     /\ IF stop = End THEN Token("error", stop) ELSE Token("string", stop + 1)
     /\ line' = line + Count({"lf"}, current, stop)

(***************************************************************************)
(* The rest of an identifier in vertical bars, or Never.  A backslash      *)
(* starts a hexadecimal escape if it is not followed by an x: then the     *)
(* digits and a semicolon are passed over, if there are any.  If it is     *)
(* followed by an x, nothing is passed over, again and again.              *)
(***************************************************************************)
Never == 0

BarsEnd[p \in 1..Past] ==
  IF p = Past THEN Past
  ELSE IF At(p) = "|" THEN p + 1
  ELSE IF At(p) # "\\" THEN BarsEnd[p + 1]
  ELSE IF At(p + 1) = "x" THEN Never
  ELSE IF p + 1 = End THEN Past
  ELSE LET digits == SkipAll(p + 2, HexDigit)
       IN  BarsEnd[IF At(digits) = "semicolon" THEN digits + 1 ELSE digits]

IdentifierInBars ==
  /\ Scanning({"|"})
  /\ BarsEnd[current + 1] # Never
  /\ Token("identifier", BarsEnd[current + 1])
  /\ UNCHANGED line

(* Fault: an unexpected character is not passed over.                      *)
UnexpectedStays ==
  /\ Scanning({"\\", "["})
  /\ Token("error", current)
  /\ UNCHANGED line

Unexpected ==
  /\ Scanning({"\\", "["})
  /\ Token("error", current + 1)
  /\ UNCHANGED line
-----------------------------------------------------------------------------
(* poundSomething; p is the position after the pound sign.                 *)

(* Fault: only as many characters are compared as there are.               *)
MatchesPrefix(p, text) ==
  \A i \in 1..Len(text) : p + i - 1 < End => At(p + i - 1) = text[i]

(* matchString. *)
Matches(p, text) == \A i \in 1..Len(text) : At(p + i - 1) = text[i]

Boolean(p, second, rest) ==
  IF At(p + 1) # second THEN Token("boolean", p + 1)
  ELSE IF ~Matches(p + 2, rest) THEN Token("error", p + 2)
  ELSE Token("boolean", p + 2 + Len(rest))

(* What is left of a character's name after its first letter.              *)
CharacterNames ==
  [t |-> <<"a", "b">>, n |-> <<"u", "l", "l">>, a |-> <<"l", "a", "r", "m">>,
   s |-> <<"p", "a", "c", "e">>, d |-> <<"e", "l", "e", "t", "e">>,
   e |-> <<"s", "c", "a", "p", "e">>, r |-> <<"e", "t", "u", "r", "n">>,
   b |-> <<"a", "c", "k", "s", "p", "a", "c", "e">>]

ScanCharacter(p) ==
  IF At(p) = "x" /\ At(p + 1) \in HexDigit
  THEN Token("character", SkipAll(p + 1, HexDigit))
  ELSE IF At(p) \notin DOMAIN CharacterNames THEN Token("character", p + 1)
  ELSE LET rest == CharacterNames[At(p)] IN
       IF Matches(p + 1, rest) THEN Token("character", p + 1 + Len(rest))
       ELSE IF At(p + 1) \in Letter THEN Token("error", p + 1)
       ELSE Token("character", p + 1)

(***************************************************************************)
(* "#u8(" is an error, and "#u" with any other character before the        *)
(* parenthesis is what is taken for it, as a token of two characters.      *)
(***************************************************************************)
PoundSomething ==
  /\ Scanning({"#"})
  /\ LET p == current + 1 IN
     CASE At(p) = "t" -> Boolean(p, "r", <<"u", "e">>)
       [] At(p) = "f" -> Boolean(p, "a", <<"l", "s", "e">>)
       [] At(p) = "(" -> Token("#(", p + 1)
       [] At(p) = "\\" -> ScanCharacter(p + 1)
       [] At(p) = "u" -> Token(IF At(p + 1) = "8" \/ At(p + 2) # "("
                               THEN "error" ELSE "#u8(", p + 1)
       [] OTHER -> Token("error", p + 1)
  /\ UNCHANGED line

ScanToken ==
  \/ EndOfFile \/ Number \/ Identifier \/ SignedIdentifier \/ Period
  \/ OneCharacter \/ Comma \/ String \/ IdentifierInBars \/ PoundSomething
  \/ Unexpected

Next == SkipIntertokenSpace \/ ScanToken

(* The parser asks for the next token until it gets the last.              *)
Spec == Init /\ [][Next]_vars /\ WF_vars(Next)
-----------------------------------------------------------------------------
TokenType ==
  Punctuation \cup {"none", "eof", "number", "identifier", "period", "comma",
                    "commaAt", "string", "boolean", "character", "#(", "#u8(", "error"}

(* A token that is not the last has some text.                             *)
TypeOK ==
  /\ current \in 1..Past /\ line \in Nat \ {0} /\ skipping \in BOOLEAN
  /\ token.type \in TokenType /\ token.end <= current
  /\ token.type \notin {"none", "eof"} => token.start < token.end

(***************************************************************************)
(* Where a comment that starts at p with this depth ends, if every "#|"    *)
(* has its "|#", whether one opens from p on, and whether none opens once  *)
(* one has been closed.                                                    *)
(***************************************************************************)
Comment[p \in 1..Past] ==
  [depth \in Nat |->
     IF p > Len(source) THEN [end |-> Past, opens |-> FALSE, isChain |-> TRUE]
     ELSE IF AtStart(p) THEN [Comment[p + 2][depth + 1] EXCEPT !.opens = TRUE]
     ELSE IF AtEnd(p) /\ depth <= 1
     THEN [end |-> p + 2, opens |-> FALSE, isChain |-> TRUE]
     ELSE IF AtEnd(p)
     THEN LET rest == Comment[p + 2][depth - 1]
          IN  [rest EXCEPT !.isChain = ~rest.opens]
     ELSE Comment[p + 1][depth]]

(***************************************************************************)
(* No code is lost in a comment: skipNestedComment never goes beyond the   *)
(* "|#" that closes it.  If no comment inside it comes after another one   *)
(* it also goes as far, so that no comment is taken for code.              *)
(***************************************************************************)
CommentsEnd ==
  [][SkipNestedComment =>
       LET comment == Comment[current][0] IN
       /\ current' <= comment.end
       /\ comment.isChain => current' = comment.end]_vars

(***************************************************************************)
(* The scanner reads beyond the source only from what is left open at its  *)
(* end: a comment, an identifier in bars, a pound sign, or a sign and dot. *)
(***************************************************************************)
IsLeftOpen(p) ==
  LET rest == SubSeq(source, p, Len(source)) IN
  \/ At(p) = "semicolon" /\ \A q \in p..Len(source) : At(q) \notin LineEnding
  \/ AtStart(p) /\ Comment[p][0].end = Past
  \/ At(p) = "|" /\ \A q \in (p + 1)..Len(source) :
                       At(q) = "|" => At(q - 1) = "\\"
  \/ rest \in {<<"#">>, <<"#", "\\">>} \cup {<<s, ".">> : s \in ExplicitSign}

StaysInSource == [][current' > End => IsLeftOpen(current)]_vars

(***************************************************************************)
(* scanner.h:121: the line is "The current line".  It is, as long as there *)
(* is no carriage return, and nothing but whitespace and strings that can  *)
(* have a line feed in it: a comment, a character, an identifier in bars   *)
(* or one of a sign and a dot.                                             *)
(***************************************************************************)
LinesAreCounted ==
  \/ line = 1 + Count({"lf"}, 1, current)
  \/ Count({"semicolon", "#", "|", "cr"}, 1, current) > 0
  \/ \E q \in 1..current : At(q) \in ExplicitSign /\ At(q + 1) = "."

(***************************************************************************)
(* Every step reads on, ends the space before a token, or finds the        *)
(* terminator: no loop of scanToken but the one that never ends turns      *)
(* without advancing.                                                      *)
(***************************************************************************)
EveryStepAdvances ==
  [][\/ current < current'
     \/ (current = current' /\ skipping /\ ~skipping')
     \/ At(current) = "nul"]_vars

(***************************************************************************)
(* The scanner gets to the end of the source: no token and no piece of     *)
(* intertoken space keeps it where it is, but for an escape with an x in   *)
(* an identifier in bars.                                                  *)
(***************************************************************************)
IsInEscape ==
  /\ ~skipping /\ At(current) = "|"
  /\ \E q \in current..Len(source) : At(q) = "\\" /\ At(q + 1) = "x"

GetsToTheEnd == <>(token.type = "eof" \/ current = Past \/ IsInEscape)
=============================================================================
