-------------------------- MODULE TokenConversions --------------------------
(***************************************************************************)
(* What the parser makes of the text of a boolean or a number              *)
(* (src/src/parser_internals/token_to_type.c, textOfTokenEqualToString of  *)
(* scanner.c), for the tokens that Scanner takes from a source: whether    *)
(* scanner and conversion agree on the texts.                              *)
(***************************************************************************)
EXTENDS Scanner

(* A string is a sequence of characters, with "nul" after the last one.    *)
Nth(string, i) == IF i <= Len(string) THEN string[i] ELSE "nul"

TextLength == token.end - token.start
TextAt(i) == At(token.start + i - 1)

(* What strncmp returns for the length of the token is the answer: true of *)
(* every string but those that begin with the token's text.                *)
textOfTokenEqualToString(string) ==
  \E i \in 1..TextLength : TextAt(i) # Nth(string, i)

(* booleanTokenToBool *)
booleanTokenToBool ==
  IF textOfTokenEqualToString(<<"#", "t">>)
       \/ textOfTokenEqualToString(<<"#", "t", "r", "u", "e">>) THEN "true"
  ELSE IF textOfTokenEqualToString(<<"#", "f">>)
       \/ textOfTokenEqualToString(<<"#", "f", "a", "l", "s", "e">>)
  THEN "false"
  ELSE "dies"

(***************************************************************************)
(* numberTokenToDouble gives strtod a pointer to the token's text, not the *)
(* end of it.  Where strtod stops reading: after a fraction and after an   *)
(* exponent, in digits of either base.                                     *)
(***************************************************************************)
MantissaEnd(p, digits) ==
  LET whole == SkipAll(p, digits)
  IN  IF At(whole) = "." THEN SkipAll(whole + 1, digits) ELSE whole

ExponentEnd(p, letter) ==
  LET digits == IF At(p + 1) \in ExplicitSign THEN p + 2 ELSE p + 1
  IN  IF At(p) = letter /\ At(digits) \in Digit THEN SkipAll(digits, Digit)
      ELSE p

IsHexadecimal(p) ==
  /\ At(p) = "0" /\ At(p + 1) = "x"
  /\ At(p + 2) \in HexDigit \/ (At(p + 2) = "." /\ At(p + 3) \in HexDigit)

StrtodEnd(p) ==
  IF IsHexadecimal(p) THEN ExponentEnd(MantissaEnd(p + 2, HexDigit), "p")
  ELSE ExponentEnd(MantissaEnd(p, Digit), "e")
-----------------------------------------------------------------------------
(***************************************************************************)
(* The scanner and strtod agree on where a number ends, unless what comes  *)
(* after its digits is a fraction, an exponent or an x: then the number    *)
(* gets the value of what the scanner goes on to take for other tokens.    *)
(***************************************************************************)
NumbersAreTokens ==
  token.type = "number" =>
    \/ StrtodEnd(token.start) = token.end
    \/ StrtodEnd(token.start) > token.end /\ At(token.end) \in {".", "e", "x"}

(***************************************************************************)
(* r7rs-tests.scm:1618-1621: "#t" and "#true" are to be read as one value, *)
(* "#f" and "#false" as the other.                                         *)
(***************************************************************************)
BooleansAreRead ==
  token.type = "boolean" =>
    booleanTokenToBool = IF TextAt(2) = "t" THEN "true" ELSE "false"
=============================================================================
