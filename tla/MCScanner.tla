----------------------------- MODULE MCScanner -----------------------------
(* Source strings for TLC: short ones with a character of every kind, and  *)
(* longer ones of comments, numbers, booleans and characters alone, and    *)
(* the word quote.                                                         *)
EXTENDS TokenConversions, SequencesExt

EveryKind == {"a", "x", "1", "lf", "semicolon", "#", "|", "\\", "quotation",
              "(", "+", ".", "comma"}

BooleanSources ==
  {<<"#", "t">>, <<"#", "t", "r", "u", "e">>,
   <<"#", "f">>, <<"#", "f", "a", "l", "s", "e">>}

CharacterSources ==
  {<<"#", "\\", l>> \o CharacterNames[l] : l \in DOMAIN CharacterNames}
    \cup {<<"#", "\\", "n", "e", "w", "l", "i", "n", "e">>}

MCSources ==
  BoundedSeq(EveryKind, 4)
    \cup BoundedSeq({"#", "|"}, 12)
    \cup BoundedSeq({"#", "t", "r", "u", "e", "8", "("}, 5)
    \cup BoundedSeq({"#", "\\", "t", "a", "b"}, 5)
    \cup BoundedSeq({"semicolon", "lf", "cr", "quotation", "a"}, 5)
    \cup BoundedSeq({"0", "1", ".", "e", "x", "+"}, 5)
    \cup BooleanSources \cup CharacterSources
    \cup {<<"q", "u", "o", "t", "e">>}
=============================================================================
