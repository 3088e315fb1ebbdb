----------------------------- MODULE MCPhonePath -----------------------------
(* A queue of seven cells for commands of five bytes: they begin at every    *)
(* cell in turn, and the second of two finds the queue full when the         *)
(* collector is slow: commands are cut, and what is left of two of them is   *)
(* more than the buffer of seven holds.                                      *)
EXTENDS PhonePath

CHA == <<"c">>
MCWords == <<CHA>>
MCLetters == {"c"}
MCBytes == {"c", "X", "Z", "L", "Y"}

ASSUME ConstantsFit == PathConstants
=============================================================================
