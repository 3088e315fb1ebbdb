---------------------------- MODULE MCCommandPath ----------------------------
(* Words like those of the code, letter by letter where the scanners look:   *)
(* an L inside (ENALGO), none (CHA), and an unknown one with an L at the     *)
(* end.  Their frames have 7, 5 and 6 bytes: a queue of 11 holds the shorter *)
(* two together, and drops bytes when the longest one and another wait.      *)
(* The buffer of 12 has room for a command behind what is left of a cut one, *)
(* and is overrun when more is left.                                         *)
EXTENDS CommandPath

ENALGO == <<"e", "L", "o">>
CHA == <<"c">>
MCWords == <<ENALGO, CHA>>
MCUnknown == {<<"o", "L">>}
MCLetters == {"e", "o", "c"}
=============================================================================
