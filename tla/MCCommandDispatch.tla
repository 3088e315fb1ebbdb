------------------------- MODULE MCCommandDispatch -------------------------
(* Both ends of the range that one digit and two decimals give, and a       *)
(* negative number: by the sum that carries it, it becomes a number without *)
(* a case (H0), the command ENABLE (H1), or another coefficient (H2, H3).   *)
EXTENDS CommandDispatch

Numbers == {0, 999, 0 - 1999}
=============================================================================
