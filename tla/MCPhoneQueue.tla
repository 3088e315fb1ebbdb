---------------------------- MODULE MCPhoneQueue ----------------------------
(* Four cells: every cell is written several times around the ring, and the  *)
(* queue is found full and empty at each position.                           *)
EXTENDS PhoneQueue
=============================================================================
