--------------------------- MODULE MCSampleHandoff ---------------------------
(* Four samples per block, so that the quarter the sender clears is one of   *)
(* them, and two block contents, enough to tell a mixed packet.              *)
EXTENDS SampleHandoff
=============================================================================
