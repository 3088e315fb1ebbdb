----------------------------- MODULE MCDataPath -----------------------------
(* Two ring blocks, two waiting commands, and a heap exactly as large as     *)
(* HeapAssumption asks.                                                      *)
EXTENDS DataPath
=============================================================================
