---------------------------- MODULE MCSamplePath ----------------------------
(* The ring, heap and window of MCDataPath, and blocks of two samples: the    *)
(* first and the last, so that a block can be half handed over while the DSP  *)
(* fills and filters the other one.                                           *)
EXTENDS SamplePath

ASSUME ConstantsFit == PathConstants
=============================================================================
