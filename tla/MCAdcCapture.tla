---------------------------- MODULE MCAdcCapture ----------------------------
(* Two samples per window: a first and a last one.  AllEvents lets           *)
(* uPPIntStatus show events whose interrupt is not enabled.                  *)
EXTENDS AdcCapture

AllEvents == Events
=============================================================================
