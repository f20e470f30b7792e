----------------------------- MODULE MCStemJob -----------------------------
(* StemJob for TLC: tracks the media holds and tracks it does not.          *)
EXTENDS StemJob

CONSTANTS a, b
=============================================================================
