---------------------------- MODULE MCSepSession ----------------------------
(* SepSession for TLC: two tracks, two connections, two server jobs.        *)
EXTENDS SepSession

CONSTANTS a, b

(* The tracks are alike: the first one loaded may be called a.              *)
FirstIsA == cur # b \/ budget.loads + 1 < MaxLoads
=============================================================================
