------------------------- MODULE MCExperimentCaches -------------------------
(* ExperimentCaches with two experiments, a spare name to rename to, and   *)
(* request threads that are interchangeable.                               *)
EXTENDS ExperimentCaches, TLC

CONSTANTS e1, e2, a, b, c, t1, t2

MCIds == {e1, e2}
MCNames == {a, b, c}
TwoThreads == {t1, t2}
Symmetry == Permutations(MCIds) \cup Permutations(MCNames) \cup Permutations(Threads)
=============================================================================
