-------------------------- MODULE MCExperimentLine --------------------------
(* Instances of ExperimentLine for TLC: two commands, one or two requests,  *)
(* the one checkpoint a study may have besides H0.                          *)
EXTENDS ExperimentLine, TLC

CONSTANTS p1, p2, r1, r2

\* Commands and requests are interchangeable.
MCSymmetry == Permutations({p1, p2}) \cup Permutations({r1, r2})
=============================================================================
