--------------------------- MODULE MCExecutionTask ---------------------------
(* Instances of ExecutionTask for TLC.                                      *)
EXTENDS ExecutionTask, TLC

CONSTANTS r1, h1, h2

\* Commands between runs, with archives, crashes and raising backends; and
\* commands that overlap a run, without archives.
MCRegimes == {[faults |-> {"raise", "crash"}, archives |-> TRUE],
              [faults |-> {"overlap"}, archives |-> FALSE]}

Overlapping == {[faults |-> {"overlap"}, archives |-> FALSE]}
=============================================================================
