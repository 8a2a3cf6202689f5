------------------------------ MODULE MCBudget ------------------------------
(* Instances of Budget for TLC.                                             *)
EXTENDS Budget, TLC

CONSTANTS p1, p2, c1, k1, k2, k3

\* Processes and keys are interchangeable.
MCSymmetry == Permutations({p1, p2}) \cup Permutations({k1, k2, k3})

Offer(w, cases, calls, conc) ==
  [wave |-> w, cases |-> cases, calls |-> calls, conc |-> conc, tries |-> 2,
   revs |-> 2]

\* Two competing requests for the first wave, one of them with a case and
\* fewer calls than the other, and two for the second wave, one of which
\* would drop the case.
WaveOffers == {Offer(3, {c1}, 1, 1), Offer(3, {}, 2, 2),
               Offer(8, {c1}, 3, 2), Offer(8, {}, 2, 1)}

\* The operator request "x3" was created under the first wave.
Frozen == [e \in Execs |-> 3]

Ceilings  == [w \in {3, 8, 16} |-> 4]
MCLimits  == [conc |-> 2, tries |-> 2, revs |-> 2]
=============================================================================
