---------------------------- MODULE MCPromotion ----------------------------
(* Instances of Promotion for TLC: two commands, two requests, and two      *)
(* promotions of one or of both.                                            *)
EXTENDS Promotion, TLC

CONSTANTS c1, c2, r1, r2, m1, m2

MCSymmetry == Permutations({c1, c2}) \cup Permutations({r1, r2})
                \cup Permutations({m1, m2})

Regime(faults, overlap, first, most) ==
  [faults |-> faults, overlap |-> overlap, first |-> first, most |-> most]

\* Promotions that overlap, with and without crashes and a release before
\* them; promotions that follow one another; one promotion that loses leases.
MCRegimes == {Regime({"edit"}, TRUE, NoRelease, 2),
              Regime({"crash"}, TRUE, Base, 2),
              Regime({"git"}, FALSE, Base, 2),
              Regime({"theft"}, TRUE, Base, 1)}

Overlapping == {Regime({}, TRUE, Base, 2)}
=============================================================================
