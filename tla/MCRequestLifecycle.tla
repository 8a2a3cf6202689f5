------------------------- MODULE MCRequestLifecycle -------------------------
(* Instances of RequestLifecycle for TLC.                                   *)
EXTENDS RequestLifecycle, TLC

CONSTANTS p1, p2

\* Commands are interchangeable.
MCSymmetry == Permutations({p1, p2})

Regime(faults, nchecks, nscopes) ==
  [faults |-> faults, checks |-> nchecks, scopes |-> nscopes]

\* Commands that nothing interrupts, with two checks; crashes and failing
\* transactions; stolen leases.
MCRegimes == {Regime({"edit"}, 2, 2),
              Regime({"crash", "store", "edit"}, 1, 2),
              Regime({"theft"}, 1, 1)}

\* Nothing goes wrong at all.
Undisturbed == {Regime({}, 2, 1)}
=============================================================================
