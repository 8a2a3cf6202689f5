SPECIFICATION Spec
CONSTANTS
  p1 = p1
  p2 = p2
  Procs = {p1, p2}
  MaxAttempts = 2
  Regimes <- Undisturbed
  Foreign = Foreign
  Nobody = Nobody
  Ghost = Ghost
SYMMETRY MCSymmetry
INVARIANTS RetryIsPermitted
CHECK_DEADLOCK FALSE
