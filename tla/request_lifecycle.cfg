SPECIFICATION FairSpec
CONSTANTS
  p1 = p1
  p2 = p2
  Procs = {p1, p2}
  MaxAttempts = 2
  Regimes <- MCRegimes
  Foreign = Foreign
  Nobody = Nobody
  Ghost = Ghost
INVARIANTS TypeOK ProjectionIsSound VerifiedStands ReleasedWasChecked
PROPERTIES CancelledStaysOut ChecksEnd
CHECK_DEADLOCK FALSE
