SPECIFICATION Spec
CONSTANTS
  c1 = c1
  c2 = c2
  r1 = r1
  r2 = r2
  m1 = m1
  m2 = m2
  Procs = {c1, c2}
  Requests = {r1, r2}
  Proms = {m1, m2}
  MaxHead = 2
  MaxPulls = 2
  Regimes <- Overlapping
  Base = Base
  NoRelease = NoRelease
  None = None
  Nobody = Nobody
  Ghost = Ghost
PROPERTIES CanaryFailureKeepsRelease
SYMMETRY MCSymmetry
CHECK_DEADLOCK FALSE
