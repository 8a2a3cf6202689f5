SPECIFICATION Spec
CONSTANTS
  p1 = p1
  p2 = p2
  c1 = c1
  k1 = k1
  k2 = k2
  k3 = k3
  Procs = {p1, p2}
  Offers <- WaveOffers
  Cases = {c1}
  Execs = {"x3"}
  Roles = {"writer", "operator_writer"}
  FrozenWave <- Frozen
  Keys = {k1, k2, k3}
  MaxCalls <- Ceilings
  MaxLimits <- MCLimits
  MaxRequests = 2
  Faults = {"crash", "store"}
  NoCase = NoCase
SYMMETRY MCSymmetry
INVARIANTS CallsWithinBudget WavesInOrder IInv
PROPERTIES LedgerIsAppendOnly
CHECK_DEADLOCK FALSE
