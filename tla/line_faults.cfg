SPECIFICATION Spec
CONSTANTS
  p1 = p1
  p2 = p2
  r1 = r1
  r2 = r2
  Procs = {p1, p2}
  Requests = {r1}
  Names = {"H_bug"}
  Faults = {"crash", "theft", "store", "git"}
  HasRemote = TRUE
  MaxCommits = 3
  Nobody = Nobody
  Ghost = Ghost
  NoOne = NoOne
SYMMETRY MCSymmetry
INVARIANTS RefFollowsLine IInv
PROPERTIES DivergedLineStops ImplementsAuthority
CHECK_DEADLOCK FALSE
