SPECIFICATION Spec
CONSTANTS
  p1 = p1
  p2 = p2
  r1 = r1
  r2 = r2
  Procs = {p1, p2}
  Requests = {r1, r2}
  Names = {"H_bug"}
  Faults = {"theft", "store"}
  HasRemote = TRUE
  MaxCommits = 3
  Nobody = Nobody
  Ghost = Ghost
  NoOne = NoOne
SYMMETRY MCSymmetry
INVARIANTS LinearHistory IntegratedAtMostOnce CheckpointsAreSound
CHECK_DEADLOCK FALSE
