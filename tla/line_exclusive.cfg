SPECIFICATION FairSpec
CONSTANTS
  p1 = p1
  p2 = p2
  r1 = r1
  r2 = r2
  Procs = {p1, p2}
  Requests = {r1, r2}
  Names = {"H_bug"}
  Faults = {"store", "git"}
  HasRemote = FALSE
  MaxCommits = 4
  Nobody = Nobody
  Ghost = Ghost
  NoOne = NoOne
INVARIANTS ActiveReleaseAgrees
PROPERTIES LeaseComesBack
CHECK_DEADLOCK FALSE
