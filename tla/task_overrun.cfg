SPECIFICATION Spec
CONSTANTS
  r1 = r1
  h1 = h1
  h2 = h2
  Runners = {r1}
  Humans = {h1}
  Results = {"accepted"}
  MaxRuns = 2
  Regimes <- Overlapping
  NoRecord = NoRecord
PROPERTIES RunLeavesTerminal
CHECK_DEADLOCK FALSE
