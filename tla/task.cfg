SPECIFICATION FairSpec
CONSTANTS
  r1 = r1
  h1 = h1
  h2 = h2
  Runners = {r1}
  Humans = {h1}
  Results = {"accepted", "abandoned"}
  MaxRuns = 4
  Regimes <- MCRegimes
  NoRecord = NoRecord
INVARIANTS TypeOK ReviewStands
PROPERTIES ComesToRest
CHECK_DEADLOCK FALSE
