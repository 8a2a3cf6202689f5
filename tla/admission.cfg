SPECIFICATION Spec
CONSTANTS
  a = a
  b = b
  c = c
  d = d
  x = x
  y = y
  pa = pa
  pab = pab
  pac = pac
  pd = pd
  none = none
  Files = {a, b, c, d}
  Layers = {x, y}
  Owners <- MCOwners
  Patches = {pa, pab, pac, pd}
  Touches <- MCTouches
  Sound = {pa, pab, pac, pd}
  Creator = creator
  Reviewers = {reviewer, creator}
  Humans = {human}
  Regimes <- MCRegimes
  Expiry = 2
  MaxVersion = 2
  None = none
INVARIANTS TypeOK VerifiedIsCovered AdmittedIsCovered
PROPERTIES DecisionsRestOnApprovals
CHECK_DEADLOCK FALSE
