SPECIFICATION Spec
CHECK_DEADLOCK FALSE
CONSTANTS
  a = a
  b = b
  c = c
  d = d
  twoFour = twoFour
  fiveFour = fiveFour
  None = None
  Nodes = {a, b, c, d}
  Signatures = {twoFour, fiveFour}
  MeasureLength <- MCLength
  Measures <- MCMeasures
  Starts <- MCStarts
  Pickdown <- MCPickdown
  Leads <- MCEdges
  Verticals <- MCEdges
  MaxCrossings = 6
INVARIANTS
  OneTailPerNode
  TailsWithinBound
