SPECIFICATION MCSpec
CHECK_DEADLOCK FALSE
CONSTANTS
  None = None
  n1 = n1
  n2 = n2
  o1 = o1
  o2 = o2
  o3 = o3
  o4 = o4
  o5 = o5
  e1 = e1
  e2 = e2
  Nodes = {n1, n2}
  Outputs = {o1, o2, o3, o4, o5}
  Events = {e1, e2}
  Capacities = {1, 2}
  Unit = 2
  MaxOrdinal = 4
  MaxInstant = 2
  Compatible <- MCCompatible
  Priority <- MCPriority
  Weight <- MCWeight
  Configs <- MCConfigs
INVARIANTS
  QueueReflectsArrivals
  OneJumpPerInstant
  ListenersAreSound
PROPERTIES
  BoundaryPrecedence
  OneOccurrencePerDecision
  JumpWinnerIsFirstBest
