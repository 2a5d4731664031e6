CONSTANTS
  c1 = c1
  p1 = p1
  t1 = t1
  t2 = t2
  n1 = n1
  Channels = {c1, c2}
  Pitches = {p1, p2}
  Spans = {s1, s2}
  PickdownSpans = {s2}
  SpanHome <- AllSpansInN1
  Nodes = {n1, n2}
  PickdownNodes = {n1}
  Attacks = {a1, a2, a3}
  Snapshots = {t1, t2}
  None = None
SYMMETRY AttackIds
SPECIFICATION MCSpec
INVARIANTS
  ReceiverHearsOwners
  PedalIsLogicalOr
  ObligedEntriesAreReachable
  ObligedPedalIsNeverStuck
PROPERTIES
  CutAttacksStaySilent
  ImplementsStream
  JumpCutsExactlyMain
