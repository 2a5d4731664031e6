SPECIFICATION Spec
CHECK_DEADLOCK FALSE
CONSTANTS
  None = None
  PlainDurations = {2, 4, 8}
  LongestRest = 24
  Steps = {0}
  HighestSemitone = 14
  BeamableLengths = {2}
  DurationArticulations = {"staccato", "tenuto"}
  MeterLength <- MCMeterLength
  DefaultClef <- MCDefaultClef
  Active <- MCActive
  Archived = {"z"}
  Layout <- MCLayout
  Voices = {1, 2}
  Start <- MCStart
  NewMeters = {"alsofour", "two"}
  Pickdowns = {2, 3, 4}
  Positions = {4, 10}
  Clefs = {"alto"}
  Values = {"slow"}
  PedalSpans <- MCPedalSpans
  Selections <- MCSelections
  Destinations <- MCDestinations
  MaxEdits = 2
INVARIANTS
  MeasuresKeepTheirMusic
  ExactlyTheRangeIsReplaced
  UndoRestores
  SelectionsHold
PROPERTIES
  CopyHearsItsRange
