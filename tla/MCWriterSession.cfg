SPECIFICATION Spec
CHECK_DEADLOCK FALSE
CONSTANTS
  None = None
  Nowhere = Nowhere
  PlainDurations = {1, 2, 4}
  LongestRest = 14
  MeasureLengths <- MCLengths
  Pickdown = 2
  Steps = {6, 7, 8}
  HighestSemitone = 14
  BeamableLengths = {1, 2}
  DurationArticulations = {"staccato", "tenuto"}
  BeatRests <- MCRests
  SystemWidth = 14
  MinimumWidth = 4
  Start <- MCStart
  MiddleLine = 7
  Selected = {2, 8, 12}
  Letters = {0}
  Lengths = {2, 4}
  Moves <- MCMoves
  Accidentals <- MCAccidentals
  Intervals = {2}
  Articulations = {"staccato"}
  Stems = {"up"}
  Levels = {"f"}
  Directions = {"softer"}
  Spans <- MCSpans
  Ratios <- MCRatios
  Transpositions <- MCTranspositions
  Clicks <- MCClicks
  FirstCarets = {4}
  MaxEdits = 2
  PoisonBelow = 1
INVARIANTS
  LayoutFollowsVoice
  ReferenceHasItsEdit
  NoteheadsCanBeEdited
