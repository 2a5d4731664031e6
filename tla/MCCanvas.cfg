SPECIFICATION MCSpec
CONSTANTS
  None = None
  Absent = Absent
  i1 = i1  i2 = i2  i3 = i3  i4 = i4  i5 = i5  i6 = i6
  Items = {i1, i2, i3, i4, i5, i6}
  Boxes <- MCBoxes
  RegionCap = 2
  na = na  nb = nb  nc = nc  nd = nd
  o1 = o1  o2 = o2  o3 = o3
  in1 = in1  in2 = in2
  Order <- MCOrder
  Size <- MCSize
  Places <- MCPlaces
  Inputs <- MCInputs
  Outputs <- MCOutputs
  Types = {"Sequential", "Vertical"}
  Names = {"named", "renamed"}
  Values = {"set", "changed"}
  Reach <- MCReach
  Removable = {nc}
  Starts <- MCStarts
  MaxEdits = 2
  f1 = f1  f2 = f2  f3 = f3
  Focused = 64
  MaxZoom = 1
  MaxTravel = 256
  Points = {0, 128}
  Widths = {128, 256}
  FingerIds = {f1, f2, f3}
  Surfaces = {"empty", "invalid", "first", "second"}
  MaxEvents = 5
  MaxQueue = 2
  MaxUploads = 2
  Unset = Unset
  StaffCount = 3
  VoiceNames = {"v1", "v2"}
  Contents <- MCContents
  Bars <- MCBars
  Spots <- MCSpots
  Named <- MCNamed
  Step = 1
SYMMETRY Fingers
CHECK_DEADLOCK FALSE
INVARIANTS
  IndexIsSound
  SceneIsFresh
  RoutesAreBest
  GesturesFollowHands
  HandledAsHeld
  ResourcesAreKept
PROPERTIES
  SelectionIsMeant
