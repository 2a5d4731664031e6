SPECIFICATION MCSpec
CHECK_DEADLOCK FALSE
CONSTANTS
  None = None
  c1 = c1
  c2 = c2
  g1 = g1
  g2 = g2
  Commands = {c1, c2, g1, g2}
  Groups = {g1, g2}
  MaxChildren = 6
  Automatic = Automatic
  Empty = Empty
  MaxActiveTracks = 2
  Routes = {"redrawn"}
  Contents = {"notes"}
  AttributeValues = {"edited"}
  MaxCopied = 2
  MaxEdits = 2
INVARIANTS
  ProjectIsReplay
  GraphIsSound
  UndoIsInverse
  DamageDoesNotDangle
PROPERTIES
  ImplementsTimeline
  ImplementsCommand
