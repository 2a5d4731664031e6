SPECIFICATION MCSpec
CHECK_DEADLOCK FALSE
CONSTANTS
  None = None
  Nil = "nil"
  ThisProject = "p"
  NodeIds = {"a", "b"}
  ConnectorIds = {"c", "o", "nil"}
  NotationIds = {"e", "h", "nil"}
  Illegal = Illegal
  Whole = 2
  Projects <- MCProjects
  NodeValues <- MCNodeValues
  MaxEdits = 1
  Parts = {"diagnostics"}
  Starts = {None}
  EditedVoice = {}
INVARIANTS
  ReportIsExact
