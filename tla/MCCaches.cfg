SPECIFICATION MCSpec
CHECK_DEADLOCK FALSE
CONSTANTS
  None = None
  Nil = "nil"
  ThisProject = "p"
  NodeIds = {"a", "b"}
  ConnectorIds = {"c", "o", "nil"}
  NotationIds = {"e", "h", "nil"}
  Illegal = Illegal
  Whole = 2
  Projects <- MCProjects
  NodeValues <- MCNodeValues
  MaxEdits = 2
  Parts = {"diagnostics", "voice"}
  Starts = {None}
  EditedVoice = {"append", "insert", "remove", "replace", "tuplet", "repitch", "clear", "normalize", "add", "unref", "reref", "ungrace", "assign"}
INVARIANTS
  CacheIsCurrent
  ReportIsExactWhereNamed
PROPERTIES
  RefreshEqualsBuildOutsideTail
  EditsStayLocal
