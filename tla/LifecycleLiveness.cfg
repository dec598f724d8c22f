SPECIFICATION FairSpec
CONSTANTS
  Root = root
  Children = {c1}
  Routines = {r1, r2}
  OperReports = {"ACTIVE"}
  CallsMayFail = FALSE
  CoreMayRestart = FALSE
  ImageReports = {root}
PROPERTIES
  RoutinesEnd
  ChildIsRemoved
CHECK_DEADLOCK FALSE
