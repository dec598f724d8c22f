SPECIFICATION Spec
CONSTANTS
  Root = root
  Children = {c1}
  Routines = {r1, r2}
  OperReports = {"ACTIVE"}
  CallsMayFail = FALSE
  CoreMayRestart = FALSE
  ImageReports = {}
SYMMETRY Symmetry
INVARIANTS
  NoReferenceLeft
CHECK_DEADLOCK FALSE
