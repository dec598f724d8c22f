SPECIFICATION Spec
CONSTANTS
  Root = root
  Children = {c1}
  Routines = {r1, r2}
  OperReports = {"ACTIVE"}
  CallsMayFail = TRUE
  CoreMayRestart = TRUE
  ImageReports = {c1}
SYMMETRY Symmetry
INVARIANTS
  TypeOK
  CleanupOwnsDevice
  AgentsHaveRecords
  LogicalAgentIsServed

  
