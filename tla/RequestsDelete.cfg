SPECIFICATION EnabledSpec
CONSTANTS
  Cores = {"a", "b"}
  Requests = {"r1", "r2"}
  Workloads <- MCWorkloads
  MaxFaults = 1
PROPERTY RemovesInMemory
CHECK_DEADLOCK FALSE
