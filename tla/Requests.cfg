SPECIFICATION FairSpec
CONSTANTS
  Cores = {"a", "b"}
  Requests = {"r1", "r2"}
  Workloads <- MCWorkloads
  MaxFaults = 1
INVARIANTS
  ServedOnce
  StoreAndAdapterAgree
PROPERTIES
  DoneMeansDone
  RequestsAnswered
CHECK_DEADLOCK FALSE
