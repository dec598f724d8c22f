SPECIFICATION Spec
CONSTANTS
  Root = root
  Children <- MCChildren
  NNI <- MCNNI
  UNI <- MCUNI
  Pon = 5
  ChildOf <- MCChildOf
  Stored <- MCStored
  MaxTasks = 2
  MaxRequests = 4
  MayFail = TRUE
  c1 = c1
INVARIANTS
  NoDuplicatePort
  Announced
  RoutesFollowWires
  UpToDateMeansCurrent
  MapKnowsPorts
  UNIPortsSettle
CHECK_DEADLOCK FALSE
