SPECIFICATION FairSpec
CONSTANTS
  Root = root
  Child = child
  Nni = 1
  Uni = 11
  Pon = 5
  Incremental = {root}
  Flows <- MCFlows
  Named <- MCNamed
  Wildcards <- MCWildcards
  Meters = {1}
  Installed = {1}
  Groups = {1}
  Values = {1}
  CountRange = 3
  MaxOps = 3
  MaxLeft = 1
  MaxFaults = 1
INVARIANTS
  DevicesFollowFlows
  NoStrayRule
  HardwareFollows
  FlowsHaveMeters
  FlowCountExact
  RulesJoin
PROPERTY OperationsEnd
CHECK_DEADLOCK FALSE
