SPECIFICATION FairSpec
CONSTANTS
  Adapters = {"olt"}
  TypesOf <- MCTypesOf
  Sentinel = "sentinel"
  MaxRetries = 1
  MaxChecks <- MCMaxChecks
  MaxDisturbances = 2
INVARIANTS MapsAgree RegisteredIsStored KnowsStoredAdapters ReadyMeansStarted
PROPERTIES ReadinessReturns OutageReported
