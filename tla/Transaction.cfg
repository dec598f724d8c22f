SPECIFICATION FairSpec
CONSTANTS
  Cores = {core1, core2}
  RequestTimeout = 5200
  Skew = 5
  MayCrash = TRUE
  MayStall = FALSE
  MayLapse = TRUE
INVARIANTS
  TypeOK
  OneServer
  HoldsTransaction
PROPERTIES
  Served
  KeyIsFreed
