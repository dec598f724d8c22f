SPECIFICATION FairSpec
CONSTANTS
  Cores = {core1, core2}
  TTL = 10
  Period = 3
  MayStall = FALSE
  MayStop = TRUE
  MayRestart = FALSE
INVARIANTS
  AtMostOneOwner
  OwnerHoldsReservation
PROPERTIES
  TakesOver
