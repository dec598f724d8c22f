SPECIFICATION Spec
CONSTANTS
  Cores = {core1, core2}
  TTL = 10
  Period = 3
  MayStall = FALSE
  MayStop = TRUE
  MayRestart = TRUE
INVARIANTS
  AtMostOneOwner
