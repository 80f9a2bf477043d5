SPECIFICATION SessionSafety
CONSTANTS
  Secrets = {s1, s2}
  Zero = zero
  NoSecret = none
  Sizes <- MCSizes
  MaxSecretSize = 3
  PageSize = 4
  CanaryLen = 2
  MaxFaults = 3
INVARIANTS
  StateOwnsSiegel
  TakeHandsOver
PROPERTY KeepsTable
CHECK_DEADLOCK FALSE
