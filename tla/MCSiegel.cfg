SPECIFICATION SiegelSpec
CONSTANTS
  Secrets = {s1, s2}
  Zero = zero
  NoSecret = none
  Sizes <- MCSizes
  MaxSecretSize = 3
  PageSize = 4
  CanaryLen = 2
  MaxFaults = 3
INVARIANTS
  SiegelTypeOK
  StartsZeroed
  NeverRestsExposed
  OutcomeTellsUse
PROPERTIES
  DroppingEnds
  OneTime
CHECK_DEADLOCK FALSE
