SPECIFICATION Spec
CONSTANTS
  Secrets = {s1, s2}
  Zero = zero
  Sizes <- MCSizes
  MaxSecretSize = 3
  PageSize = 4
  CanaryLen = 2
  MaxFaults = 3
INVARIANT NoMappingLost
CHECK_DEADLOCK FALSE
