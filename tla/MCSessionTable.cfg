SPECIFICATION Spec
CONSTANTS
  Sessions = {s1, s2, s3}
SYMMETRY Symmetry
PROPERTY EverySecretIsOneTime
CHECK_DEADLOCK FALSE
