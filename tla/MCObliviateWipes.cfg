SPECIFICATION Safety
CONSTANTS
  Threads = {t1, t2, t3}
  Sessions = {s1, s2, s3}
  Handles = {h1, h2, h3}
  Foreign = foreign
  None = none
  MaxActiveSessions = 2
  MaxHandleAllocRetries = 2
  MaxCalls = 5
SYMMETRY Symmetry
INVARIANT ObliviateWipes
CHECK_DEADLOCK FALSE
