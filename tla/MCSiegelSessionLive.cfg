SPECIFICATION Spec
CONSTANTS
  Threads = {t1, t2}
  Sessions = {s1, s2}
  Handles = {h1, h2}
  Foreign = foreign
  None = none
  MaxActiveSessions = 2
  MaxHandleAllocRetries = 1
  MaxCalls = 4
PROPERTIES
  ReleasedIsWiped
  CallsReturn
CHECK_DEADLOCK FALSE
