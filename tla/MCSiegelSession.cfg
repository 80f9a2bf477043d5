SPECIFICATION Safety
CONSTANTS
  Threads = {t1, t2, t3}
  Sessions = {s1, s2, s3}
  Handles = {h1, h2, h3}
  Foreign = foreign
  None = none
  MaxActiveSessions = 2
  MaxHandleAllocRetries = 2
  MaxCalls = 4
SYMMETRY Symmetry
INVARIANTS
  TypeOK
  OneTimeUse
  TakeOutcome
  StateTellsContent
  LiveIsRegistered
  CapRespected
  FreshUnshared
  TerminalIsFinal
  NoCircle
  OrphanIsDropped
PROPERTIES
  NoSilentLoss
  ImplementsTable
CHECK_DEADLOCK FALSE
