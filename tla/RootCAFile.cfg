SPECIFICATION FairSpec
CONSTANTS
  b1 = b1
  b2 = b2
  Partial = Partial
  Absent = Absent
  Bundle <- MCBundle
  EnvOps <- AllOps
  MaxChanges = 4
  QueueCap = 2
INVARIANTS TypeOK NoSilentLoss WatchKept
PROPERTIES ImplementsRootCA Converges
CHECK_DEADLOCK FALSE
