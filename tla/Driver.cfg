SPECIFICATION DriverFairSpec
CONSTANTS
  b1 = b1
  b2 = b2
  Bundle <- MCBundle
  HasRootCAs = TRUE
  MaxRotation = 4
  MaxRestart = 1
INVARIANTS DriverTypeOK TriggerBound NoLostTrigger BlockNeedsTwoRotations ExitsOnSignalOnly
PROPERTIES DistributedUnlessBlocked SignalEndsProcess
CHECK_DEADLOCK FALSE
