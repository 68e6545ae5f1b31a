SPECIFICATION MgrFairSpec
CONSTANTS
  b1 = b1
  b2 = b2
  Bundle <- MCBundle
  HasRootCAs = TRUE
  MaxRotation = 2
  MaxRestart = 0
PROPERTY EveryRotationDistributed
CHECK_DEADLOCK FALSE
