SPECIFICATION Spec
CONSTANTS
  b1 = b1
  b2 = b2
  v1 = v1
  v2 = v2
  Absent = Absent
  Bundle <- MCBundle
  Volume <- OneVolume
  CommandLine <- WithBundle
  HasRootCAs = TRUE
  IOErrors = TRUE
  MaxIssue = 2
  MaxRotation = 2
  MaxRestart = 1
INVARIANTS TypeOK PairIntact RenewalScheduled FilesComplete CurrentAtRest
PROPERTY ImplementsManager
CHECK_DEADLOCK FALSE
