SPECIFICATION Spec
CONSTANTS
  b1 = b1
  b2 = b2
  v1 = v1
  v2 = v2
  Absent = Absent
  Bundle <- MCBundle
  Volume <- OneVolume
  CommandLine <- WithBundle
  HasRootCAs = TRUE
  IOErrors = FALSE
  MaxIssue = 2
  MaxRotation = 1
  MaxRestart = 0
INVARIANT AlwaysPair
CHECK_DEADLOCK FALSE
