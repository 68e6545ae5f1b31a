SPECIFICATION Spec
CONSTANTS
  b1 = b1
  b2 = b2
  v1 = v1
  v2 = v2
  Absent = Absent
  Bundle <- MCBundle
  Volume <- OneVolume
  CommandLine <- Renamed
  HasRootCAs = TRUE
  IOErrors = FALSE
  MaxIssue = 1
  MaxRotation = 0
  MaxRestart = 0
INVARIANT FilesComplete
CHECK_DEADLOCK FALSE
