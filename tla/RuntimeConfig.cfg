SPECIFICATION FairSpec
CONSTANTS
  Data <- MCData
  Static <- MCStatic
  Empty = ""
  Absent = Absent
  MaxChanges = 3
  MaxFaults = 2
INVARIANTS TypeOK UsesConfigMap NeverMixed FollowsConfigMap
PROPERTIES ImplementsSource Converges
CHECK_DEADLOCK FALSE
