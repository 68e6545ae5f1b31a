SPECIFICATION Spec
CONSTANTS
  Data <- MCData
  Static <- MCStatic
  Empty = ""
  Absent = Absent
  MaxChanges = 2
  MaxFaults = 1
INVARIANT RevertsWhenDeleted
CHECK_DEADLOCK FALSE
