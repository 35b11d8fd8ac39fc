CONSTANTS
  MaxStreams = 1
  MaxSize = 1
  MaxLen = 4
  Absent = Absent
SPECIFICATION TarSpec
CHECK_DEADLOCK FALSE
INVARIANTS BlocksArePacked
