SPECIFICATION B81Spec
CONSTANTS
  Listings <- AllListings
  Labels = {"@a", "@b", "@c"}
  MAX_LABELS = 2
  LINE_INC = 2
  MAX_LINE = 9
  SYSVARS = 1
  TAIL = 1
  B81_MAX_P = 24
INVARIANTS Jumps WholeListing TextKept
CHECK_DEADLOCK FALSE
