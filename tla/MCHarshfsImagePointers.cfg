SPECIFICATION Spec
CONSTANTS
  NAMES = {"a", "b"}
  SIZES <- MCSizes
  BASE = 1000
  NODE = 10
  MAXNODES = 2
INVARIANTS PointersNameSlots
\* main ends.
CHECK_DEADLOCK FALSE
