SPECIFICATION FairSpec
CONSTANTS
  NAMES = {"a", "b", "c"}
  SIZES <- MCSizes
  BASE = 1000
  NODE = 10
  MAXNODES = 4
INVARIANTS TypeOK TreeStands AreasApart ImageHoldsTree ReadsSlotsInOrder
PROPERTIES ImplementsTree MainReturns
\* main ends.
CHECK_DEADLOCK FALSE
