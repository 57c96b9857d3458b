SPECIFICATION Spec
CONSTANTS
  START = 94208
  LIMIT = 94448
  SIZES <- MCSizes
  FILLERS <- MCFillers
  GAPS <- MCGaps
  HDR = 24
  FTR = 8
  SLACK = 4
INVARIANTS TypeOK Disjoint PayloadFits NoLostSpace
PROPERTIES LiveStays
\* A heap that LIMIT keeps from growing may have nothing left to do.
CHECK_DEADLOCK FALSE
