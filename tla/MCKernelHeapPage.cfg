SPECIFICATION Spec
CONSTANTS
  START = 94208
  LIMIT = 102500
  SIZES <- PageTailSizes
  FILLERS <- PageFillers
  GAPS <- NoGaps
  HDR = 24
  FTR = 8
  SLACK = 4
  PAGE = 4096
INVARIANTS OwnersApart
