SPECIFICATION FairSpec
CONSTANTS
  START = 94208
  LIMIT = 94448
  SIZES <- SmallSizes
  FILLERS <- PageFillers
  GAPS <- NoGaps
  HDR = 24
  FTR = 8
  SLACK = 4
  PAGE = 4096
PROPERTIES SortReturns
