SPECIFICATION FairSpec
CONSTANTS
  START = 96
  LIMIT = 372
  SIZES <- MCSizes
  FILLERS <- MCFillers
  GAPS <- MCGaps
  HDR = 24
  FTR = 8
  SLACK = 4
  PAGE = 96
INVARIANTS TypeOK FootersSound UsedIsOwned ListWhole
PROPERTIES ImplementsHeapBlocks CallsReturn
