SPECIFICATION FairSpec
CONSTANTS
  ENTRIES = 5
  IMAGE_START = 1
  HARSHFS_FRAME = 10
INVARIANTS TypeOK KernelPagesNotUser WindowWhole OverrunInFooter
PROPERTIES MappedStays HarshfsInitEnds
