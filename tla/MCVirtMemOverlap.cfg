CONSTANTS
  INT_MAX = 2
  ADDR_MAX = 7
  PAGING_MAX_SYMTBL_SZ = 2
  RgIds = {0, 1}
  AllocSizes = {1, 2}
  Offsets = {0, 1}
  Lookups = {TRUE}
  MaxGrowth = 5
  MaxOversized = 1
SPECIFICATION Spec
INVARIANTS NoOverlap
