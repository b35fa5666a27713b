CONSTANTS
  INT_MAX = 2
  ADDR_MAX = 7
  PAGING_MAX_SYMTBL_SZ = 2
  RgIds = {0, 1}
  AllocSizes = {0, 1, 2, 5, 6}
  Offsets = {0}
  Lookups = {TRUE, FALSE}
  MaxGrowth = 5
  MaxOversized = 1
SPECIFICATION Spec
INVARIANTS TypeOK FreeListShape MisfitOnlyOversized BytesConserved
