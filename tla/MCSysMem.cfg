CONSTANTS
  PAGING_PAGESZ = 2
  Cpus = {c1, c2}
  Walks <- MCWalks
  RamFrames = 2
  SwapFrames = 1
  Values = {0, 1}
  Mixes <- MCMixes
  MaxLoads = 1
  Regions <- MCRegions
  ADDR_MAX = 7
  Offsets = {0, 1, 7}
SYMMETRY MCSymmetry
SPECIFICATION Spec
INVARIANTS TypeOK OnlyLoadsFault UndisturbedCopy ReadBelowEnd
