CONSTANTS
  PAGING_PAGESZ = 2
  NumFrames = 3
  MaxRequest = 2
  Pages <- MCPages
  SwapTypes <- MCSwapTypes
  SwapOffsets <- MCSwapOffsets
SPECIFICATION Spec
INVARIANTS TypeOK FramesPartitioned NoFrameShared
PROPERTIES ImplementsPageMap
