\* The lists of the arena: plain, several sizes to a bin, a thread cache.
\* The program stops where malloc aborts.
CONSTANTS
  SIZE_SZ = 1
  MALLOC_ALIGNMENT = 2
  NSMALLBINS = 4
  NBINS = 9
  TCACHE_MAX_BINS = 2
  WORD_BITS = 12
  top_pad = 0
  MAX_ITERS = 2
  MMAP_AS_MORECORE_SIZE = 16
  MMAP_START = 64
  SETUPS <- ListSetups
SPECIFICATION Spec
INVARIANTS
  
  EveryChunkInOnePlace
  InUseBitsRight
  AsksSystemOnlyIfNeeded
  
  BestFit
CHECK_DEADLOCK FALSE
