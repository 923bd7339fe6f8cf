\* The arena and the system: alignment, a break that others move, mmap for sbrk.
\* The program stops where malloc aborts.
CONSTANTS
  SIZE_SZ = 1
  MALLOC_ALIGNMENT = 2
  NSMALLBINS = 4
  NBINS = 9
  TCACHE_MAX_BINS = 2
  WORD_BITS = 12
  top_pad = 0
  MAX_ITERS = 2
  MMAP_AS_MORECORE_SIZE = 16
  MMAP_START = 64
  SETUPS <- SystemSetups
SPECIFICATION Spec
INVARIANTS
  
  MemoryAccountedFor
  CallocZeroes
  EnoughAndAligned
PROPERTIES
  ImplementsMallocSpec
CHECK_DEADLOCK FALSE
