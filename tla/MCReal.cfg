\* The numbers of mem.c on x86-64 Linux.  A region of two pages has 8175 bytes
\* of contents: 8134 is the largest request that splits it, 8180 needs a third
\* page because of its header.
CONSTANTS
  HEADER_SIZE = 17
  BLOCK_MIN_CAPACITY = 24
  PAGE_SIZE = 4096
  REGION_MIN_SIZE = 8192
  SIZE_T = 1073741824
  HEAP_START = 67371008
  ADDRESS_TOP = 67391488
  MMAP_PAGES <- RealPages
  FOREIGN_PAGES <- PageAfterHeap
  MAX_REGIONS = 3
  QUERIES = {0, 4096, 8134, 8135, 8180}
  INITIALS = {4096}
  MAX_LIVE = 2
SPECIFICATION Spec
INVARIANTS
  BlocksDisjoint
  AllocatedBlocks
  GrowsAtRegionEnd
