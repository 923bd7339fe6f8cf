CONSTANTS
  HEADER_SIZE = 1
  BLOCK_MIN_CAPACITY = 2
  PAGE_SIZE = 4
  REGION_MIN_SIZE = 8
  SIZE_T = 64
  HEAP_START = 12
  ADDRESS_TOP = 36
  MMAP_PAGES <- EveryPage
  FOREIGN_PAGES = {12}
  MAX_REGIONS = 3
  QUERIES = {0, 3, 8}
  INITIALS = {0}
  MAX_LIVE = 3
SPECIFICATION Spec
INVARIANTS
  InitialisedHeapUsable
