\* The numbers of mem.c on x86-64 Linux.  The program ends.
CONSTANTS
  HEADER_SIZE = 17
  BLOCK_MIN_CAPACITY = 24
  PAGE_SIZE = 4096
  REGION_MIN_SIZE = 8192
  SIZE_T = 1073741824
  HEAP_START = 67371008
  ADDRESS_TOP = 67391488
  MMAP_PAGES <- Pages
  FOREIGN_PAGES <- Foreign
  MAX_REGIONS = 3
  QUERIES = {}
  INITIALS = {}
  MAX_LIVE = 3
SPECIFICATION TestSpec
INVARIANTS TestsIndependent 
