\* A size_t of 64 values: 60 wraps in round_pages, 63 already with the header,
\* 59 does neither.
CONSTANTS
  HEADER_SIZE = 1
  BLOCK_MIN_CAPACITY = 2
  PAGE_SIZE = 4
  REGION_MIN_SIZE = 8
  SIZE_T = 64
  HEAP_START = 12
  ADDRESS_TOP = 36
  MMAP_PAGES = {4, 12, 20, 28}
  FOREIGN_PAGES = {20}
  MAX_REGIONS = 3
  QUERIES = {0, 3, 8}
  HUGE_QUERIES = {59, 60, 63}
  INITIALS = {0}
  MAX_LIVE = 3
SPECIFICATION HugeSpec
INVARIANTS
  ReturnedBlockIsAllocated
