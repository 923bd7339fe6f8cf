SPECIFICATION LSpec
CONSTANTS
  SIZE_SZ = 1
  MALLOC_ALIGNMENT = 2
  NSMALLBINS = 4
  NBINS = 9
  LARGE_STEPS <- Steps
  TCACHE_MAX_BINS = 2
  WORD_BITS = 12
  DL_PAGESIZE = 8
  tcache_bins = 0
  tcache_count = 0
  CHUNKS <- ChunkNames
  SIZES <- SizeOf
  NEEDS = {9, 10, 11}
  BIN = BIN
  ALIAS = ALIAS
  NULL = NULL
INVARIANTS
  SizeRingIsFirsts
  SkipSearchIsBestFit
PROPERTIES
  PlacesAndUnlinksAsSequence
