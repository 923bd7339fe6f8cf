\* x86-64, but for the bits of a size_t.
SPECIFICATION Spec
CONSTANTS
  SIZE_SZ = 8
  MALLOC_ALIGNMENT = 16
  NSMALLBINS = 64
  NBINS = 128
  LARGE_STEPS <- largebin_index_64
  TCACHE_MAX_BINS = 64
  WORD_BITS = 16
  DL_PAGESIZE = 4096
  ALIGNMENTS <- Alignments
  NEEDS <- Needs
  OFFSETS <- Offsets
INVARIANTS
  
  ChunkFits
  BinsFitSizes
  TrimmedPagesAreUnused
