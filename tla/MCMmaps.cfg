\* Two chunks in two threads; mallopt at any time.
CONSTANTS
  THREADS = {t1, t2}
  BLOCKS = {160, 336}
  REQUESTS = {5, 35}
  ALIGNMENTS = {8}
  MAX_HELD = 2
  THRESHOLDS = {8}
  MAXIMA = {1}
  SIZE_SZ = 1
  MINSIZE = 4
  CHUNK_HDR_SZ = 2
  IS_MMAPPED = 2
  pagesize = 16
  DEFAULT_MMAP_THRESHOLD = 32
  DEFAULT_MMAP_THRESHOLD_MAX = 44
  DEFAULT_MMAP_MAX = 1
  HEAP_MAX_SIZE = 128
  NoChunk = NoChunk
SPECIFICATION Spec
SYMMETRY Symmetry
INVARIANTS CountIsExact MemoryIsExact MaximaAreMaxima ThresholdWithinLimits
