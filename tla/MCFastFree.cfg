\* Two threads, one of which ends while the other asks for other sizes, too;
\* three chunks of the fast size, caches of one chunk.
CONSTANTS
  THREADS = {t1, t2}
  ENDING = {t1}
  OTHERS = {t2}
  LAST = 3
  tcache_count = 1
  GROWN = 6
  TRIMMED = 1
  NULL = NULL
SPECIFICATION Spec
INVARIANTS EachChunkOnce NoFalseAlarm EndedThreadHasNothing
PROPERTY CallsReturn
