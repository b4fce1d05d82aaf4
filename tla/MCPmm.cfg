\* The allocator with clients, on memory maps that fit a uptr.
CONSTANTS
  BITMAP_BITS = 8
  PAGE_SIZE = 2
  UPTR = 32
  MemMaps <- LowMaps
  FALLBACK_FIRST = 3
  FALLBACK_END = 8
  KEND = 3
  InitrdStart = 9
  InitrdEnd = 10
  MAX_RUN = 3
  WORD = 2
SPECIFICATION Spec
INVARIANTS
  CountersExact
  PagesPartitioned
  ScanCorrect
