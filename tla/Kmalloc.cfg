SPECIFICATION KmallocSpec
CONSTANTS
  Slabs <- Address
  FULL = slabs_full
  PARTIAL = slabs_partial
  FREE = slabs_free
  CAP = 2
  HDR_SIZE = 4
  MIN_ALLOC = 4
  ALIGN = 2
  CHUNK = 16
  HEAP_SIZE = 48
  KERNEL_HEAP_START = 64
  WORD = 256
  Sizes = {0, 1, 5, 20, 200, 255}
  CACHE_SIZE = 3
  SLAB_SIZE = 9
INVARIANTS
  Tiled
  BlocksAccounted
  Coalesced
  StacksExact
  ListsExact
CHECK_DEADLOCK FALSE
