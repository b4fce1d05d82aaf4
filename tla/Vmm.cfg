SPECIFICATION Spec
CONSTANTS
  MM = {m1, m2}
  FRAMES = 14
  PT_ENTRIES = 2
  TABLES = 3
  Image = {0, 5}
  START_BRK = 1
  UserPages = {2, 5}
  KernelPages = {20, 21}
  MAX_PAGES = 2
  MAX_CALLS = 5
INVARIANTS
  FramesPrivate
  VmasPresent
  FramesKept
PROPERTIES
  CloneComplete
CHECK_DEADLOCK FALSE
