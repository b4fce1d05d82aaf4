SPECIFICATION Spec
CONSTANTS
  Proc = {p1, p2, p3}
  KT = kernel_task
  NONE = NONE
  DIRS = 2
  PER_DIR = 2
  FRAMES = 8
  DIRECT = 8
PROPERTY
  HeapFaultsResolve
CHECK_DEADLOCK FALSE
