SPECIFICATION BootSpec
CONSTANTS
  Name <- Names4
  File = {f1, f2}
  NULL = NULL
  DENTRIES = 13
  INODES = 13
  NLINKS = 16
  Initrd = {"none"}
  First = "x"
  Target <- Targets
  STACK = 1
  MAX_DEPTH = 4
  BOOT_STACK = 3
  MAX_REFS = 8
  MAX_NLINK = 15
  TagLists <- Lists
  StdDirs <- Dirs4
  Nodes <- Console
  PAGE = 4
  FRAMES = 14
  PT_ENTRIES = 5
  IMAGE_PAGES = 5
  STACK_PAGES = 5
  AUXV = 2
  FreeFrames <- Free
  Program <- Programs
  Args <- Arguments
INVARIANTS
  InitrdFound
  
  ImageExact
PROPERTIES
  ExecFailureClean
