SPECIFICATION Spec
CONSTANTS
  Name = {x, y}
  x = x
  File = {f1}
  NULL = NULL
  DENTRIES = 3
  INODES = 3
  NLINKS = 6
  Initrd = {"dir"}
  First = x
  Target <- Targets
  STACK = 1
  MAX_DEPTH = 3
  MAX_REFS = 4
  MAX_NLINK = 4
INVARIANTS
  RefsAccounted
  InodesHeld
  TreeExact
  LinksTransparent
PROPERTIES
  FailureLeavesNoTrace
CHECK_DEADLOCK FALSE
