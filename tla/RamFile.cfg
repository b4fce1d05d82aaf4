SPECIFICATION Spec
CONSTANTS
  File = {f, g}
  HEAP = 4
  WORD = 10
  MAX_POS = 11
  COUNTS = {0, 2}
  SIZES = {0, 1, 4, 9}
  OFFSETS = {1, 4, 9}
  GROW = 1
  Byte = {1, 2}
  Flags = {{"w", "append"}, {"rw"}, {"r", "other"}}
PROPERTIES
  IsFile
CHECK_DEADLOCK FALSE
