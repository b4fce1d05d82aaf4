SPECIFICATION Spec
CONSTANTS
  SECTOR = 2
  SECTORS = 3
  LBA28 = 3
  COUNTS = {1, 3, 4}
  Byte = {1, 2}
PROPERTIES
  ReadsExact
  WritesExact
