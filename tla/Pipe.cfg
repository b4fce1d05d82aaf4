\* Counts below and above the capacity; c is forked by the reader or the writer.
SPECIFICATION LiveSpec
CONSTANTS
  Task = {a, b, c}
  RD = rd_wait
  WR = wr_wait
  Readers = {a}
  Writers = {b}
  Signals = {"ignored", "fatal"}
  CAPACITY = 2
  Counts = {1, 3}
  MAX_KILLS = 1
  MAX_IDLES = 2
  LABELS = 3
INVARIANTS
  
  NoLostWakeupUntilIdle
  FreedUnused
PROPERTIES
  IsStream
  
CHECK_DEADLOCK FALSE
