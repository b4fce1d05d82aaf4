SPECIFICATION CooperativeSpec
CONSTANTS
  Task = {a, b, c}
  InitTask = a
  RQ = rq_head
  WQ = wq_head
  Readers = {a, b}
  Nappers = {a, b, c}
  SLICE = 2
  MAX_NAP = 1
  SERIAL_BUF = 2
  BURST = 1
INVARIANTS
  QueuesExactUntilIdle
  EoiOwed
  NoLostWakeupUntilIdle
PROPERTIES
  RunnableRuns
CHECK_DEADLOCK FALSE
