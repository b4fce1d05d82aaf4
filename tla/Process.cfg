\* Task structs are used again after two forks, pids after three.
SPECIFICATION Spec
CONSTANTS
  Task = {a, b, c}
  InitTask = a
  KT = kernel_task
  NULL = NULL
  RQ = rq_head
  TL = tl_head
  WQ = wq_head
  DQ = dq_head
  Sig = {"TERM", "STOP"}
  PID_MAX = 4
  MAX_CALLS = 3
INVARIANTS
  TaskListExact
  ParentsLive
  ChildrenListed
  RunsLive
PROPERTIES
  ReapsOwnZombies
SYMMETRY Symmetry
CHECK_DEADLOCK FALSE
