SPECIFICATION Spec
CONSTANTS
  Task = {a, b}
  InitTask = a
  File = {f1, f2, f3}
  NULL = NULL
  OPEN_MAX = 3
INVARIANTS
  RefsExact
PROPERTIES
  FailureLeavesNoTrace
CHECK_DEADLOCK FALSE
