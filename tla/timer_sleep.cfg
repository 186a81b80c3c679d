SPECIFICATION Spec
CONSTANTS
  x1 = x1  x2 = x2
  t1 = t1
  Threads = {t1}
  Timers = {x1, x2}
  Ms <- OneAndLong
  Cyclic = {x1}
  Low = {x1}
  MaxSleep = 5
  IntMax = 7
  PipeSize = 20
  MaxTime = 8
  Prompt = TRUE
  Free = Free  NoTimer = NoTimer
INVARIANTS OnTime
CHECK_DEADLOCK FALSE
