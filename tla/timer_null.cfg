SPECIFICATION Spec
CONSTANTS
  x1 = x1  x2 = x2
  t1 = t1
  Threads = {t1}
  Timers = {x1}
  Ms <- OneAndTwo
  Cyclic = {x1}
  Low = {x1}
  MaxSleep = 2
  IntMax = 7
  PipeSize = 3
  MaxTime = 3
  Prompt = FALSE
  Free = Free  NoTimer = NoTimer
INVARIANTS CallbacksNotNull
CHECK_DEADLOCK FALSE
