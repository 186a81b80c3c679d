SPECIFICATION TimersSpec
CONSTANTS
  x1 = x1  x2 = x2
  t1 = t1
  t2 = t2
  Threads = {t1, t2}
  Timers = {x1, x2}
  Ms <- OneEach
  Cyclic = {x1}
  Low = {x1, x2}
  MaxSleep = 1
  IntMax = 7
  PipeSize = 2
  MaxTime = 2
  Prompt = FALSE
  Free = Free  NoTimer = NoTimer
SYMMETRY ThreadsAlike
INVARIANTS OneKeeper NeverEarly DeletedStaysOut NotLate
CHECK_DEADLOCK FALSE
