SPECIFICATION FairSpec
CONSTANTS
  c1 = c1  c2 = c2  c3 = c3  c4 = c4
  Threads = {t1}
  Fibers = {f1, f2, f3, f4}
  Tasks = {c1, c2, c3, c4}
  AnyThread = AnyThread  NoFiber = NoFiber  NoTask = NoTask
  Role <- Mixed
  Permits = 1
PROPERTIES WaitersGetPermits ImplementsSemaphore
CHECK_DEADLOCK FALSE
