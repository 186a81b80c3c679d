SPECIFICATION Spec
CONSTANTS
  c1 = c1  c2 = c2  c3 = c3  c4 = c4
  Threads = {t1, t2}
  Fibers = {f1, f2}
  Tasks = {c1, c3}
  AnyThread = AnyThread  NoFiber = NoFiber  NoTask = NoTask
  Role <- Stream
  Permits = 0
PROPERTIES ResumesAfterYield
CHECK_DEADLOCK FALSE
