SPECIFICATION Spec
CONSTANTS
  c1 = c1  c2 = c2  c3 = c3  c4 = c4
  Threads = {t1, t2}
  Fibers = {f1, f2, f3}
  Tasks = {c1, c2, c3}
  AnyThread = AnyThread  NoFiber = NoFiber  NoTask = NoTask
  Role <- OneTrier
  Permits = 1
INVARIANTS NoFiberForgotten
PROPERTIES StepsOfSemaphore
CHECK_DEADLOCK FALSE
