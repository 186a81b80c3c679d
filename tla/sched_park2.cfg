SPECIFICATION Spec
CONSTANTS
  t1 = t1  t2 = t2
  c1 = c1  c2 = c2  c3 = c3
  Threads = {t1, t2}
  Fibers = {f1, f2}
  Tasks = {c1, c2, c3}
  AnyThread = AnyThread  NoFiber = NoFiber  NoTask = NoTask
  Pin <- Unpinned
  Kind <- OneReady
  MaxParks = 2
INVARIANTS OneWakeup NoLostWakeup NoAssertionFails
PROPERTIES StepsOfLifecycle
SYMMETRY ThreadsAlike
CHECK_DEADLOCK FALSE
