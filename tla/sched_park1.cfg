SPECIFICATION FairSpec
CONSTANTS
  t1 = t1  t2 = t2
  c1 = c1  c2 = c2  c3 = c3
  Threads = {t1}
  Fibers = {f1, f2}
  Tasks = {c1, c2}
  AnyThread = AnyThread  NoFiber = NoFiber  NoTask = NoTask
  Pin <- Unpinned
  Kind <- AllPark
  MaxParks = 2
PROPERTIES ImplementsLifecycle EnteredTasksEnd StopReturns RunnableTasksRun
CHECK_DEADLOCK FALSE
