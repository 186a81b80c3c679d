SPECIFICATION LiveSpec
CONSTANTS
  r = r  q = q  x = x  cn = cn  b = b  e1 = e1  e2 = e2  z = z  g = g  w1 = w1  w2 = w2
  Fds = {5}
  Waiters = {r, x, z}
  Workers = {w1}
  Nobody = Nobody
  InitSize = 96
  Plan <- Plans
  Casts <- ReadersOrSleeper
  Crews <- OneWorker
  s1 = s1  n1 = n1
  j1 = j1  j2 = j2  j3 = j3  f1 = f1  f2 = f2
  BatchSize = 2  Jobs = {j1, j2, j3}  Throwing = {j3}  Waiting = {f1, f2}
  k1 = k1  NoLoop = NoLoop  Socks = {k1}  Starts = 2
  t1 = t1  t2 = t2  h1 = h1  h2 = h2  y1 = y1  y2 = y2
  AnyThread = AnyThread  NoFiber = NoFiber  NoTask = NoTask
PROPERTIES EarlyTasksRun TimedCallsReturn ReadyWaitersResume QueueServed WaitAllReturns AcceptLoopsEnd
CHECK_DEADLOCK FALSE
