SPECIFICATION PartsSpec
CONSTANTS
  r = r  q = q  x = x  cn = cn  b = b  e1 = e1  e2 = e2  z = z  g = g  w1 = w1  w2 = w2
  Fds = {5, 96, 100, 144}
  Waiters = {r, q, x, cn, b, e1, e2, z, g}
  Workers = {w1, w2}
  Nobody = Nobody
  InitSize = 96
  Plan <- Plans
  Casts <- Ensembles
  Crews <- AnyCrew
  Requests = {s1}  Notices = {n1}  Asks = {a1}  Squeezed = {n1}
  Conns = {c1, c2}  Clients = {q1, q2, q3}  Chunked = {q1}  MaxRequest = 3
  NoConn = NoConn  Failed = Failed
  Keys = {1, 2, 3}  Vals = {7, 8}  Times = {1, 2}  MaxSize = 1  Elasticity = 2
  m1 = m1  m2 = m2  m3 = m3  m4 = m4
  Texts = {m1, m2, m3, m4}  LengthOf <- Lengths  MaxSends = 2  MaxPongs = 1
  Setters = {p1}  Loaders = {p2, p3}  Values = {v1, v2}  Bad = {bad}  Last = 3
  Base = 2  MaxBytes = 5  Byte = {0, 1}  GroupBits = 3  Width = 8
INVARIANTS RegistrationAgrees NoEventMissed OneWakeupPerWait TimedWaitsGuarded AssertionsHold ConnectTruthful OpenSocketsTracked SentInOrder RepliesFindRequest AnswersMatch EntriesExpire BytesKept NumbersReturn DeliveredAsSent SessionSurvives ListenersFollow LoadedFileCounts
PROPERTIES LruImplementsMap
SYMMETRY Symmetry
CHECK_DEADLOCK FALSE
