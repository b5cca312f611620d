SPECIFICATION FairSpec
CONSTANTS
  c1 = c1
  c2 = c2
  c3 = c3
  k1 = k1
  k2 = k2
  k3 = k3
  p1 = p1
  p2 = p2
  p3 = p3
  t1 = t1
  None = None
  Calls = {c1, c2}
  Keys = {k1, k2, k3}
  Procs = {p1, p2}
  Terminators = {t1}
  CallKey <- MCPair
  TermKeys <- MCTermKeys
  PoolMax = 1
  Timeout = 0
  MaxNow = 1
CHECK_DEADLOCK FALSE
PROPERTIES CallsEnd ShutdownEnds
