SPECIFICATION Spec
CONSTANTS
  k1 = k1
  k2 = k2
  k3 = k3
  u1 = u1
  u2 = u2
  None = None
  Keys = {k1, k2, k3}
  CommandKeys = {k1}
  UserOf <- MCUserOf
  MessageCount = 3
  MaxTurns = 2
  Permits = 2
CHECK_DEADLOCK FALSE
INVARIANT ActiveStreamIsReachable
PROPERTY AnswersBuildOnHistory
