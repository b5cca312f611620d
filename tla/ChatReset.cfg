SPECIFICATION WipedSpec
CONSTANTS
  k1 = k1
  k2 = k2
  k3 = k3
  u1 = u1
  u2 = u2
  None = None
  Keys = {k1}
  CommandKeys = {k1}
  UserOf <- MCUserOf
  MessageCount = 2
  MaxTurns = 4
  Permits = 1
CHECK_DEADLOCK FALSE
INVARIANT ResetIsFinal
