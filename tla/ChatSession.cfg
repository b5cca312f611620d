SPECIFICATION FairSpec
CONSTANTS
  k1 = k1
  k2 = k2
  k3 = k3
  u1 = u1
  u2 = u2
  None = None
  Keys = {k1, k3}
  CommandKeys = {k1}
  UserOf <- MCUserOf
  MessageCount = 3
  MaxTurns = 3
  Permits = 1
CHECK_DEADLOCK FALSE
INVARIANTS TypeOK HistoryInOrder
PROPERTIES StoppedIsDiscarded ConversationSpec UpdatesEnd
