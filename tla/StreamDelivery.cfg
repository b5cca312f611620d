SPECIFICATION FairSpec
CONSTANTS
  None = None
  AnswerLength = 4
  Threshold = 2
  PartLimit = 2
  Limit = 3
  Retries = 1
  OtherLengths = {1, 4}
CHECK_DEADLOCK FALSE
INVARIANTS TypeOK PartsCoverText  Delivered
PROPERTIES EarlierPartsStay DeliveryEnds
