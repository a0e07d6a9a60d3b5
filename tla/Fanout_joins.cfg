SPECIFICATION Spec
CONSTANTS
  Count = 3
  CacheSizes = {0, 2, 9}
  EarlyMax = 2
  Refuse = TRUE
  MaxFaults = 3
  None = None
INVARIANT TypeOK
PROPERTIES ReceiverEnds JoinerServed ImplementsTransfer
CHECK_DEADLOCK FALSE
