CONSTANTS
  MaxRequests = 2
  Events = {"tools", "updated"}
  Capabilities = {"tools"}
  MaxSubscriptions = 1
  MaxNotes = 1
  MaxPublished = 2
SPECIFICATION FairSpec
INVARIANTS
  TypeOK
  NothingOutlives
  StreamShape
PROPERTIES
  ExchangesEnd
CHECK_DEADLOCK FALSE
