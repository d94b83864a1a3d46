CONSTANTS
  T1 = T1
  T2 = T2
  NoTransport = NoTransport
  NoHandler = NoHandler
  Transports <- MCTransports
  RequestIds = {1, 2}
  Handlers <- MCHandlers
  Overlap = FALSE
  Reentrant = TRUE
SPECIFICATION FairSpec
INVARIANTS
  TypeOK
  SignalsFindTheirHandler
PROPERTIES
  CancelledIsSilent
  EveryRequestAnswered
CHECK_DEADLOCK FALSE
