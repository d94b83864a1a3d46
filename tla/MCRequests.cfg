CONSTANTS
  T1 = T1
  T2 = T2
  NoTransport = NoTransport
  Transports <- MCTransports
  PerRequestStream = {T2}
  MaxRequests = 2
  Options <- MCOptions
  MaxTime = 2
  Overlap = FALSE
  Reentrant = FALSE
SPECIFICATION Spec
INVARIANTS
  TypeOK
  NothingLeftBehind
  CancelReachesItsPeer
PROPERTIES
  Lifecycle
CHECK_DEADLOCK FALSE
