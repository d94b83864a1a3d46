CONSTANTS
  T1 = T1
  T2 = T2
  NoTransport = NoTransport
  Transports <- MCTransports
  PerRequestStream = {}
  MaxRequests = 1
  Options <- MCTimerOptions
  MaxTime = 5
  Overlap = FALSE
  Reentrant = TRUE
SPECIFICATION FairSpec
INVARIANTS
  NeverStranded
  ClosedMeansGone
  WaitIsBounded
PROPERTIES
  NoCancelOnceAnswered
  EveryWaitEnds
CHECK_DEADLOCK FALSE
