CONSTANTS
  MaxRequests = 1
  Events = {"tools"}
  Capabilities = {"tools"}
  MaxSubscriptions = 1
  MaxNotes = 1
  MaxPublished = 0
SPECIFICATION Spec
INVARIANT CloseLeavesNothing
CHECK_DEADLOCK FALSE
