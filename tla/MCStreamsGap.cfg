CONSTANTS
  Deployments <- StrictOnly
  MaxPosts = 1
  MaxReqs = 2
  PostOf <- Batch
  MaxExch = 2
  MaxNotes = 1
  PromptStore = TRUE
  MaxRetries = 2
  MaxDrops = 1
SPECIFICATION Spec
INVARIANT
  ReplayIsComplete
CHECK_DEADLOCK FALSE
