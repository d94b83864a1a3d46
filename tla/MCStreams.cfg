CONSTANTS
  Deployments <- Every
  MaxPosts = 1
  MaxReqs = 2
  PostOf <- Batch
  MaxExch = 2
  MaxNotes = 1
  PromptStore = TRUE
  MaxRetries = 2
  MaxDrops = 1
SPECIFICATION FairSpec
INVARIANTS
  TypeOK
  NoOrphanStream
  RequestsRetired
PROPERTIES
  DeliveredInOrder
  ResponseArrives
CHECK_DEADLOCK FALSE
