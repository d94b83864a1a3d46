CONSTANTS
  MaxMessages = 3
  Vocabulary = {"initialize", "discover", "modernRequest", "listen", "cancel", "refused"}
  MaxSubscriptions = 1
  MaxPublished = 1
SPECIFICATION FairSpec
INVARIANTS
  TypeOK
  DiscardAnswers
PROPERTIES
  ListenFrames
  NoResurrection
  EveryRequestAnswered
  TeardownCompletes
CHECK_DEADLOCK FALSE
