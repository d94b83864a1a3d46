CONSTANTS
  s1 = s1
  s2 = s2
  write = write
  Sends = {s1, s2}
  Callback = callback
  Scopes = {write}
  Needs <- MCNeeds
  MaxStepUpRetries = 1
  MaxAnswers = 6
  MaxFaults = 1
SPECIFICATION FairSpec
INVARIANTS
  TypeOK
PROPERTIES
  NoTokenTwice
  FlowsSettle
CHECK_DEADLOCK FALSE
