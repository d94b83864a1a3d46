CONSTANTS
  a = a
  b = b
  Keys = {a, b}
  MaxRounds = 2
  Calls <- MCCalls
  MaxLosses = 1
SPECIFICATION FairSpec
INVARIANTS
  TypeOK
  NothingRunsOn
  LegsWithinTotal
PROPERTIES
  SameStory
  CallEnds
CHECK_DEADLOCK FALSE
