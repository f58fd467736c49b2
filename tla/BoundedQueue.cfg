\* A queue of three slots that eight values pass through.
CONSTANTS
  Capacity = 3
  TotalIterations = 8
  Garbage = Garbage
SPECIFICATION FairSpec
INVARIANTS FirstInFirstOut SleepersHaveToWait
PROPERTY EverythingIsConsumed
