\* A job of two commands, a job of one, and a table whose slots 1 to 3 they use.
CONSTANTS
  j1 = j1
  j2 = j2
  NoJob = NoJob
  Jobs <- TwoJobs
  MaxProcs = 2
  Lengths <- PairAndSingle
  MaxJobs = 4
SPECIFICATION Spec
INVARIANTS JobsAreSound NoChangeIsSleptThrough NoChildIsLeft
