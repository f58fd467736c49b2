\* One job of one or two commands.
CONSTANTS
  j1 = j1
  j2 = j2
  NoJob = NoJob
  Jobs <- OneJob
  MaxProcs = 2
  Lengths <- OnePair
  MaxJobs = 3
SPECIFICATION FairSpec
PROPERTY ForegroundWaitEnds
