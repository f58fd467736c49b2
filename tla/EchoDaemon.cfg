\* Two process ids, two clients.
CONSTANTS
  p1 = p1  p2 = p2
  c1 = c1  c2 = c2
  Extra <- SecondClient
  NoPid = NoPid
  NoFile = NoFile
  Pids <- TwoPids
  Clients <- TwoClients
  Inodes <- ThreeInodes
SPECIFICATION FairSpec
INVARIANTS RunningDaemonIsNamed ParentTellsTheTruth
PROPERTIES ParentIsTold StopEnds SendersAreServed
