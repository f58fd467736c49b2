SPECIFICATION FairSpec
CONSTANTS
  f1 = f1  f2 = f2  f3 = f3
  u1 = u1
  NumWorkers = 1
  Fds <- TwoFds
  Users <- NoUsers
  ClientsPerThread = 3
  PipeCapacity = 6
  ReadSize = 1
  MaxBacklog = 1
  StdinEvents <- NoInput
  NoFd = NoFd
  NoUser = NoUser
PROPERTY InterruptEndsServer
