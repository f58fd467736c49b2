SPECIFICATION Spec
CONSTANTS
  f1 = f1  f2 = f2  f3 = f3
  u1 = u1
  NumWorkers = 2
  Fds <- ThreeFds
  Users <- OneUser
  ClientsPerThread = 3
  PipeCapacity = 6
  ReadSize = 2
  MaxBacklog = 1
  StdinEvents <- NoInput
  NoFd = NoFd
  NoUser = NoUser
SYMMETRY FdSymmetry
INVARIANTS ConnectionsHaveOnePlace ActiveUsersFollowConnections
CONSTRAINT FewAtATime
