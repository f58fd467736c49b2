\* Two clients, two workers, room for one user and one seat.
CONSTANTS
  w1 = w1  w2 = w2
  c1 = c1  c2 = c2
  u1 = u1  u2 = u2
  p1 = p1  p2 = p2
  Workers <- TwoWorkers
  Conns <- TwoConns
  Users <- TwoUsers
  Passwords <- TwoPasswords
  NumSeats = 1
  Capacity = 1
  Requests <- ClientRequests
  Lines <- SomeLines
  MaxBookings = 1
  NoWorker = NoWorker
  NoConn = NoConn
  NoUser = NoUser
  NoData = NoData
  Available = Available
  Booked = Booked
  Garbage = Garbage
SPECIFICATION SystemFairSpec
INVARIANTS ClientKnowsItsSession NeverAStranger OrderlyExitLogsOut
PROPERTIES WaitsEnd EndedClientsAreForgotten
