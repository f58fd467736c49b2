\* Two workers, two connections, room for two of three users, two seats.
SPECIFICATION Spec
CONSTANTS
  w1 = w1  w2 = w2
  c1 = c1  c2 = c2
  u1 = u1  u2 = u2  u3 = u3
  p1 = p1  p2 = p2
  Workers <- TwoWorkers
  Conns <- TwoConns
  Users <- ThreeUsers
  Passwords <- TwoPasswords
  NumSeats = 2
  Capacity = 2
  Requests <- SomeRequests
  MaxBookings = 1
  NoWorker = NoWorker
  NoConn = NoConn
  NoUser = NoUser
  NoData = NoData
  Available = Available
  Booked = Booked
  Garbage = Garbage
INVARIANTS OneSessionPerUser LoggedInMatchesSessions NoCircularWait LedgerBalances AnswersAreExact
PROPERTY ImplementsBooking
