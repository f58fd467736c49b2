---------------------------- MODULE MCSeatServer ----------------------------
(***************************************************************************)
(* A small instance of SeatServer for TLC.                                 *)
(***************************************************************************)
EXTENDS SeatServer, TLC

CONSTANTS w1, w2, c1, c2, u1, u2, u3, p1, p2

TwoWorkers == {w1, w2}
TwoConns == {c1, c2}
ThreeUsers == {u1, u2, u3}
TwoPasswords == {p1, p2}

R(a, u, d) == [action |-> a, user |-> u, data |-> d]

(***************************************************************************)
(* Two users log in and out, with right and wrong passwords, compete for   *)
(* the seats and look at them; there is no room for the third.             *)
(***************************************************************************)
SomeRequests ==
  {R("LOGIN", u, p1) : u \in ThreeUsers}
    \cup {R("LOGIN", u1, p2), R("LOGIN", NoUser, NoData)}
    \cup {R("LOGOUT", u1, NoData), R("LOGOUT", u2, NoData)}
    \cup {R("BOOK", u1, 1), R("BOOK", u1, 2), R("BOOK", u2, 1)}
    \cup {R("CANCEL_BOOKING", u, 1) : u \in {u1, u2}}
    \cup {R("CONFIRM_BOOKING", u1, d) : d \in {Booked, Available}}
    \cup {R("QUERY", NoUser, 1)}
=============================================================================
