--------------------------- MODULE MCSeatClients ---------------------------
(***************************************************************************)
(* A small instance of SeatClients for TLC.                                *)
(***************************************************************************)
EXTENDS SeatClients, TLC

CONSTANTS w1, w2, c1, c2, u1, u2, p1, p2

TwoWorkers == {w1, w2}
TwoConns == {c1, c2}
TwoUsers == {u1, u2}
TwoPasswords == {p1, p2}
ClientRequests == {r \in Request : r.action # "TERMINATION"}

L(a, u, d) == [action |-> a, user |-> u, data |-> d]

(***************************************************************************)
(* A user for whom there is room, one for whom there is none; lines the    *)
(* client refuses by itself, depending on what it believes.                *)
(***************************************************************************)
SomeLines ==
  {L("LOGIN", u1, p1), L("LOGIN", u2, p1), L("LOGOUT", NoUser, NoData),
   L("BOOK", NoUser, 1), L("QUERY", NoUser, 1), L("INVALID", NoUser, NoData)}
=============================================================================
