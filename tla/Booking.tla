------------------------------ MODULE Booking ------------------------------
(***************************************************************************)
(* What the PA3 seat-reservation server promises its clients, with every   *)
(* request answered in one indivisible step: there are no threads, no      *)
(* locks and no half-finished handlers here.  SeatServer.tla, the handlers *)
(* at the granularity of their mutexes, is shown to implement this module. *)
(***************************************************************************)
EXTENDS Naturals

CONSTANTS Conns,      \* client connections
          Users,      \* user names
          Passwords,  \* passwords a login may carry
          NumSeats,   \* seats are numbered 1..NumSeats
          NoUser,     \* "no user": a free seat, a connection with no session
          NoData      \* "no password": a user that was never registered

VARIABLES session,    \* the user each connection acts for
          password,   \* the password each user registered with
          holder,     \* the user each seat is booked for
          nBooked,    \* successful bookings of each seat so far
          nCanceled   \* successful cancellations of each seat so far

vars == <<session, password, holder, nBooked, nCanceled>>

Seats == 1..NumSeats

Init ==
  /\ session = [c \in Conns |-> NoUser]
  /\ password = [u \in Users |-> NoData]
  /\ holder = [s \in Seats |-> NoUser]
  /\ nBooked = [s \in Seats |-> 0]
  /\ nCanceled = [s \in Seats |-> 0]

(***************************************************************************)
(* The first login of a name registers it; its password never changes.     *)
(***************************************************************************)
Register(u, p) ==
  /\ password[u] = NoData
  /\ password' = [password EXCEPT ![u] = p]
  /\ UNCHANGED <<session, holder, nBooked, nCanceled>>

(***************************************************************************)
(* A connection opens at most one session, a user has at most one.         *)
(***************************************************************************)
Login(c, u) ==
  /\ password[u] # NoData
  /\ session[c] = NoUser
  /\ \A d \in Conns : session[d] # u
  /\ session' = [session EXCEPT ![c] = u]
  /\ UNCHANGED <<password, holder, nBooked, nCanceled>>

(***************************************************************************)
(* A logout request, or the end of the connection.                         *)
(***************************************************************************)
Logout(c) ==
  /\ session[c] # NoUser
  /\ session' = [session EXCEPT ![c] = NoUser]
  /\ UNCHANGED <<password, holder, nBooked, nCanceled>>

Book(c, s) ==
  /\ session[c] # NoUser
  /\ holder[s] = NoUser
  /\ holder' = [holder EXCEPT ![s] = session[c]]
  /\ nBooked' = [nBooked EXCEPT ![s] = @ + 1]
  /\ UNCHANGED <<session, password, nCanceled>>

Cancel(c, s) ==
  /\ session[c] # NoUser
  /\ holder[s] = session[c]
  /\ holder' = [holder EXCEPT ![s] = NoUser]
  /\ nCanceled' = [nCanceled EXCEPT ![s] = @ + 1]
  /\ UNCHANGED <<session, password, nBooked>>

Next ==
  \/ \E u \in Users, p \in Passwords : Register(u, p)
  \/ \E c \in Conns, u \in Users : Login(c, u)
  \/ \E c \in Conns : Logout(c)
  \/ \E c \in Conns, s \in Seats : Book(c, s) \/ Cancel(c, s)

Spec == Init /\ [][Next]_vars
=============================================================================
