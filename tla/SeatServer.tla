----------------------------- MODULE SeatServer -----------------------------
(***************************************************************************)
(* The request handlers of the PA3 seat-reservation server                 *)
(* (src/PA3/server/handle_request.c) as its worker threads run them: one   *)
(* action per stretch of code between two points where another thread can  *)
(* get in the way, which are the mutex acquisitions and the reads and      *)
(* writes of state that the mutexes protect.                               *)
(*                                                                         *)
(* A worker serves one request at a time.  The locks are taken in the      *)
(* order users.array_mutex, users.user_mutex[uid], seats[i].mutex, the     *)
(* first one being dropped as soon as the second one is held.              *)
(***************************************************************************)
EXTENDS Naturals, FiniteSets

CONSTANTS Workers,      \* worker threads, one per core
          Conns,        \* client connections (file descriptors)
          Users,        \* user names
          Passwords,    \* passwords
          NumSeats,     \* NUM_SEATS
          Capacity,     \* NUM_USERS
          Requests,     \* the requests clients send
          MaxBookings,  \* bound: a seat booked this often gets no new BOOK
          NoWorker, NoConn, NoUser,
          NoData,       \* an absent data field, or the password of no one
          Available, Booked,    \* the two arguments of confirm-booking
          Garbage       \* a data field that is neither a seat nor a keyword

Seats == 1..NumSeats

ClientActions == {"LOGIN", "BOOK", "CONFIRM_BOOKING", "CANCEL_BOOKING",
                  "LOGOUT", "QUERY", "TERMINATION"}

Data == Passwords \cup Seats \cup {Available, Booked, Garbage, NoData}

Request == [action : ClientActions, user : Users \cup {NoUser}, data : Data]

ASSUME ServerAssumption ==
  /\ NumSeats \in Nat \ {0}
  /\ Capacity \in Nat
  /\ MaxBookings \in Nat
  /\ NoWorker \notin Workers
  /\ NoConn \notin Conns
  /\ NoUser \notin Users
  /\ NoData \notin Passwords \cup Seats
  /\ NoData \notin {Available, Booked}
  /\ Available # Booked
  /\ Requests \subseteq Request

VARIABLES
  running,     \* FALSE once the process has called exit()
  password,    \* users.array[u].hashed_password, NoData: no such user
  loggedIn,    \* users.array[u].logged_in
  owner,       \* the worker whose poll set holds a connection
  slot,        \* poll_set->active_users[] of a connection
  bookedBy,    \* seats[s].user_who_booked
  nBooked,     \* seats[s].stats.amount_of_times_booked
  nCanceled,   \* seats[s].stats.amount_of_times_canceled
  arrayMutex,  \* the thread that holds users.array_mutex
  userMutex,   \* the thread that holds users.user_mutex[u]
  seatMutex,   \* the thread that holds seats[s].mutex
  pc,          \* where a worker is in its handler
  conn,        \* the connection a worker is serving
  req,         \* the request it received
  code,        \* response.code
  scan,        \* the loop index of confirm-booking, 0 outside it
  selected,    \* the seats confirm-booking has selected so far
  stats        \* the statistics query has copied

accounts == <<password, loggedIn>>
conns == <<owner, slot>>
ledger == <<bookedBy, nBooked, nCanceled>>
locks == <<arrayMutex, userMutex, seatMutex>>
frame == <<conn, req, scan, selected, stats>>

vars == <<running, accounts, conns, ledger, locks, pc, code, frame>>

NoRequest == [action |-> "NONE", user |-> NoUser, data |-> NoData]
DropRequest(u) == [action |-> "DROP", user |-> u, data |-> NoData]

NoStats == [booked |-> 0, canceled |-> 0]

PollLabel == {"poll"}
ArrayLabels == {"find", "register", "enroll", "user"}
UserLabels == {"checking", "grant"}
SeatLabels == {"seatHeld", "take", "release", "copy"}
Labels == PollLabel \cup {"dispatch", "array", "save", "clear", "seat", "reply"}
            \cup ArrayLabels \cup UserLabels \cup SeatLabels

Codes == {"NONE", "SUCCESS", "ACTIVE_CLIENT", "ACTIVE_USER", "NO_USERNAME",
          "NO_PASSWORD", "INCORRECT_PASSWORD", "NO_DATA", "INVALID_DATA",
          "SEAT_OUT_OF_RANGE", "SEAT_UNAVAILABLE", "SEAT_NOT_BOOKED_BY_USER",
          "USER_NOT_LOGGED_IN", "USER_NOT_FOUND", "INVALID_ACTION"}

TypeOK ==
  /\ running \in BOOLEAN
  /\ password \in [Users -> Data]
  /\ loggedIn \in [Users -> BOOLEAN]
  /\ owner \in [Conns -> Workers \cup {NoWorker}]
  /\ slot \in [Conns -> Users \cup {NoUser}]
  /\ bookedBy \in [Seats -> Users \cup {NoUser}]
  /\ nBooked \in [Seats -> Nat]
  /\ nCanceled \in [Seats -> Nat]
  /\ arrayMutex \in Workers \cup {NoWorker}
  /\ userMutex \in [Users -> Workers \cup {NoWorker}]
  /\ seatMutex \in [Seats -> Workers \cup {NoWorker}]
  /\ pc \in [Workers -> Labels]
  /\ conn \in [Workers -> Conns \cup {NoConn}]
  /\ req \in [Workers -> Request \cup {NoRequest}
                           \cup {DropRequest(u) : u \in Users}]
  /\ code \in [Workers -> Codes]
  /\ scan \in [Workers -> 0..NumSeats]
  /\ selected \in [Workers -> SUBSET Seats]
  /\ stats \in [Workers -> [booked : Nat, canceled : Nat]]

(***************************************************************************)
(* setup_users, default_seats, create_poll_set: nobody registered, every   *)
(* seat free, every worker waiting in poll().                              *)
(***************************************************************************)
Init ==
  /\ running = TRUE
  /\ password = [u \in Users |-> NoData]
  /\ loggedIn = [u \in Users |-> FALSE]
  /\ owner = [c \in Conns |-> NoWorker]
  /\ slot = [c \in Conns |-> NoUser]
  /\ bookedBy = [s \in Seats |-> NoUser]
  /\ nBooked = [s \in Seats |-> 0]
  /\ nCanceled = [s \in Seats |-> 0]
  /\ arrayMutex = NoWorker
  /\ userMutex = [u \in Users |-> NoWorker]
  /\ seatMutex = [s \in Seats |-> NoWorker]
  /\ pc = [w \in Workers |-> "poll"]
  /\ conn = [w \in Workers |-> NoConn]
  /\ req = [w \in Workers |-> NoRequest]
  /\ code = [w \in Workers |-> "NONE"]
  /\ scan = [w \in Workers |-> 0]
  /\ selected = [w \in Workers |-> {}]
  /\ stats = [w \in Workers |-> NoStats]

-----------------------------------------------------------------------------
(* Control.                                                                *)

At(w, l) == running /\ pc[w] = l

Goto(w, l) == pc' = [pc EXCEPT ![w] = l]

(***************************************************************************)
(* set_response(response, k) followed by the return from the handler.      *)
(***************************************************************************)
Answer(w, k) ==
  /\ Goto(w, "reply")
  /\ code' = [code EXCEPT ![w] = k]

(***************************************************************************)
(* The worker's request and response go out of scope.                      *)
(***************************************************************************)
Finish(w) ==
  /\ Goto(w, "poll")
  /\ conn' = [conn EXCEPT ![w] = NoConn]
  /\ req' = [req EXCEPT ![w] = NoRequest]
  /\ code' = [code EXCEPT ![w] = "NONE"]
  /\ scan' = [scan EXCEPT ![w] = 0]
  /\ selected' = [selected EXCEPT ![w] = {}]
  /\ stats' = [stats EXCEPT ![w] = NoStats]

Action(w) == req[w].action
User(w) == req[w].user
Slot(w) == slot[conn[w]]

(***************************************************************************)
(* The seat a worker is at: the loop index of confirm-booking, the parsed  *)
(* seat number of the other requests.                                      *)
(***************************************************************************)
Seat(w) == IF Action(w) = "CONFIRM_BOOKING" THEN scan[w] ELSE req[w].data

(***************************************************************************)
(* request_matches_active_client.                                          *)
(***************************************************************************)
NoSlotCheck(w) == User(w) # NoUser
Matches(w) == Slot(w) # NoUser /\ User(w) # NoUser /\ Slot(w) = User(w)

Registered(u) == password[u] # NoData

(***************************************************************************)
(* pthread_mutex_lock waits for this.                                      *)
(***************************************************************************)
NoMutex(mutex) == TRUE
Free(mutex) == mutex = NoWorker

-----------------------------------------------------------------------------
(* Connections.                                                            *)

(***************************************************************************)
(* The main thread accepts a connection and gives it to a worker; the slot *)
(* of the new connection is empty.                                         *)
(***************************************************************************)
AddToPollset(c, w) ==
  /\ running
  /\ owner[c] = NoWorker
  /\ owner' = [owner EXCEPT ![c] = w]
  /\ slot' = [slot EXCEPT ![c] = NoUser]
  /\ UNCHANGED <<running, accounts, ledger, locks, pc, code, frame>>

(***************************************************************************)
(* poll() reports a readable connection and receive_request reads all of   *)
(* the request.                                                            *)
(***************************************************************************)
ReceiveRequest(w, c, r) ==
  /\ At(w, "poll")
  /\ owner[c] = w
  /\ r.action = "BOOK" /\ r.data \in Seats => nBooked[r.data] < MaxBookings
  /\ conn' = [conn EXCEPT ![w] = c]
  /\ req' = [req EXCEPT ![w] = r]
  /\ Goto(w, "dispatch")
  /\ UNCHANGED <<running, accounts, conns, ledger, locks, code, scan, selected,
                 stats>>

CloseOnly(w, c) ==
  /\ owner' = [owner EXCEPT ![c] = NoWorker]
  /\ slot' = [slot EXCEPT ![c] = NoUser]
  /\ Finish(w)
  /\ UNCHANGED <<running, accounts, ledger, locks>>

(***************************************************************************)
(* remove_from_pollset: a connection without a session is closed at once,  *)
(* the user of the others is logged out first (deactivate_user).           *)
(***************************************************************************)
RemoveFromPollset(w, c) ==
  \/ /\ slot[c] = NoUser
     /\ owner' = [owner EXCEPT ![c] = NoWorker]
     /\ Finish(w)
     /\ UNCHANGED <<running, accounts, slot, ledger, locks>>
  \/ /\ slot[c] # NoUser
     /\ conn' = [conn EXCEPT ![w] = c]
     /\ req' = [req EXCEPT ![w] = DropRequest(slot[c])]
     /\ code' = [code EXCEPT ![w] = "NONE"]
     /\ scan' = [scan EXCEPT ![w] = 0]
     /\ selected' = [selected EXCEPT ![w] = {}]
     /\ stats' = [stats EXCEPT ![w] = NoStats]
     /\ Goto(w, "array")
     /\ UNCHANGED <<running, accounts, conns, ledger, locks>>

(***************************************************************************)
(* The peer is gone: poll() reports an error or hang-up, or receive_request*)
(* hits the end of the stream.                                             *)
(***************************************************************************)
Hangup(w, c) ==
  /\ At(w, "poll")
  /\ owner[c] = w
  /\ RemoveFromPollset(w, c)

(***************************************************************************)
(* send_response, and the next entry of the poll set.                      *)
(***************************************************************************)
SendResponse(w) ==
  /\ At(w, "reply")
  /\ Finish(w)
  /\ UNCHANGED <<running, accounts, conns, ledger, locks>>

(***************************************************************************)
(* send_response fails: the connection is removed as after a hang-up.      *)
(***************************************************************************)
SendFails(w) ==
  /\ At(w, "reply")
  /\ RemoveFromPollset(w, conn[w])

-----------------------------------------------------------------------------
(* Dispatch: the checks a handler makes before it takes a lock.            *)

SeatActions == {"BOOK", "CANCEL_BOOKING", "CONFIRM_BOOKING"}

(***************************************************************************)
(* The data field a handler insists on; its error code otherwise.          *)
(***************************************************************************)
DataError(w) ==
  LET data == req[w].data IN
  IF Action(w) \in {"LOGOUT", "DROP"} THEN "NONE"
  ELSE IF Action(w) = "LOGIN"
       THEN IF data = NoData THEN "NO_PASSWORD" ELSE "NONE"
  ELSE IF data = NoData THEN "NO_DATA"
  ELSE IF Action(w) = "CONFIRM_BOOKING"
       THEN IF data \in {Available, Booked} THEN "NONE" ELSE "INVALID_DATA"
  ELSE IF data \in Seats THEN "NONE" ELSE "SEAT_OUT_OF_RANGE"

(***************************************************************************)
(* The error the checks ahead of the first lock of a handler return,       *)
(* "NONE" if they pass, in the order the handlers make them.               *)
(***************************************************************************)
Refusal(w) ==
  IF Action(w) = "TERMINATION" THEN "INVALID_ACTION"
  ELSE IF Action(w) = "LOGIN" /\ Slot(w) # NoUser THEN "ACTIVE_CLIENT"
  ELSE IF Action(w) = "LOGIN" /\ User(w) = NoUser THEN "NO_USERNAME"
  ELSE IF Action(w) = "LOGOUT" /\ User(w) = NoUser THEN "USER_NOT_FOUND"
  ELSE IF DataError(w) # "NONE" THEN DataError(w)
  ELSE IF Action(w) \in SeatActions /\ ~Matches(w) THEN "USER_NOT_LOGGED_IN"
  ELSE "NONE"

Refuse(w) ==
  /\ At(w, "dispatch")
  /\ Refusal(w) # "NONE"
  /\ Answer(w, Refusal(w))
  /\ UNCHANGED <<running, accounts, conns, ledger, locks, frame>>

(***************************************************************************)
(* A query goes straight to its seat, all others look their user up.       *)
(***************************************************************************)
Admit(w) ==
  /\ At(w, "dispatch")
  /\ Refusal(w) = "NONE"
  /\ Goto(w, IF Action(w) = "QUERY" THEN "seat" ELSE "array")
  /\ UNCHANGED <<running, accounts, conns, ledger, locks, code, frame>>

-----------------------------------------------------------------------------
(* users: registration, login, logout.                                     *)

LockArray(w) ==
  /\ At(w, "array")
  /\ Free(arrayMutex)
  /\ arrayMutex' = w
  /\ Goto(w, "find")
  /\ UNCHANGED <<running, accounts, conns, ledger, userMutex, seatMutex, code,
                 frame>>

(***************************************************************************)
(* find_user finds the user: its mutex is next.                            *)
(***************************************************************************)
UserFound(w) ==
  /\ At(w, "find")
  /\ Registered(User(w))
  /\ Goto(w, "user")
  /\ UNCHANGED <<running, accounts, conns, ledger, locks, code, frame>>

(***************************************************************************)
(* find_user returns -1: a login goes on to register the user, the other   *)
(* requests fail, the removal of a connection goes on.                     *)
(***************************************************************************)
UserMissing(w) ==
  /\ At(w, "find")
  /\ ~Registered(User(w))
  /\ \/ /\ Action(w) = "LOGIN"
        /\ Goto(w, "register")
        /\ UNCHANGED <<locks, code>>
     \/ /\ Action(w) \in SeatActions \cup {"LOGOUT"}
        /\ arrayMutex' = NoWorker
        /\ Answer(w, IF Action(w) = "LOGOUT" THEN "USER_NOT_FOUND"
                     ELSE "USER_NOT_LOGGED_IN")
        /\ UNCHANGED <<userMutex, seatMutex>>
     \/ /\ Action(w) = "DROP"
        /\ arrayMutex' = NoWorker
        /\ Goto(w, "clear")
        /\ UNCHANGED <<userMutex, seatMutex, code>>
  /\ UNCHANGED <<running, accounts, conns, ledger, frame>>

HasRoom == Cardinality({u \in Users : Registered(u)}) < Capacity

(***************************************************************************)
(* The hash is computed and add_user appends the user, unless the array is *)
(* full: then the whole server exits.  array_mutex is held throughout.     *)
(***************************************************************************)
Register(w) ==
  /\ At(w, "register")
  /\ IF HasRoom
     THEN /\ password' = [password EXCEPT ![User(w)] = req[w].data]
          /\ loggedIn' = [loggedIn EXCEPT ![User(w)] = FALSE]
          /\ Goto(w, "enroll")
          /\ UNCHANGED running
     ELSE /\ running' = FALSE
          /\ UNCHANGED <<accounts, pc>>
  /\ UNCHANGED <<conns, ledger, locks, code, frame>>

(***************************************************************************)
(* The new user is logged in under its mutex, then both mutexes are        *)
(* released.                                                               *)
(***************************************************************************)
Enroll(w) ==
  /\ At(w, "enroll")
  /\ Free(userMutex[User(w)])
  /\ loggedIn' = [loggedIn EXCEPT ![User(w)] = TRUE]
  /\ arrayMutex' = NoWorker
  /\ Goto(w, "save")
  /\ UNCHANGED <<running, password, conns, ledger, userMutex, seatMutex, code,
                 frame>>

(***************************************************************************)
(* Hand over hand: users.user_mutex[uid] is taken, array_mutex dropped.    *)
(***************************************************************************)
LockUser(w) ==
  /\ At(w, "user")
  /\ Free(userMutex[User(w)])
  /\ userMutex' = [userMutex EXCEPT ![User(w)] = w]
  /\ arrayMutex' = NoWorker
  /\ Goto(w, "checking")
  /\ UNCHANGED <<running, accounts, conns, ledger, seatMutex, code, frame>>

(***************************************************************************)
(* The error a handler returns once it holds the mutex of its user.        *)
(***************************************************************************)
NoActiveUserCheck(w) ==
  IF Action(w) = "LOGIN" /\ password[User(w)] # req[w].data
  THEN "INCORRECT_PASSWORD" ELSE "NONE"
UserError(w) ==
  IF Action(w) = "LOGIN" /\ loggedIn[User(w)] THEN "ACTIVE_USER"
  ELSE IF Action(w) = "LOGIN" /\ password[User(w)] # req[w].data
       THEN "INCORRECT_PASSWORD"
  ELSE IF Action(w) \in SeatActions \cup {"LOGOUT"} /\ ~loggedIn[User(w)]
       THEN "USER_NOT_LOGGED_IN"
  ELSE IF Action(w) = "LOGOUT" /\ ~Matches(w) THEN "USER_NOT_LOGGED_IN"
  ELSE "NONE"

NoUserUnlock(w) == UNCHANGED userMutex
ReleaseUser(w) == userMutex' = [userMutex EXCEPT ![User(w)] = NoWorker]

RefuseUser(w) ==
  /\ At(w, "checking")
  /\ UserError(w) # "NONE"
  /\ ReleaseUser(w)
  /\ Answer(w, UserError(w))
  /\ UNCHANGED <<running, accounts, conns, ledger, arrayMutex, seatMutex, frame>>

(***************************************************************************)
(* A login has been verified; it still has to set logged_in.               *)
(***************************************************************************)
Verified(w) ==
  /\ At(w, "checking")
  /\ UserError(w) = "NONE"
  /\ Action(w) = "LOGIN"
  /\ Goto(w, "grant")
  /\ UNCHANGED <<running, accounts, conns, ledger, locks, code, frame>>

Grant(w) ==
  /\ At(w, "grant")
  /\ loggedIn' = [loggedIn EXCEPT ![User(w)] = TRUE]
  /\ ReleaseUser(w)
  /\ Goto(w, "save")
  /\ UNCHANGED <<running, password, conns, ledger, arrayMutex, seatMutex, code,
                 frame>>

(***************************************************************************)
(* save_active_user: the connection learns its user only after the mutex   *)
(* of the user has been released.                                          *)
(***************************************************************************)
SaveActiveUser(w) ==
  /\ At(w, "save")
  /\ slot' = [slot EXCEPT ![conn[w]] = User(w)]
  /\ Answer(w, "SUCCESS")
  /\ UNCHANGED <<running, accounts, owner, ledger, locks, frame>>

(***************************************************************************)
(* logout, and deactivate_user for a connection that is removed: logged_in *)
(* is reset first, the slot of the connection later.                       *)
(***************************************************************************)
Deactivate(w) ==
  /\ At(w, "checking")
  /\ UserError(w) = "NONE"
  /\ Action(w) \in {"LOGOUT", "DROP"}
  /\ loggedIn' = [loggedIn EXCEPT ![User(w)] = FALSE]
  /\ ReleaseUser(w)
  /\ Goto(w, "clear")
  /\ UNCHANGED <<running, password, conns, ledger, arrayMutex, seatMutex, code,
                 frame>>

ClearActiveUser(w) ==
  /\ At(w, "clear")
  /\ slot' = [slot EXCEPT ![conn[w]] = NoUser]
  /\ \/ /\ Action(w) = "LOGOUT"
        /\ Answer(w, "SUCCESS")
        /\ UNCHANGED <<owner, frame>>
     \/ /\ Action(w) = "DROP"
        /\ owner' = [owner EXCEPT ![conn[w]] = NoWorker]
        /\ Finish(w)
  /\ UNCHANGED <<running, accounts, ledger, locks>>

-----------------------------------------------------------------------------
(* seats: book, cancel-booking, confirm-booking, query.                    *)

(***************************************************************************)
(* lock_logged_in_user returns the user, whose mutex stays locked until    *)
(* the end of the handler.                                                 *)
(***************************************************************************)
EnterSeats(w) ==
  /\ At(w, "checking")
  /\ UserError(w) = "NONE"
  /\ Action(w) \in SeatActions
  /\ Goto(w, "seat")
  /\ scan' = [scan EXCEPT ![w] = IF Action(w) = "CONFIRM_BOOKING" THEN 1 ELSE 0]
  /\ UNCHANGED <<running, accounts, conns, ledger, locks, code, conn, req,
                 selected, stats>>

SeatFree(w) == Free(seatMutex[Seat(w)])

LockSeat(w) ==
  /\ At(w, "seat")
  /\ SeatFree(w)
  /\ seatMutex' = [seatMutex EXCEPT ![Seat(w)] = w]
  /\ Goto(w, "seatHeld")
  /\ UNCHANGED <<running, accounts, conns, ledger, arrayMutex, userMutex, code,
                 frame>>

ReleaseSeat(w) == seatMutex' = [seatMutex EXCEPT ![Seat(w)] = NoWorker]

(***************************************************************************)
(* The error book and cancel-booking return once they hold the seat.       *)
(***************************************************************************)
NoHolderCheck(w) ==
  IF Action(w) = "BOOK" /\ bookedBy[Seat(w)] # NoUser
  THEN "SEAT_UNAVAILABLE" ELSE "NONE"
SeatError(w) ==
  IF Action(w) = "BOOK" /\ bookedBy[Seat(w)] # NoUser THEN "SEAT_UNAVAILABLE"
  ELSE IF Action(w) = "CANCEL_BOOKING" /\ bookedBy[Seat(w)] # User(w)
       THEN "SEAT_NOT_BOOKED_BY_USER"
  ELSE "NONE"

RefuseSeat(w) ==
  /\ At(w, "seatHeld")
  /\ SeatError(w) # "NONE"
  /\ ReleaseSeat(w)
  /\ ReleaseUser(w)
  /\ Answer(w, SeatError(w))
  /\ UNCHANGED <<running, accounts, conns, ledger, arrayMutex, frame>>

AdmitSeat(w) ==
  /\ At(w, "seatHeld")
  /\ SeatError(w) = "NONE"
  /\ \/ Action(w) = "BOOK" /\ Goto(w, "take")
     \/ Action(w) = "CANCEL_BOOKING" /\ Goto(w, "release")
  /\ UNCHANGED <<running, accounts, conns, ledger, locks, code, frame>>

TakeSeat(w) ==
  /\ At(w, "take")
  /\ bookedBy' = [bookedBy EXCEPT ![Seat(w)] = User(w)]
  /\ nBooked' = [nBooked EXCEPT ![Seat(w)] = @ + 1]
  /\ ReleaseSeat(w)
  /\ ReleaseUser(w)
  /\ Answer(w, "SUCCESS")
  /\ UNCHANGED <<running, accounts, conns, nCanceled, arrayMutex, frame>>

GiveUpSeat(w) ==
  /\ At(w, "release")
  /\ bookedBy' = [bookedBy EXCEPT ![Seat(w)] = NoUser]
  /\ nCanceled' = [nCanceled EXCEPT ![Seat(w)] = @ + 1]
  /\ ReleaseSeat(w)
  /\ ReleaseUser(w)
  /\ Answer(w, "SUCCESS")
  /\ UNCHANGED <<running, accounts, conns, nBooked, arrayMutex, frame>>

(***************************************************************************)
(* Does confirm-booking list the seat it is at?                            *)
(***************************************************************************)
Include(w) ==
  bookedBy[Seat(w)] = IF req[w].data = Available THEN NoUser ELSE User(w)

LastSeat(w) == scan[w] = NumSeats

(***************************************************************************)
(* One iteration of confirm-booking: the mutex of the seat is released     *)
(* before the next seat is locked, that of the user after the last one.    *)
(***************************************************************************)
ScanSeat(w) ==
  /\ At(w, "seatHeld")
  /\ Action(w) = "CONFIRM_BOOKING"
  /\ selected' = [selected EXCEPT ![w] =
                    @ \cup (IF Include(w) THEN {Seat(w)} ELSE {})]
  /\ ReleaseSeat(w)
  /\ IF LastSeat(w)
     THEN /\ ReleaseUser(w)
          /\ Answer(w, "SUCCESS")
          /\ UNCHANGED scan
     ELSE /\ scan' = [scan EXCEPT ![w] = @ + 1]
          /\ Goto(w, "seat")
          /\ UNCHANGED <<userMutex, code>>
  /\ UNCHANGED <<running, accounts, conns, ledger, arrayMutex, conn, req, stats>>

(***************************************************************************)
(* query copies the statistics of the seat, word by word, under its mutex. *)
(***************************************************************************)
CopyBooked(w) ==
  /\ At(w, "seatHeld")
  /\ Action(w) = "QUERY"
  /\ stats' = [stats EXCEPT ![w].booked = nBooked[Seat(w)]]
  /\ Goto(w, "copy")
  /\ UNCHANGED <<running, accounts, conns, ledger, locks, code, conn, req, scan,
                 selected>>

CopyCanceled(w) ==
  /\ At(w, "copy")
  /\ stats' = [stats EXCEPT ![w].canceled = nCanceled[Seat(w)]]
  /\ ReleaseSeat(w)
  /\ Answer(w, "SUCCESS")
  /\ UNCHANGED <<running, accounts, conns, ledger, arrayMutex, userMutex, conn,
                 req, scan, selected>>

-----------------------------------------------------------------------------

(***************************************************************************)
(* The steps of a worker between receiving a request and answering it.     *)
(***************************************************************************)
Acquire(w) == LockArray(w) \/ LockUser(w) \/ Enroll(w) \/ LockSeat(w)

Proceed(w) ==
  \/ Refuse(w) \/ Admit(w)
  \/ UserFound(w) \/ UserMissing(w) \/ Register(w)
  \/ RefuseUser(w) \/ Verified(w) \/ Grant(w) \/ SaveActiveUser(w)
  \/ Deactivate(w) \/ ClearActiveUser(w)
  \/ EnterSeats(w) \/ RefuseSeat(w) \/ AdmitSeat(w) \/ TakeSeat(w)
  \/ GiveUpSeat(w) \/ ScanSeat(w)
  \/ CopyBooked(w) \/ CopyCanceled(w)
  \/ SendResponse(w)

Environment ==
  \/ \E c \in Conns, w \in Workers : AddToPollset(c, w) \/ Hangup(w, c)
  \/ \E w \in Workers, c \in Conns, r \in Requests : ReceiveRequest(w, c, r)
  \/ \E w \in Workers : SendFails(w)

(***************************************************************************)
(* After exit() nothing moves any more.                                    *)
(***************************************************************************)
Exited == ~running /\ UNCHANGED vars

Next == Environment \/ (\E w \in Workers : Acquire(w) \/ Proceed(w)) \/ Exited

Spec == Init /\ [][Next]_vars

-----------------------------------------------------------------------------
(* Correctness.                                                            *)

(***************************************************************************)
(* The user a connection acts for.  It differs from the slot of the        *)
(* connection in two windows: after logged_in was set and before           *)
(* save_active_user, and after logged_in was reset and before the slot is. *)
(***************************************************************************)
Session(c) ==
  LET w == owner[c] IN
  IF w \in Workers /\ conn[w] = c /\ pc[w] = "save" THEN User(w)
  ELSE IF w \in Workers /\ conn[w] = c /\ pc[w] = "clear" THEN NoUser
  ELSE slot[c]

(***************************************************************************)
(* Two connections never act for the same user at the same time            *)
(* (2021312344_pa3.md section 5), whatever the interleaving of logins,     *)
(* logouts and connections that end.                                       *)
(***************************************************************************)
OneSessionPerUser ==
  \A c, d \in Conns : Session(c) = Session(d) /\ Session(c) # NoUser => c = d

(***************************************************************************)
(* logged_in is set for exactly the users some connection acts for: no     *)
(* user stays locked out after its connection ended, and no connection     *)
(* acts for a user others can log in as.                                   *)
(***************************************************************************)
LoggedInMatchesSessions ==
  \A u \in Users : loggedIn[u] <=> \E c \in Conns : Session(c) = u

(***************************************************************************)
(* The statistics of a seat tell whether it is taken: it was booked as     *)
(* often as it was canceled, or once more.                                 *)
(***************************************************************************)
LedgerBalances ==
  \A s \in Seats :
    nBooked[s] = nCanceled[s] + IF bookedBy[s] = NoUser THEN 0 ELSE 1

(***************************************************************************)
(* What a client is told is still true when the response is sent: a booked *)
(* seat is held by the user, a login opened the session it asked for with  *)
(* the password of the user, a logout left no session on the connection.   *)
(***************************************************************************)
RepliesAreTrue ==
  \A w \in Workers :
    pc[w] = "reply" /\ code[w] = "SUCCESS" =>
      /\ Action(w) = "BOOK" => bookedBy[Seat(w)] = User(w)
      /\ Action(w) = "LOGIN" => /\ Session(conn[w]) = User(w)
                                /\ password[User(w)] = req[w].data
      /\ Action(w) = "LOGOUT" => Session(conn[w]) = NoUser

(***************************************************************************)
(* confirm-booking booked returns exactly the seats of the user, although  *)
(* it looks at them one at a time: no booking or cancellation of that user *)
(* can slip in behind the scan.                                            *)
(***************************************************************************)
BookedListIsExact ==
  \A w \in Workers :
    /\ pc[w] = "reply"
    /\ code[w] = "SUCCESS"
    /\ Action(w) = "CONFIRM_BOOKING"
    /\ req[w].data = Booked
    => selected[w] = {s \in Seats : bookedBy[s] = User(w)}

(***************************************************************************)
(* A query never reports statistics of a half-finished booking.            *)
(***************************************************************************)
QueryIsConsistent ==
  \A w \in Workers :
    pc[w] = "reply" /\ code[w] = "SUCCESS" /\ Action(w) = "QUERY" =>
      stats[w].booked - stats[w].canceled \in {0, 1}

(***************************************************************************)
(* No answer is spoilt by what the other worker does between the locks of  *)
(* a handler: each one is true, and complete, at the moment it is sent.    *)
(***************************************************************************)
AnswersAreExact == RepliesAreTrue /\ BookedListIsExact /\ QueryIsConsistent

(***************************************************************************)
(* Worker w waits for a mutex that worker v holds.                         *)
(***************************************************************************)
WaitsFor(w, v) ==
  \/ pc[w] = "array" /\ arrayMutex = v
  \/ pc[w] \in {"user", "enroll"} /\ userMutex[User(w)] = v
  \/ pc[w] = "seat" /\ seatMutex[Seat(w)] = v

WaitRank(w) == IF pc[w] = "poll" THEN 0
               ELSE IF pc[w] = "array" THEN 1
               ELSE IF pc[w] \in {"user", "enroll"} THEN 2
               ELSE IF pc[w] = "seat" THEN 3
               ELSE 4

(***************************************************************************)
(* Locks are taken in one order (2021312344_pa3.md section 6): whoever     *)
(* holds the mutex a worker waits for is further along, so that no cycle   *)
(* of workers waits for one another, nobody waits for itself, and no idle  *)
(* worker has kept a mutex.                                                *)
(***************************************************************************)
NoCircularWait ==
  \A w, v \in Workers : WaitsFor(w, v) => WaitRank(w) < WaitRank(v)

(***************************************************************************)
(* Every step of the handlers is a step of the abstract booking service or *)
(* changes nothing in it.                                                  *)
(***************************************************************************)
Service == INSTANCE Booking WITH
             Passwords <- Data,
             session <- [c \in Conns |-> Session(c)],
             holder <- bookedBy
ImplementsBooking == Service!Spec
=============================================================================
