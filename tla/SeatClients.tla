---------------------------- MODULE SeatClients ----------------------------
(***************************************************************************)
(* The clients of the seat-reservation server (src/PA3/client) together    *)
(* with its request handlers (SeatServer): what a client types becomes the *)
(* requests the handlers serve, and their replies change what the client   *)
(* believes.  A client keeps its own copy of the user it is logged in as,  *)
(* from which it fills in every later request.                             *)
(*                                                                         *)
(* One connection carries one request or one response at a time.  A client *)
(* may be killed at any point, which may end the server.                   *)
(***************************************************************************)
EXTENDS SeatServer

CONSTANT Lines     \* the lines that are typed: action, user, data

TypedActions == (ClientActions \ {"TERMINATION"}) \cup {"EXIT", "INVALID"}

ASSUME ClientAssumption ==
  /\ Lines \subseteq [action : TypedActions, user : Users \cup {NoUser},
                      data : Data]
  /\ {r \in Request : r.action # "TERMINATION"} \subseteq Requests

VARIABLES
  serverUp,    \* FALSE once SIGPIPE has ended the server
  client,      \* where the process at the other end of a connection is
  activeUser,  \* its active_user
  asked,       \* the request it waits for the answer of
  wire,        \* what the connection carries
  backlog      \* connections the server has not accepted yet

server == vars
clients == <<client, activeUser, asked>>
system == <<server, serverUp, clients, wire, backlog>>

(***************************************************************************)
(* "exited" is the end by way of terminate(), "gone" any other.            *)
(***************************************************************************)
Ended == {"off", "gone", "exited"}
Waiting == {"waiting", "leaving"}

SystemTypeOK ==
  /\ serverUp \in BOOLEAN
  /\ client \in [Conns -> {"prompt"} \cup Waiting \cup Ended]
  /\ activeUser \in [Conns -> Users \cup {NoUser}]
  /\ asked \in [Conns -> Request \cup {NoRequest}]
  /\ wire \in [Conns -> {"idle", "request", "taken"} \cup Codes]
  /\ backlog \subseteq Conns

SystemInit ==
  /\ Init
  /\ serverUp = TRUE
  /\ client = [c \in Conns |-> "off"]
  /\ activeUser = [c \in Conns |-> NoUser]
  /\ asked = [c \in Conns |-> NoRequest]
  /\ wire = [c \in Conns |-> "idle"]
  /\ backlog = {}

Up == serverUp /\ running

Become(c, state) == client' = [client EXCEPT ![c] = state]

(***************************************************************************)
(* A process that ends takes its active_user with it.                      *)
(***************************************************************************)
End(c, state) ==
  /\ Become(c, state)
  /\ activeUser' = [activeUser EXCEPT ![c] = NoUser]

-----------------------------------------------------------------------------
(* The client.                                                             *)

(***************************************************************************)
(* get_socket; the kernel completes the connection before it is accepted.  *)
(***************************************************************************)
Connect(c) ==
  /\ Up
  /\ client[c] \in Ended
  /\ c \notin backlog /\ owner[c] = NoWorker
  /\ Become(c, "prompt")
  /\ asked' = [asked EXCEPT ![c] = NoRequest]
  /\ wire' = [wire EXCEPT ![c] = "idle"]
  /\ backlog' = backlog \cup {c}
  /\ UNCHANGED <<server, serverUp, activeUser>>

NeedsUser == {"BOOK", "CONFIRM_BOOKING", "CANCEL_BOOKING", "LOGOUT"}

(***************************************************************************)
(* parse_request sends nothing for an action it does not know, a login of  *)
(* a client that is logged in and whatever else needs a login.             *)
(***************************************************************************)
RefuseUnknown(c, line) == line.action = "INVALID"
RefuseInput(c, line) ==
  \/ line.action = "INVALID"
  \/ line.action = "LOGIN" /\ activeUser[c] # NoUser
  \/ line.action \in NeedsUser /\ activeUser[c] = NoUser

ParseRequest(c, line) ==
  [action |-> line.action,
   user |-> IF line.action = "LOGIN" THEN line.user
            ELSE IF line.action \in NeedsUser THEN activeUser[c]
            ELSE NoUser,
   data |-> line.data]

(***************************************************************************)
(* Bound: a seat is booked at most MaxBookings times, those on their way   *)
(* included.                                                               *)
(***************************************************************************)
MayStillBook(s) ==
  nBooked[s] + Cardinality({d \in Conns : /\ wire[d] \in {"request", "taken"}
                                          /\ asked[d].action = "BOOK"
                                          /\ asked[d].data = s}) < MaxBookings

(***************************************************************************)
(* evaluate, as far as send_request; receive_response waits then.          *)
(***************************************************************************)
Send(c, request) ==
  /\ asked' = [asked EXCEPT ![c] = request]
  /\ wire' = [wire EXCEPT ![c] = "request"]

Evaluate(c, line) ==
  /\ client[c] = "prompt"
  /\ ~RefuseInput(c, line)
  /\ line.action # "EXIT"
  /\ line.action = "BOOK" /\ line.data \in Seats => MayStillBook(line.data)
  /\ Send(c, ParseRequest(c, line))
  /\ Become(c, "waiting")
  /\ UNCHANGED <<server, serverUp, activeUser, backlog>>

(***************************************************************************)
(* exit, the end of the input or SIGINT at the prompt: terminate() logs    *)
(* the active user out first and waits for the answer.                     *)
(***************************************************************************)
JustExit(c) == Become(c, "exited") /\ UNCHANGED <<asked, wire>>

Terminate(c) ==
  IF activeUser[c] = NoUser
  THEN JustExit(c)
  ELSE /\ Send(c, [action |-> "LOGOUT", user |-> activeUser[c],
                   data |-> NoData])
       /\ Become(c, "leaving")

Exit(c) ==
  /\ client[c] = "prompt"
  /\ Terminate(c)
  /\ UNCHANGED <<server, serverUp, activeUser, backlog>>

(***************************************************************************)
(* receive_response and handle_response: only a login that succeeded, and  *)
(* a logout that did, change active_user.                                  *)
(***************************************************************************)
AnyLogin(c) == asked[c].action = "LOGIN"
LoggedIn(c) == asked[c].action = "LOGIN" /\ wire[c] = "SUCCESS"
LoggedOut(c) ==
  /\ asked[c].action = "LOGOUT" /\ wire[c] = "SUCCESS"
  /\ activeUser[c] = asked[c].user

ReceiveResponse(c) ==
  /\ client[c] \in Waiting
  /\ wire[c] \in Codes
  /\ activeUser' = [activeUser EXCEPT ![c] =
                      IF LoggedIn(c) THEN asked[c].user
                      ELSE IF LoggedOut(c) \/ client[c] = "leaving" THEN NoUser
                      ELSE @]
  /\ asked' = [asked EXCEPT ![c] = NoRequest]
  /\ wire' = [wire EXCEPT ![c] = "idle"]
  /\ Become(c, IF client[c] = "leaving" THEN "exited" ELSE "prompt")
  /\ UNCHANGED <<server, serverUp, backlog>>

(***************************************************************************)
(* read_or_exit and write_or_exit find the connection closed.              *)
(***************************************************************************)
ServerGone(c) ==
  /\ ~Up
  /\ client[c] \in Waiting
  /\ wire[c] \notin Codes
  /\ End(c, "gone")
  /\ UNCHANGED <<server, serverUp, asked, wire, backlog>>

(***************************************************************************)
(* The client is killed: at the prompt, half a request already sent or     *)
(* not, or while it waits.  A whole request is still served; a response it *)
(* has not read is lost.                                                   *)
(***************************************************************************)
Kill(c) ==
  /\ client[c] \notin Ended
  /\ End(c, "gone")
  /\ wire' = [wire EXCEPT ![c] = IF @ \in Codes THEN "idle" ELSE @]
  /\ UNCHANGED <<server, serverUp, asked, backlog>>

-----------------------------------------------------------------------------
(* The server.                                                             *)

Accept(c, w) ==
  /\ Up
  /\ c \in backlog
  /\ AddToPollset(c, w)
  /\ backlog' = backlog \ {c}
  /\ UNCHANGED <<serverUp, clients, wire>>

TakeRequest(c, w) ==
  /\ Up
  /\ wire[c] = "request"
  /\ ReceiveRequest(w, c, asked[c])
  /\ wire' = [wire EXCEPT ![c] = "taken"]
  /\ UNCHANGED <<serverUp, clients, backlog>>

(***************************************************************************)
(* The steps of a handler up to its response, and those that remove a      *)
(* connection.                                                             *)
(***************************************************************************)
HandlerLocks(w) ==
  Up /\ Acquire(w) /\ UNCHANGED <<serverUp, clients, wire, backlog>>

HandlerRuns(w) ==
  /\ Up
  /\ pc[w] # "reply"
  /\ Proceed(w)
  /\ UNCHANGED <<serverUp, clients, wire, backlog>>

IsGone(c) == client[c] \in Ended

(***************************************************************************)
(* A response sent to a process that is gone disappears.                   *)
(***************************************************************************)
Respond(w) ==
  /\ Up
  /\ SendResponse(w)
  /\ wire' = [wire EXCEPT ![conn[w]] =
                IF IsGone(conn[w]) THEN "idle" ELSE code[w]]
  /\ UNCHANGED <<serverUp, clients, backlog>>

(***************************************************************************)
(* It may also fail, or its second write raise SIGPIPE, which ends the     *)
(* server.                                                                 *)
(***************************************************************************)
RespondFails(w) ==
  /\ Up
  /\ At(w, "reply")
  /\ IsGone(conn[w])
  /\ SendFails(w)
  /\ wire' = [wire EXCEPT ![conn[w]] = "idle"]
  /\ UNCHANGED <<serverUp, clients, backlog>>

Sigpipe(w) ==
  /\ Up
  /\ At(w, "reply")
  /\ IsGone(conn[w])
  /\ serverUp' = FALSE
  /\ UNCHANGED <<server, clients, wire, backlog>>

(***************************************************************************)
(* The end of the stream, or of half a request.                            *)
(***************************************************************************)
IgnoreEnd(c, w) == FALSE
NoticeEnd(c, w) ==
  /\ Up
  /\ IsGone(c)
  /\ wire[c] # "request"
  /\ Hangup(w, c)
  /\ UNCHANGED <<serverUp, clients, wire, backlog>>

Over ==
  /\ ~Up
  /\ \A c \in Conns : client[c] \in Ended
  /\ UNCHANGED system

-----------------------------------------------------------------------------

Worker(w) ==
  HandlerLocks(w) \/ HandlerRuns(w) \/ Respond(w) \/ RespondFails(w) \/ Sigpipe(w)

Client(c) ==
  \/ Connect(c) \/ Exit(c) \/ Kill(c) \/ ReceiveResponse(c) \/ ServerGone(c)
  \/ \E line \in Lines : Evaluate(c, line)

SystemNext ==
  \/ \E w \in Workers : Worker(w)
  \/ \E c \in Conns : Client(c)
  \/ \E c \in Conns, w \in Workers :
       Accept(c, w) \/ TakeRequest(c, w) \/ NoticeEnd(c, w)
  \/ Over

SystemSpec == SystemInit /\ [][SystemNext]_system

(***************************************************************************)
(* A worker that can go on does, mutexes are granted fairly, a poll set's  *)
(* sweep looks at each of its connections, the main thread accepts, and a  *)
(* client reads the answer it waits for.  Nobody has to type.              *)
(***************************************************************************)
SystemFairness ==
  /\ \A w \in Workers : /\ WF_system(HandlerRuns(w) \/ Respond(w))
                        /\ SF_system(HandlerLocks(w))
  /\ \A c \in Conns :
       /\ WF_system(\E w \in Workers : Accept(c, w))
       /\ SF_system(\E w \in Workers : TakeRequest(c, w) \/ NoticeEnd(c, w))
       /\ WF_system(ReceiveResponse(c) \/ ServerGone(c))

SystemFairSpec == SystemSpec /\ SystemFairness

-----------------------------------------------------------------------------
(* Correctness.                                                            *)

(***************************************************************************)
(* While a client is at its prompt, active_user is the user the server has *)
(* for its connection: the two copies are changed by two processes, one of *)
(* them only when the answer has been read.                                *)
(***************************************************************************)
ClientKnowsItsSession ==
  \A c \in Conns : client[c] = "prompt" /\ Up => Session(c) = activeUser[c]

(***************************************************************************)
(* So the checks a client makes by itself are the server's: what it sends  *)
(* is never refused because it is not logged in, or because it already is. *)
(***************************************************************************)
NeverAStranger ==
  \A c \in Conns :
    wire[c] \notin {"USER_NOT_LOGGED_IN", "ACTIVE_CLIENT", "USER_NOT_FOUND",
                    "INVALID_ACTION"}

(***************************************************************************)
(* A client that ended by way of terminate() has left no session behind,   *)
(* whether or not the server has noticed the end of the connection.        *)
(***************************************************************************)
OrderlyExitLogsOut ==
  \A c \in Conns : client[c] = "exited" /\ Up => Session(c) = NoUser

(***************************************************************************)
(* Whoever waits for an answer gets it, or the news that there is none.    *)
(***************************************************************************)
WaitsEnd == \A c \in Conns : client[c] \in Waiting ~> client[c] \notin Waiting

(***************************************************************************)
(* The connection of a client that ended, killed in the middle of whatever *)
(* it was doing, is removed, and with it the session: the user can log in  *)
(* again from elsewhere.                                                   *)
(***************************************************************************)
EndedClientsAreForgotten ==
  \A c \in Conns :
    IsGone(c) ~> \/ Session(c) = NoUser /\ owner[c] = NoWorker /\ c \notin backlog
                 \/ ~Up
=============================================================================
