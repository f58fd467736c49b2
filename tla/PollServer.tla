----------------------------- MODULE PollServer -----------------------------
(***************************************************************************)
(* The event loops of the PA3 server (src/PA3/server/pa3_server.c): the    *)
(* main thread that accepts connections and hands them to the poll sets of *)
(* the workers, the workers that sweep their poll sets, the pipes that     *)
(* wake them, and the shutdown.  What a handler does under its locks is in *)
(* SeatServer.tla; here it is one step.                                    *)
(***************************************************************************)
EXTENDS Naturals, Sequences, FiniteSets

CONSTANTS NumWorkers,        \* n_cores
          Fds,               \* file descriptors accept() hands out
          Users,             \* user names
          ClientsPerThread,  \* CLIENTS_PER_THREAD; the pipe takes one entry
          PipeCapacity,      \* bytes a pipe holds
          ReadSize,          \* bytes a worker reads of its pipe at a time
          MaxBacklog,        \* bound: connections waiting to be accepted
          StdinEvents,       \* what may happen to standard input
          NoFd, NoUser

Workers == 1..NumWorkers

ASSUME PollAssumption ==
  /\ NumWorkers \in Nat \ {0}
  /\ ClientsPerThread \in Nat \ {0}
  /\ PipeCapacity \in Nat \ {0}
  /\ ReadSize \in Nat \ {0}
  /\ MaxBacklog \in Nat
  /\ StdinEvents \subseteq {"command", "chatter", "hangup"}
  /\ NoFd \notin Fds
  /\ NoUser \notin Users

VARIABLES
  sets,      \* poll_set->set[1..size-1].fd of each worker
  actives,   \* poll_set->active_users[1..size-1]
  mutex,     \* is poll_set->mutex held (by its worker)?
  pipe,      \* bytes in the pipe of a worker
  closed,    \* is the write end of its pipe closed?
  wpc,       \* where a worker is
  todo,      \* the entries of local_set with revents not looked at yet
  local,     \* local_set, as copied
  fd,        \* the descriptor a worker is serving
  at,        \* the index it found it at
  sock,      \* is a descriptor open?
  inbox,     \* what can be read from it: nothing, part of a request, all of it
  peer,      \* the client: here, gone (it closed the socket), reset
  session,   \* the user the client of a descriptor has logged in
  loggedIn,  \* users.array[u].logged_in
  backlog,   \* connections to accept
  mpc,       \* where the main thread is
  next,      \* the worker index of its loop
  best,      \* min_i, 0 for -1
  least,     \* min_size
  connfd,    \* the connection it has accepted
  stdin,     \* what poll() would say of standard input
  sigint,    \* sigint_received
  killed     \* the process died of SIGPIPE

pollsets == <<sets, actives, mutex>>
pipes == <<pipe, closed>>
sweep == <<todo, local, fd, at>>
net == <<sock, inbox, peer, session, backlog>>
placing == <<next, best, least, connfd>>
process == <<stdin, sigint, killed>>

vars == <<pollsets, pipes, wpc, sweep, net, loggedIn, mpc, placing, process>>

Running == ~killed /\ mpc # "exited"

Size(w) == Len(sets[w]) + 1

(***************************************************************************)
(* An entry of local_set with revents: its index, 0 for the pipe; bad is   *)
(* POLLERR or the like.                                                    *)
(***************************************************************************)
Entries == [at : 0..ClientsPerThread, fd : Fds \cup {NoFd}, bad : BOOLEAN]

TypeOK ==
  /\ sets \in [Workers -> Seq(Fds)]
  /\ \A w \in Workers : Len(sets[w]) < ClientsPerThread
  /\ actives \in [Workers -> Seq(Users \cup {NoUser})]
  /\ \A w \in Workers : Len(actives[w]) = Len(sets[w])
  /\ mutex \in [Workers -> BOOLEAN]
  /\ pipe \in [Workers -> 0..PipeCapacity]
  /\ closed \in [Workers -> BOOLEAN]
  /\ wpc \in [Workers -> {"check", "poll", "sweep", "read", "locate", "handle",
                          "send", "lock", "close", "unlink", "done"}]
  /\ \A w \in Workers : local[w] \in Seq(Fds) /\ todo[w] \subseteq Entries
  /\ fd \in [Workers -> Fds \cup {NoFd}]
  /\ \A w \in Workers : at[w] \in 0..Len(sets[w])
  /\ sock \in [Fds -> BOOLEAN]
  /\ inbox \in [Fds -> {"empty", "part", "request"}]
  /\ peer \in [Fds -> {"here", "gone", "reset"}]
  /\ session \in [Fds -> Users \cup {NoUser}]
  /\ loggedIn \in [Users -> BOOLEAN]
  /\ backlog \in 0..MaxBacklog
  /\ mpc \in {"check", "enter", "poll", "scan", "add", "notify", "cleanup",
              "join", "exited"}
  /\ next \in 1..NumWorkers + 1
  /\ best \in 0..NumWorkers
  /\ least \in 0..ClientsPerThread
  /\ connfd \in Fds \cup {NoFd}
  /\ stdin \in {"quiet", "command", "chatter", "hangup"}
  /\ sigint \in BOOLEAN
  /\ killed \in BOOLEAN

Init ==
  /\ sets = [w \in Workers |-> <<>>]
  /\ actives = [w \in Workers |-> <<>>]
  /\ mutex = [w \in Workers |-> FALSE]
  /\ pipe = [w \in Workers |-> 0]
  /\ closed = [w \in Workers |-> FALSE]
  /\ wpc = [w \in Workers |-> "check"]
  /\ todo = [w \in Workers |-> {}]
  /\ local = [w \in Workers |-> <<>>]
  /\ fd = [w \in Workers |-> NoFd]
  /\ at = [w \in Workers |-> 0]
  /\ sock = [f \in Fds |-> FALSE]
  /\ inbox = [f \in Fds |-> "empty"]
  /\ peer = [f \in Fds |-> "here"]
  /\ session = [f \in Fds |-> NoUser]
  /\ loggedIn = [u \in Users |-> FALSE]
  /\ backlog = 0
  /\ mpc = "check"
  /\ next = 1
  /\ best = 0
  /\ least = 0
  /\ connfd = NoFd
  /\ stdin = "quiet"
  /\ sigint = FALSE
  /\ killed = FALSE

-----------------------------------------------------------------------------
(* The worker threads: thread_func.                                        *)

At(w, l) == Running /\ wpc[w] = l

Goto(w, l) == wpc' = [wpc EXCEPT ![w] = l]

PipeEntry == [at |-> 0, fd |-> NoFd, bad |-> FALSE]
SetEntry(i, f) == [at |-> i, fd |-> f, bad |-> peer[f] = "reset"]

OnlyData(f) == inbox[f] # "empty"
Readable(f) == inbox[f] # "empty" \/ peer[f] # "here"

(***************************************************************************)
(* find_fd_in_pollset: the index of the descriptor a worker serves, 0 for  *)
(* -1.                                                                     *)
(***************************************************************************)
FindCountingPipe(w) ==
  LET found == {i \in DOMAIN sets[w] : sets[w][i] = fd[w]} IN
  IF found = {} THEN 0 ELSE 1 + CHOOSE i \in found : \A j \in found : i <= j
Find(w) ==
  LET found == {i \in DOMAIN sets[w] : sets[w][i] = fd[w]} IN
  IF found = {} THEN 0 ELSE CHOOSE i \in found : \A j \in found : i <= j

(***************************************************************************)
(* The loop condition, and the copy of the poll set under its mutex.       *)
(***************************************************************************)
CopyPollset(w) ==
  /\ At(w, "check")
  /\ ~sigint
  /\ ~mutex[w]
  /\ local' = [local EXCEPT ![w] = sets[w]]
  /\ Goto(w, "poll")
  /\ UNCHANGED <<pollsets, pipes, todo, fd, at, net, loggedIn, mpc, placing, process>>

ExitThread(w) ==
  /\ At(w, "check")
  /\ sigint
  /\ Goto(w, "done")
  /\ UNCHANGED <<pollsets, pipes, sweep, net, loggedIn, mpc, placing, process>>

(***************************************************************************)
(* poll() returns once the pipe or a copied descriptor has an event.       *)
(***************************************************************************)
PollReturns(w) ==
  /\ At(w, "poll")
  /\ LET woken == pipe[w] > 0 \/ closed[w]
         ready == {i \in DOMAIN local[w] : Readable(local[w][i])}
     IN /\ woken \/ ready # {}
        /\ todo' = [todo EXCEPT ![w] = {SetEntry(i, local[w][i]) : i \in ready}
                                        \cup (IF woken THEN {PipeEntry} ELSE {})]
  /\ local' = [local EXCEPT ![w] = <<>>]
  /\ Goto(w, "sweep")
  /\ UNCHANGED <<pollsets, pipes, fd, at, net, loggedIn, mpc, placing, process>>

(***************************************************************************)
(* The pipe comes first: one read, of at most ReadSize bytes.  The read of *)
(* an empty pipe that is closed ends the sweep when the server is stopping.*)
(***************************************************************************)
ReadPipe(w) == pipe' = [pipe EXCEPT ![w] = IF @ > ReadSize THEN @ - ReadSize ELSE 0]

DrainPipe(w) ==
  /\ At(w, "sweep")
  /\ PipeEntry \in todo[w]
  /\ todo' = [todo EXCEPT ![w] = IF pipe[w] = 0 /\ sigint THEN {} ELSE @ \ {PipeEntry}]
  /\ ReadPipe(w)
  /\ UNCHANGED <<pollsets, closed, wpc, local, fd, at, net, loggedIn, mpc,
                 placing, process>>

NextEntry(w) ==
  /\ At(w, "sweep")
  /\ PipeEntry \notin todo[w]
  /\ \E e \in todo[w] :
       /\ \A o \in todo[w] : e.at <= o.at
       /\ todo' = [todo EXCEPT ![w] = @ \ {e}]
       /\ fd' = [fd EXCEPT ![w] = e.fd]
       /\ Goto(w, IF e.bad THEN "lock" ELSE "read")
  /\ UNCHANGED <<pollsets, pipes, local, at, net, loggedIn, mpc, placing, process>>

EndSweep(w) ==
  /\ At(w, "sweep")
  /\ todo[w] = {}
  /\ Goto(w, "check")
  /\ UNCHANGED <<pollsets, pipes, sweep, net, loggedIn, mpc, placing, process>>

(***************************************************************************)
(* receive_request blocks until the request is complete or the stream is   *)
(* at its end.                                                             *)
(***************************************************************************)
ReceiveRequest(w) ==
  /\ At(w, "read")
  /\ LET f == fd[w] IN
     \/ /\ inbox[f] = "request"
        /\ peer[f] # "reset"
        /\ inbox' = [inbox EXCEPT ![f] = "empty"]
        /\ Goto(w, "locate")
     \/ /\ peer[f] = "reset" \/ (peer[f] = "gone" /\ inbox[f] # "request")
        /\ Goto(w, "lock")
        /\ UNCHANGED inbox
  /\ UNCHANGED <<pollsets, pipes, sweep, sock, peer, session, backlog, loggedIn,
                 mpc, placing, process>>

(***************************************************************************)
(* The entry is looked up again under the mutex, and used without it.      *)
(***************************************************************************)
Locate(w) ==
  /\ At(w, "locate")
  /\ ~mutex[w]
  /\ at' = [at EXCEPT ![w] = Find(w)]
  /\ IF Find(w) = 0
     THEN Goto(w, "sweep") /\ fd' = [fd EXCEPT ![w] = NoFd]
     ELSE Goto(w, "handle") /\ UNCHANGED fd
  /\ UNCHANGED <<pollsets, pipes, todo, local, net, loggedIn, mpc, placing, process>>

(***************************************************************************)
(* handle_request: a login, a logout, or a request that changes no session.*)
(***************************************************************************)
SetActive(w, u) ==
  /\ actives' = [actives EXCEPT ![w][at[w]] = u]
  /\ session' = [session EXCEPT ![fd[w]] = u]

Handle(w) ==
  /\ At(w, "handle")
  /\ \/ \E u \in Users :
          /\ actives[w][at[w]] = NoUser
          /\ ~loggedIn[u]
          /\ loggedIn' = [loggedIn EXCEPT ![u] = TRUE]
          /\ SetActive(w, u)
     \/ /\ actives[w][at[w]] # NoUser
        /\ loggedIn' = [loggedIn EXCEPT ![actives[w][at[w]]] = FALSE]
        /\ SetActive(w, NoUser)
     \/ UNCHANGED <<actives, session, loggedIn>>
  /\ Goto(w, "send")
  /\ UNCHANGED <<sets, mutex, pipes, sweep, sock, inbox, peer, backlog, mpc,
                 placing, process>>

Leave(w) ==
  /\ fd' = [fd EXCEPT ![w] = NoFd]
  /\ at' = [at EXCEPT ![w] = 0]
  /\ Goto(w, "sweep")

(***************************************************************************)
(* send_response writes the code, the size and the data one after the      *)
(* other.  A client that is gone answers the first write with a reset, and *)
(* the next one raises SIGPIPE, which nobody ignores.                      *)
(***************************************************************************)
SendResponse(w) ==
  /\ At(w, "send")
  /\ \/ peer[fd[w]] # "reset" /\ Leave(w) /\ UNCHANGED <<todo, local, killed>>
     \/ peer[fd[w]] = "reset" /\ Goto(w, "lock") /\ UNCHANGED <<sweep, killed>>
     \/ peer[fd[w]] = "gone" /\ killed' = TRUE /\ UNCHANGED <<wpc, sweep>>
  /\ UNCHANGED <<pollsets, pipes, net, loggedIn, mpc, placing, stdin, sigint>>

(***************************************************************************)
(* remove_fd_from_pollset and remove_from_pollset: under the mutex of the  *)
(* poll set, the user is deactivated and the descriptor closed, which the  *)
(* kernel may give to the next connection at once; then the last entry     *)
(* takes the place of the removed one.                                     *)
(***************************************************************************)
LockPollset(w) ==
  /\ At(w, "lock")
  /\ ~mutex[w]
  /\ IF Find(w) = 0
     THEN Leave(w) /\ UNCHANGED mutex
     ELSE /\ mutex' = [mutex EXCEPT ![w] = TRUE]
          /\ at' = [at EXCEPT ![w] = Find(w)]
          /\ Goto(w, "close")
          /\ UNCHANGED fd
  /\ UNCHANGED <<sets, actives, pipes, todo, local, net, loggedIn, mpc, placing,
                 process>>

CloseFd(w) ==
  /\ At(w, "close")
  /\ loggedIn' = [u \in Users |-> loggedIn[u] /\ u # actives[w][at[w]]]
  /\ actives' = [actives EXCEPT ![w][at[w]] = NoUser]
  /\ session' = [session EXCEPT ![fd[w]] = NoUser]
  /\ sock' = [sock EXCEPT ![fd[w]] = FALSE]
  /\ inbox' = [inbox EXCEPT ![fd[w]] = "empty"]
  /\ peer' = [peer EXCEPT ![fd[w]] = "here"]
  /\ Goto(w, "unlink")
  /\ UNCHANGED <<sets, mutex, pipes, sweep, backlog, mpc, placing, process>>

(***************************************************************************)
(* Entry i of a sequence is overwritten by the last one, which is dropped. *)
(***************************************************************************)
KeepEntry(s, i) == s
DropLast(s, i) == SubSeq(s, 1, Len(s) - 1)
SwapRemove(s, i) == SubSeq([s EXCEPT ![i] = s[Len(s)]], 1, Len(s) - 1)

RemoveActive(s, i) == SwapRemove(s, i)

StayLocked(w) == UNCHANGED mutex
Unlock(w) == mutex' = [mutex EXCEPT ![w] = FALSE]

Unlink(w) ==
  /\ At(w, "unlink")
  /\ sets' = [sets EXCEPT ![w] = SwapRemove(@, at[w])]
  /\ actives' = [actives EXCEPT ![w] = RemoveActive(@, at[w])]
  /\ Unlock(w)
  /\ Leave(w)
  /\ UNCHANGED <<pipes, todo, local, net, loggedIn, mpc, placing, process>>

Worker(w) ==
  \/ CopyPollset(w) \/ ExitThread(w) \/ PollReturns(w) \/ DrainPipe(w)
  \/ NextEntry(w) \/ EndSweep(w) \/ ReceiveRequest(w) \/ Locate(w) \/ Handle(w)
  \/ SendResponse(w) \/ LockPollset(w) \/ CloseFd(w) \/ Unlink(w)

-----------------------------------------------------------------------------
(* The main thread.                                                        *)

MainAt(l) == Running /\ mpc = l

MainCheck ==
  /\ MainAt("check")
  /\ mpc' = IF sigint THEN "cleanup" ELSE "enter"
  /\ next' = 1
  /\ UNCHANGED <<pollsets, pipes, wpc, sweep, net, loggedIn, best, least, connfd,
                 process>>

(***************************************************************************)
(* The flag has been tested, poll() not been called yet: a signal that     *)
(* arrives here interrupts nothing.                                        *)
(***************************************************************************)
EnterPoll ==
  /\ MainAt("enter")
  /\ mpc' = "poll"
  /\ UNCHANGED <<pollsets, pipes, wpc, sweep, net, loggedIn, placing, process>>

(***************************************************************************)
(* check_stdin_for_termination: a line to read, or the end of a terminal;  *)
(* exit, quit and the end raise SIGINT.  A closed pipe reports POLLHUP     *)
(* alone, which the loop does not look at.                                 *)
(***************************************************************************)
ReadStdin ==
  /\ MainAt("poll")
  /\ \/ /\ stdin \in {"command", "chatter"}
        /\ sigint' = (sigint \/ stdin = "command")
        /\ stdin' = "quiet"
     \/ /\ stdin = "hangup"
        /\ backlog = 0
        /\ UNCHANGED <<stdin, sigint>>
  /\ mpc' = "check"
  /\ UNCHANGED <<pollsets, pipes, wpc, sweep, net, loggedIn, placing, killed>>

Accept ==
  /\ MainAt("poll")
  /\ stdin \notin {"command", "chatter"}
  /\ backlog > 0
  /\ \E f \in Fds :
       /\ ~sock[f]
       /\ sock' = [sock EXCEPT ![f] = TRUE]
       /\ connfd' = f
  /\ backlog' = backlog - 1
  /\ mpc' = "scan"
  /\ UNCHANGED <<pollsets, pipes, wpc, sweep, inbox, peer, session, loggedIn, next,
                 best, least, process>>

(***************************************************************************)
(* find_suitable_pollset looks at one poll set at a time under its mutex,  *)
(* and starts again as long as all are full.                               *)
(***************************************************************************)
HasRoom(w) == Size(w) < ClientsPerThread

LookAtPollset ==
  /\ MainAt("scan")
  /\ next <= NumWorkers
  /\ ~mutex[next]
  /\ IF HasRoom(next) /\ (best = 0 \/ Size(next) < least)
     THEN best' = next /\ least' = Size(next)
     ELSE UNCHANGED <<best, least>>
  /\ next' = next + 1
  /\ UNCHANGED <<pollsets, pipes, wpc, sweep, net, loggedIn, mpc, connfd, process>>

ChoosePollset ==
  /\ MainAt("scan")
  /\ next > NumWorkers
  /\ next' = 1
  /\ mpc' = IF best = 0 THEN "scan" ELSE "add"
  /\ UNCHANGED <<pollsets, pipes, wpc, sweep, net, loggedIn, best, least, connfd,
                 process>>

(***************************************************************************)
(* add_to_pollset: a connection that finds the poll set full is closed.    *)
(***************************************************************************)
AddToPollset ==
  /\ MainAt("add")
  /\ ~mutex[best]
  /\ connfd' = NoFd
  /\ IF Size(best) >= ClientsPerThread
     THEN /\ sock' = [sock EXCEPT ![connfd] = FALSE]
          /\ mpc' = "check"
          /\ best' = 0
          /\ UNCHANGED <<sets, actives>>
     ELSE /\ sets' = [sets EXCEPT ![best] = Append(@, connfd)]
          /\ actives' = [actives EXCEPT ![best] = Append(@, NoUser)]
          /\ mpc' = "notify"
          /\ UNCHANGED <<sock, best>>
  /\ UNCHANGED <<mutex, pipes, wpc, sweep, inbox, peer, session, backlog, loggedIn,
                 next, least, process>>

(***************************************************************************)
(* notify_pollset: the byte wakes the worker out of the poll() of a copy   *)
(* that does not have the new connection.                                  *)
(***************************************************************************)
NoByte == UNCHANGED pipe
WriteByte == pipe' = [pipe EXCEPT ![best] = @ + 1]

Notify ==
  /\ MainAt("notify")
  /\ pipe[best] < PipeCapacity
  /\ WriteByte
  /\ best' = 0
  /\ least' = 0
  /\ mpc' = "check"
  /\ UNCHANGED <<pollsets, closed, wpc, sweep, net, loggedIn, next, connfd, process>>

(***************************************************************************)
(* terminate_after_cleanup wakes and joins one worker after the other.     *)
(***************************************************************************)
NoWake == UNCHANGED pipes
Wake ==
  /\ pipe' = [pipe EXCEPT ![next] = @ + 1]
  /\ closed' = [closed EXCEPT ![next] = TRUE]

WakeWorker ==
  /\ MainAt("cleanup")
  /\ pipe[next] < PipeCapacity
  /\ Wake
  /\ mpc' = "join"
  /\ UNCHANGED <<pollsets, wpc, sweep, net, loggedIn, placing, process>>

JoinWorker ==
  /\ MainAt("join")
  /\ wpc[next] = "done"
  /\ sock' = [f \in Fds |-> sock[f] /\ \A i \in DOMAIN sets[next] : sets[next][i] # f]
  /\ next' = next + 1
  /\ mpc' = IF next = NumWorkers THEN "exited" ELSE "cleanup"
  /\ UNCHANGED <<pollsets, pipes, wpc, sweep, inbox, peer, session, backlog,
                 loggedIn, best, least, connfd, process>>

Contend == LookAtPollset \/ AddToPollset

Main ==
  \/ MainCheck \/ EnterPoll \/ ReadStdin \/ Accept \/ ChoosePollset \/ Notify
  \/ WakeWorker \/ JoinWorker

-----------------------------------------------------------------------------
(* The outside.                                                            *)

(***************************************************************************)
(* SIGINT goes to the main thread, whose poll() fails with EINTR, and so   *)
(* does a write to a full pipe, which is not tried again.                  *)
(***************************************************************************)
Interrupt ==
  /\ Running
  /\ \/ ~sigint /\ mpc # "poll" /\ UNCHANGED <<mpc, best, least, closed>>
     \/ mpc = "poll" /\ mpc' = "check" /\ UNCHANGED <<best, least, closed>>
     \/ /\ mpc = "notify" /\ pipe[best] = PipeCapacity
        /\ mpc' = "check" /\ best' = 0 /\ least' = 0
        /\ UNCHANGED closed
     \/ /\ mpc = "cleanup" /\ pipe[next] = PipeCapacity
        /\ mpc' = "join" /\ closed' = [closed EXCEPT ![next] = TRUE]
        /\ UNCHANGED <<best, least>>
  /\ sigint' = TRUE
  /\ UNCHANGED <<pollsets, pipe, wpc, sweep, net, loggedIn, next, connfd, stdin, killed>>

Type ==
  /\ Running
  /\ stdin = "quiet"
  /\ stdin' \in StdinEvents
  /\ UNCHANGED <<pollsets, pipes, wpc, sweep, net, loggedIn, mpc, placing, sigint,
                 killed>>

Connect ==
  /\ Running
  /\ backlog < MaxBacklog
  /\ backlog' = backlog + 1
  /\ UNCHANGED <<pollsets, pipes, wpc, sweep, sock, inbox, peer, session, loggedIn,
                 mpc, placing, process>>

Client(f, in, p) ==
  /\ Running
  /\ sock[f]
  /\ peer[f] = "here"
  /\ inbox' = [inbox EXCEPT ![f] = in]
  /\ peer' = [peer EXCEPT ![f] = p]
  /\ UNCHANGED <<pollsets, pipes, wpc, sweep, sock, session, backlog, loggedIn,
                 mpc, placing, process>>

StartRequest(f) == inbox[f] = "empty" /\ Client(f, "part", "here")
FinishRequest(f) == inbox[f] = "part" /\ Client(f, "request", "here")
Disconnect(f) == \E p \in {"gone", "reset"} : Client(f, inbox[f], p)

Outside ==
  \/ Interrupt \/ Type \/ Connect
  \/ \E f \in Fds : StartRequest(f) \/ FinishRequest(f) \/ Disconnect(f)

(***************************************************************************)
(* The process has returned from main, or was killed.                      *)
(***************************************************************************)
Ended == ~Running /\ UNCHANGED vars

Next == Outside \/ Main \/ Contend \/ (\E w \in Workers : Worker(w)) \/ Ended

Spec == Init /\ [][Next]_vars

(***************************************************************************)
(* Every thread goes on when it can, the main thread gets the mutex of a   *)
(* poll set that is free again and again, and a client that has begun a    *)
(* request sends the rest of it.                                           *)
(***************************************************************************)
Fairness ==
  /\ WF_vars(Main) /\ SF_vars(Contend)
  /\ \A w \in Workers : WF_vars(Worker(w))
  /\ \A f \in Fds : WF_vars(FinishRequest(f))

FairSpec == Spec /\ Fairness

-----------------------------------------------------------------------------
(* Correctness.                                                            *)

(***************************************************************************)
(* Is entry i of w on its way out, its descriptor closed already?          *)
(***************************************************************************)
Leaving(w, i) == wpc[w] = "unlink" /\ at[w] = i

(***************************************************************************)
(* active_users stays aligned with the poll set through every swap: the    *)
(* user next to a connection is the one who logged in on it, and logged_in *)
(* is set for exactly those users.                                         *)
(***************************************************************************)
ActiveUsersFollowConnections ==
  /\ \A w \in Workers : \A i \in DOMAIN sets[w] :
       ~Leaving(w, i) => actives[w][i] = session[sets[w][i]]
  /\ \A u \in Users : loggedIn[u] <=> \E f \in Fds : session[f] = u

(***************************************************************************)
(* An open connection has exactly one place: the main thread is about to   *)
(* place it, or one entry of one poll set holds it.  None is leaked, none  *)
(* is served by two workers, although a number is used again while the     *)
(* entry that had it before is still being removed.                        *)
(***************************************************************************)
Places(f) == {p \in Workers \X (1..ClientsPerThread) :
                /\ p[2] \in DOMAIN sets[p[1]]
                /\ sets[p[1]][p[2]] = f
                /\ ~Leaving(p[1], p[2])}

ConnectionsHaveOnePlace ==
  mpc \notin {"cleanup", "join", "exited"} =>
    \A f \in Fds :
      Cardinality(Places(f)) + (IF connfd = f THEN 1 ELSE 0) = IF sock[f] THEN 1 ELSE 0

IndexStaysValid ==
  \A w \in Workers :
    wpc[w] \in {"handle", "close", "unlink"} =>
      at[w] \in DOMAIN sets[w] /\ sets[w][at[w]] = fd[w]

RoomIsStillThere == mpc = "add" => Size(best) < ClientsPerThread

WorkersAreTold ==
  \A w \in Workers :
    wpc[w] = "poll" /\ local[w] # sets[w] =>
      pipe[w] > 0 \/ (mpc = "notify" /\ best = w)

(***************************************************************************)
(* What a thread found under the mutex of a poll set still holds when it   *)
(* has released the mutex and uses it: the index a handler or a removal    *)
(* works on is that of the connection it serves, and the room that         *)
(* find_suitable_pollset saw is there when add_to_pollset comes, so that   *)
(* no accepted connection is thrown away.  And where the copy of a poll    *)
(* set that a worker sleeps on is out of date, its pipe has a byte, or the *)
(* main thread is about to write one: no connection waits unseen.          *)
(***************************************************************************)
ChecksStillHold == TypeOK /\ IndexStaysValid /\ RoomIsStillThere /\ WorkersAreTold

(***************************************************************************)
(* A request that has arrived is read, by the worker that was told of its  *)
(* connection, unless the server stops or has no room for the connection.  *)
(***************************************************************************)
Stopping == sigint \/ killed
RequestsAreRead ==
  \A f \in Fds :
    sock[f] /\ inbox[f] = "request" /\ peer[f] = "here" ~>
      inbox[f] = "empty" \/ Stopping \/ connfd = f

(***************************************************************************)
(* A connection whose client is gone is closed.                            *)
(***************************************************************************)
GoneClientsAreClosed ==
  \A f \in Fds : sock[f] /\ peer[f] # "here" ~> ~sock[f] \/ Stopping \/ connfd = f

(***************************************************************************)
(* Once the main thread cleans up, all threads end, unless a worker has    *)
(* seen sigint_received and ended with its pipe full: then the main thread *)
(* never returns from write().                                             *)
(***************************************************************************)
StuckOnPipe == mpc = "cleanup" /\ pipe[next] = PipeCapacity /\ wpc[next] = "done"
CleanupEnds == mpc = "cleanup" ~> mpc = "exited" \/ killed \/ StuckOnPipe

(***************************************************************************)
(* A connection finds a place unless every poll set is full.               *)
(***************************************************************************)
ConnectionsArePlaced ==
  mpc = "scan" ~> \/ mpc # "scan" \/ killed
                  \/ \A w \in Workers : ~HasRoom(w)

(***************************************************************************)
(* 2021312344_pa3.md section 8: the main thread notices sigint_received    *)
(* and ends.                                                               *)
(***************************************************************************)
InterruptEndsServer == sigint ~> mpc = "exited" \/ killed
=============================================================================
