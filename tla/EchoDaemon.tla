----------------------------- MODULE EchoDaemon -----------------------------
(***************************************************************************)
(* The echo daemon of week 14 (src/week14/2021312344-w14.c): instances     *)
(* that start, find out from the PID file whether another one runs, tell   *)
(* the process that launched them how it went, serve clients, and stop on  *)
(* a signal or are killed.                                                 *)
(*                                                                         *)
(* The PID file is a name for an inode: whoever opened an inode keeps it   *)
(* after the name has been removed or given to another one.  Every system  *)
(* call on it is a step of its own.                                        *)
(***************************************************************************)
EXTENDS Naturals, FiniteSets, Sequences

CONSTANTS Pids,      \* process ids, of daemons and of unrelated processes
          Clients,
          Extra,     \* bound: clients that come only while one instance runs
          Inodes,    \* bound: enough for all that are linked or open at once
          NoPid, NoFile

ASSUME DaemonAssumption ==
  /\ NoPid \notin Pids
  /\ NoFile \notin Inodes
  /\ Extra \subseteq Clients
  /\ IsFiniteSet(Pids) /\ IsFiniteSet(Inodes)
  /\ Cardinality(Inodes) > Cardinality(Pids)

VARIABLES
  pc,          \* where the main thread of a daemon is, "none": no such process
  strangers,   \* process ids in use by unrelated processes
  parent,      \* the process that waits for the daemon's report
  report,      \* the byte in the pipe to it
  file,        \* the inode PID_FILE names
  content,     \* the process id an inode holds, NoPid: it is empty
  opened,      \* the inode a daemon has open
  seen,        \* existing_pid of a daemon
  cleanup,     \* remove_pid_file is registered with atexit
  stop,        \* stop_requested
  listening,   \* listen_fd is open
  client,      \* where a client and the thread that serves it are
  daemon,      \* the daemon a client is connected to
  waiting,     \* the client has sent something and waits for the echo
  queue,       \* the connections nobody has accepted yet, oldest first
  overlapped   \* history: two instances have tested and written at once

pidFile == <<file, content, opened, seen>>
launch == <<parent, report>>
clientVars == <<client, daemon, waiting, queue>>

vars == <<pc, strangers, launch, pidFile, cleanup, stop, listening, clientVars,
          overlapped>>

(***************************************************************************)
(* From the test of the PID file to the end of the write.                  *)
(***************************************************************************)
Window == {"scan", "probe", "remove", "open", "write"}
Serving == {"loop", "call", "accept", "warn"}
Labels == {"none", "forked", "test", "bind", "report", "fail", "abort", "exit",
           "dying"}
            \cup Window \cup Serving

ClientLabels == {"away", "queued", "read", "blocked", "write", "left"}

TypeOK ==
  /\ pc \in [Pids -> Labels]
  /\ strangers \subseteq Pids
  /\ parent \in [Pids -> {"none", "waiting", "success", "failure"}]
  /\ report \in [Pids -> {"", "0", "1"}]
  /\ file \in Inodes \cup {NoFile}
  /\ content \in [Inodes -> Pids \cup {NoPid}]
  /\ opened \in [Pids -> Inodes \cup {NoFile}]
  /\ seen \in [Pids -> Pids \cup {NoPid}]
  /\ cleanup \in [Pids -> BOOLEAN]
  /\ stop \in [Pids -> BOOLEAN]
  /\ listening \in [Pids -> BOOLEAN]
  /\ client \in [Clients -> ClientLabels]
  /\ daemon \in [Clients -> Pids \cup {NoPid}]
  /\ waiting \in [Clients -> BOOLEAN]
  /\ queue \in Seq(Clients)
  /\ overlapped \in BOOLEAN

Init ==
  /\ pc = [p \in Pids |-> "none"]
  /\ strangers = {}
  /\ parent = [p \in Pids |-> "none"]
  /\ report = [p \in Pids |-> ""]
  /\ file = NoFile
  /\ content = [i \in Inodes |-> NoPid]
  /\ opened = [p \in Pids |-> NoFile]
  /\ seen = [p \in Pids |-> NoPid]
  /\ cleanup = [p \in Pids |-> FALSE]
  /\ stop = [p \in Pids |-> FALSE]
  /\ listening = [p \in Pids |-> FALSE]
  /\ client = [c \in Clients |-> "away"]
  /\ daemon = [c \in Clients |-> NoPid]
  /\ waiting = [c \in Clients |-> FALSE]
  /\ queue = <<>>
  /\ overlapped = FALSE

Goto(p, l) == pc' = [pc EXCEPT ![p] = l]
Step(p, from, to) == pc[p] = from /\ Goto(p, to)

(***************************************************************************)
(* What kill(p, 0) finds.                                                  *)
(***************************************************************************)
Alive(p) == pc[p] # "none" \/ p \in strangers

Others(p) == Pids \ {p}
Alone(p) == \A q \in Others(p) : pc[q] = "none"

ClientsOf(p) == {c \in Clients : daemon[c] = p}

(***************************************************************************)
(* The connections of the clients in set are closed by the daemon's side.  *)
(***************************************************************************)
Disconnect(set) ==
  /\ client' = [c \in Clients |-> IF c \in set THEN "away" ELSE client[c]]
  /\ daemon' = [c \in Clients |-> IF c \in set THEN NoPid ELSE daemon[c]]
  /\ waiting' = [c \in Clients |-> c \notin set /\ waiting[c]]

(***************************************************************************)
(* The listening socket of p is closed, and its backlog with it.  There is *)
(* only one: all instances use one port.                                   *)
(***************************************************************************)
CloseBacklog(p) == queue' = IF listening[p] THEN <<>> ELSE queue

-----------------------------------------------------------------------------
(* Launch.                                                                 *)

(***************************************************************************)
(* daemonize: pipe, fork, setsid, fork.  The parent waits at the pipe.     *)
(***************************************************************************)
Launch(p) ==
  /\ ~Alive(p)
  /\ parent[p] # "waiting"
  /\ Alone(p) \/ \A c \in Extra : client[c] = "away"
  /\ Goto(p, "forked")
  /\ parent' = [parent EXCEPT ![p] = "waiting"]
  /\ report' = [report EXCEPT ![p] = ""]
  /\ UNCHANGED <<strangers, pidFile, cleanup, stop, listening, clientVars,
                 overlapped>>

(***************************************************************************)
(* An inode without a name that nobody has open is given back, empty.      *)
(***************************************************************************)
Unused(i) == i # file' /\ \A p \in Pids : opened'[p] # i
Keep(contents) ==
  content' = [i \in Inodes |-> IF Unused(i) THEN NoPid ELSE contents[i]]

(***************************************************************************)
(* The process ends: the kernel closes what it had open.                   *)
(***************************************************************************)
Gone(p) ==
  /\ Goto(p, "none")
  /\ UNCHANGED file
  /\ opened' = [opened EXCEPT ![p] = NoFile]
  /\ seen' = [seen EXCEPT ![p] = NoPid]
  /\ cleanup' = [cleanup EXCEPT ![p] = FALSE]
  /\ stop' = [stop EXCEPT ![p] = FALSE]
  /\ listening' = [listening EXCEPT ![p] = FALSE]
  /\ Keep(content)
  /\ Disconnect(ClientsOf(p))
  /\ CloseBacklog(p)

(***************************************************************************)
(* The second fork, dup2 or chdir fails: _exit runs no atexit function.    *)
(***************************************************************************)
DaemonizeFails(p) ==
  /\ pc[p] = "forked"
  /\ report' = [report EXCEPT ![p] = "0"]
  /\ Gone(p)
  /\ UNCHANGED parent
  /\ UNCHANGED <<strangers, overlapped>>

InstallHandlers(p) ==
  /\ Step(p, "forked", "test")
  /\ UNCHANGED <<strangers, launch, pidFile, cleanup, stop, listening, clientVars,
                 overlapped>>

(***************************************************************************)
(* The parent's read returns the report, or nothing once no process has    *)
(* the other end of the pipe open any more.                                *)
(***************************************************************************)
KeepsOwnEnd(p) == FALSE
EndOfPipe(p) == pc[p] = "none"

AnyByte(p) == report[p] # ""
Success(p) == report[p] = "1"

ParentExits(p) ==
  /\ parent[p] = "waiting"
  /\ report[p] # "" \/ EndOfPipe(p)
  /\ parent' = [parent EXCEPT ![p] = IF Success(p) THEN "success" ELSE "failure"]
  /\ report' = [report EXCEPT ![p] = ""]
  /\ UNCHANGED <<pc, strangers, pidFile, cleanup, stop, listening, clientVars,
                 overlapped>>

-----------------------------------------------------------------------------
(* The PID file.                                                           *)

(***************************************************************************)
(* fopen.                                                                  *)
(***************************************************************************)
OpenToRead(p) ==
  /\ pc[p] = "test"
  /\ opened' = [opened EXCEPT ![p] = file]
  /\ Goto(p, IF file = NoFile THEN "open" ELSE "scan")
  /\ overlapped' = (overlapped \/ \E q \in Others(p) : pc[q] \in Window)
  /\ UNCHANGED <<strangers, launch, file, content, seen, cleanup, stop, listening,
                 clientVars>>

(***************************************************************************)
(* fscanf, fclose: an empty file is as good as a stale one.                *)
(***************************************************************************)
Scan(p) ==
  /\ pc[p] = "scan"
  /\ seen' = [seen EXCEPT ![p] = content[opened[p]]]
  /\ opened' = [opened EXCEPT ![p] = NoFile]
  /\ Goto(p, IF content[opened[p]] = NoPid THEN "remove" ELSE "probe")
  /\ UNCHANGED file
  /\ Keep(content)
  /\ UNCHANGED <<strangers, launch, cleanup, stop, listening,
                 clientVars, overlapped>>

(***************************************************************************)
(* kill(pid, 0): whoever has that process id counts.                       *)
(***************************************************************************)
NobodyLives(p) == FALSE
SomebodyLives(p) == Alive(seen[p])

Probe(p) ==
  /\ pc[p] = "probe"
  /\ Goto(p, IF SomebodyLives(p) THEN "fail" ELSE "remove")
  /\ seen' = [seen EXCEPT ![p] = NoPid]
  /\ UNCHANGED <<strangers, launch, file, content, opened, cleanup, stop, listening,
                 clientVars, overlapped>>

(***************************************************************************)
(* unlink(PID_FILE), whatever inode it names by now.                       *)
(***************************************************************************)
Remove(p) ==
  /\ Step(p, "remove", "open")
  /\ file' = NoFile
  /\ UNCHANGED opened
  /\ Keep(content)
  /\ UNCHANGED <<strangers, launch, seen, cleanup, stop, listening,
                 clientVars, overlapped>>

FreeInode == CHOOSE i \in Inodes : i # file /\ \A p \in Pids : opened[p] # i
Target == IF file = NoFile THEN FreeInode ELSE file

(***************************************************************************)
(* open with O_CREAT and O_TRUNC: a file that is there is emptied.         *)
(***************************************************************************)
OpenToWrite(p) ==
  /\ Step(p, "open", "write")
  /\ file' = Target
  /\ content' = [content EXCEPT ![Target] = NoPid]
  /\ opened' = [opened EXCEPT ![p] = Target]
  /\ UNCHANGED <<strangers, launch, seen, cleanup, stop, listening, clientVars,
                 overlapped>>

(***************************************************************************)
(* write, close and atexit; or the write fails, and then nothing removes   *)
(* the file.                                                               *)
(***************************************************************************)
WritePid(p) ==
  /\ pc[p] = "write"
  /\ opened' = [opened EXCEPT ![p] = NoFile]
  /\ UNCHANGED file
  /\ \/ /\ Keep([content EXCEPT ![opened[p]] = p])
        /\ cleanup' = [cleanup EXCEPT ![p] = TRUE]
        /\ Goto(p, "bind")
     \/ /\ Keep(content)
        /\ Goto(p, "fail")
        /\ UNCHANGED cleanup
  /\ UNCHANGED <<strangers, launch, seen, stop, listening, clientVars,
                 overlapped>>

-----------------------------------------------------------------------------
(* Service.                                                                *)

PortFree == \A q \in Pids : ~listening[q]

(***************************************************************************)
(* create_listening_socket: all instances use one port, which an unrelated *)
(* process may have as well.                                               *)
(***************************************************************************)
Listen(p) ==
  /\ pc[p] = "bind"
  /\ \/ /\ PortFree
        /\ listening' = [listening EXCEPT ![p] = TRUE]
        /\ Goto(p, "report")
     \/ /\ Goto(p, "fail")
        /\ UNCHANGED listening
  /\ UNCHANGED <<strangers, launch, pidFile, cleanup, stop, clientVars, overlapped>>

(***************************************************************************)
(* notify_parent, and exit_with_syslog_error.                              *)
(***************************************************************************)
Report(p) ==
  /\ \/ Step(p, "report", "loop") /\ report' = [report EXCEPT ![p] = "1"]
     \/ Step(p, "fail", "abort") /\ report' = [report EXCEPT ![p] = "0"]
  /\ UNCHANGED <<strangers, parent, pidFile, cleanup, stop, listening, clientVars,
                 overlapped>>

(***************************************************************************)
(* The listening socket is closed, with the connections nobody has         *)
(* accepted.                                                               *)
(***************************************************************************)
JustSetFlag(p) == UNCHANGED <<listening, clientVars>>
CloseListener(p) ==
  /\ listening' = [listening EXCEPT ![p] = FALSE]
  /\ Disconnect({c \in ClientsOf(p) : client[c] = "queued"})
  /\ CloseBacklog(p)

(***************************************************************************)
(* accept_clients tests stop_requested and then calls accept, which fails  *)
(* if listen_fd has been closed in between.  At the end main closes        *)
(* listen_fd, if the handler has not.                                      *)
(***************************************************************************)
TestStop(p) ==
  /\ pc[p] = "loop"
  /\ IF stop[p]
     THEN Goto(p, "exit") /\ CloseListener(p)
     ELSE Goto(p, "call") /\ UNCHANGED <<listening, clientVars>>
  /\ UNCHANGED <<strangers, launch, pidFile, cleanup, stop, overlapped>>

CallAccept(p) ==
  /\ pc[p] = "call"
  /\ Goto(p, IF listening[p] THEN "accept" ELSE "loop")
  /\ UNCHANGED <<strangers, launch, pidFile, cleanup, stop, listening, clientVars,
                 overlapped>>

(***************************************************************************)
(* accept has no descriptor or no memory to give (EMFILE, ENFILE, ENOMEM), *)
(* which it may find before it waits for a client: the client, if there is *)
(* one, stays in the backlog, and the daemon logs a warning and calls it   *)
(* again.                                                                  *)
(***************************************************************************)
AcceptFails(p) ==
  /\ Step(p, "accept", "warn")
  /\ UNCHANGED <<strangers, launch, pidFile, cleanup, stop, listening, clientVars,
                 overlapped>>

Warn(p) ==
  /\ Step(p, "warn", "loop")
  /\ UNCHANGED <<strangers, launch, pidFile, cleanup, stop, listening, clientVars,
                 overlapped>>

(***************************************************************************)
(* The client that has waited longest gets a thread of its own, or is      *)
(* closed when there is none to be had.                                    *)
(***************************************************************************)
LeaveOpen(c) == client' = [client EXCEPT ![c] = "stuck"] /\ UNCHANGED <<daemon, waiting>>
CloseClient(c) == Disconnect({c})

NoThread(c) == CloseClient(c)
Thread(c) ==
  /\ client' = [client EXCEPT ![c] = "read"]
  /\ UNCHANGED <<daemon, waiting>>

Accept(p) ==
  /\ Step(p, "accept", "loop")
  /\ queue # <<>>
  /\ queue' = Tail(queue)
  /\ Thread(Head(queue)) \/ NoThread(Head(queue))
  /\ UNCHANGED <<strangers, launch, pidFile, cleanup, stop, listening, overlapped>>

(***************************************************************************)
(* handle_client: what was read is written back.  There may be room for it *)
(* between the daemon and the client, or write waits until the client has  *)
(* read enough.                                                            *)
(***************************************************************************)
ReadChunk(c) ==
  /\ client[c] = "read"
  /\ waiting[c]
  /\ \E room \in {"write", "blocked"} : client' = [client EXCEPT ![c] = room]
  /\ UNCHANGED <<pc, strangers, launch, pidFile, cleanup, stop, listening, daemon,
                 waiting, queue, overlapped>>

(***************************************************************************)
(* The thread ends with the end of the stream, with a write that fails     *)
(* (SIGPIPE is ignored), or when it finds stop_requested set.              *)
(***************************************************************************)
WriteAll(c) ==
  /\ client[c] = "write"
  /\ IF stop[daemon[c]]
     THEN CloseClient(c)
     ELSE /\ client' = [client EXCEPT ![c] = "read"]
          /\ waiting' = [waiting EXCEPT ![c] = FALSE]
          /\ UNCHANGED daemon
  /\ UNCHANGED <<pc, strangers, launch, pidFile, cleanup, stop, listening,
                 queue, overlapped>>

(***************************************************************************)
(* The client has closed its end: read returns 0, write fails.             *)
(***************************************************************************)
ThreadEnds(c) ==
  /\ client[c] = "left"
  /\ CloseClient(c)
  /\ UNCHANGED <<pc, strangers, launch, pidFile, cleanup, stop, listening,
                 queue, overlapped>>

-----------------------------------------------------------------------------
(* Stop and exit.                                                          *)

(***************************************************************************)
(* The exit status of a parent is of interest while its daemon lives.      *)
(***************************************************************************)
ForgetParent(p) ==
  /\ parent' = [parent EXCEPT ![p] = IF @ = "waiting" THEN @ ELSE "none"]
  /\ UNCHANGED report

(***************************************************************************)
(* handle_stop_signal: the flag is set and the socket closed; a blocked    *)
(* accept returns.                                                         *)
(***************************************************************************)
StopSignal(p) ==
  /\ pc[p] \notin {"none", "forked"}
  /\ ~stop[p]
  /\ stop' = [stop EXCEPT ![p] = TRUE]
  /\ CloseListener(p)
  /\ Goto(p, IF pc[p] = "accept" THEN "loop" ELSE pc[p])
  /\ UNCHANGED <<strangers, launch, pidFile, cleanup, overlapped>>

(***************************************************************************)
(* SIGKILL, or a signal before the handlers are installed.                 *)
(***************************************************************************)
Crash(p) ==
  /\ pc[p] # "none"
  /\ Gone(p)
  /\ ForgetParent(p)
  /\ UNCHANGED <<strangers, overlapped>>

(***************************************************************************)
(* exit: remove_pid_file, if it was registered; then the process is gone.  *)
(***************************************************************************)
RemovePidFile(p) == file' = IF cleanup[p] THEN NoFile ELSE file

ExitHandlers(p) ==
  /\ pc[p] \in {"exit", "abort"}
  /\ Goto(p, "dying")
  /\ RemovePidFile(p)
  /\ UNCHANGED opened
  /\ Keep(content)
  /\ UNCHANGED <<strangers, launch, seen, cleanup, stop, listening,
                 clientVars, overlapped>>

Die(p) ==
  /\ pc[p] = "dying"
  /\ Gone(p)
  /\ ForgetParent(p)
  /\ UNCHANGED <<strangers, overlapped>>

-----------------------------------------------------------------------------
(* The environment.                                                        *)

(***************************************************************************)
(* Process ids are used again, also by processes that are no echo daemon.  *)
(***************************************************************************)
Stranger(p) ==
  /\ pc[p] = "none"
  /\ strangers' = IF p \in strangers THEN strangers \ {p} ELSE strangers \cup {p}
  /\ UNCHANGED <<pc, launch, pidFile, cleanup, stop, listening, clientVars,
                 overlapped>>

Connect(c, p) ==
  /\ client[c] = "away"
  /\ listening[p]
  /\ c \in Extra => Alone(p)
  /\ client' = [client EXCEPT ![c] = "queued"]
  /\ daemon' = [daemon EXCEPT ![c] = p]
  /\ queue' = Append(queue, c)
  /\ UNCHANGED <<pc, strangers, launch, pidFile, cleanup, stop, listening, waiting,
                 overlapped>>

Send(c) ==
  /\ client[c] \in {"queued", "read"}
  /\ ~waiting[c]
  /\ waiting' = [waiting EXCEPT ![c] = TRUE]
  /\ UNCHANGED <<pc, strangers, launch, pidFile, cleanup, stop, listening, client,
                 daemon, queue, overlapped>>

(***************************************************************************)
(* The client reads what has been echoed so far.                           *)
(***************************************************************************)
ReadEcho(c) ==
  /\ client[c] = "blocked"
  /\ client' = [client EXCEPT ![c] = "write"]
  /\ UNCHANGED <<pc, strangers, launch, pidFile, cleanup, stop, listening, daemon,
                 waiting, queue, overlapped>>

Leave(c) ==
  /\ client[c] \in {"read", "blocked", "write"}
  /\ client' = [client EXCEPT ![c] = "left"]
  /\ waiting' = [waiting EXCEPT ![c] = FALSE]
  /\ UNCHANGED <<pc, strangers, launch, pidFile, cleanup, stop, listening, daemon,
                 queue, overlapped>>

-----------------------------------------------------------------------------

Starts(p) ==
  \/ InstallHandlers(p) \/ OpenToRead(p) \/ Scan(p) \/ Probe(p) \/ Remove(p)
  \/ OpenToWrite(p) \/ WritePid(p) \/ Listen(p) \/ Report(p)

Serves(p) == TestStop(p) \/ CallAccept(p) \/ Accept(p) \/ Warn(p)
Ends(p) == ExitHandlers(p) \/ Die(p)
Daemon(p) == Starts(p) \/ Serves(p) \/ Ends(p)

ThreadOf(c) == ReadChunk(c) \/ WriteAll(c) \/ ThreadEnds(c)

Next ==
  \/ \E p \in Pids : \/ Daemon(p) \/ ParentExits(p)
                      \/ Launch(p) \/ DaemonizeFails(p) \/ AcceptFails(p)
                      \/ StopSignal(p) \/ Crash(p) \/ Stranger(p)
  \/ \E c \in Clients : \/ ThreadOf(c) \/ Send(c) \/ ReadEcho(c) \/ Leave(c)
                         \/ \E p \in Pids : Connect(c, p)

Spec == Init /\ [][Next]_vars

(***************************************************************************)
(* A process or thread that can go on does.  Nothing is promised of the    *)
(* clients, nor that accept ever fails or succeeds.                        *)
(***************************************************************************)
Fairness ==
  /\ \A p \in Pids : WF_pc(Daemon(p)) /\ WF_parent(ParentExits(p))
  /\ \A c \in Clients : WF_client(ThreadOf(c))

FairSpec == Spec /\ Fairness

-----------------------------------------------------------------------------
(* Correctness.                                                            *)

(***************************************************************************)
(* A daemon that has written its process id and not yet removed the file.  *)
(***************************************************************************)
Installed(p) == cleanup[p] /\ pc[p] # "dying"

(***************************************************************************)
(* As long as no two instances test and write the PID file at the same     *)
(* time, the file names the daemon that runs, so that there is only one,   *)
(* whatever crashed before, left a stale or an empty file behind, or uses  *)
(* an old process id again.  Nothing in the code keeps two instances from  *)
(* doing that: then the file may be lost.                                  *)
(***************************************************************************)
RunningDaemonIsNamed ==
  ~overlapped =>
    \A p \in Pids : Installed(p) => file # NoFile /\ content[file] = p

(***************************************************************************)
(* The exit status of the parent is the truth: success means that the      *)
(* daemon got as far as its accept loop, failure that it never will.       *)
(***************************************************************************)
ParentTellsTheTruth ==
  \A p \in Pids :
    /\ parent[p] = "success" => pc[p] \in Serving \cup {"exit", "dying", "none"}
    /\ parent[p] = "failure" => pc[p] \in {"abort", "dying", "none"}

(***************************************************************************)
(* Whoever launches a daemon is told, also if the daemon dies first.       *)
(***************************************************************************)
ParentIsTold == \A p \in Pids : parent[p] = "waiting" ~> parent[p] # "waiting"

(***************************************************************************)
(* A stop signal ends the daemon wherever it meets it, also between the    *)
(* test of stop_requested and accept.                                      *)
(***************************************************************************)
StopEnds == \A p \in Pids : stop[p] ~> ~stop[p]

(***************************************************************************)
(* What a client sends is echoed, or its connection ends, whatever the     *)
(* other clients do: only a client that never reads again, or one that is  *)
(* in the backlog while accept fails again and again, waits for ever.      *)
(***************************************************************************)
NeverReads(c) == client[c] = "blocked"
Refused(c) == client[c] = "queued" /\ pc[daemon[c]] = "warn"

SendersAreServed ==
  \A c \in Clients :
    \/ waiting[c] ~> ~waiting[c]
    \/ <>[]NeverReads(c)
    \/ []<>Refused(c)
=============================================================================
