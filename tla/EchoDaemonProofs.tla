-------------------------- MODULE EchoDaemonProofs --------------------------
(***************************************************************************)
(* Proofs about EchoDaemon, for any number of process ids and clients: the *)
(* PID file names the daemon that runs unless two instances have           *)
(* overlapped, and the process that launched a daemon exits with the       *)
(* truth.                                                                  *)
(***************************************************************************)
EXTENDS EchoDaemon, FiniteSetTheorems, FunctionTheorems, TLAPS

(***************************************************************************)
(* What a daemon has at each point of its start: the file it reads or      *)
(* writes is open, the process id it has read is one, and remove_pid_file  *)
(* is not registered before the file is written.                           *)
(***************************************************************************)
HoldsFile == {"scan", "write"}
Early == {"none", "forked", "test"} \cup Window

StartInv ==
  \A p \in Pids :
    /\ IF pc[p] \in HoldsFile THEN opened[p] \in Inodes ELSE opened[p] = NoFile
    /\ pc[p] = "probe" => seen[p] \in Pids
    /\ cleanup[p] => pc[p] \notin Early

(***************************************************************************)
(* While no two instances have overlapped: one at most is in the window;   *)
(* if a daemon is installed the file is its own, an instance that reads    *)
(* the file finds that daemon there, and none goes on to remove or write   *)
(* the file; and an instance that writes has the file open that the name   *)
(* stands for.                                                             *)
(***************************************************************************)
OneInWindow ==
  \A p, q \in Pids : pc[p] \in Window /\ pc[q] \in Window => p = q

FindsIt(q, p) ==
  /\ pc[q] \notin {"remove", "open", "write"}
  /\ pc[q] = "scan" => opened[q] = file
  /\ pc[q] = "probe" => seen[q] = p

InstalledOwns ==
  \A p \in Pids : Installed(p) =>
    /\ file \in Inodes
    /\ content[file] = p
    /\ \A q \in Pids : FindsIt(q, p)

WritesTheFile == \A p \in Pids : pc[p] = "write" => opened[p] = file

FileInv == ~overlapped => OneInWindow /\ InstalledOwns /\ WritesTheFile

(***************************************************************************)
(* A report is written once, by a daemon that has got as far as it says,   *)
(* and the parent waits until then.                                        *)
(***************************************************************************)
Undecided == {"forked", "test", "bind", "report", "fail"} \cup Window
Succeeded == Serving \cup {"exit", "dying", "none"}
Failed == {"abort", "dying", "none"}

ReportInv ==
  \A p \in Pids :
    /\ pc[p] \in Undecided => parent[p] = "waiting" /\ report[p] = ""
    /\ report[p] = "1" => pc[p] \in Succeeded
    /\ report[p] = "0" => pc[p] \in Failed
    /\ parent[p] = "success" => pc[p] \in Succeeded
    /\ parent[p] = "failure" => pc[p] \in Failed

DaemonInv == TypeOK /\ StartInv

(***************************************************************************)
(* There is always an inode for a new file: fewer are open than there are. *)
(***************************************************************************)
LEMMA InodeIsFree ==
  ASSUME TypeOK, file = NoFile
  PROVE  /\ FreeInode \in Inodes
         /\ FreeInode # file
         /\ \A p \in Pids : opened[p] # FreeInode
<1> DEFINE Used == {opened[p] : p \in Pids}
<1>1. opened \in Surjection(Pids, Used)
  <2>1. opened \in [Pids -> Inodes \cup {NoFile}]
    BY DEF TypeOK
  <2>2. /\ opened \in [Pids -> Used]
        /\ \A t \in Used : \E p \in Pids : opened[p] = t
    BY <2>1 <2> HIDE DEF Used
  <2> QED BY <2>2, Fun_IsSurj
<1>2. IsFiniteSet(Used) /\ Cardinality(Used) <= Cardinality(Pids)
  BY <1>1, FS_Surjection, DaemonAssumption
<1>3. /\ Cardinality(Pids) \in Nat
      /\ Cardinality(Inodes) \in Nat
      /\ Cardinality(Used) \in Nat
  BY <1>2, FS_CardinalityType, DaemonAssumption
<1>4. ~(Inodes \subseteq Used)
  <2>1. SUFFICES ASSUME Inodes \subseteq Used PROVE FALSE
    OBVIOUS
  <2>2. Cardinality(Inodes) <= Cardinality(Used)
    BY <2>1, <1>2, FS_Subset
  <2> QED BY <2>2, <1>2, <1>3, DaemonAssumption
<1>5. PICK i \in Inodes : i \notin Used
  BY <1>4
<1>6. i # file /\ \A p \in Pids : opened[p] # i
  BY <1>5, DaemonAssumption
<1> QED BY <1>6 DEF FreeInode

(***************************************************************************)
(* Closing connections keeps the types.                                    *)
(***************************************************************************)
LEMMA ConnectionsClose ==
  ASSUME TypeOK, NEW set, Disconnect(set)
  PROVE  /\ client' \in [Clients -> ClientLabels]
         /\ daemon' \in [Clients -> Pids \cup {NoPid}]
         /\ waiting' \in [Clients -> BOOLEAN]
BY DEF Disconnect, TypeOK, ClientLabels

LEMMA BacklogCloses ==
  ASSUME TypeOK, NEW p \in Pids, CloseBacklog(p)
  PROVE  queue' \in Seq(Clients)
<1>1. CASE listening[p]
  BY <1>1 DEF CloseBacklog
<1>2. CASE ~listening[p]
  BY <1>2 DEF CloseBacklog, TypeOK
<1> QED BY <1>1, <1>2

(***************************************************************************)
(* Every variable keeps its type.                                          *)
(***************************************************************************)
LEMMA NextKeepsTypes == TypeOK /\ StartInv /\ [Next]_vars => TypeOK'
<1> SUFFICES ASSUME TypeOK, StartInv
             PROVE  [Next]_vars => TypeOK'
  OBVIOUS
<1>1. ASSUME NEW p \in Pids, Launch(p) PROVE TypeOK'
  BY <1>1
  DEF Launch, Goto, Alive, pidFile, clientVars, TypeOK, Labels, ClientLabels,
      Window, Serving
<1>2. ASSUME NEW p \in Pids, DaemonizeFails(p) PROVE TypeOK'
  BY <1>2, BacklogCloses
  DEF DaemonizeFails, Gone, Goto, Keep, Unused, Disconnect, ClientsOf, TypeOK,
      Labels, ClientLabels, Window, Serving
<1>3. ASSUME NEW p \in Pids, InstallHandlers(p) PROVE TypeOK'
  BY <1>3
  DEF InstallHandlers, Step, Goto, launch, pidFile, clientVars, TypeOK, Labels,
      ClientLabels, Window, Serving
<1>4. ASSUME NEW p \in Pids, ParentExits(p) PROVE TypeOK'
  BY <1>4
  DEF ParentExits, Success, EndOfPipe, pidFile, clientVars, TypeOK, Labels,
      ClientLabels, Window, Serving
<1>5. ASSUME NEW p \in Pids, OpenToRead(p) PROVE TypeOK'
  BY <1>5
  DEF OpenToRead, Goto, launch, clientVars, TypeOK, Labels, ClientLabels,
      Window, Serving
<1>6. ASSUME NEW p \in Pids, Scan(p) PROVE TypeOK'
  BY <1>6
  DEF Scan, Goto, Keep, Unused, launch, clientVars, StartInv, HoldsFile,
      TypeOK, Labels, ClientLabels, Window, Serving
<1>7. ASSUME NEW p \in Pids, Probe(p) PROVE TypeOK'
  BY <1>7
  DEF Probe, Goto, SomebodyLives, Alive, launch, clientVars, TypeOK, Labels,
      ClientLabels, Window, Serving
<1>8. ASSUME NEW p \in Pids, Remove(p) PROVE TypeOK'
  BY <1>8
  DEF Remove, Step, Goto, Keep, Unused, launch, clientVars, TypeOK, Labels,
      ClientLabels, Window, Serving
<1>9. ASSUME NEW p \in Pids, OpenToWrite(p) PROVE TypeOK'
  BY <1>9, InodeIsFree
  DEF OpenToWrite, Step, Goto, Target, launch, clientVars, TypeOK, Labels,
      ClientLabels, Window, Serving
<1>10. ASSUME NEW p \in Pids, WritePid(p) PROVE TypeOK'
  <2>1. content' \in [Inodes -> Pids \cup {NoPid}]
    BY <1>10 DEF WritePid, Keep, TypeOK
  <2>2. cleanup' \in [Pids -> BOOLEAN] /\ pc' \in [Pids -> Labels]
    BY <1>10 DEF WritePid, Goto, TypeOK, Labels
  <2> QED BY <1>10, <2>1, <2>2 DEF WritePid, launch, clientVars, TypeOK
<1>11. ASSUME NEW p \in Pids, Listen(p) PROVE TypeOK'
  BY <1>11
  DEF Listen, Goto, launch, pidFile, clientVars, TypeOK, Labels, ClientLabels,
      Window, Serving
<1>12. ASSUME NEW p \in Pids, Report(p) PROVE TypeOK'
  <2>1. CASE Step(p, "report", "loop") /\ report' = [report EXCEPT ![p] = "1"]
    BY <1>12, <2>1
    DEF Report, Step, Goto, pidFile, clientVars, TypeOK, Labels, ClientLabels,
        Window, Serving
  <2>2. CASE Step(p, "fail", "abort") /\ report' = [report EXCEPT ![p] = "0"]
    BY <1>12, <2>2
    DEF Report, Step, Goto, pidFile, clientVars, TypeOK, Labels, ClientLabels,
        Window, Serving
  <2> QED BY <1>12, <2>1, <2>2 DEF Report
<1>13. ASSUME NEW p \in Pids, TestStop(p) PROVE TypeOK'
  <2>1. \/ Goto(p, "exit") /\ CloseListener(p)
        \/ Goto(p, "call") /\ UNCHANGED <<listening, clientVars>>
    BY <1>13 DEF TestStop
  <2>2. /\ pc' \in [Pids -> Labels]
        /\ listening' \in [Pids -> BOOLEAN]
    BY <2>1 DEF Goto, CloseListener, TypeOK, Labels, Serving
  <2>3. /\ client' \in [Clients -> ClientLabels]
        /\ daemon' \in [Clients -> Pids \cup {NoPid}]
        /\ waiting' \in [Clients -> BOOLEAN]
        /\ queue' \in Seq(Clients)
    BY <2>1, ConnectionsClose, BacklogCloses
    DEF CloseListener, clientVars, TypeOK
  <2> QED BY <1>13, <2>2, <2>3 DEF TestStop, launch, pidFile, TypeOK
<1>14. ASSUME NEW p \in Pids, CallAccept(p) PROVE TypeOK'
  BY <1>14
  DEF CallAccept, Goto, launch, pidFile, clientVars, TypeOK, Labels,
      ClientLabels, Window, Serving
<1>15. ASSUME NEW p \in Pids, Accept(p) PROVE TypeOK'
  <2>1. /\ client' \in [Clients -> ClientLabels]
        /\ daemon' \in [Clients -> Pids \cup {NoPid}]
        /\ waiting' \in [Clients -> BOOLEAN]
    BY <1>15, ConnectionsClose
    DEF Accept, Thread, NoThread, CloseClient, TypeOK, ClientLabels
  <2>2. queue' \in Seq(Clients)
    <3>1. queue \in Seq(Clients) /\ queue # <<>> /\ queue' = Tail(queue)
      BY <1>15 DEF Accept, TypeOK
    <3> QED BY <3>1
  <2> QED
    BY <1>15, <2>1, <2>2
    DEF Accept, Step, Goto, launch, pidFile, TypeOK, Labels, Serving
<1>16. ASSUME NEW p \in Pids, StopSignal(p) PROVE TypeOK'
  BY <1>16, BacklogCloses
  DEF StopSignal, Goto, CloseListener, Disconnect, ClientsOf, launch, pidFile,
      TypeOK, Labels, ClientLabels, Window, Serving
<1>17. ASSUME NEW p \in Pids, Crash(p) PROVE TypeOK'
  BY <1>17, BacklogCloses
  DEF Crash, Gone, Goto, ForgetParent, Keep, Unused, Disconnect, ClientsOf,
      TypeOK, Labels, ClientLabels, Window, Serving
<1>18. ASSUME NEW p \in Pids, ExitHandlers(p) PROVE TypeOK'
  BY <1>18
  DEF ExitHandlers, Goto, RemovePidFile, Keep, Unused, launch, clientVars,
      TypeOK, Labels, ClientLabels, Window, Serving
<1>19. ASSUME NEW p \in Pids, Die(p) PROVE TypeOK'
  BY <1>19, BacklogCloses
  DEF Die, Gone, Goto, ForgetParent, Keep, Unused, Disconnect, ClientsOf,
      TypeOK, Labels, ClientLabels, Window, Serving
<1>20. ASSUME NEW p \in Pids, Stranger(p) PROVE TypeOK'
  BY <1>20
  DEF Stranger, launch, pidFile, clientVars, TypeOK, Labels, ClientLabels,
      Window, Serving
<1>21. ASSUME NEW c \in Clients, ReadChunk(c) PROVE TypeOK'
  <2>1. client' \in [Clients -> ClientLabels]
    BY <1>21 DEF ReadChunk, TypeOK, ClientLabels
  <2> QED BY <1>21, <2>1 DEF ReadChunk, launch, pidFile, TypeOK
<1>22. ASSUME NEW c \in Clients, WriteAll(c) PROVE TypeOK'
  <2>1. /\ client' \in [Clients -> ClientLabels]
        /\ daemon' \in [Clients -> Pids \cup {NoPid}]
        /\ waiting' \in [Clients -> BOOLEAN]
    BY <1>22, ConnectionsClose DEF WriteAll, CloseClient, TypeOK, ClientLabels
  <2> QED
    BY <1>22, <2>1 DEF WriteAll, launch, pidFile, TypeOK
<1>23. ASSUME NEW c \in Clients, ThreadEnds(c) PROVE TypeOK'
  BY <1>23
  DEF ThreadEnds, CloseClient, Disconnect, launch, pidFile, TypeOK,
      ClientLabels
<1>24. ASSUME NEW c \in Clients, Send(c) PROVE TypeOK'
  BY <1>24 DEF Send, launch, pidFile, TypeOK, ClientLabels
<1>25. ASSUME NEW c \in Clients, Leave(c) PROVE TypeOK'
  BY <1>25 DEF Leave, launch, pidFile, TypeOK, ClientLabels
<1>26. ASSUME NEW c \in Clients, NEW p \in Pids, Connect(c, p) PROVE TypeOK'
  <2>1. queue' \in Seq(Clients)
    <3>1. queue \in Seq(Clients) /\ queue' = Append(queue, c)
      BY <1>26 DEF Connect, TypeOK
    <3> QED BY <3>1
  <2>2. /\ client' \in [Clients -> ClientLabels]
        /\ daemon' \in [Clients -> Pids \cup {NoPid}]
    BY <1>26 DEF Connect, TypeOK, ClientLabels
  <2> QED BY <1>26, <2>1, <2>2 DEF Connect, launch, pidFile, TypeOK
<1>27. ASSUME NEW p \in Pids, AcceptFails(p) PROVE TypeOK'
  BY <1>27
  DEF AcceptFails, Step, Goto, launch, pidFile, clientVars, TypeOK, Labels,
      ClientLabels, Window, Serving
<1>28. ASSUME NEW p \in Pids, Warn(p) PROVE TypeOK'
  BY <1>28
  DEF Warn, Step, Goto, launch, pidFile, clientVars, TypeOK, Labels,
      ClientLabels, Window, Serving
<1>29. ASSUME NEW c \in Clients, ReadEcho(c) PROVE TypeOK'
  BY <1>29 DEF ReadEcho, launch, pidFile, TypeOK, ClientLabels
<1>30. CASE UNCHANGED vars
  BY <1>30 DEF vars, launch, pidFile, clientVars, TypeOK, ClientLabels
<1> QED
  BY <1>1, <1>2, <1>3, <1>4, <1>5, <1>6, <1>7, <1>8, <1>9, <1>10, <1>11,
     <1>12, <1>13, <1>14, <1>15, <1>16, <1>17, <1>18, <1>19, <1>20, <1>21,
     <1>22, <1>23, <1>24, <1>25, <1>26, <1>27, <1>28, <1>29, <1>30
  DEF Next, Daemon, Starts, Serves, Ends, ThreadOf

(***************************************************************************)
(* What an instance has established at each point of its start.            *)
(***************************************************************************)
LEMMA NextKeepsStart == TypeOK /\ StartInv /\ [Next]_vars => StartInv'
<1> SUFFICES ASSUME TypeOK, StartInv
             PROVE  [Next]_vars => StartInv'
  OBVIOUS
<1>1. ASSUME NEW p \in Pids, Launch(p) PROVE StartInv'
  BY <1>1
  DEF Launch, Goto, Alive, pidFile, clientVars, StartInv, TypeOK, HoldsFile,
      Early, Window
<1>2. ASSUME NEW p \in Pids, DaemonizeFails(p) PROVE StartInv'
  BY <1>2
  DEF DaemonizeFails, Gone, Goto, Keep, Unused, StartInv, TypeOK, HoldsFile,
      Early, Window
<1>3. ASSUME NEW p \in Pids, InstallHandlers(p) PROVE StartInv'
  BY <1>3
  DEF InstallHandlers, Step, Goto, launch, pidFile, clientVars, StartInv,
      TypeOK, HoldsFile, Early, Window
<1>4. ASSUME NEW p \in Pids, ParentExits(p) PROVE StartInv'
  BY <1>4
  DEF ParentExits, Success, EndOfPipe, pidFile, clientVars, StartInv, TypeOK,
      HoldsFile, Early, Window
<1>5. ASSUME NEW p \in Pids, OpenToRead(p) PROVE StartInv'
  BY <1>5
  DEF OpenToRead, Goto, launch, clientVars, StartInv, TypeOK, HoldsFile, Early,
      Window
<1>6. ASSUME NEW p \in Pids, Scan(p) PROVE StartInv'
  BY <1>6
  DEF Scan, Goto, Keep, Unused, launch, clientVars, StartInv, TypeOK,
      HoldsFile, Early, Window
<1>7. ASSUME NEW p \in Pids, Probe(p) PROVE StartInv'
  BY <1>7
  DEF Probe, Goto, SomebodyLives, Alive, launch, clientVars, StartInv, TypeOK,
      HoldsFile, Early, Window
<1>8. ASSUME NEW p \in Pids, Remove(p) PROVE StartInv'
  BY <1>8
  DEF Remove, Step, Goto, Keep, Unused, launch, clientVars, StartInv, TypeOK,
      HoldsFile, Early, Window
<1>9. ASSUME NEW p \in Pids, OpenToWrite(p) PROVE StartInv'
  BY <1>9, InodeIsFree
  DEF OpenToWrite, Step, Goto, Target, launch, clientVars, StartInv, TypeOK,
      HoldsFile, Early, Window
<1>10. ASSUME NEW p \in Pids, WritePid(p) PROVE StartInv'
  <2>1. CASE Goto(p, "bind") /\ cleanup' = [cleanup EXCEPT ![p] = TRUE]
    BY <1>10, <2>1
    DEF WritePid, Goto, Keep, Unused, launch, clientVars, StartInv, TypeOK,
        HoldsFile, Early, Window
  <2>2. CASE Goto(p, "fail") /\ UNCHANGED cleanup
    BY <1>10, <2>2
    DEF WritePid, Goto, Keep, Unused, launch, clientVars, StartInv, TypeOK,
        HoldsFile, Early, Window
  <2> QED BY <1>10, <2>1, <2>2 DEF WritePid, Goto
<1>11. ASSUME NEW p \in Pids, Listen(p) PROVE StartInv'
  <2>1. CASE PortFree /\ Goto(p, "report")
    BY <1>11, <2>1
    DEF Listen, Goto, launch, pidFile, clientVars, StartInv, TypeOK, HoldsFile,
        Early, Window
  <2>2. CASE Goto(p, "fail")
    BY <1>11, <2>2
    DEF Listen, Goto, launch, pidFile, clientVars, StartInv, TypeOK, HoldsFile,
        Early, Window
  <2> QED BY <1>11, <2>1, <2>2 DEF Listen
<1>12. ASSUME NEW p \in Pids, Report(p) PROVE StartInv'
  <2>1. CASE Step(p, "report", "loop") /\ report' = [report EXCEPT ![p] = "1"]
    BY <1>12, <2>1
    DEF Report, Step, Goto, pidFile, clientVars, StartInv, TypeOK, HoldsFile,
        Early, Window
  <2>2. CASE Step(p, "fail", "abort") /\ report' = [report EXCEPT ![p] = "0"]
    BY <1>12, <2>2
    DEF Report, Step, Goto, pidFile, clientVars, StartInv, TypeOK, HoldsFile,
        Early, Window
  <2> QED BY <1>12, <2>1, <2>2 DEF Report
<1>13. ASSUME NEW p \in Pids, TestStop(p) PROVE StartInv'
  <2>1. \E l \in {"exit", "call"} : pc' = [pc EXCEPT ![p] = l]
    BY <1>13 DEF TestStop, Goto
  <2>2. /\ pc[p] = "loop"
        /\ UNCHANGED <<parent, report, pidFile, cleanup, overlapped>>
    BY <1>13 DEF TestStop, launch
  <2> QED
    BY <2>1, <2>2, ZenonT(60)
    DEF pidFile, StartInv, TypeOK, HoldsFile, Early, Window
<1>14. ASSUME NEW p \in Pids, CallAccept(p) PROVE StartInv'
  BY <1>14
  DEF CallAccept, Goto, launch, pidFile, clientVars, StartInv, TypeOK,
      HoldsFile, Early, Window
<1>15. ASSUME NEW p \in Pids, Accept(p) PROVE StartInv'
  BY <1>15
  DEF Accept, Step, Goto, Thread, NoThread, CloseClient, Disconnect, launch,
      pidFile, StartInv, TypeOK, HoldsFile, Early, Window
<1>16. ASSUME NEW p \in Pids, StopSignal(p) PROVE StartInv'
  BY <1>16
  DEF StopSignal, Goto, launch, pidFile, StartInv, TypeOK, HoldsFile, Early,
      Window
<1>17. ASSUME NEW p \in Pids, Crash(p) PROVE StartInv'
  BY <1>17
  DEF Crash, Gone, Goto, ForgetParent, Keep, Unused, StartInv, TypeOK,
      HoldsFile, Early, Window
<1>18. ASSUME NEW p \in Pids, ExitHandlers(p) PROVE StartInv'
  BY <1>18
  DEF ExitHandlers, Goto, RemovePidFile, Keep, Unused, launch, clientVars,
      StartInv, TypeOK, HoldsFile, Early, Window
<1>19. ASSUME NEW p \in Pids, Die(p) PROVE StartInv'
  BY <1>19
  DEF Die, Gone, Goto, ForgetParent, Keep, Unused, StartInv, TypeOK, HoldsFile,
      Early, Window
<1>20. ASSUME NEW p \in Pids, Stranger(p) PROVE StartInv'
  BY <1>20
  DEF Stranger, launch, pidFile, clientVars, StartInv, TypeOK, HoldsFile,
      Early, Window
<1>21. ASSUME NEW c \in Clients, ReadChunk(c) PROVE StartInv'
  BY <1>21
  DEF ReadChunk, launch, pidFile, StartInv, TypeOK, HoldsFile, Early, Window
<1>22. ASSUME NEW c \in Clients, WriteAll(c) PROVE StartInv'
  BY <1>22
  DEF WriteAll, CloseClient, Disconnect, launch, pidFile, StartInv, TypeOK,
      HoldsFile, Early, Window
<1>23. ASSUME NEW c \in Clients, ThreadEnds(c) PROVE StartInv'
  BY <1>23
  DEF ThreadEnds, CloseClient, Disconnect, launch, pidFile, StartInv, TypeOK,
      HoldsFile, Early, Window
<1>24. ASSUME NEW c \in Clients, Send(c) PROVE StartInv'
  BY <1>24
  DEF Send, launch, pidFile, StartInv, TypeOK, HoldsFile, Early, Window
<1>25. ASSUME NEW c \in Clients, Leave(c) PROVE StartInv'
  BY <1>25
  DEF Leave, launch, pidFile, StartInv, TypeOK, HoldsFile, Early, Window
<1>26. ASSUME NEW c \in Clients, NEW p \in Pids, Connect(c, p) PROVE StartInv'
  BY <1>26
  DEF Connect, launch, pidFile, StartInv, TypeOK, HoldsFile, Early, Window
<1>27. ASSUME NEW p \in Pids, AcceptFails(p) PROVE StartInv'
  BY <1>27
  DEF AcceptFails, Step, Goto, launch, pidFile, clientVars, StartInv, TypeOK,
      HoldsFile, Early, Window
<1>28. ASSUME NEW p \in Pids, Warn(p) PROVE StartInv'
  BY <1>28
  DEF Warn, Step, Goto, launch, pidFile, clientVars, StartInv, TypeOK,
      HoldsFile, Early, Window
<1>29. ASSUME NEW c \in Clients, ReadEcho(c) PROVE StartInv'
  BY <1>29
  DEF ReadEcho, launch, pidFile, StartInv, TypeOK, HoldsFile, Early, Window
<1>30. CASE UNCHANGED vars
  BY <1>30
  DEF vars, launch, pidFile, clientVars, StartInv, TypeOK, HoldsFile, Early,
      Window
<1> QED
  BY <1>1, <1>2, <1>3, <1>4, <1>5, <1>6, <1>7, <1>8, <1>9, <1>10, <1>11,
     <1>12, <1>13, <1>14, <1>15, <1>16, <1>17, <1>18, <1>19, <1>20, <1>21,
     <1>22, <1>23, <1>24, <1>25, <1>26, <1>27, <1>28, <1>29, <1>30
  DEF Next, Daemon, Starts, Serves, Ends, ThreadOf

(***************************************************************************)
(* Each step keeps the reports true.                                       *)
(***************************************************************************)
LEMMA NextKeepsReports == TypeOK /\ ReportInv /\ [Next]_vars => ReportInv'
<1> SUFFICES ASSUME TypeOK, ReportInv
             PROVE  [Next]_vars => ReportInv'
  OBVIOUS
<1>1. ASSUME NEW p \in Pids, Launch(p) PROVE ReportInv'
  BY <1>1
  DEF Launch, Goto, Alive, pidFile, clientVars, TypeOK, ReportInv, Undecided,
      Succeeded, Failed, Window, Serving
<1>2. ASSUME NEW p \in Pids, DaemonizeFails(p) PROVE ReportInv'
  BY <1>2
  DEF DaemonizeFails, Gone, Goto, Keep, Unused, TypeOK, ReportInv, Undecided,
      Succeeded, Failed, Window, Serving
<1>3. ASSUME NEW p \in Pids, InstallHandlers(p) PROVE ReportInv'
  BY <1>3
  DEF InstallHandlers, Step, Goto, launch, pidFile, clientVars, TypeOK,
      ReportInv, Undecided, Succeeded, Failed, Window, Serving
<1>4. ASSUME NEW p \in Pids, ParentExits(p) PROVE ReportInv'
  BY <1>4
  DEF ParentExits, Success, EndOfPipe, pidFile, clientVars, TypeOK, ReportInv,
      Undecided, Succeeded, Failed, Window, Serving
<1>5. ASSUME NEW p \in Pids, OpenToRead(p) PROVE ReportInv'
  BY <1>5
  DEF OpenToRead, Goto, launch, clientVars, TypeOK, ReportInv, Undecided,
      Succeeded, Failed, Window, Serving
<1>6. ASSUME NEW p \in Pids, Scan(p) PROVE ReportInv'
  BY <1>6
  DEF Scan, Goto, Keep, Unused, launch, clientVars, TypeOK, ReportInv,
      Undecided, Succeeded, Failed, Window, Serving
<1>7. ASSUME NEW p \in Pids, Probe(p) PROVE ReportInv'
  BY <1>7
  DEF Probe, Goto, SomebodyLives, Alive, launch, clientVars, TypeOK, ReportInv,
      Undecided, Succeeded, Failed, Window, Serving
<1>8. ASSUME NEW p \in Pids, Remove(p) PROVE ReportInv'
  BY <1>8
  DEF Remove, Step, Goto, Keep, Unused, launch, clientVars, TypeOK, ReportInv,
      Undecided, Succeeded, Failed, Window, Serving
<1>9. ASSUME NEW p \in Pids, OpenToWrite(p) PROVE ReportInv'
  BY <1>9
  DEF OpenToWrite, Step, Goto, Target, launch, clientVars, TypeOK, ReportInv,
      Undecided, Succeeded, Failed, Window, Serving
<1>10. ASSUME NEW p \in Pids, WritePid(p) PROVE ReportInv'
  BY <1>10
  DEF WritePid, Goto, Keep, Unused, launch, clientVars, TypeOK, ReportInv,
      Undecided, Succeeded, Failed, Window, Serving
<1>11. ASSUME NEW p \in Pids, Listen(p) PROVE ReportInv'
  BY <1>11
  DEF Listen, Goto, launch, pidFile, clientVars, TypeOK, ReportInv, Undecided,
      Succeeded, Failed, Window, Serving
<1>12. ASSUME NEW p \in Pids, Report(p) PROVE ReportInv'
  <2>1. CASE Step(p, "report", "loop") /\ report' = [report EXCEPT ![p] = "1"]
    BY <1>12, <2>1
    DEF Report, Step, Goto, pidFile, clientVars, TypeOK, ReportInv, Undecided,
        Succeeded, Failed, Window, Serving
  <2>2. CASE Step(p, "fail", "abort") /\ report' = [report EXCEPT ![p] = "0"]
    BY <1>12, <2>2
    DEF Report, Step, Goto, pidFile, clientVars, TypeOK, ReportInv, Undecided,
        Succeeded, Failed, Window, Serving
  <2> QED BY <1>12, <2>1, <2>2 DEF Report
<1>13. ASSUME NEW p \in Pids, TestStop(p) PROVE ReportInv'
  <2>1. \E l \in {"exit", "call"} : pc' = [pc EXCEPT ![p] = l]
    BY <1>13 DEF TestStop, Goto
  <2>2. /\ pc[p] = "loop"
        /\ UNCHANGED <<parent, report, pidFile, cleanup, overlapped>>
    BY <1>13 DEF TestStop, launch
  <2> QED
    BY <2>1, <2>2
    DEF pidFile, TypeOK, ReportInv, Undecided, Succeeded, Failed, Window,
        Serving
<1>14. ASSUME NEW p \in Pids, CallAccept(p) PROVE ReportInv'
  BY <1>14
  DEF CallAccept, Goto, launch, pidFile, clientVars, TypeOK, ReportInv,
      Undecided, Succeeded, Failed, Window, Serving
<1>15. ASSUME NEW p \in Pids, Accept(p) PROVE ReportInv'
  BY <1>15
  DEF Accept, Step, Goto, Thread, NoThread, CloseClient, Disconnect, launch,
      pidFile, TypeOK, ReportInv, Undecided, Succeeded, Failed, Window, Serving
<1>16. ASSUME NEW p \in Pids, StopSignal(p) PROVE ReportInv'
  BY <1>16
  DEF StopSignal, Goto, launch, pidFile, TypeOK, ReportInv, Undecided,
      Succeeded, Failed, Window, Serving
<1>17. ASSUME NEW p \in Pids, Crash(p) PROVE ReportInv'
  BY <1>17
  DEF Crash, Gone, Goto, ForgetParent, Keep, Unused, TypeOK, ReportInv,
      Undecided, Succeeded, Failed, Window, Serving
<1>18. ASSUME NEW p \in Pids, ExitHandlers(p) PROVE ReportInv'
  BY <1>18
  DEF ExitHandlers, Goto, RemovePidFile, Keep, Unused, launch, clientVars,
      TypeOK, ReportInv, Undecided, Succeeded, Failed, Window, Serving
<1>19. ASSUME NEW p \in Pids, Die(p) PROVE ReportInv'
  BY <1>19
  DEF Die, Gone, Goto, ForgetParent, Keep, Unused, TypeOK, ReportInv,
      Undecided, Succeeded, Failed, Window, Serving
<1>20. ASSUME NEW p \in Pids, Stranger(p) PROVE ReportInv'
  BY <1>20
  DEF Stranger, launch, pidFile, clientVars, TypeOK, ReportInv, Undecided,
      Succeeded, Failed, Window, Serving
<1>21. ASSUME NEW c \in Clients, ReadChunk(c) PROVE ReportInv'
  BY <1>21
  DEF ReadChunk, launch, pidFile, TypeOK, ReportInv, Undecided, Succeeded,
      Failed, Window, Serving
<1>22. ASSUME NEW c \in Clients, WriteAll(c) PROVE ReportInv'
  BY <1>22
  DEF WriteAll, CloseClient, Disconnect, launch, pidFile, TypeOK, ReportInv,
      Undecided, Succeeded, Failed, Window, Serving
<1>23. ASSUME NEW c \in Clients, ThreadEnds(c) PROVE ReportInv'
  BY <1>23
  DEF ThreadEnds, CloseClient, Disconnect, launch, pidFile, TypeOK, ReportInv,
      Undecided, Succeeded, Failed, Window, Serving
<1>24. ASSUME NEW c \in Clients, Send(c) PROVE ReportInv'
  BY <1>24
  DEF Send, launch, pidFile, TypeOK, ReportInv, Undecided, Succeeded, Failed,
      Window, Serving
<1>25. ASSUME NEW c \in Clients, Leave(c) PROVE ReportInv'
  BY <1>25
  DEF Leave, launch, pidFile, TypeOK, ReportInv, Undecided, Succeeded, Failed,
      Window, Serving
<1>26. ASSUME NEW c \in Clients, NEW p \in Pids, Connect(c, p) PROVE ReportInv'
  BY <1>26
  DEF Connect, launch, pidFile, TypeOK, ReportInv, Undecided, Succeeded,
      Failed, Window, Serving
<1>27. ASSUME NEW p \in Pids, AcceptFails(p) PROVE ReportInv'
  BY <1>27
  DEF AcceptFails, Step, Goto, launch, pidFile, clientVars, TypeOK, ReportInv,
      Undecided, Succeeded, Failed, Window, Serving
<1>28. ASSUME NEW p \in Pids, Warn(p) PROVE ReportInv'
  BY <1>28
  DEF Warn, Step, Goto, launch, pidFile, clientVars, TypeOK, ReportInv,
      Undecided, Succeeded, Failed, Window, Serving
<1>29. ASSUME NEW c \in Clients, ReadEcho(c) PROVE ReportInv'
  BY <1>29
  DEF ReadEcho, launch, pidFile, TypeOK, ReportInv, Undecided, Succeeded,
      Failed, Window, Serving
<1>30. CASE UNCHANGED vars
  BY <1>30
  DEF vars, launch, pidFile, clientVars, TypeOK, ReportInv, Undecided,
      Succeeded, Failed, Window, Serving
<1> QED
  BY <1>1, <1>2, <1>3, <1>4, <1>5, <1>6, <1>7, <1>8, <1>9, <1>10, <1>11,
     <1>12, <1>13, <1>14, <1>15, <1>16, <1>17, <1>18, <1>19, <1>20, <1>21,
     <1>22, <1>23, <1>24, <1>25, <1>26, <1>27, <1>28, <1>29, <1>30
  DEF Next, Daemon, Starts, Serves, Ends, ThreadOf

(***************************************************************************)
(* A step that has nothing to do with the file: nobody comes into the      *)
(* window or moves in it, and no daemon writes its process id.             *)
(***************************************************************************)
Quiet ==
  /\ overlapped' = overlapped
  /\ file' = file
  /\ file \in Inodes => content'[file] = content[file]
  /\ \A p \in Pids :
       /\ Installed(p)' => Installed(p)
       /\ pc'[p] \in Window => /\ pc'[p] = pc[p]
                              /\ opened'[p] = opened[p]
                              /\ seen'[p] = seen[p]

FileStep(p) ==
  \/ OpenToRead(p) \/ Scan(p) \/ Probe(p) \/ Remove(p) \/ OpenToWrite(p)
  \/ WritePid(p) \/ ExitHandlers(p)

LEMMA QuietStepsKeepFile ==
  ASSUME FileInv, Quiet
  PROVE  FileInv'
<1> SUFFICES ASSUME ~overlapped, ~overlapped'
             PROVE  FileInv'
  BY DEF FileInv, Quiet
<1>1. OneInWindow /\ InstalledOwns /\ WritesTheFile
  BY DEF FileInv
<1>2. OneInWindow'
  BY <1>1 DEF OneInWindow, Quiet
<1>3. InstalledOwns'
  BY <1>1 DEF InstalledOwns, FindsIt, Quiet, Window
<1>4. WritesTheFile'
  BY <1>1 DEF WritesTheFile, Quiet, Window
<1> QED BY <1>2, <1>3, <1>4 DEF FileInv

(***************************************************************************)
(* Most steps have nothing to do with the file.                            *)
(***************************************************************************)
LEMMA OtherStepsAreQuiet ==
  ASSUME DaemonInv
  PROVE  [Next]_vars => Quiet \/ \E p \in Pids : FileStep(p)
<1>1. ASSUME NEW p \in Pids, Launch(p) PROVE Quiet
  BY <1>1
  DEF Launch, Goto, Alive, DaemonInv, StartInv, TypeOK, HoldsFile, Early,
      Window, Quiet, Installed, pidFile, clientVars
<1>2. ASSUME NEW p \in Pids, DaemonizeFails(p) PROVE Quiet
  BY <1>2
  DEF DaemonizeFails, Gone, Goto, Keep, Unused, DaemonInv, StartInv, TypeOK,
      HoldsFile, Early, Window, Quiet, Installed
<1>3. ASSUME NEW p \in Pids, InstallHandlers(p) PROVE Quiet
  BY <1>3
  DEF InstallHandlers, Step, Goto, DaemonInv, StartInv, TypeOK, HoldsFile,
      Early, Window, Quiet, Installed, launch, pidFile, clientVars
<1>4. ASSUME NEW p \in Pids, ParentExits(p) PROVE Quiet
  BY <1>4
  DEF ParentExits, Success, EndOfPipe, DaemonInv, StartInv, TypeOK, HoldsFile,
      Early, Window, Quiet, Installed, pidFile, clientVars
<1>5. ASSUME NEW p \in Pids, Listen(p) PROVE Quiet
  BY <1>5
  DEF Listen, Goto, DaemonInv, StartInv, TypeOK, HoldsFile, Early, Window,
      Quiet, Installed, launch, pidFile, clientVars
<1>6. ASSUME NEW p \in Pids, Report(p) PROVE Quiet
  BY <1>6
  DEF Report, Step, Goto, DaemonInv, StartInv, TypeOK, HoldsFile, Early,
      Window, Quiet, Installed, pidFile, clientVars
<1>7. ASSUME NEW p \in Pids, TestStop(p) PROVE Quiet
  <2>1. \E l \in {"exit", "call"} : pc' = [pc EXCEPT ![p] = l]
    BY <1>7 DEF TestStop, Goto
  <2>2. /\ pc[p] = "loop"
        /\ UNCHANGED <<parent, report, pidFile, cleanup, overlapped>>
    BY <1>7 DEF TestStop, launch
  <2> QED
    BY <2>1, <2>2
    DEF pidFile, DaemonInv, StartInv, TypeOK, Window, Quiet, Installed
<1>8. ASSUME NEW p \in Pids, CallAccept(p) PROVE Quiet
  BY <1>8
  DEF CallAccept, Goto, DaemonInv, StartInv, TypeOK, HoldsFile, Early, Window,
      Quiet, Installed, launch, pidFile, clientVars
<1>9. ASSUME NEW p \in Pids, Accept(p) PROVE Quiet
  BY <1>9
  DEF Accept, Step, Goto, Thread, NoThread, CloseClient, Disconnect, DaemonInv,
      StartInv, TypeOK, HoldsFile, Early, Window, Quiet, Installed, launch,
      pidFile
<1>10. ASSUME NEW p \in Pids, StopSignal(p) PROVE Quiet
  BY <1>10
  DEF StopSignal, Goto, DaemonInv, StartInv, TypeOK, HoldsFile, Early, Window,
      Quiet, Installed, launch, pidFile
<1>11. ASSUME NEW p \in Pids, Crash(p) PROVE Quiet
  BY <1>11
  DEF Crash, Gone, Goto, ForgetParent, Keep, Unused, DaemonInv, StartInv,
      TypeOK, HoldsFile, Early, Window, Quiet, Installed
<1>12. ASSUME NEW p \in Pids, Die(p) PROVE Quiet
  BY <1>12
  DEF Die, Gone, Goto, ForgetParent, Keep, Unused, DaemonInv, StartInv, TypeOK,
      HoldsFile, Early, Window, Quiet, Installed
<1>13. ASSUME NEW p \in Pids, Stranger(p) PROVE Quiet
  BY <1>13
  DEF Stranger, DaemonInv, StartInv, TypeOK, HoldsFile, Early, Window, Quiet,
      Installed, launch, pidFile, clientVars
<1>14. ASSUME NEW c \in Clients, ReadChunk(c) PROVE Quiet
  BY <1>14 DEF ReadChunk, Quiet, Installed, launch, pidFile
<1>15. ASSUME NEW c \in Clients, WriteAll(c) PROVE Quiet
  BY <1>15
  DEF WriteAll, CloseClient, Disconnect, Quiet, Installed, launch, pidFile
<1>16. ASSUME NEW c \in Clients, ThreadEnds(c) PROVE Quiet
  BY <1>16
  DEF ThreadEnds, CloseClient, Disconnect, Quiet, Installed, launch, pidFile
<1>17. ASSUME NEW c \in Clients, Send(c) PROVE Quiet
  BY <1>17 DEF Send, Quiet, Installed, launch, pidFile
<1>18. ASSUME NEW c \in Clients, Leave(c) PROVE Quiet
  BY <1>18 DEF Leave, Quiet, Installed, launch, pidFile
<1>19. ASSUME NEW c \in Clients, NEW p \in Pids, Connect(c, p) PROVE Quiet
  BY <1>19 DEF Connect, Quiet, Installed, launch, pidFile
<1>20. ASSUME NEW p \in Pids, AcceptFails(p) PROVE Quiet
  BY <1>20
  DEF AcceptFails, Step, Goto, DaemonInv, StartInv, TypeOK, HoldsFile, Early,
      Window, Quiet, Installed, launch, pidFile, clientVars
<1>21. ASSUME NEW p \in Pids, Warn(p) PROVE Quiet
  BY <1>21
  DEF Warn, Step, Goto, DaemonInv, StartInv, TypeOK, HoldsFile, Early, Window,
      Quiet, Installed, launch, pidFile, clientVars
<1>22. ASSUME NEW c \in Clients, ReadEcho(c) PROVE Quiet
  BY <1>22 DEF ReadEcho, Quiet, Installed, launch, pidFile
<1>23. CASE UNCHANGED vars
  BY <1>23 DEF vars, Quiet, Installed, launch, pidFile, clientVars
<1> QED
  BY <1>1, <1>2, <1>3, <1>4, <1>5, <1>6, <1>7, <1>8, <1>9, <1>10, <1>11,
     <1>12, <1>13, <1>14, <1>15, <1>16, <1>17, <1>18, <1>19, <1>20, <1>21,
     <1>22, <1>23
  DEF Next, Daemon, Starts, Serves, Ends, ThreadOf, FileStep

(***************************************************************************)
(* The steps on the file.                                                  *)
(***************************************************************************)
LEMMA FileSteps ==
  ASSUME DaemonInv, FileInv, NEW p \in Pids, FileStep(p)
  PROVE  FileInv'
<1> SUFFICES ASSUME ~overlapped'
             PROVE  (OneInWindow /\ InstalledOwns /\ WritesTheFile)'
  BY DEF FileInv
<1>1. OneInWindow /\ InstalledOwns /\ WritesTheFile
  BY DEF FileInv, FileStep, OpenToRead, Scan, Probe, Remove, OpenToWrite,
         WritePid, ExitHandlers
<1>2. TypeOK /\ StartInv
  BY DEF DaemonInv
<1>3. CASE OpenToRead(p)
  <2>1. \A q \in Pids \ {p} : pc[q] \notin Window
    BY <1>3 DEF OpenToRead, Others
  <2>2. OneInWindow' /\ WritesTheFile'
    BY <1>1, <1>2, <1>3, <2>1
    DEF OpenToRead, Goto, OneInWindow, WritesTheFile, Window, TypeOK
  <2>3. InstalledOwns'
    BY <1>1, <1>2, <1>3, DaemonAssumption, ZenonT(60)
    DEF OpenToRead, Goto, InstalledOwns, FindsIt, Installed, TypeOK
  <2> QED BY <2>2, <2>3
<1>4. CASE Scan(p)
  <2>1. OneInWindow' /\ WritesTheFile'
    BY <1>1, <1>2, <1>4, ZenonT(60)
    DEF Scan, Goto, OneInWindow, WritesTheFile, Window, TypeOK
  <2>2. file \in Inodes => content'[file] = content[file]
    BY <1>4 DEF Scan, Keep, Unused
  <2>3. ASSUME NEW q \in Pids, Installed(q)' PROVE Installed(q)
    BY <1>2, <1>4, <2>3 DEF Scan, Goto, Installed, TypeOK
  <2>4. ASSUME NEW q \in Pids, Installed(q)
        PROVE  /\ file' \in Inodes /\ content'[file'] = q
               /\ \A r \in Pids : FindsIt(r, q)'
    <3>1. file \in Inodes /\ content[file] = q /\ \A r \in Pids : FindsIt(r, q)
      BY <1>1, <2>4 DEF InstalledOwns
    <3>2. file' = file /\ content'[file'] = q
      BY <1>4, <2>2, <3>1 DEF Scan
    <3>3. content[opened[p]] = q /\ q # NoPid
      BY <1>4, <3>1, DaemonAssumption DEF Scan, FindsIt
    <3>4. /\ pc' = [pc EXCEPT ![p] = "probe"]
          /\ seen' = [seen EXCEPT ![p] = q]
          /\ opened' = [opened EXCEPT ![p] = NoFile]
      BY <1>4, <3>3 DEF Scan, Goto
    <3>5. \A r \in Pids : FindsIt(r, q)'
      BY <1>2, <3>1, <3>2, <3>4 DEF FindsIt, TypeOK
    <3> QED BY <3>1, <3>2, <3>5
  <2> QED BY <2>1, <2>3, <2>4 DEF InstalledOwns
<1>5. CASE Probe(p)
  <2>1. OneInWindow' /\ WritesTheFile'
    BY <1>1, <1>2, <1>5, ZenonT(60)
    DEF Probe, Goto, OneInWindow, WritesTheFile, Window, TypeOK
  <2>2. ASSUME NEW q \in Pids, Installed(q)' PROVE Installed(q)
    BY <1>2, <1>5, <2>2 DEF Probe, Goto, Installed, TypeOK
  <2>3. ASSUME NEW q \in Pids, Installed(q) PROVE SomebodyLives(p)
    BY <1>1, <1>2, <1>5, <2>3
    DEF Probe, InstalledOwns, FindsIt, StartInv, Early, Installed,
        SomebodyLives, Alive
  <2>4. InstalledOwns'
    BY <1>1, <1>2, <1>5, <2>2, <2>3
    DEF Probe, Goto, InstalledOwns, FindsIt, TypeOK
  <2> QED BY <2>1, <2>4
<1>6. CASE Remove(p) \/ OpenToWrite(p)
  <2>1. \A q \in Pids : ~Installed(q) /\ ~Installed(q)'
    BY <1>1, <1>2, <1>6
    DEF Remove, OpenToWrite, Step, Goto, InstalledOwns, FindsIt, Installed,
        TypeOK
  <2>2. OneInWindow' /\ WritesTheFile'
    BY <1>1, <1>2, <1>6, ZenonT(60)
    DEF Remove, OpenToWrite, Step, Goto, OneInWindow, WritesTheFile, Window,
        TypeOK
  <2> QED BY <2>1, <2>2 DEF InstalledOwns
<1>7. CASE WritePid(p)
  <2>1. /\ \A q \in Pids \ {p} : pc[q] \notin Window
        /\ \A q \in Pids : ~Installed(q)
        /\ opened[p] = file /\ file \in Inodes
    BY <1>1, <1>2, <1>7
    DEF WritePid, OneInWindow, InstalledOwns, FindsIt, WritesTheFile, StartInv,
        HoldsFile, Window
  <2>2. /\ pc' \in [Pids -> Labels] /\ pc'[p] \in {"bind", "fail"}
        /\ \A q \in Pids \ {p} : pc'[q] = pc[q] /\ cleanup'[q] = cleanup[q]
    BY <1>2, <1>7 DEF WritePid, Goto, TypeOK, Labels
  <2>3. OneInWindow' /\ WritesTheFile'
    BY <1>7, <2>1, <2>2 DEF WritePid, OneInWindow, WritesTheFile, Window
  <2>4. \A q \in Pids : Installed(q)' => q = p
    BY <2>1, <2>2 DEF Installed
  <2>5. Installed(p)' => content'[file] = p
    BY <1>2, <1>7, <2>1 DEF WritePid, Keep, Unused, Installed, TypeOK
  <2>6. \A q \in Pids : FindsIt(q, p)'
    BY <2>1, <2>2 DEF FindsIt, Window
  <2>7. file' = file
    BY <1>7 DEF WritePid
  <2> QED BY <2>1, <2>3, <2>4, <2>5, <2>6, <2>7 DEF InstalledOwns
<1>8. CASE ExitHandlers(p)
  <2>1. ASSUME NEW q \in Pids, Installed(q)' PROVE Installed(q) /\ q # p
    BY <1>2, <1>8, <2>1 DEF ExitHandlers, Goto, Installed, TypeOK
  <2>2. ASSUME NEW q \in Pids, Installed(q)' PROVE file' = file
    BY <1>1, <1>8, <2>1, <2>2
    DEF ExitHandlers, RemovePidFile, InstalledOwns, Installed
  <2>3. InstalledOwns'
    BY <1>1, <1>2, <1>8, <2>1, <2>2
    DEF ExitHandlers, Goto, Keep, Unused, InstalledOwns, FindsIt, TypeOK
  <2>4. pc[p] = "write" \/ \A q \in Pids : pc'[q] = "write" => file' = file
    BY <1>1, <1>2, <1>8
    DEF ExitHandlers, Goto, RemovePidFile, InstalledOwns, FindsIt, Installed,
        TypeOK
  <2>5. OneInWindow' /\ WritesTheFile'
    BY <1>1, <1>2, <1>8, <2>4
    DEF ExitHandlers, Goto, OneInWindow, WritesTheFile, Window, TypeOK
  <2> QED BY <2>3, <2>5
<1> QED
  BY <1>3, <1>4, <1>5, <1>6, <1>7, <1>8 DEF FileStep

LEMMA NextKeepsFile == DaemonInv /\ FileInv /\ [Next]_vars => FileInv'
  BY QuietStepsKeepFile, OtherStepsAreQuiet, FileSteps

(***************************************************************************)
(* At the start there are no instances and no file.                        *)
(***************************************************************************)
LEMMA InitHolds == Init => DaemonInv /\ ReportInv /\ FileInv
<1> SUFFICES ASSUME Init PROVE DaemonInv /\ ReportInv /\ FileInv
  OBVIOUS
<1>1. TypeOK
  <2>1. queue \in Seq(Clients)
    <3>1. queue = <<>>
      BY DEF Init
    <3> QED BY <3>1
  <2> QED BY <2>1 DEF Init, TypeOK, Labels, ClientLabels
<1>2. StartInv
  BY DEF Init, StartInv, HoldsFile, Early
<1>3. ReportInv
  BY DEF Init, ReportInv, Undecided, Succeeded, Failed, Window, Serving
<1>4. FileInv
  BY DEF Init, FileInv, OneInWindow, InstalledOwns, WritesTheFile, Installed,
         Window
<1> QED BY <1>1, <1>2, <1>3, <1>4 DEF DaemonInv

LEMMA InvariantHolds == Spec => [](DaemonInv /\ ReportInv /\ FileInv)
<1>1. DaemonInv /\ [Next]_vars => DaemonInv'
  BY NextKeepsTypes, NextKeepsStart DEF DaemonInv
<1>2. DaemonInv /\ ReportInv /\ [Next]_vars => ReportInv'
  BY NextKeepsReports DEF DaemonInv
<1> QED BY <1>1, <1>2, InitHolds, NextKeepsFile, PTL DEF Spec

(***************************************************************************)
(* Every variable keeps its type; in particular an instance that reads or  *)
(* writes the PID file always has an inode to do so.                       *)
(***************************************************************************)
THEOREM DaemonTypeCorrect == Spec => []TypeOK
<1>1. DaemonInv => TypeOK
  BY DEF DaemonInv
<1> QED BY <1>1, InvariantHolds, PTL

(***************************************************************************)
(* However many instances are launched, stopped, killed or replaced by     *)
(* other processes: as long as no two have overlapped in the PID file, it  *)
(* names the daemon that runs.                                             *)
(***************************************************************************)
THEOREM OneDaemonIsNamed == Spec => []RunningDaemonIsNamed
<1>1. DaemonInv /\ FileInv => RunningDaemonIsNamed
  BY DaemonAssumption DEF FileInv, InstalledOwns, RunningDaemonIsNamed
<1> QED BY <1>1, InvariantHolds, PTL

(***************************************************************************)
(* The process that launched a daemon never exits with success for one     *)
(* that has failed, nor with failure for one that serves.                  *)
(***************************************************************************)
THEOREM ParentsAreHonest == Spec => []ParentTellsTheTruth
<1>1. ReportInv => ParentTellsTheTruth
  BY DEF ReportInv, Succeeded, Failed, ParentTellsTheTruth
<1> QED BY <1>1, InvariantHolds, PTL
=============================================================================
