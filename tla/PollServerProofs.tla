-------------------------- MODULE PollServerProofs --------------------------
(***************************************************************************)
(* Proofs about PollServer, for any number of workers, descriptors, users  *)
(* and places: an open connection has exactly one place, the user noted    *)
(* next to it is the one who is logged in on it, what was found under a    *)
(* mutex still holds after its release, and no worker sleeps on an         *)
(* out-of-date copy of its poll set unless a byte is about to wake it.     *)
(***************************************************************************)
EXTENDS PollServer, FiniteSetTheorems, SequenceTheorems, TLAPS

Slots == 1..ClientsPerThread
Labels == {"check", "poll", "sweep", "read", "locate", "handle", "send", "lock",
           "close", "unlink", "done"}
Places3 == Workers \X Slots \X Fds

(***************************************************************************)
(* The part of TypeOK the argument needs.                                  *)
(***************************************************************************)
SetsOK ==
  /\ sets \in [Workers -> Seq(Fds)]
  /\ actives \in [Workers -> Seq(Users \cup {NoUser})]
  /\ \A w \in Workers :
       Len(sets[w]) < ClientsPerThread /\ Len(actives[w]) = Len(sets[w])
  /\ sock \in [Fds -> BOOLEAN]
  /\ session \in [Fds -> Users \cup {NoUser}]
  /\ loggedIn \in [Users -> BOOLEAN]

WorkersOK ==
  /\ wpc \in [Workers -> Labels]
  /\ at \in [Workers -> Nat]
  /\ fd = [w \in Workers |-> fd[w]]

MainOK ==
  /\ mpc \in {"check", "enter", "poll", "scan", "add", "notify", "cleanup",
              "join", "exited"}
  /\ next \in Nat \ {0}
  /\ best \in 0..NumWorkers
  /\ connfd \in Fds \cup {NoFd}

(***************************************************************************)
(* What the main thread has at each point: the connection it has accepted  *)
(* from accept to add_to_pollset, and a poll set it has chosen, with room  *)
(* that only the main thread itself uses up.                               *)
(***************************************************************************)
MainKnows ==
  /\ connfd # NoFd <=> mpc \in {"scan", "add"}
  /\ mpc \in {"add", "notify"} => best # 0
  /\ mpc \notin {"scan", "add", "notify"} => best = 0
  /\ mpc \in {"scan", "add"} /\ best # 0 => HasRoom(best)

(***************************************************************************)
(* Holding: worker, index and descriptor of the entries that are not on    *)
(* their way out.  Until the workers are joined these and the accepted     *)
(* connection are the open descriptors, each once.                         *)
(***************************************************************************)
Holding ==
  {h \in Places3 : /\ h[2] \in DOMAIN sets[h[1]]
                   /\ sets[h[1]][h[2]] = h[3]
                   /\ ~Leaving(h[1], h[2])}

Settled == mpc \notin {"cleanup", "join", "exited"}

OnePlace ==
  /\ \A h, k \in Holding : h[3] = k[3] => h = k
  /\ Settled => \A h \in Holding : sock[h[3]] /\ h[3] # connfd
  /\ connfd # NoFd => sock[connfd]
  /\ Settled => \A f \in Fds :
       sock[f] => f = connfd \/ \E h \in Holding : h[3] = f

(***************************************************************************)
(* A user is logged in on one connection, which has a place.               *)
(***************************************************************************)
UsersMatch ==
  /\ \A h \in Holding : actives[h[1]][h[2]] = session[h[3]]
  /\ \A u \in Users : loggedIn[u] <=> \E f \in Fds : session[f] = u
  /\ \A f, g \in Fds : session[f] = session[g] /\ session[f] # NoUser => f = g
  /\ \A f \in Fds : session[f] # NoUser => \E h \in Holding : h[3] = f

IInv ==
  /\ SetsOK
  /\ WorkersOK
  /\ MainOK
  /\ MainKnows
  /\ IndexStaysValid
  /\ OnePlace
  /\ UsersMatch

-----------------------------------------------------------------------------
(* Poll sets as sequences.                                                 *)

(***************************************************************************)
(* remove_from_pollset's swap: one entry less, the last one in the place   *)
(* of the removed one.                                                     *)
(***************************************************************************)
LEMMA SwapRemoveProperties ==
  ASSUME NEW S, NEW s \in Seq(S), NEW a \in 1..Len(s)
  PROVE  /\ SwapRemove(s, a) \in Seq(S)
         /\ Len(SwapRemove(s, a)) = Len(s) - 1
         /\ \A j \in 1..Len(s) - 1 :
              SwapRemove(s, a)[j] = IF j = a THEN s[Len(s)] ELSE s[j]
<1> DEFINE n == Len(s)
           t == [s EXCEPT ![a] = s[n]]
<1>1. n \in Nat \ {0} /\ a \in 1..n
  BY LenProperties
<1>2. s[n] \in S
  BY <1>1, ElementOfSeq
<1>3. /\ t \in Seq(S)
      /\ Len(t) = n
      /\ \A j \in 1..n : t[j] = IF j = a THEN s[n] ELSE s[j]
  BY <1>2, ExceptSeq
<1>4. \A j \in 1..n - 1 : t[j] \in S
  BY <1>1, <1>2, <1>3, ElementOfSeq
<1> HIDE DEF t, n
<1>5. /\ SubSeq(t, 1, n - 1) \in Seq(S)
      /\ Len(SubSeq(t, 1, n - 1)) = IF 1 <= n - 1 THEN n - 1 - 1 + 1 ELSE 0
      /\ \A j \in 1..n - 1 - 1 + 1 : SubSeq(t, 1, n - 1)[j] = t[1 + j - 1]
  <2>1. n - 1 \in Int /\ 1 \in Int
    BY <1>1
  <2> QED BY <2>1, <1>4, SubSeqProperties
<1>6. /\ Len(SubSeq(t, 1, n - 1)) = n - 1
      /\ \A j \in 1..n - 1 : SubSeq(t, 1, n - 1)[j] = t[j]
  BY <1>1, <1>5
<1>7. SwapRemove(s, a) = SubSeq(t, 1, n - 1)
  BY <1>1, <1>3 DEF SwapRemove, t, n
<1> QED BY <1>1, <1>3, <1>5, <1>6, <1>7 DEF n

(***************************************************************************)
(* While no entry of a poll set is on its way out, find_fd_in_pollset      *)
(* returns the index of the descriptor or says that there is none.         *)
(***************************************************************************)
LEMMA FindProperties ==
  ASSUME SetsOK, WorkersOK, OnePlace, PollAssumption,
         NEW w \in Workers, wpc[w] # "unlink"
  PROVE  /\ Find(w) \in Nat
         /\ Find(w) # 0 => Find(w) \in DOMAIN sets[w] /\ sets[w][Find(w)] = fd[w]
<1> DEFINE found == {i \in DOMAIN sets[w] : sets[w][i] = fd[w]}
<1>1. sets[w] \in Seq(Fds) /\ Len(sets[w]) \in Nat /\ DOMAIN sets[w] = 1..Len(sets[w])
  BY LenProperties DEF SetsOK
<1>2. ASSUME NEW i \in found, NEW j \in found
      PROVE  i = j
  <2>1. Len(sets[w]) < ClientsPerThread
    BY DEF SetsOK
  <2>2. i \in Slots /\ j \in Slots
    BY <1>1, <2>1, PollAssumption DEF Slots, PollAssumption
  <2>3. fd[w] \in Fds
    BY <1>1, ElementOfSeq
  <2>4. <<w, i, fd[w]>> \in Holding /\ <<w, j, fd[w]>> \in Holding
    BY <2>2, <2>3 DEF Holding, Places3, Leaving
  <2> QED BY <2>4 DEF OnePlace
<1>3. CASE found = {}
  BY <1>3 DEF Find
<1>4. CASE found # {}
  <2>1. PICK i \in found : TRUE
    BY <1>4
  <2>2. i \in Nat \ {0}
    BY <1>1
  <2>3. \A j \in found : i <= j
    BY <1>2, <2>2
  <2>4. (CHOOSE k \in found : \A j \in found : k <= j) \in found
    BY <2>1, <2>3
  <2> HIDE DEF found
  <2>5. Find(w) = CHOOSE k \in found : \A j \in found : k <= j
    BY <1>4 DEF Find, found
  <2> QED BY <1>1, <2>4, <2>5 DEF found
<1> QED BY <1>3, <1>4

-----------------------------------------------------------------------------
(* Steps that move no connection.                                          *)

(***************************************************************************)
(* The places and the users stay as they are when the entries and what     *)
(* belongs to them do.                                                     *)
(***************************************************************************)
LEMMA QuietKeeps ==
  ASSUME OnePlace, UsersMatch,
         UNCHANGED <<actives, sock, session, loggedIn, connfd>>,
         Holding' = Holding, Settled' => Settled
  PROVE  OnePlace' /\ UsersMatch'
<1>1. OnePlace'
  BY DEF OnePlace
<1>2. UsersMatch'
  BY DEF UsersMatch
<1> QED BY <1>1, <1>2

LEMMA SameHolding ==
  ASSUME sets' = sets,
         \A v \in Workers, i \in Slots : Leaving(v, i)' <=> Leaving(v, i)
  PROVE  Holding' = Holding
BY DEF Holding, Places3, Leaving

(***************************************************************************)
(* A worker that serves a connection without removing it.                  *)
(***************************************************************************)
QuietStep(w) ==
  /\ UNCHANGED <<sets, actives, sock, session, loggedIn, connfd, mpc, next, best>>
  /\ wpc' \in [Workers -> Labels]
  /\ at' \in [Workers -> Nat]
  /\ fd' = [v \in Workers |-> fd'[v]]
  /\ \A v \in Workers \ {w} : wpc'[v] = wpc[v] /\ at'[v] = at[v] /\ fd'[v] = fd[v]
  /\ wpc[w] # "unlink" /\ wpc'[w] # "unlink"
  /\ wpc'[w] \in {"handle", "close"} =>
       at'[w] \in DOMAIN sets[w] /\ sets[w][at'[w]] = fd'[w]

LEMMA QuietWorker ==
  ASSUME IInv, NEW w \in Workers, QuietStep(w)
  PROVE  IInv'
<1>1. SetsOK'
  BY DEF IInv, SetsOK, QuietStep
<1>2. WorkersOK'
  BY DEF QuietStep, WorkersOK
<1>3. MainOK'
  BY DEF IInv, MainOK, QuietStep
<1>4. MainKnows'
  BY DEF IInv, MainKnows, QuietStep, HasRoom, Size
<1>5. IndexStaysValid'
  BY DEF IInv, IndexStaysValid, QuietStep
<1>6. Holding' = Holding
  <2>1. \A v \in Workers, i \in Slots : Leaving(v, i)' <=> Leaving(v, i)
    BY DEF QuietStep, Leaving
  <2> QED BY <2>1, SameHolding DEF QuietStep
<1>7. OnePlace' /\ UsersMatch'
  BY <1>6, QuietKeeps DEF IInv, QuietStep, Settled
<1> QED BY <1>1, <1>2, <1>3, <1>4, <1>5, <1>7 DEF IInv

(***************************************************************************)
(* The main thread while it neither accepts nor places a connection.       *)
(***************************************************************************)
LEMMA QuietMain ==
  ASSUME IInv, UNCHANGED <<sets, actives, sock, session, loggedIn, connfd>>,
         UNCHANGED <<wpc, at, fd>>, MainOK', MainKnows', Settled' => Settled
  PROVE  IInv'
<1>1. SetsOK' /\ WorkersOK'
  BY DEF IInv, SetsOK, WorkersOK
<1>2. IndexStaysValid'
  BY DEF IInv, IndexStaysValid
<1>3. Holding' = Holding
  BY SameHolding DEF Leaving
<1>4. OnePlace' /\ UsersMatch'
  BY <1>3, QuietKeeps DEF IInv
<1> QED BY <1>1, <1>2, <1>4 DEF IInv

-----------------------------------------------------------------------------
(* The worker threads.                                                     *)

LEMMA WorkerReads ==
  ASSUME IInv, NEW w \in Workers,
         \/ CopyPollset(w) \/ ExitThread(w) \/ PollReturns(w) \/ DrainPipe(w)
         \/ NextEntry(w) \/ EndSweep(w) \/ ReceiveRequest(w)
  PROVE  IInv'
<1> USE DEF At, Goto, Labels, QuietStep, pollsets, net, placing, sweep
<1> SUFFICES QuietStep(w)
  BY QuietWorker
<1>0. WorkersOK
  BY DEF IInv
<1>1. CASE CopyPollset(w)
  BY <1>0, <1>1 DEF CopyPollset, WorkersOK
<1>2. CASE ExitThread(w)
  BY <1>0, <1>2 DEF ExitThread, WorkersOK
<1>3. CASE PollReturns(w)
  <2>1. /\ UNCHANGED <<pollsets, fd, at, net, loggedIn, mpc, placing>>
        /\ Goto(w, "sweep") /\ wpc[w] = "poll"
    BY <1>3 DEF PollReturns
  <2> QED BY <1>0, <2>1 DEF WorkersOK
<1>4. CASE DrainPipe(w)
  <2>1. /\ UNCHANGED <<pollsets, fd, at, net, loggedIn, mpc, placing, wpc>>
        /\ wpc[w] = "sweep"
    BY <1>4 DEF DrainPipe
  <2> QED BY <1>0, <2>1 DEF WorkersOK
<1>5. CASE NextEntry(w)
  <2>1. PICK e \in todo[w] :
          /\ UNCHANGED <<pollsets, at, net, loggedIn, mpc, placing>>
          /\ wpc[w] = "sweep"
          /\ Goto(w, "lock") \/ Goto(w, "read")
          /\ fd' = [fd EXCEPT ![w] = e.fd]
    BY <1>5 DEF NextEntry
  <2> QED BY <1>0, <2>1 DEF WorkersOK
<1>6. CASE EndSweep(w)
  BY <1>0, <1>6 DEF EndSweep, WorkersOK
<1>7. CASE ReceiveRequest(w)
  <2>1. /\ UNCHANGED <<pollsets, sweep, sock, session, loggedIn, mpc, placing>>
        /\ wpc[w] = "read"
        /\ Goto(w, "locate") \/ Goto(w, "lock")
    BY <1>7 DEF ReceiveRequest
  <2> QED BY <1>0, <2>1 DEF WorkersOK
<1> QED BY <1>1, <1>2, <1>3, <1>4, <1>5, <1>6, <1>7

LEMMA WorkerLooksUp ==
  ASSUME IInv, PollAssumption, NEW w \in Workers,
         Locate(w) \/ SendResponse(w) \/ LockPollset(w)
  PROVE  IInv'
<1> USE DEF At, Goto, Labels, QuietStep, pollsets, net, placing, sweep, Leave
<1> SUFFICES QuietStep(w)
  BY QuietWorker
<1>0. WorkersOK
  BY DEF IInv
<1>1. ASSUME wpc[w] # "unlink"
      PROVE  /\ Find(w) \in Nat
             /\ Find(w) # 0 => Find(w) \in DOMAIN sets[w] /\ sets[w][Find(w)] = fd[w]
  BY <1>1, FindProperties DEF IInv
<1>2. CASE Locate(w)
  <2>1. /\ UNCHANGED <<pollsets, net, loggedIn, mpc, placing>>
        /\ wpc[w] = "locate"
        /\ at' = [at EXCEPT ![w] = Find(w)]
        /\ \/ Goto(w, "sweep") /\ fd' = [fd EXCEPT ![w] = NoFd]
           \/ Find(w) # 0 /\ Goto(w, "handle") /\ fd' = fd
    BY <1>2 DEF Locate
  <2> QED BY <1>0, <1>1, <2>1 DEF WorkersOK
<1>3. CASE SendResponse(w)
  <2>1. /\ UNCHANGED <<pollsets, net, loggedIn, mpc, placing>>
        /\ wpc[w] = "send"
        /\ Leave(w) \/ (Goto(w, "lock") /\ UNCHANGED sweep) \/ UNCHANGED <<wpc, sweep>>
    BY <1>3 DEF SendResponse
  <2>2. CASE Leave(w)
    BY <1>0, <2>1, <2>2 DEF WorkersOK
  <2>3. CASE Goto(w, "lock") /\ UNCHANGED sweep
    BY <1>0, <2>1, <2>3 DEF WorkersOK
  <2>4. CASE UNCHANGED <<wpc, sweep>>
    BY <1>0, <2>1, <2>4 DEF WorkersOK
  <2> QED BY <2>1, <2>2, <2>3, <2>4
<1>4. CASE LockPollset(w)
  <2>1. /\ UNCHANGED <<sets, actives, net, loggedIn, mpc, placing>>
        /\ wpc[w] = "lock"
        /\ \/ Leave(w)
           \/ /\ Find(w) # 0
              /\ at' = [at EXCEPT ![w] = Find(w)]
              /\ Goto(w, "close")
              /\ fd' = fd
    BY <1>4 DEF LockPollset
  <2>2. CASE Leave(w)
    BY <1>0, <2>1, <2>2 DEF WorkersOK
  <2>3. CASE ~Leave(w)
    BY <1>0, <1>1, <2>1, <2>3 DEF WorkersOK
  <2> QED BY <2>2, <2>3
<1> QED BY <1>2, <1>3, <1>4

(***************************************************************************)
(* The entry a worker handles or removes is among those that hold a place. *)
(***************************************************************************)
LEMMA ServedEntry ==
  ASSUME IInv, PollAssumption, NEW w \in Workers, wpc[w] \in {"handle", "close"}
  PROVE  /\ <<w, at[w], fd[w]>> \in Holding
         /\ at[w] \in 1..Len(sets[w])
         /\ fd[w] \in Fds
         /\ actives[w][at[w]] = session[fd[w]]
         /\ \A h \in Holding : h[3] = fd[w] <=> h[1] = w /\ h[2] = at[w]
<1>1. /\ sets[w] \in Seq(Fds)
      /\ Len(sets[w]) \in Nat
      /\ DOMAIN sets[w] = 1..Len(sets[w])
      /\ Len(sets[w]) < ClientsPerThread
  BY LenProperties DEF IInv, SetsOK
<1>2. at[w] \in DOMAIN sets[w] /\ sets[w][at[w]] = fd[w]
  BY DEF IInv, IndexStaysValid
<1>3. fd[w] \in Fds
  BY <1>1, <1>2, ElementOfSeq
<1>4. at[w] \in Slots
  BY <1>1, <1>2 DEF Slots, PollAssumption
<1>5. <<w, at[w], fd[w]>> \in Holding
  BY <1>2, <1>3, <1>4 DEF Holding, Places3, Leaving
<1>6. actives[w][at[w]] = session[fd[w]]
  BY <1>5 DEF IInv, UsersMatch
<1>7. ASSUME NEW h \in Holding
      PROVE  h[3] = fd[w] <=> h[1] = w /\ h[2] = at[w]
  <2>1. h[3] = fd[w] => h = <<w, at[w], fd[w]>>
    BY <1>5 DEF IInv, OnePlace
  <2>2. sets[h[1]][h[2]] = h[3]
    BY DEF Holding
  <2> QED BY <1>2, <2>1, <2>2
<1> QED BY <1>1, <1>2, <1>3, <1>5, <1>6, <1>7

(***************************************************************************)
(* What a worker changes when it writes the user next to the connection it *)
(* serves: Handle, and CloseFd before it closes the descriptor.            *)
(***************************************************************************)
LEMMA WrittenUser ==
  ASSUME SetsOK, NEW w \in Workers, at[w] \in 1..Len(sets[w]), fd[w] \in Fds,
         NEW u \in Users \cup {NoUser}, SetActive(w, u)
  PROVE  /\ actives' \in [Workers -> Seq(Users \cup {NoUser})]
         /\ \A v \in Workers : Len(actives'[v]) = Len(actives[v])
         /\ \A v \in Workers : \A i \in 1..Len(actives[v]) :
              actives'[v][i] = IF v = w /\ i = at[w] THEN u ELSE actives[v][i]
         /\ session' \in [Fds -> Users \cup {NoUser}]
         /\ \A f \in Fds : session'[f] = IF f = fd[w] THEN u ELSE session[f]
<1> DEFINE s == [actives[w] EXCEPT ![at[w]] = u]
<1>1. actives[w] \in Seq(Users \cup {NoUser}) /\ at[w] \in 1..Len(actives[w])
  BY DEF SetsOK
<1>2. /\ s \in Seq(Users \cup {NoUser})
      /\ Len(s) = Len(actives[w])
      /\ \A i \in 1..Len(actives[w]) : s[i] = IF i = at[w] THEN u ELSE actives[w][i]
  BY <1>1, ExceptSeq
<1>3. actives' = [actives EXCEPT ![w] = s]
  BY DEF SetsOK, SetActive
<1> HIDE DEF s
<1>4. \A v \in Workers : actives'[v] = IF v = w THEN s ELSE actives[v]
  BY <1>3 DEF SetsOK
<1>5. actives' \in [Workers -> Seq(Users \cup {NoUser})]
  BY <1>2, <1>3 DEF SetsOK
<1>6. \A v \in Workers : Len(actives'[v]) = Len(actives[v])
  BY <1>2, <1>4
<1>7. \A v \in Workers : \A i \in 1..Len(actives[v]) :
        actives'[v][i] = IF v = w /\ i = at[w] THEN u ELSE actives[v][i]
  BY <1>2, <1>4
<1> QED BY <1>5, <1>6, <1>7 DEF SetsOK, SetActive

(***************************************************************************)
(* An entry that holds a place has a user next to it.                      *)
(***************************************************************************)
LEMMA HeldIndex ==
  ASSUME SetsOK, NEW h \in Holding
  PROVE  h[1] \in Workers /\ h[2] \in 1..Len(actives[h[1]]) /\ h[3] \in Fds
<1>1. h[1] \in Workers /\ h[3] \in Fds /\ h[2] \in DOMAIN sets[h[1]]
  BY DEF Holding, Places3
<1>2. sets[h[1]] \in Seq(Fds) /\ Len(actives[h[1]]) = Len(sets[h[1]])
  BY <1>1 DEF SetsOK
<1> QED BY <1>1, <1>2, LenProperties

LEMMA HandleStep ==
  ASSUME IInv, PollAssumption, NEW w \in Workers, Handle(w)
  PROVE  IInv'
<1>0. /\ wpc[w] = "handle"
      /\ wpc' = [wpc EXCEPT ![w] = "send"]
      /\ UNCHANGED <<sets, fd, at, sock, mpc, next, best, connfd>>
  BY DEF Handle, At, Goto, sweep, placing
<1>1. SetsOK /\ WorkersOK /\ OnePlace /\ UsersMatch
  BY DEF IInv
<1>2. /\ at[w] \in 1..Len(sets[w]) /\ fd[w] \in Fds
      /\ actives[w][at[w]] = session[fd[w]]
      /\ <<w, at[w], fd[w]>> \in Holding
      /\ \A h \in Holding : h[3] = fd[w] <=> h[1] = w /\ h[2] = at[w]
  BY <1>0, ServedEntry
<1>3. WorkersOK' /\ MainOK' /\ MainKnows' /\ IndexStaysValid'
  <2>1. WorkersOK'
    BY <1>0, <1>1 DEF WorkersOK, Labels
  <2>2. MainOK' /\ MainKnows'
    BY <1>0 DEF IInv, MainOK, MainKnows, HasRoom, Size
  <2>3. IndexStaysValid'
    BY <1>0, <1>1 DEF IInv, IndexStaysValid, WorkersOK
  <2> QED BY <2>1, <2>2, <2>3
<1>4. Holding' = Holding
  <2>1. \A v \in Workers, i \in Slots : Leaving(v, i)' <=> Leaving(v, i)
    BY <1>0, <1>1 DEF WorkersOK, Leaving
  <2> QED BY <1>0, <2>1, SameHolding
<1>5. OnePlace'
  BY <1>0, <1>1, <1>4 DEF OnePlace, Settled
<1>6. SetsOK' /\ UsersMatch'
  <2>1. CASE UNCHANGED <<actives, session, loggedIn>>
    BY <1>0, <1>1, <1>4, <2>1 DEF SetsOK, UsersMatch
  <2>2. ASSUME NEW u \in Users \cup {NoUser}, SetActive(w, u),
               loggedIn' \in [Users -> BOOLEAN],
               \A x \in Users : loggedIn'[x] <=> \E f \in Fds : session'[f] = x,
               u # NoUser => ~loggedIn[u]
        PROVE  SetsOK' /\ UsersMatch'
    <3>1. /\ actives' \in [Workers -> Seq(Users \cup {NoUser})]
          /\ \A v \in Workers : Len(actives'[v]) = Len(actives[v])
          /\ \A v \in Workers : \A i \in 1..Len(actives[v]) :
               actives'[v][i] = IF v = w /\ i = at[w] THEN u ELSE actives[v][i]
          /\ session' \in [Fds -> Users \cup {NoUser}]
          /\ \A f \in Fds : session'[f] = IF f = fd[w] THEN u ELSE session[f]
      <4>1. SetsOK /\ at[w] \in 1..Len(sets[w]) /\ fd[w] \in Fds /\ SetActive(w, u)
        BY <1>1, <1>2, <2>2
      <4> QED BY <4>1, WrittenUser
    <3>2. SetsOK'
      BY <1>0, <1>1, <2>2, <3>1 DEF SetsOK
    <3>3. ASSUME NEW h \in Holding'
          PROVE  actives'[h[1]][h[2]] = session'[h[3]]
      <4>1. h \in Holding
        BY <1>4
      <4>2. h[1] \in Workers /\ h[2] \in 1..Len(actives[h[1]]) /\ h[3] \in Fds
        BY <1>1, <4>1, HeldIndex
      <4>3. actives[h[1]][h[2]] = session[h[3]]
        BY <1>1, <4>1 DEF UsersMatch
      <4> QED BY <1>2, <3>1, <4>1, <4>2, <4>3
    <3>4. ASSUME NEW f \in Fds, NEW g \in Fds,
                 session'[f] = session'[g], session'[f] # NoUser
          PROVE  f = g
      <4>1. u # NoUser => \A k \in Fds : session[k] # u
        BY <1>1, <2>2 DEF UsersMatch
      <4> QED BY <1>1, <3>1, <3>4, <4>1 DEF UsersMatch
    <3>5. ASSUME NEW f \in Fds, session'[f] # NoUser
          PROVE  \E h \in Holding' : h[3] = f
      <4>1. CASE f = fd[w]
        BY <1>2, <1>4, <4>1
      <4>2. CASE f # fd[w]
        BY <1>1, <1>4, <3>1, <3>5, <4>2 DEF UsersMatch
      <4> QED BY <4>1, <4>2
    <3> QED BY <2>2, <3>2, <3>3, <3>4, <3>5 DEF UsersMatch
  <2>3. CASE \E u \in Users :
               /\ actives[w][at[w]] = NoUser
               /\ ~loggedIn[u]
               /\ loggedIn' = [loggedIn EXCEPT ![u] = TRUE]
               /\ SetActive(w, u)
    <3>1. PICK u \in Users :
               /\ actives[w][at[w]] = NoUser
               /\ ~loggedIn[u]
               /\ loggedIn' = [loggedIn EXCEPT ![u] = TRUE]
               /\ SetActive(w, u)
      BY <2>3
    <3>2. \A f \in Fds : session'[f] = IF f = fd[w] THEN u ELSE session[f]
      BY <1>1, <1>2, <3>1 DEF SetActive, SetsOK
    <3>3. session[fd[w]] = NoUser
      BY <1>2, <3>1
    <3>4. ASSUME NEW x \in Users
          PROVE  loggedIn'[x] <=> \E f \in Fds : session'[f] = x
      <4>1. CASE x = u
        BY <1>1, <1>2, <3>1, <3>2, <4>1 DEF SetsOK
      <4>2. CASE x # u
        <5>1. loggedIn'[x] <=> loggedIn[x]
          BY <1>1, <3>1, <4>2 DEF SetsOK
        <5>2. \A f \in Fds : session'[f] = x <=> session[f] = x
          BY <3>2, <3>3, <4>2 DEF PollAssumption
        <5> QED BY <1>1, <5>1, <5>2 DEF UsersMatch
      <4> QED BY <4>1, <4>2
    <3>5. loggedIn' \in [Users -> BOOLEAN]
      BY <1>1, <3>1 DEF SetsOK
    <3> QED BY <2>2, <3>1, <3>4, <3>5
  <2>4. CASE /\ actives[w][at[w]] # NoUser
             /\ loggedIn' = [loggedIn EXCEPT ![actives[w][at[w]]] = FALSE]
             /\ SetActive(w, NoUser)
    <3> DEFINE o == session[fd[w]]
    <3>1. o \in Users /\ o # NoUser /\ loggedIn' = [loggedIn EXCEPT ![o] = FALSE]
      BY <1>1, <1>2, <2>4 DEF SetsOK
    <3>2. \A f \in Fds : session'[f] = IF f = fd[w] THEN NoUser ELSE session[f]
      BY <1>1, <1>2, <2>4 DEF SetActive, SetsOK
    <3>3. \A f \in Fds : session[f] = o <=> f = fd[w]
      BY <1>1, <1>2, <3>1 DEF UsersMatch
    <3> HIDE DEF o
    <3>4. ASSUME NEW x \in Users
          PROVE  loggedIn'[x] <=> \E f \in Fds : session'[f] = x
      <4>0. x # NoUser
        BY DEF PollAssumption
      <4>1. CASE x = o
        BY <1>1, <3>1, <3>2, <3>3, <4>0, <4>1 DEF SetsOK
      <4>2. CASE x # o
        <5>1. loggedIn'[x] <=> loggedIn[x]
          BY <1>1, <3>1, <4>2 DEF SetsOK
        <5>2. \A f \in Fds : session'[f] = x <=> session[f] = x
          BY <3>2, <3>3, <4>0, <4>2
        <5> QED BY <1>1, <5>1, <5>2 DEF UsersMatch
      <4> QED BY <4>1, <4>2
    <3>5. loggedIn' \in [Users -> BOOLEAN]
      BY <1>1, <3>1 DEF SetsOK
    <3> QED BY <2>2, <2>4, <3>4, <3>5
  <2> QED BY <2>1, <2>3, <2>4 DEF Handle
<1> QED BY <1>3, <1>5, <1>6 DEF IInv

(***************************************************************************)
(* The descriptor is closed, and its entry holds no place any more.        *)
(***************************************************************************)
LEMMA CloseStep ==
  ASSUME IInv, PollAssumption, NEW w \in Workers, CloseFd(w)
  PROVE  IInv'
<1>0. /\ wpc[w] = "close"
      /\ wpc' = [wpc EXCEPT ![w] = "unlink"]
      /\ sock' = [sock EXCEPT ![fd[w]] = FALSE]
      /\ loggedIn' = [u \in Users |-> loggedIn[u] /\ u # actives[w][at[w]]]
      /\ SetActive(w, NoUser)
      /\ UNCHANGED <<sets, fd, at, mpc, next, best, connfd>>
  BY DEF CloseFd, At, Goto, sweep, placing, SetActive
<1>1. SetsOK /\ WorkersOK /\ OnePlace /\ UsersMatch
  BY DEF IInv
<1>2. /\ at[w] \in 1..Len(sets[w]) /\ fd[w] \in Fds
      /\ actives[w][at[w]] = session[fd[w]]
      /\ <<w, at[w], fd[w]>> \in Holding
      /\ \A h \in Holding : h[3] = fd[w] <=> h[1] = w /\ h[2] = at[w]
  BY <1>0, ServedEntry
<1>3. /\ actives' \in [Workers -> Seq(Users \cup {NoUser})]
      /\ \A v \in Workers : Len(actives'[v]) = Len(actives[v])
      /\ \A v \in Workers : \A i \in 1..Len(actives[v]) :
           actives'[v][i] = IF v = w /\ i = at[w] THEN NoUser ELSE actives[v][i]
      /\ session' \in [Fds -> Users \cup {NoUser}]
      /\ \A f \in Fds : session'[f] = IF f = fd[w] THEN NoUser ELSE session[f]
  BY <1>0, <1>1, <1>2, WrittenUser
<1>4. WorkersOK' /\ MainOK' /\ MainKnows' /\ IndexStaysValid'
  <2>1. WorkersOK'
    BY <1>0, <1>1 DEF WorkersOK, Labels
  <2>2. MainOK' /\ MainKnows'
    BY <1>0 DEF IInv, MainOK, MainKnows, HasRoom, Size
  <2>3. IndexStaysValid'
    BY <1>0, <1>1 DEF IInv, IndexStaysValid, WorkersOK
  <2> QED BY <2>1, <2>2, <2>3
<1>5. SetsOK'
  <2>1. loggedIn' \in [Users -> BOOLEAN] /\ sock' \in [Fds -> BOOLEAN]
    BY <1>0, <1>1 DEF SetsOK
  <2> QED BY <1>0, <1>1, <1>3, <2>1 DEF SetsOK
<1>6. Holding' = {h \in Holding : h[3] # fd[w]}
  <2>1. \A v \in Workers, i \in Slots :
          Leaving(v, i)' <=> Leaving(v, i) \/ (v = w /\ i = at[w])
    BY <1>0, <1>1 DEF WorkersOK, Leaving
  <2>2. ASSUME NEW h \in Places3
        PROVE  h \in Holding' <=> h \in Holding /\ ~(h[1] = w /\ h[2] = at[w])
    <3>1. h[1] \in Workers /\ h[2] \in Slots
      BY DEF Places3
    <3> QED BY <1>0, <2>1, <3>1 DEF Holding
  <2>3. Holding \subseteq Places3 /\ Holding' \subseteq Places3
    BY DEF Holding, Places3
  <2> QED BY <1>2, <2>2, <2>3
<1>7. OnePlace'
  <2>1. \A f \in Fds : sock'[f] <=> sock[f] /\ f # fd[w]
    BY <1>0, <1>1 DEF SetsOK
  <2>2. \A h \in Holding : h[3] \in Fds
    BY DEF Holding, Places3
  <2>3. \A h, k \in Holding' : h[3] = k[3] => h = k
    BY <1>1, <1>6 DEF OnePlace
  <2>4. Settled' => \A h \in Holding' : sock'[h[3]] /\ h[3] # connfd'
    BY <1>0, <1>1, <1>6, <2>1, <2>2 DEF OnePlace, Settled
  <2>5. connfd' # NoFd => sock'[connfd']
    <3>1. connfd # NoFd => Settled /\ connfd \in Fds
      BY DEF IInv, MainKnows, MainOK, Settled
    <3>2. connfd # NoFd => connfd # fd[w] /\ sock[connfd]
      BY <1>1, <1>2, <3>1 DEF OnePlace
    <3> QED BY <1>0, <2>1, <3>1, <3>2
  <2>6. Settled' => \A f \in Fds :
          sock'[f] => f = connfd' \/ \E h \in Holding' : h[3] = f
    BY <1>0, <1>1, <1>6, <2>1 DEF OnePlace, Settled
  <2> QED BY <2>3, <2>4, <2>5, <2>6 DEF OnePlace
<1>8. UsersMatch'
  <2>1. ASSUME NEW h \in Holding'
        PROVE  actives'[h[1]][h[2]] = session'[h[3]]
    <3>1. h \in Holding /\ h[3] # fd[w]
      BY <1>6
    <3>2. h[1] \in Workers /\ h[2] \in 1..Len(actives[h[1]]) /\ h[3] \in Fds
      BY <1>1, <3>1, HeldIndex
    <3>3. actives[h[1]][h[2]] = session[h[3]]
      BY <1>1, <3>1 DEF UsersMatch
    <3> QED BY <1>2, <1>3, <3>1, <3>2, <3>3
  <2>2. ASSUME NEW u \in Users
        PROVE  loggedIn'[u] <=> \E f \in Fds : session'[f] = u
    <3>1. u # NoUser
      BY DEF PollAssumption
    <3>2. loggedIn'[u] <=> loggedIn[u] /\ u # session[fd[w]]
      BY <1>0, <1>2
    <3>3. loggedIn[u] <=> \E f \in Fds : session[f] = u
      BY <1>1 DEF UsersMatch
    <3>4. \A f, g \in Fds : session[f] = u /\ session[g] = u => f = g
      BY <1>1, <3>1 DEF UsersMatch
    <3> QED BY <1>2, <1>3, <3>1, <3>2, <3>3, <3>4
  <2>3. \A f, g \in Fds : session'[f] = session'[g] /\ session'[f] # NoUser => f = g
    BY <1>1, <1>3 DEF UsersMatch
  <2>4. \A f \in Fds : session'[f] # NoUser => \E h \in Holding' : h[3] = f
    BY <1>1, <1>3, <1>6 DEF UsersMatch
  <2> QED BY <2>1, <2>2, <2>3, <2>4 DEF UsersMatch
<1> QED BY <1>4, <1>5, <1>7, <1>8 DEF IInv

(***************************************************************************)
(* The swap moves the last entry of both sequences to the same index.      *)
(***************************************************************************)
LEMMA UnlinkStep ==
  ASSUME IInv, PollAssumption, NEW w \in Workers, Unlink(w)
  PROVE  IInv'
<1> DEFINE n == Len(sets[w])
           a == at[w]
           Moved(h) == IF h[1] = w /\ h[2] = n THEN <<w, a, h[3]>> ELSE h
<1>0. /\ wpc[w] = "unlink"
      /\ wpc' = [wpc EXCEPT ![w] = "sweep"]
      /\ at' = [at EXCEPT ![w] = 0]
      /\ fd' = [fd EXCEPT ![w] = NoFd]
      /\ sets' = [sets EXCEPT ![w] = SwapRemove(sets[w], a)]
      /\ actives' = [actives EXCEPT ![w] = SwapRemove(actives[w], a)]
      /\ UNCHANGED <<sock, session, loggedIn, mpc, next, best, connfd>>
  BY DEF Unlink, At, Goto, Leave, net, placing, RemoveActive
<1>1. SetsOK /\ WorkersOK /\ OnePlace /\ UsersMatch
  BY DEF IInv
<1>2. /\ sets[w] \in Seq(Fds)
      /\ actives[w] \in Seq(Users \cup {NoUser})
      /\ n \in Nat /\ n < ClientsPerThread
      /\ DOMAIN sets[w] = 1..n
      /\ Len(actives[w]) = n
      /\ a \in 1..n
  <2>1. a \in DOMAIN sets[w]
    BY <1>0 DEF IInv, IndexStaysValid
  <2> QED BY <1>1, <2>1, LenProperties DEF SetsOK
<1>3. /\ sets'[w] \in Seq(Fds)
      /\ Len(sets'[w]) = n - 1
      /\ \A j \in 1..n - 1 : sets'[w][j] = IF j = a THEN sets[w][n] ELSE sets[w][j]
  <2>1. sets'[w] = SwapRemove(sets[w], a)
    BY <1>0, <1>1 DEF SetsOK
  <2>2. sets[w] \in Seq(Fds) /\ a \in 1..Len(sets[w]) /\ n = Len(sets[w])
    BY <1>2
  <2> HIDE DEF n, a
  <2>3. /\ SwapRemove(sets[w], a) \in Seq(Fds)
        /\ Len(SwapRemove(sets[w], a)) = Len(sets[w]) - 1
        /\ \A j \in 1..Len(sets[w]) - 1 :
             SwapRemove(sets[w], a)[j] = IF j = a THEN sets[w][Len(sets[w])] ELSE sets[w][j]
    BY <2>2, SwapRemoveProperties
  <2> QED BY <2>1, <2>2, <2>3
<1>4. /\ actives'[w] \in Seq(Users \cup {NoUser})
      /\ Len(actives'[w]) = n - 1
      /\ \A j \in 1..n - 1 :
           actives'[w][j] = IF j = a THEN actives[w][n] ELSE actives[w][j]
  <2>1. actives'[w] = SwapRemove(actives[w], a)
    BY <1>0, <1>1 DEF SetsOK
  <2>2. /\ SwapRemove(actives[w], a) \in Seq(Users \cup {NoUser})
        /\ Len(SwapRemove(actives[w], a)) = Len(actives[w]) - 1
        /\ \A j \in 1..Len(actives[w]) - 1 :
             SwapRemove(actives[w], a)[j]
               = IF j = a THEN actives[w][Len(actives[w])] ELSE actives[w][j]
    <3>1. actives[w] \in Seq(Users \cup {NoUser}) /\ a \in 1..Len(actives[w])
      BY <1>2
    <3> HIDE DEF a
    <3> QED BY <3>1, SwapRemoveProperties, SMTT(40)
  <2> QED BY <1>2, <2>1, <2>2
<1>5. \A v \in Workers : v # w =>
        sets'[v] = sets[v] /\ actives'[v] = actives[v]
          /\ wpc'[v] = wpc[v] /\ at'[v] = at[v] /\ fd'[v] = fd[v]
  BY <1>0, <1>1 DEF SetsOK, WorkersOK
<1>6. DOMAIN sets'[w] = 1..n - 1
  BY <1>2, <1>3, LenProperties
<1>7. SetsOK'
  <2>1. sets' \in [Workers -> Seq(Fds)] /\ actives' \in [Workers -> Seq(Users \cup {NoUser})]
    <3>1. SwapRemove(sets[w], a) \in Seq(Fds)
      BY <1>2, SwapRemoveProperties
    <3>2. SwapRemove(actives[w], a) \in Seq(Users \cup {NoUser})
      BY <1>2, SwapRemoveProperties
    <3> QED BY <1>0, <1>1, <3>1, <3>2 DEF SetsOK
  <2>2. ASSUME NEW v \in Workers
        PROVE  Len(sets'[v]) < ClientsPerThread /\ Len(actives'[v]) = Len(sets'[v])
    <3>1. CASE v = w
      BY <1>2, <1>3, <1>4, <3>1 DEF PollAssumption
    <3>2. CASE v # w
      BY <1>1, <1>5, <3>2 DEF SetsOK
    <3> QED BY <3>1, <3>2
  <2> QED BY <1>0, <1>1, <2>1, <2>2 DEF SetsOK
<1>8. WorkersOK' /\ MainOK' /\ MainKnows' /\ IndexStaysValid'
  <2>1. WorkersOK'
    BY <1>0, <1>1 DEF WorkersOK, Labels
  <2>2. MainOK'
    BY <1>0 DEF IInv, MainOK
  <2>3. MainKnows'
    <3>1. ASSUME NEW v \in Workers, HasRoom(v)
          PROVE  HasRoom(v)'
      BY <1>2, <1>3, <1>5, <3>1 DEF HasRoom, Size, PollAssumption
    <3>2. mpc \in {"scan", "add"} /\ best # 0 => best \in Workers /\ HasRoom(best)
      BY DEF IInv, MainKnows, MainOK, Workers, PollAssumption
    <3>3. mpc' \in {"scan", "add"} /\ best' # 0 => HasRoom(best)'
      BY <1>0, <3>1, <3>2
    <3> QED BY <1>0, <3>3 DEF IInv, MainKnows
  <2>4. IndexStaysValid'
    BY <1>0, <1>1, <1>5 DEF IInv, IndexStaysValid, WorkersOK
  <2> QED BY <2>1, <2>2, <2>3, <2>4
<1>9. ASSUME NEW k \in Holding
      PROVE  /\ Moved(k) \in Holding'
             /\ actives'[Moved(k)[1]][Moved(k)[2]] = actives[k[1]][k[2]]
  <2>1. /\ k = <<k[1], k[2], k[3]>>
        /\ k[1] \in Workers /\ k[2] \in Slots /\ k[3] \in Fds
        /\ k[2] \in DOMAIN sets[k[1]] /\ sets[k[1]][k[2]] = k[3]
        /\ ~Leaving(k[1], k[2])
    BY DEF Holding, Places3
  <2>2. CASE k[1] # w
    BY <1>5, <2>1, <2>2 DEF Holding, Places3, Leaving
  <2>3. CASE k[1] = w /\ k[2] = n
    <3>1. n # a /\ a \in 1..n - 1 /\ a \in Slots
      BY <1>0, <1>2, <2>1, <2>3 DEF Leaving, Slots, PollAssumption
    <3>2. sets'[w][a] = k[3] /\ actives'[w][a] = actives[w][n]
      BY <1>3, <1>4, <2>1, <2>3, <3>1
    <3>3. ~Leaving(w, a)'
      BY <1>0, <1>1 DEF Leaving, WorkersOK
    <3>4. a \in DOMAIN sets'[w] /\ <<w, a, k[3]>> \in Places3
      BY <1>6, <2>1, <3>1 DEF Places3
    <3>5. <<w, a, k[3]>> \in Holding'
      BY <3>2, <3>3, <3>4 DEF Holding, Leaving
    <3> QED BY <2>3, <3>2, <3>5
  <2>4. CASE k[1] = w /\ k[2] # n
    <3>1. k[2] # a /\ k[2] \in 1..n - 1
      BY <1>0, <1>2, <2>1, <2>4 DEF Leaving
    <3>2. sets'[w][k[2]] = k[3] /\ actives'[w][k[2]] = actives[w][k[2]]
      BY <1>3, <1>4, <2>1, <2>4, <3>1
    <3>3. ~Leaving(w, k[2])'
      BY <1>0, <1>1 DEF Leaving, WorkersOK
    <3>4. k \in Holding'
      BY <1>6, <2>1, <2>4, <3>1, <3>2, <3>3 DEF Holding, Places3
    <3> QED BY <2>4, <3>2, <3>4
  <2> QED BY <2>2, <2>3, <2>4
<1>10. ASSUME NEW h \in Holding'
       PROVE  \E k \in Holding : h = Moved(k)
  <2>1. /\ h = <<h[1], h[2], h[3]>>
        /\ h[1] \in Workers /\ h[2] \in Slots /\ h[3] \in Fds
        /\ h[2] \in DOMAIN sets'[h[1]] /\ sets'[h[1]][h[2]] = h[3]
        /\ ~Leaving(h[1], h[2])'
    BY DEF Holding, Places3
  <2>2. CASE h[1] # w
    <3>1. h \in Holding
      BY <1>5, <2>1, <2>2 DEF Holding, Places3, Leaving
    <3> QED BY <2>2, <3>1
  <2>3. CASE h[1] = w /\ h[2] = a
    <3>1. a \in 1..n - 1 /\ n \in Slots /\ n # a
      BY <1>2, <1>6, <2>1, <2>3 DEF Slots, PollAssumption
    <3>2. sets[w][n] = h[3] /\ ~Leaving(w, n)
      BY <1>3, <2>1, <2>3, <3>1 DEF Leaving
    <3>3. <<w, n, h[3]>> \in Holding
      BY <1>2, <2>1, <3>1, <3>2 DEF Holding, Places3
    <3> QED BY <2>1, <2>3, <3>3
  <2>4. CASE h[1] = w /\ h[2] # a
    <3>1. h[2] \in 1..n - 1
      BY <1>6, <2>1, <2>4
    <3>2. sets[w][h[2]] = h[3] /\ ~Leaving(w, h[2]) /\ h[2] \in 1..n /\ h[2] # n
      BY <1>2, <1>3, <2>1, <2>4, <3>1, SMTT(40) DEF Leaving
    <3>3. h \in Holding
      BY <1>2, <2>1, <2>4, <3>2 DEF Holding, Places3
    <3> QED BY <2>4, <3>2, <3>3
  <2> QED BY <2>2, <2>3, <2>4
<1>11. \A k \in Holding : Moved(k)[3] = k[3]
  OBVIOUS
<1> HIDE DEF Moved, n, a
<1>12. OnePlace'
  <2>1. \A h, k \in Holding' : h[3] = k[3] => h = k
    BY <1>1, <1>10, <1>11 DEF OnePlace
  <2>2. Settled' => \A h \in Holding' : sock'[h[3]] /\ h[3] # connfd'
    BY <1>0, <1>1, <1>10, <1>11 DEF OnePlace, Settled
  <2>3. Settled' => \A f \in Fds :
          sock'[f] => f = connfd' \/ \E h \in Holding' : h[3] = f
    BY <1>0, <1>1, <1>9, <1>11 DEF OnePlace, Settled
  <2> QED BY <1>0, <1>1, <2>1, <2>2, <2>3 DEF OnePlace
<1>13. UsersMatch'
  <2>1. \A h \in Holding' : actives'[h[1]][h[2]] = session'[h[3]]
    BY <1>0, <1>1, <1>9, <1>10, <1>11 DEF UsersMatch
  <2>2. \A f \in Fds : session'[f] # NoUser => \E h \in Holding' : h[3] = f
    BY <1>0, <1>1, <1>9, <1>11 DEF UsersMatch
  <2> QED BY <1>0, <1>1, <2>1, <2>2 DEF UsersMatch
<1> QED BY <1>7, <1>8, <1>12, <1>13 DEF IInv

LEMMA WorkerStep ==
  ASSUME IInv, PollAssumption, NEW w \in Workers, Worker(w)
  PROVE  IInv'
BY WorkerReads, WorkerLooksUp, HandleStep, CloseStep, UnlinkStep DEF Worker

-----------------------------------------------------------------------------
(* The main thread and the outside.                                        *)

(***************************************************************************)
(* accept() returns a descriptor that is not open, so no entry that holds  *)
(* a place has it, though one that is on its way out may.                  *)
(***************************************************************************)
LEMMA AcceptStep ==
  ASSUME IInv, PollAssumption, Accept
  PROVE  IInv'
<1>1. PICK f \in Fds : /\ ~sock[f]
                       /\ sock' = [sock EXCEPT ![f] = TRUE]
                       /\ connfd' = f
  BY DEF Accept
<1>2. /\ mpc = "poll" /\ mpc' = "scan"
      /\ UNCHANGED <<sets, actives, wpc, at, fd, session, loggedIn, next, best>>
  BY DEF Accept, MainAt, pollsets, sweep
<1>3. SetsOK' /\ WorkersOK' /\ MainOK'
  BY <1>1, <1>2 DEF IInv, SetsOK, WorkersOK, MainOK
<1>4. connfd = NoFd /\ best = 0
  BY <1>2 DEF IInv, MainKnows
<1>5. MainKnows'
  BY <1>1, <1>2, <1>4 DEF MainKnows, PollAssumption
<1>6. IndexStaysValid'
  BY <1>2 DEF IInv, IndexStaysValid
<1>7. Holding' = Holding
  BY <1>2, SameHolding DEF Leaving
<1>8. OnePlace'
  <2>1. \A g \in Fds : sock'[g] <=> sock[g] \/ g = f
    BY <1>1 DEF IInv, SetsOK
  <2>2. \A h \in Holding : h[3] \in Fds
    BY DEF Holding, Places3
  <2>3. OnePlace /\ Settled /\ Settled'
    BY <1>2 DEF IInv, Settled
  <2>4. \A h \in Holding' : sock'[h[3]] /\ h[3] # connfd'
    BY <1>1, <1>7, <2>1, <2>2, <2>3 DEF OnePlace
  <2>5. \A g \in Fds : sock'[g] => g = connfd' \/ \E h \in Holding' : h[3] = g
    <3>1. \A g \in Fds : g # NoFd
      BY DEF PollAssumption
    <3> QED BY <1>1, <1>4, <1>7, <2>1, <2>3, <3>1 DEF OnePlace
  <2>6. \A h, k \in Holding' : h[3] = k[3] => h = k
    BY <1>7, <2>3 DEF OnePlace
  <2>7. sock'[connfd']
    BY <1>1, <2>1
  <2> QED BY <2>4, <2>5, <2>6, <2>7 DEF OnePlace
<1>9. UsersMatch'
  BY <1>2, <1>7 DEF IInv, UsersMatch
<1> QED BY <1>3, <1>5, <1>6, <1>8, <1>9 DEF IInv

(***************************************************************************)
(* The accepted connection gets its place: no user is logged in on it yet. *)
(***************************************************************************)
LEMMA AddStep ==
  ASSUME IInv, PollAssumption, AddToPollset
  PROVE  IInv'
<1> DEFINE b == best
           m == Len(sets[b]) + 1
<1>1. SetsOK /\ WorkersOK /\ OnePlace /\ UsersMatch
  BY DEF IInv
<1>2. b \in Workers /\ HasRoom(b) /\ connfd \in Fds /\ Settled
  BY DEF AddToPollset, MainAt, IInv, MainKnows, MainOK, Workers, PollAssumption, Settled
<1>3. /\ sets[b] \in Seq(Fds) /\ Len(sets[b]) \in Nat
      /\ DOMAIN sets[b] = 1..Len(sets[b])
      /\ actives[b] \in Seq(Users \cup {NoUser})
      /\ Len(actives[b]) = Len(sets[b])
      /\ m < ClientsPerThread
      /\ at[b] \in Nat
  BY <1>1, <1>2, LenProperties DEF SetsOK, HasRoom, Size, WorkersOK
<1>4. /\ mpc' = "notify"
      /\ connfd' = NoFd
      /\ sets' = [sets EXCEPT ![b] = Append(sets[b], connfd)]
      /\ actives' = [actives EXCEPT ![b] = Append(actives[b], NoUser)]
      /\ UNCHANGED <<sock, best, wpc, at, fd, session, loggedIn, next>>
  <2>1. ~(Size(b) >= ClientsPerThread)
    BY <1>3 DEF PollAssumption, Size
  <2> QED BY <2>1 DEF AddToPollset, sweep
<1>5. /\ sets'[b] \in Seq(Fds)
      /\ Len(sets'[b]) = m
      /\ \A i \in 1..Len(sets[b]) : sets'[b][i] = sets[b][i]
      /\ sets'[b][m] = connfd
      /\ DOMAIN sets'[b] = 1..m
  <2>1. sets'[b] = Append(sets[b], connfd)
    BY <1>1, <1>2, <1>4 DEF SetsOK
  <2>2. /\ Append(sets[b], connfd) \in Seq(Fds)
        /\ Len(Append(sets[b], connfd)) = Len(sets[b]) + 1
        /\ \A i \in 1..Len(sets[b]) : Append(sets[b], connfd)[i] = sets[b][i]
        /\ Append(sets[b], connfd)[Len(sets[b]) + 1] = connfd
    BY <1>2, <1>3, AppendProperties
  <2> QED BY <2>1, <2>2, LenProperties
<1>6. /\ actives'[b] \in Seq(Users \cup {NoUser})
      /\ Len(actives'[b]) = m
      /\ \A i \in 1..Len(sets[b]) : actives'[b][i] = actives[b][i]
      /\ actives'[b][m] = NoUser
  <2>1. actives'[b] = Append(actives[b], NoUser)
    BY <1>1, <1>2, <1>4 DEF SetsOK
  <2>2. /\ Append(actives[b], NoUser) \in Seq(Users \cup {NoUser})
        /\ Len(Append(actives[b], NoUser)) = Len(actives[b]) + 1
        /\ \A i \in 1..Len(actives[b]) :
             Append(actives[b], NoUser)[i] = actives[b][i]
        /\ Append(actives[b], NoUser)[Len(actives[b]) + 1] = NoUser
    <3>1. NoUser \in Users \cup {NoUser}
      OBVIOUS
    <3> QED BY <1>3, <3>1, AppendProperties
  <2> QED BY <1>3, <2>1, <2>2
<1>7. \A v \in Workers : v # b => sets'[v] = sets[v] /\ actives'[v] = actives[v]
  BY <1>1, <1>4 DEF SetsOK
<1>8. SetsOK'
  <2>1. sets' \in [Workers -> Seq(Fds)]
    <3>1. Append(sets[b], connfd) \in Seq(Fds)
      BY <1>2, <1>3, AppendProperties
    <3> QED BY <1>1, <1>4, <3>1 DEF SetsOK
  <2>2. actives' \in [Workers -> Seq(Users \cup {NoUser})]
    <3>1. Append(actives[b], NoUser) \in Seq(Users \cup {NoUser})
      BY <1>3, AppendProperties
    <3> QED BY <1>1, <1>4, <3>1 DEF SetsOK
  <2>3. \A v \in Workers :
          Len(sets'[v]) < ClientsPerThread /\ Len(actives'[v]) = Len(sets'[v])
    BY <1>1, <1>3, <1>5, <1>6, <1>7 DEF SetsOK
  <2> QED BY <1>1, <1>4, <2>1, <2>2, <2>3 DEF SetsOK
<1>9. WorkersOK' /\ MainOK' /\ MainKnows'
  <2>1. b # 0
    BY DEF AddToPollset, MainAt, IInv, MainKnows
  <2> QED BY <1>4, <2>1 DEF IInv, WorkersOK, MainOK, MainKnows
<1>10. IndexStaysValid'
  <2>1. ASSUME NEW v \in Workers, wpc[v] \in {"handle", "close", "unlink"}
        PROVE  at[v] \in DOMAIN sets'[v] /\ sets'[v][at[v]] = fd[v]
    <3>1. at[v] \in DOMAIN sets[v] /\ sets[v][at[v]] = fd[v]
      BY <2>1 DEF IInv, IndexStaysValid
    <3>2. CASE v = b
      <4>1. at[v] \in 1..Len(sets[b])
        BY <1>3, <3>1, <3>2
      <4>2. sets'[v][at[v]] = sets[v][at[v]]
        BY <1>5, <3>2, <4>1
      <4>3. at[v] \in DOMAIN sets'[v]
        BY <1>3, <1>5, <3>2, <4>1
      <4> QED BY <3>1, <4>2, <4>3
    <3>3. CASE v # b
      BY <1>7, <3>1, <3>3
    <3> QED BY <3>2, <3>3
  <2> QED BY <1>4, <2>1 DEF IndexStaysValid
<1>11. Holding' = Holding \cup {<<b, m, connfd>>}
  <2>1. ~Leaving(b, m)
    BY <1>2, <1>3 DEF IInv, IndexStaysValid, Leaving
  <2>2. m \in Slots
    BY <1>3 DEF Slots, PollAssumption
  <2>3. ASSUME NEW h \in Places3, h[1] # b
        PROVE  h \in Holding' <=> h \in Holding
    BY <1>4, <1>7, <2>3 DEF Holding, Places3, Leaving
  <2>4. ASSUME NEW h \in Places3, h[1] = b
        PROVE  h \in Holding' <=> h \in Holding \/ (h[2] = m /\ h[3] = connfd)
    <3>1. h[2] \in DOMAIN sets'[b] <=> h[2] \in DOMAIN sets[b] \/ h[2] = m
      BY <1>3, <1>5
    <3>2. CASE h[2] = m
      <4>1. ~(wpc'[b] = "unlink" /\ at'[b] = m) /\ m \notin DOMAIN sets[b]
        BY <1>3, <1>4, <2>1 DEF Leaving
      <4>2. h \notin Holding
        BY <2>4, <3>2, <4>1 DEF Holding
      <4>3. h \in Holding' <=> h[3] = connfd
        BY <1>4, <1>5, <2>1, <2>4, <3>1, <3>2 DEF Holding, Leaving
      <4> QED BY <3>2, <4>2, <4>3
    <3>3. CASE h[2] # m
      BY <1>3, <1>4, <1>5, <2>4, <3>1, <3>3 DEF Holding, Leaving
    <3> QED BY <3>2, <3>3
  <2>5. Holding \subseteq Places3 /\ Holding' \subseteq Places3
    BY DEF Holding, Places3
  <2>6. <<b, m, connfd>> \in Places3
    BY <1>2, <2>2 DEF Places3
  <2>7. ASSUME NEW h \in Places3
        PROVE  h = <<b, m, connfd>> <=> h[1] = b /\ h[2] = m /\ h[3] = connfd
    BY DEF Places3
  <2> HIDE DEF b, m
  <2> QED BY <2>3, <2>4, <2>5, <2>6, <2>7
<1> HIDE DEF b, m
<1>12. OnePlace'
  <2>1. \A h \in Holding : h[3] # connfd /\ h[3] \in Fds /\ sock[h[3]]
    BY <1>1, <1>2 DEF OnePlace, Holding, Places3
  <2>2. connfd # NoFd /\ sock[connfd]
    BY <1>1, <1>2 DEF OnePlace, PollAssumption
  <2>3. Settled'
    BY <1>4 DEF Settled
  <2>4. \A h, k \in Holding' : h[3] = k[3] => h = k
    BY <1>1, <1>11, <2>1 DEF OnePlace
  <2>5. \A h \in Holding' : sock'[h[3]] /\ h[3] # connfd'
    <3>1. \A f \in Fds : f # NoFd
      BY DEF PollAssumption
    <3> QED BY <1>2, <1>4, <1>11, <2>1, <2>2, <3>1
  <2>6. \A f \in Fds : sock'[f] => f = connfd' \/ \E h \in Holding' : h[3] = f
    <3>1. <<b, m, connfd>> \in Holding' /\ <<b, m, connfd>>[3] = connfd
      BY <1>11
    <3>2. \A f \in Fds : sock[f] => f = connfd \/ \E h \in Holding : h[3] = f
      BY <1>1, <1>2 DEF OnePlace
    <3>3. Holding \subseteq Holding'
      BY <1>11
    <3> QED BY <1>4, <3>1, <3>2, <3>3
  <2> QED BY <1>4, <2>4, <2>5, <2>6 DEF OnePlace
<1>13. UsersMatch'
  <2>1. session[connfd] = NoUser
    BY <1>1, <1>2 DEF OnePlace, UsersMatch
  <2>2. ASSUME NEW h \in Holding'
        PROVE  actives'[h[1]][h[2]] = session'[h[3]]
    <3>1. CASE h = <<b, m, connfd>>
      BY <1>4, <1>6, <2>1, <3>1
    <3>2. CASE h \in Holding
      <4>1. h[1] \in Workers /\ h[2] \in 1..Len(actives[h[1]]) /\ h[3] \in Fds
        BY <1>1, <3>2, HeldIndex
      <4>2. actives'[h[1]][h[2]] = actives[h[1]][h[2]]
        BY <1>3, <1>6, <1>7, <4>1
      <4> QED BY <1>1, <1>4, <3>2, <4>2 DEF UsersMatch
    <3> QED BY <1>11, <3>1, <3>2
  <2>3. \A f \in Fds : session'[f] # NoUser => \E h \in Holding' : h[3] = f
    BY <1>1, <1>4, <1>11 DEF UsersMatch
  <2> QED BY <1>1, <1>4, <2>2, <2>3 DEF UsersMatch
<1> QED BY <1>8, <1>9, <1>10, <1>12, <1>13 DEF IInv

(***************************************************************************)
(* The descriptors of a worker that is joined are closed; whose place they *)
(* had is no longer asked.                                                 *)
(***************************************************************************)
LEMMA JoinStep ==
  ASSUME IInv, JoinWorker
  PROVE  IInv'
<1>1. /\ mpc = "join" /\ mpc' \in {"exited", "cleanup"}
      /\ sock' = [f \in Fds |-> sock[f] /\ \A i \in DOMAIN sets[next] : sets[next][i] # f]
      /\ next' = next + 1
      /\ UNCHANGED <<sets, actives, wpc, at, fd, session, loggedIn, best, connfd>>
  BY DEF JoinWorker, MainAt, pollsets, sweep
<1>2. connfd = NoFd /\ best = 0
  BY <1>1 DEF IInv, MainKnows
<1>3. SetsOK'
  <2>1. sock' \in [Fds -> BOOLEAN]
    BY <1>1
  <2> QED BY <1>1, <2>1 DEF IInv, SetsOK
<1>4. WorkersOK' /\ MainOK'
  BY <1>1 DEF IInv, WorkersOK, MainOK
<1>5. MainKnows'
  BY <1>1, <1>2 DEF MainKnows
<1>6. IndexStaysValid'
  BY <1>1 DEF IInv, IndexStaysValid
<1>7. Holding' = Holding
  BY <1>1, SameHolding DEF Leaving
<1>8. OnePlace'
  BY <1>1, <1>2, <1>7 DEF IInv, OnePlace, Settled
<1>9. UsersMatch'
  BY <1>1, <1>7 DEF IInv, UsersMatch
<1> QED BY <1>3, <1>4, <1>5, <1>6, <1>8, <1>9 DEF IInv

LEMMA MainStep ==
  ASSUME IInv, PollAssumption, Main \/ Contend
  PROVE  IInv'
<1> USE DEF MainAt, pollsets, net, sweep, placing, Settled
<1>0. MainOK /\ MainKnows /\ NumWorkers \in Nat \ {0}
  BY DEF IInv, PollAssumption
<1> DEFINE Still == /\ UNCHANGED <<sets, actives, sock, session, loggedIn, connfd>>
                    /\ UNCHANGED <<wpc, at, fd>>
<1>1. CASE MainCheck
  <2>1. Still /\ mpc = "check" /\ mpc' \in {"cleanup", "enter"} /\ next' = 1 /\ best' = best
    BY <1>1 DEF MainCheck
  <2>2. MainOK' /\ MainKnows'
    BY <1>0, <2>1 DEF MainOK, MainKnows
  <2> QED BY <2>1, <2>2, QuietMain
<1>2. CASE EnterPoll
  <2>1. Still /\ mpc = "enter" /\ mpc' = "poll" /\ next' = next /\ best' = best
    BY <1>2 DEF EnterPoll
  <2>2. MainOK' /\ MainKnows'
    BY <1>0, <2>1 DEF MainOK, MainKnows
  <2> QED BY <2>1, <2>2, QuietMain
<1>3. CASE ReadStdin
  <2>1. Still /\ mpc = "poll" /\ mpc' = "check" /\ next' = next /\ best' = best
    BY <1>3 DEF ReadStdin
  <2>2. MainOK' /\ MainKnows'
    BY <1>0, <2>1 DEF MainOK, MainKnows
  <2> QED BY <2>1, <2>2, QuietMain
<1>4. CASE LookAtPollset
  <2>1. /\ Still /\ mpc = "scan" /\ mpc' = mpc /\ next <= NumWorkers
        /\ next' = next + 1
        /\ best' = best \/ (best' = next /\ HasRoom(next))
    BY <1>4 DEF LookAtPollset
  <2>2. MainOK'
    BY <1>0, <2>1 DEF MainOK
  <2>3. \A v : HasRoom(v)' <=> HasRoom(v)
    BY <2>1 DEF HasRoom, Size
  <2>4. MainKnows'
    BY <1>0, <2>1, <2>3 DEF MainKnows, HasRoom, Size
  <2> QED BY <2>1, <2>2, <2>4, QuietMain
<1>5. CASE ChoosePollset
  <2>1. /\ Still /\ mpc = "scan" /\ next' = 1 /\ best' = best
        /\ mpc' = IF best = 0 THEN "scan" ELSE "add"
    BY <1>5 DEF ChoosePollset
  <2>2. MainOK' /\ MainKnows'
    BY <1>0, <2>1 DEF MainOK, MainKnows, HasRoom, Size
  <2> QED BY <2>1, <2>2, QuietMain
<1>6. CASE Notify
  <2>1. Still /\ mpc = "notify" /\ mpc' = "check" /\ next' = next /\ best' = 0
    BY <1>6 DEF Notify
  <2>2. MainOK' /\ MainKnows'
    BY <1>0, <2>1 DEF MainOK, MainKnows
  <2> QED BY <2>1, <2>2, QuietMain
<1>7. CASE WakeWorker
  <2>1. Still /\ mpc = "cleanup" /\ mpc' = "join" /\ next' = next /\ best' = best
    BY <1>7 DEF WakeWorker
  <2>2. MainOK' /\ MainKnows'
    BY <1>0, <2>1 DEF MainOK, MainKnows
  <2> QED BY <2>1, <2>2, QuietMain
<1> QED BY <1>1, <1>2, <1>3, <1>4, <1>5, <1>6, <1>7, AcceptStep, AddStep, JoinStep
        DEF Main, Contend

LEMMA OutsideStep ==
  ASSUME IInv, Outside
  PROVE  IInv'
<1> USE DEF pollsets, net, sweep, placing, Settled
<1>0. MainOK /\ MainKnows
  BY DEF IInv
<1>1. /\ UNCHANGED <<sets, actives, sock, session, loggedIn, connfd>>
      /\ UNCHANGED <<wpc, at, fd, next>>
      /\ \/ mpc' = mpc /\ best' = best
         \/ mpc = "poll" /\ mpc' = "check" /\ best' = best
         \/ mpc = "notify" /\ mpc' = "check" /\ best' = 0
         \/ mpc = "cleanup" /\ mpc' = "join" /\ best' = best
  <2>1. CASE Interrupt
    BY <2>1 DEF Interrupt
  <2>2. CASE Type
    BY <2>2 DEF Type
  <2>3. CASE Connect
    BY <2>3 DEF Connect
  <2>4. CASE \E f \in Fds : StartRequest(f) \/ FinishRequest(f) \/ Disconnect(f)
    BY <2>4 DEF StartRequest, FinishRequest, Disconnect, Client
  <2> QED BY <2>1, <2>2, <2>3, <2>4 DEF Outside
<1>2. MainOK' /\ MainKnows'
  <2>1. CASE mpc' = mpc /\ best' = best
    BY <1>0, <1>1, <2>1 DEF MainOK, MainKnows, HasRoom, Size
  <2>2. CASE mpc = "poll" /\ mpc' = "check" /\ best' = best
    BY <1>0, <1>1, <2>2 DEF MainOK, MainKnows
  <2>3. CASE mpc = "notify" /\ mpc' = "check" /\ best' = 0
    <3>1. 0 \in 0..NumWorkers
      BY PollAssumption DEF PollAssumption
    <3> QED BY <1>0, <1>1, <2>3, <3>1 DEF MainOK, MainKnows
  <2>4. CASE mpc = "cleanup" /\ mpc' = "join" /\ best' = best
    BY <1>0, <1>1, <2>4 DEF MainOK, MainKnows
  <2> QED BY <1>1, <2>1, <2>2, <2>3, <2>4
<1>3. Settled' => Settled
  BY <1>1
<1> QED BY <1>1, <1>2, <1>3, QuietMain

(***************************************************************************)
(* A step that changes nothing.                                            *)
(***************************************************************************)
LEMMA StutterStep ==
  ASSUME IInv, UNCHANGED vars
  PROVE  IInv'
<1>1. /\ UNCHANGED <<sets, actives, sock, session, loggedIn, connfd>>
      /\ UNCHANGED <<wpc, at, fd, mpc, next, best>>
  BY DEF vars, pollsets, net, sweep, placing
<1>2. MainOK' /\ MainKnows'
  BY <1>1 DEF IInv, MainOK, MainKnows, HasRoom, Size
<1> QED BY <1>1, <1>2, QuietMain DEF Settled

-----------------------------------------------------------------------------
(* The theorems.                                                           *)

LEMMA InitIInv ==
  ASSUME PollAssumption, Init
  PROVE  IInv
<1>1. /\ <<>> \in Seq(Fds) /\ <<>> \in Seq(Users \cup {NoUser})
      /\ Len(<<>>) = 0 /\ DOMAIN <<>> = {}
  OBVIOUS
<1>2. SetsOK
  BY <1>1 DEF Init, SetsOK, PollAssumption
<1>3. WorkersOK /\ MainOK /\ MainKnows /\ IndexStaysValid
  BY DEF Init, WorkersOK, Labels, MainOK, MainKnows, IndexStaysValid, PollAssumption
<1>4. Holding = {}
  <2>1. \A w \in Workers : sets[w] = <<>>
    BY DEF Init
  <2> QED BY <1>1, <2>1 DEF Holding, Places3
<1>5. OnePlace
  BY <1>4 DEF Init, OnePlace
<1>6. UsersMatch
  BY <1>4 DEF Init, UsersMatch, PollAssumption
<1> QED BY <1>2, <1>3, <1>5, <1>6 DEF IInv

LEMMA NextIInv ==
  ASSUME IInv, PollAssumption, [Next]_vars
  PROVE  IInv'
BY WorkerStep, MainStep, OutsideStep, StutterStep DEF Next, Ended

(***************************************************************************)
(* The inductive invariant holds throughout: the event loops keep their    *)
(* poll sets, places and users in order.                                   *)
(***************************************************************************)
THEOREM LoopsKeepOrder == Spec => []IInv
<1>1. Init => IInv
  BY PollAssumption, InitIInv
<1>2. IInv /\ [Next]_vars => IInv'
  BY PollAssumption, NextIInv
<1> QED BY <1>1, <1>2, PTL DEF Spec

(***************************************************************************)
(* An open connection is either about to be placed or in one entry of one  *)
(* poll set, and a closed one in none.                                     *)
(***************************************************************************)
THEOREM OpenConnectionsHaveOnePlace == Spec => []ConnectionsHaveOnePlace
<1>1. IInv => ConnectionsHaveOnePlace
  <2> SUFFICES ASSUME IInv, Settled, NEW f \in Fds
               PROVE  Cardinality(Places(f)) + (IF connfd = f THEN 1 ELSE 0)
                        = IF sock[f] THEN 1 ELSE 0
    BY DEF ConnectionsHaveOnePlace, Settled
  <2>1. OnePlace /\ f # NoFd
    BY PollAssumption DEF IInv, PollAssumption
  <2>2. \A p \in Places(f) : <<p[1], p[2], f>> \in Holding
    BY DEF Places, Holding, Places3, Slots
  <2>3. \A h \in Holding : h[3] = f => <<h[1], h[2]>> \in Places(f)
    BY DEF Places, Holding, Places3, Slots
  <2>4. \A p \in Places(f) : p = <<p[1], p[2]>>
    BY DEF Places
  <2>5. CASE \E h \in Holding : h[3] = f
    <3>1. PICK h \in Holding : h[3] = f
      BY <2>5
    <3>2. sock[f] /\ f # connfd
      BY <2>1, <3>1 DEF OnePlace
    <3>3. ASSUME NEW p \in Places(f)
          PROVE  p = <<h[1], h[2]>>
      <4>1. <<p[1], p[2], f>> = h
        BY <2>1, <2>2, <3>1 DEF OnePlace
      <4> QED BY <2>4, <4>1
    <3>4. Places(f) = {<<h[1], h[2]>>}
      BY <2>3, <3>1, <3>3
    <3>5. Cardinality(Places(f)) = 1
      BY <3>4, FS_Singleton
    <3> QED BY <3>2, <3>5
  <2>6. CASE ~\E h \in Holding : h[3] = f
    <3>1. Places(f) = {}
      BY <2>2, <2>6
    <3>2. Cardinality(Places(f)) = 0
      BY <3>1, FS_EmptySet
    <3>3. sock[f] <=> connfd = f
      BY <2>1, <2>6 DEF OnePlace
    <3> QED BY <3>2, <3>3
  <2> QED BY <2>5, <2>6
<1> QED BY <1>1, LoopsKeepOrder, PTL

(***************************************************************************)
(* The user next to a connection is the one who logged in on it, through   *)
(* every swap and every reuse of a descriptor, and logged_in is set for    *)
(* exactly those.                                                          *)
(***************************************************************************)
THEOREM UsersFollowConnections == Spec => []ActiveUsersFollowConnections
<1>1. IInv => ActiveUsersFollowConnections
  <2> SUFFICES ASSUME IInv
               PROVE  ActiveUsersFollowConnections
    OBVIOUS
  <2>1. ASSUME NEW w \in Workers, NEW i \in DOMAIN sets[w], ~Leaving(w, i)
        PROVE  actives[w][i] = session[sets[w][i]]
    <3>1. /\ sets[w] \in Seq(Fds) /\ Len(sets[w]) \in Nat
          /\ DOMAIN sets[w] = 1..Len(sets[w])
          /\ Len(sets[w]) < ClientsPerThread
      BY LenProperties DEF IInv, SetsOK
    <3>2. sets[w][i] \in Fds
      BY <3>1, ElementOfSeq
    <3>3. i \in Slots
      BY <3>1, PollAssumption DEF Slots, PollAssumption
    <3>4. <<w, i, sets[w][i]>> \in Holding
      BY <2>1, <3>2, <3>3 DEF Holding, Places3, Leaving
    <3> QED BY <3>4 DEF IInv, UsersMatch
  <2> QED BY <2>1 DEF IInv, UsersMatch, ActiveUsersFollowConnections
<1> QED BY <1>1, LoopsKeepOrder, PTL

(***************************************************************************)
(* What a thread found under the mutex of a poll set still holds when it   *)
(* uses it: the index of the connection a worker serves or removes, and    *)
(* the room add_to_pollset finds, so that it closes no connection.         *)
(***************************************************************************)
THEOREM FoundUnderMutexStillHolds == Spec => [](IndexStaysValid /\ RoomIsStillThere)
<1>1. IInv => IndexStaysValid /\ RoomIsStillThere
  BY DEF IInv, MainKnows, RoomIsStillThere, HasRoom
<1> QED BY <1>1, LoopsKeepOrder, PTL

-----------------------------------------------------------------------------
(* The rest of the types.                                                  *)

(***************************************************************************)
(* The rest of TypeOK.                                                     *)
(***************************************************************************)
SweepOK ==
  /\ local \in [Workers -> Seq(Fds)]
  /\ todo \in [Workers -> SUBSET Entries]
  /\ fd \in [Workers -> Fds \cup {NoFd}]
  /\ \A w \in Workers : /\ Len(local[w]) < ClientsPerThread
                        /\ at[w] <= Len(sets[w])

PlainOK ==
  /\ mutex \in [Workers -> BOOLEAN]
  /\ inbox \in [Fds -> {"empty", "part", "request"}]
  /\ peer \in [Fds -> {"here", "gone", "reset"}]
  /\ backlog \in 0..MaxBacklog
  /\ next \in 1..NumWorkers + 1
  /\ least \in 0..ClientsPerThread
  /\ stdin \in {"quiet", "command", "chatter", "hangup"}
  /\ sigint \in BOOLEAN
  /\ killed \in BOOLEAN

PipesOK ==
  /\ pipe \in [Workers -> Nat]
  /\ closed \in [Workers -> BOOLEAN]
  /\ mpc \in {"cleanup", "join"} => next <= NumWorkers

RestInv == SweepOK /\ PlainOK /\ PipesOK

LEMMA SetLengths ==
  ASSUME IInv, PollAssumption, NEW w \in Workers
  PROVE  /\ ClientsPerThread \in Nat /\ ClientsPerThread >= 1
         /\ sets[w] \in Seq(Fds) /\ Len(sets[w]) \in Nat
         /\ Len(sets[w]) <= ClientsPerThread - 1
<1>1. ClientsPerThread \in Nat /\ ClientsPerThread >= 1
  BY DEF PollAssumption
<1>2. sets[w] \in Seq(Fds) /\ Len(sets[w]) < ClientsPerThread
  BY DEF IInv, SetsOK
<1>3. Len(sets[w]) \in Nat
  BY <1>2, LenProperties
<1> QED BY <1>1, <1>2, <1>3

(***************************************************************************)
(* Steps of a worker that neither read its pipe nor change its poll set.   *)
(***************************************************************************)
QuietRest(w) ==
  /\ UNCHANGED <<sets, pipe, closed, todo, mpc, next, best, backlog, least, stdin, sigint>>
  /\ local' = local \/ local' = [local EXCEPT ![w] = sets[w]]
  /\ fd' = fd \/ fd' = [fd EXCEPT ![w] = NoFd]
  /\ at' = at \/ at' = [at EXCEPT ![w] = 0]
       \/ (wpc[w] # "unlink" /\ at' = [at EXCEPT ![w] = Find(w)])
  /\ mutex' \in [Workers -> BOOLEAN]
  /\ inbox' \in [Fds -> {"empty", "part", "request"}]
  /\ peer' \in [Fds -> {"here", "gone", "reset"}]
  /\ killed' \in BOOLEAN

LEMMA QuietKeepsRest ==
  ASSUME IInv, RestInv, PollAssumption, NEW w \in Workers, QuietRest(w)
  PROVE  RestInv'
<1>1. /\ sets[w] \in Seq(Fds) /\ Len(sets[w]) \in Nat
      /\ Len(sets[w]) <= ClientsPerThread - 1 /\ ClientsPerThread \in Nat
  BY SetLengths
<1>2. PlainOK'
  BY DEF RestInv, PlainOK, QuietRest
<1>3. SweepOK'
  <2>1. /\ local' \in [Workers -> Seq(Fds)]
        /\ \A v \in Workers : Len(local'[v]) < ClientsPerThread
    <3>1. CASE local' = local
      BY <3>1 DEF RestInv, SweepOK
    <3>2. CASE local' = [local EXCEPT ![w] = sets[w]]
      BY <1>1, <3>2 DEF RestInv, SweepOK
    <3> QED BY <3>1, <3>2 DEF QuietRest
  <2>2. fd' \in [Workers -> Fds \cup {NoFd}]
    BY DEF RestInv, SweepOK, QuietRest
  <2>3. \A v \in Workers : at'[v] <= Len(sets[v])
    <3>0. at \in [Workers -> Nat] /\ \A v \in Workers : at[v] <= Len(sets[v])
      BY DEF IInv, WorkersOK, RestInv, SweepOK
    <3>1. CASE at' = at
      BY <3>0, <3>1
    <3>2. CASE at' = [at EXCEPT ![w] = 0]
      BY <1>1, <3>0, <3>2
    <3>3. CASE wpc[w] # "unlink" /\ at' = [at EXCEPT ![w] = Find(w)]
      <4>1. /\ Find(w) \in Nat
            /\ Find(w) # 0 => Find(w) \in DOMAIN sets[w] /\ sets[w][Find(w)] = fd[w]
        BY <3>3, FindProperties DEF IInv
      <4>2. Find(w) <= Len(sets[w])
        BY <1>1, <4>1
      <4> QED BY <3>0, <3>3, <4>2
    <3> QED BY <3>1, <3>2, <3>3 DEF QuietRest
  <2> QED BY <2>1, <2>2, <2>3 DEF RestInv, SweepOK, QuietRest
<1>4. PipesOK'
  BY DEF RestInv, PipesOK, QuietRest
<1> QED BY <1>2, <1>3, <1>4 DEF RestInv

LEMMA QuietStepsKeepRest ==
  ASSUME IInv, RestInv, PollAssumption, NEW w \in Workers,
         \/ CopyPollset(w) \/ ExitThread(w) \/ EndSweep(w) \/ ReceiveRequest(w)
         \/ Locate(w) \/ Handle(w) \/ SendResponse(w) \/ LockPollset(w) \/ CloseFd(w)
  PROVE  RestInv'
<1> USE DEF At, Goto, QuietRest, pollsets, pipes, net, placing, process, sweep, Leave
<1> SUFFICES QuietRest(w)
  BY QuietKeepsRest
<1>0. /\ wpc \in [Workers -> Labels]
      /\ mutex \in [Workers -> BOOLEAN]
      /\ inbox \in [Fds -> {"empty", "part", "request"}]
      /\ peer \in [Fds -> {"here", "gone", "reset"}]
      /\ killed \in BOOLEAN
      /\ local \in [Workers -> Seq(Fds)]
  BY DEF IInv, WorkersOK, RestInv, PlainOK, SweepOK
<1>1. CASE CopyPollset(w)
  BY <1>0, <1>1 DEF CopyPollset
<1>2. CASE ExitThread(w)
  BY <1>0, <1>2 DEF ExitThread
<1>3. CASE EndSweep(w)
  BY <1>0, <1>3 DEF EndSweep
<1>4. CASE ReceiveRequest(w)
  <2>1. /\ UNCHANGED <<pollsets, pipes, sweep, sock, peer, session, backlog, loggedIn,
                       mpc, placing, process>>
        /\ wpc[w] = "read"
        /\ \/ inbox' = [inbox EXCEPT ![fd[w]] = "empty"] /\ Goto(w, "locate")
           \/ UNCHANGED inbox /\ Goto(w, "lock")
    BY <1>4 DEF ReceiveRequest
  <2> QED BY <1>0, <2>1
<1>5. CASE Locate(w)
  <2>1. /\ UNCHANGED <<pollsets, pipes, todo, local, net, loggedIn, mpc, placing, process>>
        /\ wpc[w] = "locate"
        /\ at' = [at EXCEPT ![w] = Find(w)]
        /\ \/ Goto(w, "sweep") /\ fd' = [fd EXCEPT ![w] = NoFd]
           \/ Goto(w, "handle") /\ fd' = fd
    BY <1>5 DEF Locate
  <2> QED BY <1>0, <2>1
<1>6. CASE Handle(w)
  <2>1. /\ UNCHANGED <<sets, mutex, pipes, sweep, sock, inbox, peer, backlog, mpc,
                       placing, process>>
        /\ wpc[w] = "handle" /\ Goto(w, "send")
    BY <1>6 DEF Handle
  <2> QED BY <1>0, <2>1
<1>7. CASE SendResponse(w)
  <2>1. /\ UNCHANGED <<pollsets, pipes, net, loggedIn, mpc, placing, stdin, sigint>>
        /\ wpc[w] = "send"
        /\ \/ Leave(w) /\ UNCHANGED <<todo, local, killed>>
           \/ Goto(w, "lock") /\ UNCHANGED <<sweep, killed>>
           \/ killed' = TRUE /\ UNCHANGED <<wpc, sweep>>
    BY <1>7 DEF SendResponse
  <2>2. CASE Leave(w) /\ UNCHANGED <<todo, local, killed>>
    BY <1>0, <2>1, <2>2
  <2>3. CASE Goto(w, "lock") /\ UNCHANGED <<sweep, killed>>
    BY <1>0, <2>1, <2>3
  <2>4. CASE killed' = TRUE /\ UNCHANGED <<wpc, sweep>>
    BY <1>0, <2>1, <2>4
  <2> QED BY <2>1, <2>2, <2>3, <2>4
<1>8. CASE LockPollset(w)
  <2>1. /\ UNCHANGED <<sets, actives, pipes, todo, local, net, loggedIn, mpc, placing, process>>
        /\ wpc[w] = "lock"
        /\ \/ Leave(w) /\ UNCHANGED mutex
           \/ /\ mutex' = [mutex EXCEPT ![w] = TRUE]
              /\ at' = [at EXCEPT ![w] = Find(w)]
              /\ Goto(w, "close")
              /\ fd' = fd
    BY <1>8 DEF LockPollset
  <2>2. CASE Leave(w) /\ UNCHANGED mutex
    BY <1>0, <2>1, <2>2
  <2>3. CASE ~(Leave(w) /\ UNCHANGED mutex)
    BY <1>0, <2>1, <2>3
  <2> QED BY <2>2, <2>3
<1>9. CASE CloseFd(w)
  <2>1. /\ UNCHANGED <<sets, mutex, pipes, sweep, backlog, mpc, placing, process>>
        /\ wpc[w] = "close" /\ Goto(w, "unlink")
        /\ inbox' = [inbox EXCEPT ![fd[w]] = "empty"]
        /\ peer' = [peer EXCEPT ![fd[w]] = "here"]
    BY <1>9 DEF CloseFd
  <2> QED BY <1>0, <2>1
<1> QED BY <1>1, <1>2, <1>3, <1>4, <1>5, <1>6, <1>7, <1>8, <1>9

(***************************************************************************)
(* The entries poll() reports.                                             *)
(***************************************************************************)
LEMMA ReadyEntries ==
  ASSUME NEW L \in Seq(Fds), PollAssumption, Len(L) < ClientsPerThread,
         NEW ready \in SUBSET DOMAIN L
  PROVE  {SetEntry(i, L[i]) : i \in ready} \subseteq Entries
<1>1. Len(L) \in Nat /\ DOMAIN L = 1..Len(L)
  BY LenProperties
<1>2. ASSUME NEW i \in ready
      PROVE  SetEntry(i, L[i]) \in Entries
  <2>1. i \in 0..ClientsPerThread /\ i # 0 /\ L[i] \in Fds
    BY <1>1, ElementOfSeq DEF PollAssumption
  <2> QED BY <2>1 DEF SetEntry, Entries
<1> QED BY <1>2

(***************************************************************************)
(* Steps that change what is left of a sweep.                              *)
(***************************************************************************)
LEMMA PollReturnsRest ==
  ASSUME IInv, RestInv, PollAssumption, NEW w \in Workers, PollReturns(w)
  PROVE  RestInv'
<1> DEFINE woken == pipe[w] > 0 \/ closed[w]
           ready == {i \in DOMAIN local[w] : Readable(local[w][i])}
           E == {SetEntry(i, local[w][i]) : i \in ready}
           T == E \cup (IF woken THEN {PipeEntry} ELSE {})
<1>1. /\ todo' = [todo EXCEPT ![w] = T]
      /\ local' = [local EXCEPT ![w] = <<>>]
      /\ UNCHANGED <<sets, mutex, pipe, closed, fd, at, inbox, peer, backlog, mpc,
                     next, best, least, stdin, sigint, killed>>
  BY DEF PollReturns, At, Goto, pollsets, pipes, net, placing, process
<1>2. /\ local \in [Workers -> Seq(Fds)] /\ todo \in [Workers -> SUBSET Entries]
      /\ local[w] \in Seq(Fds) /\ Len(local[w]) < ClientsPerThread
  BY DEF RestInv, SweepOK
<1>3. E \subseteq Entries
  <2>1. ready \in SUBSET DOMAIN local[w]
    OBVIOUS
  <2> QED BY <1>2, <2>1, ReadyEntries
<1> HIDE DEF ready, E
<1>4. T \subseteq Entries
  <2>1. PipeEntry \in Entries
    BY DEF PipeEntry, Entries, PollAssumption
  <2> QED BY <1>3, <2>1
<1> HIDE DEF T
<1>5. PlainOK'
  BY <1>1 DEF RestInv, PlainOK
<1>6. SweepOK'
  <2>1. Len(<<>>) = 0 /\ <<>> \in Seq(Fds)
    OBVIOUS
  <2>2. local' \in [Workers -> Seq(Fds)]
    BY <1>1, <1>2, <2>1
  <2>3. todo' \in [Workers -> SUBSET Entries]
    BY <1>1, <1>2, <1>4
  <2>4. \A v \in Workers : Len(local'[v]) < ClientsPerThread
    BY <1>1, <1>2, <2>1 DEF RestInv, SweepOK, PollAssumption
  <2> QED BY <1>1, <2>2, <2>3, <2>4 DEF RestInv, SweepOK
<1>7. PipesOK'
  BY <1>1 DEF RestInv, PipesOK
<1> QED BY <1>5, <1>6, <1>7 DEF RestInv

LEMMA DrainPipeRest ==
  ASSUME RestInv, PollAssumption, NEW w \in Workers, DrainPipe(w)
  PROVE  RestInv'
<1> DEFINE T == IF pipe[w] = 0 /\ sigint THEN {} ELSE todo[w] \ {PipeEntry}
<1>1. /\ todo' = [todo EXCEPT ![w] = T]
      /\ pipe' = [pipe EXCEPT ![w] = IF @ > ReadSize THEN @ - ReadSize ELSE 0]
      /\ UNCHANGED <<sets, mutex, closed, local, fd, at, inbox, peer, backlog, mpc,
                     next, best, least, stdin, sigint, killed>>
  BY DEF DrainPipe, ReadPipe, At, pollsets, net, placing, process
<1>2. T \subseteq Entries
  BY DEF RestInv, SweepOK
<1> HIDE DEF T
<1>3. PlainOK'
  BY <1>1 DEF RestInv, PlainOK
<1>4. SweepOK'
  BY <1>1, <1>2 DEF RestInv, SweepOK
<1>5. PipesOK'
  <2>1. ReadSize \in Nat /\ pipe[w] \in Nat /\ pipe \in [Workers -> Nat]
    BY DEF RestInv, PipesOK, PollAssumption
  <2>2. pipe' \in [Workers -> Nat]
    BY <1>1, <2>1
  <2> QED BY <1>1, <2>2 DEF RestInv, PipesOK
<1> QED BY <1>3, <1>4, <1>5 DEF RestInv

LEMMA NextEntryRest ==
  ASSUME RestInv, NEW w \in Workers, NextEntry(w)
  PROVE  RestInv'
<1>1. PICK e \in todo[w] :
        /\ todo' = [todo EXCEPT ![w] = @ \ {e}]
        /\ fd' = [fd EXCEPT ![w] = e.fd]
  BY DEF NextEntry
<1>2. UNCHANGED <<sets, mutex, pipe, closed, local, at, inbox, peer, backlog, mpc,
                  next, best, least, stdin, sigint, killed>>
  BY DEF NextEntry, At, pollsets, pipes, net, placing, process
<1>3. e.fd \in Fds \cup {NoFd}
  BY <1>1 DEF RestInv, SweepOK, Entries
<1>4. PlainOK'
  BY <1>2 DEF RestInv, PlainOK
<1>5. SweepOK'
  BY <1>1, <1>2, <1>3 DEF RestInv, SweepOK
<1>6. PipesOK'
  BY <1>2 DEF RestInv, PipesOK
<1> QED BY <1>4, <1>5, <1>6 DEF RestInv

LEMMA UnlinkRest ==
  ASSUME IInv, RestInv, PollAssumption, NEW w \in Workers, Unlink(w)
  PROVE  RestInv'
<1>1. /\ wpc[w] = "unlink"
      /\ sets' = [sets EXCEPT ![w] = SwapRemove(@, at[w])]
      /\ mutex' = [mutex EXCEPT ![w] = FALSE]
      /\ wpc' = [wpc EXCEPT ![w] = "sweep"]
      /\ fd' = [fd EXCEPT ![w] = NoFd]
      /\ at' = [at EXCEPT ![w] = 0]
      /\ UNCHANGED <<pipe, closed, todo, local, inbox, peer, backlog, mpc,
                     next, best, least, stdin, sigint, killed>>
  BY DEF Unlink, At, Goto, Unlock, Leave, pipes, net, placing, process
<1>2. /\ sets \in [Workers -> Seq(Fds)] /\ sets[w] \in Seq(Fds)
      /\ wpc \in [Workers -> Labels] /\ at \in [Workers -> Nat]
      /\ fd \in [Workers -> Fds \cup {NoFd}] /\ mutex \in [Workers -> BOOLEAN]
      /\ \A v \in Workers : at[v] <= Len(sets[v])
  BY DEF IInv, SetsOK, WorkersOK, RestInv, SweepOK, PlainOK
<1>3. at[w] \in 1..Len(sets[w])
  <2>1. at[w] \in DOMAIN sets[w]
    BY <1>1 DEF IInv, IndexStaysValid
  <2> QED BY <1>2, <2>1, LenProperties
<1>4. Len(SwapRemove(sets[w], at[w])) = Len(sets[w]) - 1
  BY <1>2, <1>3, SwapRemoveProperties
<1>5. \A v \in Workers : Len(sets'[v]) = IF v = w THEN Len(sets[w]) - 1 ELSE Len(sets[v])
  BY <1>1, <1>2, <1>4
<1>6. Len(sets[w]) \in Nat /\ Len(sets[w]) >= 1
  BY <1>3, SetLengths
<1>7. PlainOK'
  BY <1>1, <1>2 DEF RestInv, PlainOK
<1>8. SweepOK'
  <2>1. \A v \in Workers : at'[v] = IF v = w THEN 0 ELSE at[v]
    BY <1>1, <1>2
  <2>2. \A v \in Workers : at'[v] <= Len(sets'[v])
    <3>1. at'[w] <= Len(sets'[w])
      BY <1>5, <1>6, <2>1
    <3>2. \A v \in Workers : v # w => at'[v] <= Len(sets'[v])
      BY <1>2, <1>5, <2>1
    <3> QED BY <3>1, <3>2
  <2>3. fd' \in [Workers -> Fds \cup {NoFd}]
    BY <1>1, <1>2
  <2> QED BY <1>1, <2>2, <2>3 DEF RestInv, SweepOK
<1>9. PipesOK'
  BY <1>1 DEF RestInv, PipesOK
<1> QED BY <1>7, <1>8, <1>9 DEF RestInv

(***************************************************************************)
(* Steps of the outside, and of the main thread unless it places, notifies *)
(* or wakes.                                                               *)
(***************************************************************************)
FrameRest ==
  /\ UNCHANGED <<sets, pipe, closed, todo, local, fd, at>>
  /\ mpc' \in {"cleanup", "join"} => next' <= NumWorkers

LEMMA FrameKeepsRest ==
  ASSUME RestInv, FrameRest, PlainOK'
  PROVE  RestInv'
BY DEF RestInv, SweepOK, PipesOK, FrameRest

LEMMA OutsideRest ==
  ASSUME IInv, RestInv, PollAssumption, Outside
  PROVE  RestInv'
<1> USE DEF pollsets, pipes, net, placing, process, sweep
<1>0. /\ mpc \in {"cleanup", "join"} => next <= NumWorkers
      /\ PlainOK
  BY DEF RestInv, PipesOK
<1>1. ASSUME UNCHANGED <<sets, pipe, closed, todo, local, fd, at, wpc, mpc, next, best>>
      PROVE  FrameRest
  BY <1>0, <1>1 DEF FrameRest
<1>2. CASE Interrupt
  <2>0. /\ UNCHANGED <<sets, mutex, pipe, todo, local, fd, at, wpc, inbox, peer, backlog,
                       next, stdin, killed>>
        /\ sigint' = TRUE /\ least' \in {least, 0}
    BY <1>2 DEF Interrupt
  <2>1. PlainOK'
    BY <1>0, <2>0, PollAssumption DEF PlainOK, PollAssumption
  <2>2. CASE mpc # "poll" /\ UNCHANGED <<mpc, best, least, closed>>
    BY <1>1, <2>0, <2>1, <2>2, FrameKeepsRest
  <2>3. CASE /\ (mpc = "poll" /\ UNCHANGED <<best, least, closed>>)
                  \/ (mpc = "notify" /\ UNCHANGED closed)
             /\ mpc' = "check"
    <3>1. FrameRest
      BY <2>0, <2>3 DEF FrameRest
    <3> QED BY <2>1, <3>1, FrameKeepsRest
  <2>4. CASE /\ mpc = "cleanup"
             /\ mpc' = "join" /\ closed' = [closed EXCEPT ![next] = TRUE]
    <3>1. SweepOK'
      BY <2>0 DEF RestInv, SweepOK
    <3>2. PipesOK'
      BY <1>0, <2>0, <2>4 DEF RestInv, PipesOK
    <3> QED BY <2>1, <3>1, <3>2 DEF RestInv
  <2> QED BY <1>2, <2>2, <2>3, <2>4 DEF Interrupt
<1>3. CASE Type
  <2>1. /\ UNCHANGED <<pollsets, pipes, wpc, sweep, net, loggedIn, mpc, placing, sigint,
                       killed>>
        /\ stdin' \in StdinEvents
    BY <1>3 DEF Type
  <2>2. PlainOK'
    BY <1>0, <2>1, PollAssumption DEF PlainOK, PollAssumption
  <2> QED BY <1>1, <2>1, <2>2, FrameKeepsRest
<1>4. CASE Connect
  <2>1. /\ UNCHANGED <<pollsets, pipes, wpc, sweep, sock, inbox, peer, session, loggedIn,
                       mpc, placing, process>>
        /\ backlog < MaxBacklog /\ backlog' = backlog + 1
    BY <1>4 DEF Connect
  <2>2. PlainOK'
    BY <1>0, <2>1, PollAssumption DEF PlainOK, PollAssumption
  <2> QED BY <1>1, <2>1, <2>2, FrameKeepsRest
<1>5. ASSUME NEW f \in Fds, StartRequest(f) \/ FinishRequest(f) \/ Disconnect(f)
      PROVE  RestInv'
  <2>1. PICK in \in {"empty", "part", "request"}, p \in {"here", "gone", "reset"} :
          Client(f, in, p)
    <3>1. inbox[f] \in {"empty", "part", "request"}
      BY <1>0 DEF PlainOK
    <3> QED BY <1>5, <3>1 DEF StartRequest, FinishRequest, Disconnect
  <2>2. /\ inbox' = [inbox EXCEPT ![f] = in] /\ peer' = [peer EXCEPT ![f] = p]
        /\ UNCHANGED <<pollsets, pipes, wpc, sweep, sock, session, backlog, loggedIn,
                       mpc, placing, process>>
    BY <2>1 DEF Client
  <2>3. PlainOK'
    BY <1>0, <2>2 DEF PlainOK
  <2> QED BY <1>1, <2>2, <2>3, FrameKeepsRest
<1> QED BY <1>2, <1>3, <1>4, <1>5 DEF Outside

(***************************************************************************)
(* The main thread in its loop.                                            *)
(***************************************************************************)
LEMMA MainFrameRest ==
  ASSUME IInv, RestInv, PollAssumption,
         \/ MainCheck \/ EnterPoll \/ ReadStdin \/ Accept \/ LookAtPollset
         \/ ChoosePollset \/ JoinWorker
  PROVE  RestInv'
<1> USE DEF pollsets, pipes, net, placing, process, sweep, MainAt
<1>0. /\ mpc \in {"cleanup", "join"} => next <= NumWorkers
      /\ PlainOK
      /\ NumWorkers \in Nat \ {0} /\ ClientsPerThread \in Nat \ {0}
      /\ next \in 1..NumWorkers + 1
  BY DEF RestInv, PipesOK, PlainOK, PollAssumption
<1>1. ASSUME mpc \notin {"notify", "cleanup", "join", "exited"},
             UNCHANGED <<sets, pipe, closed, todo, local, fd, at, wpc>>,
             mpc' # "join",
             mpc' = "cleanup" => next' <= NumWorkers
      PROVE  FrameRest
  BY <1>1 DEF FrameRest
<1>2. CASE MainCheck
  <2>1. /\ UNCHANGED <<pollsets, pipes, wpc, sweep, net, loggedIn, best, least, connfd,
                       process>>
        /\ mpc = "check" /\ mpc' \in {"cleanup", "enter"} /\ next' = 1
    BY <1>2 DEF MainCheck
  <2>2. PlainOK'
    BY <1>0, <2>1 DEF PlainOK
  <2>3. next' <= NumWorkers
    BY <1>0, <2>1
  <2> QED BY <1>1, <2>1, <2>2, <2>3, FrameKeepsRest
<1>3. CASE EnterPoll
  <2>1. /\ UNCHANGED <<pollsets, pipes, wpc, sweep, net, loggedIn, placing, process>>
        /\ mpc = "enter" /\ mpc' = "poll"
    BY <1>3 DEF EnterPoll
  <2>2. PlainOK'
    BY <1>0, <2>1 DEF PlainOK
  <2> QED BY <1>1, <2>1, <2>2, FrameKeepsRest
<1>4. CASE ReadStdin
  <2>1. /\ UNCHANGED <<pollsets, pipes, wpc, sweep, net, loggedIn, placing, killed>>
        /\ mpc = "poll" /\ mpc' = "check"
        /\ \/ sigint' = (sigint \/ stdin = "command") /\ stdin' = "quiet"
           \/ UNCHANGED <<stdin, sigint>>
    BY <1>4 DEF ReadStdin
  <2>2. PlainOK'
    BY <1>0, <2>1 DEF PlainOK
  <2> QED BY <1>1, <2>1, <2>2, FrameKeepsRest
<1>5. CASE Accept
  <2>1. /\ UNCHANGED <<pollsets, pipes, wpc, sweep, inbox, peer, session, loggedIn, next,
                       best, least, process>>
        /\ mpc = "poll" /\ mpc' = "scan"
        /\ backlog > 0 /\ backlog' = backlog - 1
    BY <1>5 DEF Accept
  <2>2. PlainOK'
    BY <1>0, <2>1 DEF PlainOK, PollAssumption
  <2> QED BY <1>1, <2>1, <2>2, FrameKeepsRest
<1>6. CASE LookAtPollset
  <2>1. /\ UNCHANGED <<pollsets, pipes, wpc, sweep, net, loggedIn, mpc, connfd, process>>
        /\ mpc = "scan" /\ next <= NumWorkers /\ next' = next + 1
        /\ least' = least \/ (HasRoom(next) /\ least' = Size(next))
    BY <1>6 DEF LookAtPollset
  <2>2. next \in Workers
    BY <1>0, <2>1 DEF Workers
  <2>3. least' \in 0..ClientsPerThread
    <3>1. Len(sets[next]) \in Nat
      BY <2>2, SetLengths
    <3> QED BY <1>0, <2>1, <3>1 DEF HasRoom, Size, PlainOK
  <2>4. next' \in 1..NumWorkers + 1
    BY <1>0, <2>1
  <2>5. PlainOK'
    BY <1>0, <2>1, <2>3, <2>4 DEF PlainOK
  <2> QED BY <1>1, <2>1, <2>5, FrameKeepsRest
<1>7. CASE ChoosePollset
  <2>1. /\ UNCHANGED <<pollsets, pipes, wpc, sweep, net, loggedIn, best, least, connfd,
                       process>>
        /\ mpc = "scan" /\ next' = 1 /\ mpc' \in {"scan", "add"}
    BY <1>7 DEF ChoosePollset
  <2>2. PlainOK'
    BY <1>0, <2>1 DEF PlainOK
  <2> QED BY <1>1, <2>1, <2>2, FrameKeepsRest
<1>8. CASE JoinWorker
  <2>1. /\ UNCHANGED <<pollsets, pipes, wpc, sweep, inbox, peer, session, backlog,
                       loggedIn, best, least, connfd, process>>
        /\ mpc = "join" /\ next' = next + 1
        /\ mpc' = IF next = NumWorkers THEN "exited" ELSE "cleanup"
    BY <1>8 DEF JoinWorker
  <2>2. next <= NumWorkers /\ (next # NumWorkers => next + 1 <= NumWorkers)
    BY <1>0, <2>1
  <2>3. next' \in 1..NumWorkers + 1
    BY <1>0, <2>1, <2>2
  <2>4. PlainOK'
    BY <1>0, <2>1, <2>3 DEF PlainOK
  <2>5. FrameRest
    BY <2>1, <2>2 DEF FrameRest
  <2> QED BY <2>4, <2>5, FrameKeepsRest
<1> QED BY <1>2, <1>3, <1>4, <1>5, <1>6, <1>7, <1>8

(***************************************************************************)
(* A new entry.                                                            *)
(***************************************************************************)
LEMMA AddRest ==
  ASSUME IInv, RestInv, PollAssumption, AddToPollset
  PROVE  RestInv'
<1> DEFINE b == best
<1>1. b \in Workers /\ HasRoom(b) /\ connfd \in Fds /\ mpc = "add"
  BY DEF AddToPollset, MainAt, IInv, MainKnows, MainOK, Workers, PollAssumption
<1>2. /\ ClientsPerThread \in Nat
      /\ sets[b] \in Seq(Fds) /\ Len(sets[b]) \in Nat
      /\ sets \in [Workers -> Seq(Fds)]
  BY <1>1, SetLengths DEF IInv, SetsOK
<1>3. Len(sets[b]) + 1 < ClientsPerThread
  BY <1>1 DEF HasRoom, Size
<1>4. /\ mpc' = "notify"
      /\ sets' = [sets EXCEPT ![b] = Append(sets[b], connfd)]
      /\ UNCHANGED <<mutex, pipe, closed, wpc, todo, local, fd, at, inbox, peer, backlog,
                     next, best, least, stdin, sigint, killed>>
  <2>1. ~(Size(b) >= ClientsPerThread)
    BY <1>2, <1>3 DEF Size
  <2> QED BY <2>1 DEF AddToPollset, pipes, sweep, process
<1>5. \A v \in Workers : Len(sets'[v]) = IF v = b THEN Len(sets[b]) + 1 ELSE Len(sets[v])
  <2>1. Len(Append(sets[b], connfd)) = Len(sets[b]) + 1
    BY <1>1, <1>2, AppendProperties
  <2>2. \A v \in Workers : sets'[v] = IF v = b THEN Append(sets[b], connfd) ELSE sets[v]
    BY <1>2, <1>4
  <2> QED BY <2>1, <2>2
<1>6. \A v \in Workers : Len(sets[v]) \in Nat
  BY <1>2, LenProperties
<1> HIDE DEF b
<1>7. PlainOK'
  BY <1>4 DEF RestInv, PlainOK
<1>8. SweepOK'
  <2>1. \A v \in Workers : at[v] \in Nat /\ at[v] <= Len(sets[v])
    BY DEF IInv, WorkersOK, RestInv, SweepOK
  <2>2. \A v \in Workers : at[v] <= Len(sets'[v])
    BY <1>2, <1>5, <1>6, <2>1
  <2> QED BY <1>4, <2>2 DEF RestInv, SweepOK
<1>9. PipesOK'
  BY <1>4 DEF RestInv, PipesOK
<1> QED BY <1>7, <1>8, <1>9 DEF RestInv

(***************************************************************************)
(* A byte is written, for a new entry or for the shutdown.                 *)
(***************************************************************************)
LEMMA NotifyRest ==
  ASSUME RestInv, PollAssumption, Notify
  PROVE  RestInv'
<1>1. /\ mpc' = "check" /\ best' = 0 /\ least' = 0
      /\ pipe' = [pipe EXCEPT ![best] = @ + 1]
      /\ UNCHANGED <<sets, mutex, closed, todo, local, fd, at, inbox, peer, backlog,
                     next, stdin, sigint, killed>>
  BY DEF Notify, MainAt, WriteByte, pollsets, sweep, net, process
<1>2. pipe' \in [Workers -> Nat] /\ closed \in [Workers -> BOOLEAN]
  <2>1. /\ pipe \in [Workers -> Nat] /\ closed \in [Workers -> BOOLEAN]
        /\ best \in Workers => pipe[best] + 1 \in Nat
    BY DEF RestInv, PipesOK
  <2> QED BY <1>1, <2>1
<1>3. PlainOK'
  BY <1>1 DEF RestInv, PlainOK, PollAssumption
<1>4. SweepOK'
  BY <1>1 DEF RestInv, SweepOK
<1>5. PipesOK'
  BY <1>1, <1>2 DEF PipesOK
<1> QED BY <1>3, <1>4, <1>5 DEF RestInv

LEMMA WakeRest ==
  ASSUME RestInv, WakeWorker
  PROVE  RestInv'
<1>1. /\ mpc = "cleanup" /\ mpc' = "join"
      /\ pipe' = [pipe EXCEPT ![next] = @ + 1]
      /\ closed' = [closed EXCEPT ![next] = TRUE]
      /\ UNCHANGED <<sets, mutex, todo, local, fd, at, inbox, peer, backlog, next,
                     best, least, stdin, sigint, killed>>
  BY DEF WakeWorker, Wake, MainAt, pollsets, sweep, net, placing, process
<1>2. /\ pipe' \in [Workers -> Nat] /\ closed' \in [Workers -> BOOLEAN]
      /\ next' <= NumWorkers
  <2>1. /\ pipe \in [Workers -> Nat] /\ closed \in [Workers -> BOOLEAN]
        /\ next \in Workers => pipe[next] + 1 \in Nat
        /\ next <= NumWorkers
    BY <1>1 DEF RestInv, PipesOK
  <2> QED BY <1>1, <2>1
<1>3. PlainOK'
  BY <1>1 DEF RestInv, PlainOK
<1>4. SweepOK'
  BY <1>1 DEF RestInv, SweepOK
<1>5. PipesOK'
  BY <1>2 DEF PipesOK
<1> QED BY <1>3, <1>4, <1>5 DEF RestInv

LEMMA RestStep ==
  ASSUME IInv, RestInv, PollAssumption, [Next]_vars
  PROVE  RestInv'
<1>1. ASSUME NEW w \in Workers, Worker(w)
      PROVE  RestInv'
  BY <1>1, PollReturnsRest, DrainPipeRest, NextEntryRest, UnlinkRest, QuietStepsKeepRest
     DEF Worker
<1>2. CASE Main \/ Contend
  BY <1>2, MainFrameRest, AddRest, NotifyRest, WakeRest DEF Main, Contend
<1>3. CASE Outside
  BY <1>3, OutsideRest
<1>4. CASE UNCHANGED vars
  <2>1. PlainOK'
    BY <1>4 DEF RestInv, PlainOK, vars, pollsets, net, placing, process
  <2>2. FrameRest
    BY <1>4 DEF RestInv, PipesOK, FrameRest, vars, pollsets, pipes, sweep, placing
  <2> QED BY <2>1, <2>2, FrameKeepsRest
<1> QED BY <1>1, <1>2, <1>3, <1>4 DEF Next, Ended

LEMMA RestInit ==
  ASSUME PollAssumption, Init
  PROVE  RestInv
<1>1. <<>> \in Seq(Fds) /\ Len(<<>>) = 0
  OBVIOUS
<1>2. SweepOK
  BY <1>1 DEF Init, SweepOK, PollAssumption
<1>3. PlainOK
  <2>1. 0 \in 0..MaxBacklog /\ 1 \in 1..NumWorkers + 1 /\ 0 \in 0..ClientsPerThread
    BY DEF PollAssumption
  <2> QED BY <2>1 DEF Init, PlainOK
<1>4. PipesOK
  BY DEF Init, PipesOK
<1> QED BY <1>2, <1>3, <1>4 DEF RestInv

-----------------------------------------------------------------------------
(* Workers that sleep on an old copy.                                      *)

ToldInv ==
  /\ \A w \in Workers : pipe[w] <= PipeCapacity
  /\ WorkersAreTold

OwnTold(w) ==
  /\ UNCHANGED <<mpc, best>>
  /\ \A v \in Workers \ {w} :
       pipe'[v] = pipe[v] /\ wpc'[v] = wpc[v] /\ local'[v] = local[v] /\ sets'[v] = sets[v]
  /\ wpc'[w] = "poll" => local'[w] = sets'[w]
  /\ pipe'[w] <= PipeCapacity

LEMMA OwnToldKeeps ==
  ASSUME ToldInv, NEW w \in Workers, OwnTold(w)
  PROVE  ToldInv'
<1>1. ASSUME NEW v \in Workers
      PROVE  /\ pipe'[v] <= PipeCapacity
             /\ wpc'[v] = "poll" /\ local'[v] # sets'[v] =>
                  pipe'[v] > 0 \/ (mpc' = "notify" /\ best' = v)
  BY DEF ToldInv, WorkersAreTold, OwnTold
<1> QED BY <1>1 DEF ToldInv, WorkersAreTold

(***************************************************************************)
(* A worker copies its poll set before it sleeps, and leaves the sleep     *)
(* before it changes it.                                                   *)
(***************************************************************************)
LEMMA WorkerTold ==
  ASSUME IInv, RestInv, ToldInv, PollAssumption, NEW w \in Workers, Worker(w)
  PROVE  ToldInv'
<1> USE DEF At, Goto, pollsets, pipes, net, placing, process, sweep, Leave
<1> SUFFICES OwnTold(w)
  BY OwnToldKeeps
<1>0. /\ wpc \in [Workers -> Labels] /\ sets \in [Workers -> Seq(Fds)]
      /\ local \in [Workers -> Seq(Fds)]
      /\ pipe \in [Workers -> Nat] /\ pipe[w] \in Nat /\ pipe[w] <= PipeCapacity
      /\ ReadSize \in Nat /\ PipeCapacity \in Nat
  BY DEF IInv, WorkersOK, SetsOK, RestInv, SweepOK, PipesOK, ToldInv, PollAssumption
<1>1. ASSUME UNCHANGED <<mpc, best, pipe>>,
             \A v \in Workers \ {w} : wpc'[v] = wpc[v] /\ local'[v] = local[v]
                                       /\ sets'[v] = sets[v],
             wpc'[w] # "poll" \/ local'[w] = sets'[w]
      PROVE  OwnTold(w)
  BY <1>0, <1>1 DEF OwnTold
<1>2. CASE CopyPollset(w)
  <2>1. local'[w] = sets'[w]
    BY <1>0, <1>2 DEF CopyPollset
  <2> QED BY <1>0, <1>1, <1>2, <2>1 DEF CopyPollset
<1>3. CASE PollReturns(w)
  <2>1. /\ UNCHANGED <<sets, pipe, mpc, best>>
        /\ wpc' = [wpc EXCEPT ![w] = "sweep"] /\ local' = [local EXCEPT ![w] = <<>>]
    BY <1>3 DEF PollReturns
  <2> QED BY <1>0, <1>1, <2>1
<1>4. CASE DrainPipe(w)
  <2>1. /\ UNCHANGED <<sets, wpc, local, mpc, best>> /\ wpc[w] = "sweep"
        /\ pipe' = [pipe EXCEPT ![w] = IF @ > ReadSize THEN @ - ReadSize ELSE 0]
    BY <1>4 DEF DrainPipe, ReadPipe
  <2>2. pipe'[w] <= PipeCapacity
    BY <1>0, <2>1
  <2> QED BY <1>0, <2>1, <2>2 DEF OwnTold
<1>5. CASE Unlink(w)
  <2>1. /\ UNCHANGED <<pipe, mpc, best, local>>
        /\ wpc' = [wpc EXCEPT ![w] = "sweep"]
        /\ sets' = [sets EXCEPT ![w] = SwapRemove(@, at[w])]
    BY <1>5 DEF Unlink
  <2> QED BY <1>0, <1>1, <2>1
<1>6. ASSUME UNCHANGED <<sets, pipe, mpc, best, local>>,
             wpc' = wpc \/ \E l \in Labels \ {"poll"} : wpc' = [wpc EXCEPT ![w] = l],
             wpc[w] # "poll"
      PROVE  OwnTold(w)
  BY <1>0, <1>1, <1>6
<1> USE DEF Labels
<1>7. CASE NextEntry(w)
  <2>1. /\ UNCHANGED <<sets, pipe, mpc, best, local>> /\ wpc[w] = "sweep"
        /\ wpc' = [wpc EXCEPT ![w] = "lock"] \/ wpc' = [wpc EXCEPT ![w] = "read"]
    BY <1>7 DEF NextEntry
  <2> QED BY <1>6, <2>1
<1>8. CASE ExitThread(w) \/ EndSweep(w) \/ Handle(w) \/ CloseFd(w)
  BY <1>6, <1>8 DEF ExitThread, EndSweep, Handle, CloseFd
<1>9. CASE ReceiveRequest(w)
  <2>1. /\ UNCHANGED <<sets, pipe, mpc, best, local>> /\ wpc[w] = "read"
        /\ wpc' = [wpc EXCEPT ![w] = "locate"] \/ wpc' = [wpc EXCEPT ![w] = "lock"]
    BY <1>9 DEF ReceiveRequest
  <2> QED BY <1>6, <2>1
<1>10. CASE Locate(w)
  <2>1. /\ UNCHANGED <<sets, pipe, mpc, best, local>> /\ wpc[w] = "locate"
        /\ wpc' = [wpc EXCEPT ![w] = "sweep"] \/ wpc' = [wpc EXCEPT ![w] = "handle"]
    BY <1>10 DEF Locate
  <2> QED BY <1>6, <2>1
<1>11. CASE SendResponse(w)
  <2>1. /\ UNCHANGED <<sets, pipe, mpc, best, local>> /\ wpc[w] = "send"
        /\ \/ wpc' = [wpc EXCEPT ![w] = "sweep"]
           \/ wpc' = [wpc EXCEPT ![w] = "lock"]
           \/ wpc' = wpc
    BY <1>11 DEF SendResponse
  <2> QED BY <1>6, <2>1
<1>12. CASE LockPollset(w)
  <2>1. /\ UNCHANGED <<sets, pipe, mpc, best, local>> /\ wpc[w] = "lock"
        /\ wpc' = [wpc EXCEPT ![w] = "sweep"] \/ wpc' = [wpc EXCEPT ![w] = "close"]
    BY <1>12 DEF LockPollset
  <2> QED BY <1>6, <2>1
<1> QED BY <1>2, <1>3, <1>4, <1>5, <1>7, <1>8, <1>9, <1>10, <1>11, <1>12 DEF Worker

(***************************************************************************)
(* The main thread announces what it adds; a byte it may not write is not  *)
(* missed, for the pipe is full.                                           *)
(***************************************************************************)
FrameTold ==
  /\ UNCHANGED <<sets, local, wpc, pipe>>
  /\ mpc = "notify" => (mpc' = "notify" /\ best' = best) \/ pipe[best] > 0

LEMMA FrameToldKeeps ==
  ASSUME ToldInv, FrameTold
  PROVE  ToldInv'
BY DEF ToldInv, WorkersAreTold, FrameTold

LEMMA OthersTold ==
  ASSUME IInv, RestInv, ToldInv, PollAssumption, Main \/ Contend \/ Outside
  PROVE  ToldInv'
<1> USE DEF MainAt, pollsets, pipes, net, placing, process, sweep
<1>0. /\ pipe \in [Workers -> Nat] /\ PipeCapacity \in Nat \ {0}
      /\ sets \in [Workers -> Seq(Fds)] /\ \A v \in Workers : v # 0
  BY DEF RestInv, PipesOK, PollAssumption, IInv, SetsOK, Workers
<1>1. CASE MainCheck \/ EnterPoll \/ ReadStdin \/ Accept \/ LookAtPollset
           \/ ChoosePollset \/ JoinWorker
  <2>1. mpc # "notify" /\ UNCHANGED <<sets, local, wpc, pipe>>
    BY <1>1 DEF MainCheck, EnterPoll, ReadStdin, Accept, LookAtPollset, ChoosePollset,
                JoinWorker
  <2> QED BY <2>1, FrameToldKeeps DEF FrameTold
<1>2. CASE Outside
  <2>1. UNCHANGED <<sets, local, wpc, pipe>>
    BY <1>2 DEF Outside, Interrupt, Type, Connect, StartRequest, FinishRequest, Disconnect,
                Client
  <2>2. CASE Interrupt
    <3>1. mpc = "notify" => (mpc' = mpc /\ best' = best) \/ pipe[best] = PipeCapacity
      BY <2>2 DEF Interrupt
    <3>2. PipeCapacity > 0
      BY <1>0
    <3> QED BY <2>1, <3>1, <3>2, FrameToldKeeps DEF FrameTold
  <2>3. CASE ~Interrupt
    <3>1. mpc' = mpc /\ best' = best
      BY <1>2, <2>3 DEF Outside, Type, Connect, StartRequest, FinishRequest, Disconnect,
                        Client
    <3> QED BY <2>1, <3>1, FrameToldKeeps DEF FrameTold
  <2> QED BY <2>2, <2>3
<1>3. CASE AddToPollset
  <2>1. /\ mpc = "add" /\ UNCHANGED <<local, wpc, pipe>>
        /\ \/ sets' = sets
           \/ /\ sets' = [sets EXCEPT ![best] = Append(@, connfd)]
              /\ mpc' = "notify" /\ best' = best
    BY <1>3 DEF AddToPollset
  <2>2. CASE sets' = sets
    BY <2>1, <2>2, FrameToldKeeps DEF FrameTold
  <2>3. CASE /\ sets' = [sets EXCEPT ![best] = Append(@, connfd)]
             /\ mpc' = "notify" /\ best' = best
    <3>1. \A v \in Workers : v # best => sets'[v] = sets[v]
      BY <1>0, <2>3
    <3> QED BY <2>1, <2>3, <3>1 DEF ToldInv, WorkersAreTold
  <2> QED BY <2>1, <2>2, <2>3
<1>4. CASE Notify
  <2>1. /\ mpc = "notify" /\ pipe[best] < PipeCapacity
        /\ pipe' = [pipe EXCEPT ![best] = @ + 1]
        /\ UNCHANGED <<sets, local, wpc>>
    BY <1>4 DEF Notify, WriteByte
  <2>2. ASSUME NEW v \in Workers
        PROVE  /\ pipe'[v] <= PipeCapacity
               /\ pipe'[v] = IF v = best THEN pipe[v] + 1 ELSE pipe[v]
    BY <1>0, <2>1, <2>2 DEF ToldInv
  <2>3. WorkersAreTold'
    BY <1>0, <2>1, <2>2 DEF ToldInv, WorkersAreTold
  <2> QED BY <2>2, <2>3 DEF ToldInv
<1>5. CASE WakeWorker
  <2>1. /\ mpc = "cleanup" /\ pipe[next] < PipeCapacity
        /\ pipe' = [pipe EXCEPT ![next] = @ + 1]
        /\ UNCHANGED <<sets, local, wpc>>
    BY <1>5 DEF WakeWorker, Wake
  <2>2. ASSUME NEW v \in Workers
        PROVE  /\ pipe'[v] <= PipeCapacity
               /\ pipe'[v] = IF v = next THEN pipe[v] + 1 ELSE pipe[v]
    BY <1>0, <2>1, <2>2 DEF ToldInv
  <2>3. WorkersAreTold'
    BY <1>0, <2>1, <2>2 DEF ToldInv, WorkersAreTold
  <2> QED BY <2>2, <2>3 DEF ToldInv
<1> QED BY <1>1, <1>2, <1>3, <1>4, <1>5 DEF Main, Contend

LEMMA ToldStep ==
  ASSUME IInv, RestInv, ToldInv, PollAssumption, [Next]_vars
  PROVE  ToldInv'
<1>1. CASE UNCHANGED vars
  <2>1. FrameTold
    BY <1>1 DEF FrameTold, vars, pollsets, sweep, pipes, placing
  <2> QED BY <2>1, FrameToldKeeps
<1> QED BY <1>1, WorkerTold, OthersTold DEF Next, Ended

LEMMA ToldInit ==
  ASSUME PollAssumption, Init
  PROVE  ToldInv
BY DEF Init, ToldInv, WorkersAreTold, PollAssumption

-----------------------------------------------------------------------------
(* The theorem about the pipes.                                            *)

(***************************************************************************)
(* The invariants of the pipes hold throughout.                            *)
(***************************************************************************)
LEMMA PipesKeepOrder == Spec => [](IInv /\ RestInv /\ ToldInv)
<1>1. Init => IInv /\ RestInv /\ ToldInv
  BY PollAssumption, InitIInv, RestInit, ToldInit
<1>2. IInv /\ RestInv /\ ToldInv /\ [Next]_vars => (IInv /\ RestInv /\ ToldInv)'
  BY PollAssumption, NextIInv, RestStep, ToldStep
<1> QED BY <1>1, <1>2, PTL DEF Spec

(***************************************************************************)
(* What a thread found under a mutex still holds when it uses it, and a    *)
(* worker does not sleep on a poll set that has changed unless a byte is   *)
(* in its pipe or about to be written.                                     *)
(***************************************************************************)
THEOREM NoConnectionWaitsUnseen == Spec => []ChecksStillHold
<1>1. IInv /\ RestInv /\ ToldInv => ChecksStillHold
  <2> SUFFICES ASSUME IInv, RestInv, ToldInv
               PROVE  ChecksStillHold
    OBVIOUS
  <2>1. IndexStaysValid /\ RoomIsStillThere /\ WorkersAreTold
    BY DEF IInv, MainKnows, RoomIsStillThere, HasRoom, ToldInv
  <2>2. TypeOK
    <3>1. pipe \in [Workers -> 0..PipeCapacity] /\ closed \in [Workers -> BOOLEAN]
      <4>1. pipe \in [Workers -> Nat] /\ closed \in [Workers -> BOOLEAN]
        BY DEF RestInv, PipesOK
      <4>2. \A w \in Workers : pipe[w] <= PipeCapacity
        BY DEF ToldInv
      <4>3. PipeCapacity \in Nat
        BY PollAssumption DEF PollAssumption
      <4> QED BY <4>1, <4>2, <4>3
    <3>2. \A w \in Workers : at[w] \in 0..Len(sets[w])
      <4>1. \A w \in Workers : sets[w] \in Seq(Fds) /\ at[w] \in Nat /\ at[w] <= Len(sets[w])
        BY DEF IInv, SetsOK, WorkersOK, RestInv, SweepOK
      <4>2. \A w \in Workers : Len(sets[w]) \in Nat
        BY <4>1, LenProperties
      <4> QED BY <4>1, <4>2
    <3>3. \A w \in Workers : local[w] \in Seq(Fds) /\ todo[w] \subseteq Entries
      BY DEF RestInv, SweepOK
    <3>4. SetsOK /\ WorkersOK /\ MainOK /\ PlainOK /\ SweepOK
      BY DEF IInv, RestInv
    <3> QED BY <3>1, <3>2, <3>3, <3>4
            DEF TypeOK, SetsOK, WorkersOK, MainOK, PlainOK, SweepOK, Labels
  <2> QED BY <2>1, <2>2 DEF ChecksStillHold
<1> QED BY <1>1, PipesKeepOrder, PTL
=============================================================================
