-------------------------- MODULE JobControlProofs --------------------------
(***************************************************************************)
(* Theorems about the SIGCHLD handling of the shell and its job table, for *)
(* every number of jobs, every pipeline length and every size of the       *)
(* table.                                                                  *)
(***************************************************************************)
EXTENDS JobControl, FiniteSetTheorems, WellFoundedInduction, TLAPS

Outstanding == \E p \in Procs : event[p] # "NONE"

(***************************************************************************)
(* A change that has not been collected is announced by SIGCHLD or by      *)
(* pending_sigchld, or the shell is at waitid or was lost there; and the   *)
(* flag cannot be set between the test of wait_for_processes and its       *)
(* sigsuspend.                                                             *)
(***************************************************************************)
ChangesAreAnnounced == Outstanding => sigchld \/ pending \/ pc \in {"reap", "crashed"}
FlagIsDown == pc \in {"test", "suspend"} => ~pending

ReapInv == ChangesAreAnnounced /\ FlagIsDown

LEMMA ReapInit == Init => ReapInv
  BY DEF Init, ReapInv, ChangesAreAnnounced, FlagIsDown, Outstanding

(***************************************************************************)
(* Children announce what they do.                                         *)
(***************************************************************************)
LEMMA ChildStep == ReapInv /\ Child => ReapInv'
  BY DEF Child, Exit, Stop, Continue, Change, ReapInv, ChangesAreAnnounced,
         FlagIsDown, control

(***************************************************************************)
(* SIGCHLD is not delivered where the flag has to stay down.               *)
(***************************************************************************)
LEMMA DeliverStep == ReapInv /\ Deliver => ReapInv'
  BY DEF Deliver, Blocked, ReapInv, ChangesAreAnnounced, FlagIsDown, control

(***************************************************************************)
(* Steps that leave the children, the signal and the flag alone.           *)
(***************************************************************************)
LEMMA QuietStep ==
  ASSUME ReapInv, UNCHANGED <<event, sigchld, pending>>, pc \notin {"reap", "crashed"},
         pc' \notin {"test", "suspend"} \/ pc = "test"
  PROVE  ReapInv'
  BY DEF ReapInv, ChangesAreAnnounced, FlagIsDown, Outstanding

(***************************************************************************)
(* SIGCONT for a process group announces the changes it makes.             *)
(***************************************************************************)
LEMMA ContinueStep ==
  ASSUME ReapInv, NEW j, ContinueAll(j), UNCHANGED pending,
         pc \notin {"reap", "crashed"},
         pc' \notin {"test", "suspend"}
  PROVE  ReapInv'
<1>1. CASE {p \in ProcsOf(j) : kern[p] = "stopped"} = {}
  <2>1. Outstanding' => Outstanding
    BY <1>1 DEF ContinueAll, Outstanding
  <2> QED BY <1>1, <2>1 DEF ContinueAll, ReapInv, ChangesAreAnnounced, FlagIsDown
<1>2. CASE {p \in ProcsOf(j) : kern[p] = "stopped"} # {}
  BY <1>2 DEF ContinueAll, ReapInv, ChangesAreAnnounced, FlagIsDown
<1> QED BY <1>1, <1>2

(***************************************************************************)
(* The steps of handle_pending_sigchld, of the checks before it and of     *)
(* sigsuspend.                                                             *)
(***************************************************************************)
LEMMA ReapStep ==
  ASSUME ReapInv,
         \/ CheckPending \/ ResetPending \/ ReapNothing \/ ReapAgain
         \/ \E p \in Procs : ReapChild(p)
         \/ TestJob \/ Suspend
  PROVE  ReapInv'
<1> USE DEF ReapInv, ChangesAreAnnounced, FlagIsDown, Outstanding
<1>1. CASE CheckPending
  BY <1>1 DEF CheckPending, AfterCheck, children
<1>2. CASE ResetPending
  BY <1>2 DEF ResetPending, children
<1>3. CASE ReapNothing
  BY <1>3 DEF ReapNothing, children
<1>4. CASE ReapAgain
  BY <1>4 DEF ReapAgain, children
<1>5. ASSUME NEW p \in Procs, ReapChild(p) PROVE ReapInv'
  BY <1>5 DEF ReapChild, control
<1>6. CASE TestJob
  BY <1>6 DEF TestJob, children
<1>7. CASE Suspend
  BY <1>7 DEF Suspend
<1> QED BY <1>1, <1>2, <1>3, <1>4, <1>5, <1>6, <1>7

(***************************************************************************)
(* The clean-up at the end of the input.                                   *)
(***************************************************************************)
LEMMA CleanupStep ==
  ASSUME ReapInv, KillJob \/ CollectJob
  PROVE  ReapInv'
<1>1. CASE KillJob
  <2>1. CASE UNCHANGED children
    BY <1>1, <2>1, QuietStep DEF KillJob, children
  <2>2. CASE ContinueAll(table[slot]) /\ pc' = "collect"
    BY <1>1, <2>2, ContinueStep DEF KillJob
  <2> QED BY <1>1, <2>1, <2>2 DEF KillJob
<1>2. CASE CollectJob
  <2>1. Outstanding' => Outstanding
    BY <1>2 DEF CollectJob, WaitForAll, Outstanding
  <2> QED BY <1>2, <2>1 DEF CollectJob, WaitForAll, ReapInv, ChangesAreAnnounced, FlagIsDown
<1> QED BY <1>1, <1>2

(***************************************************************************)
(* A pipe(), a fork() or a read of freed memory that fails.                *)
(***************************************************************************)
LEMMA FailureStep ==
  ASSUME ReapInv, AbortJob \/ Failure
  PROVE  ReapInv'
<1>1. CASE AbortJob
  <2>1. Outstanding' => Outstanding
    BY <1>1 DEF AbortJob, WaitForAll, Outstanding
  <2> QED BY <1>1, <2>1 DEF AbortJob, WaitForAll, ReapInv, ChangesAreAnnounced, FlagIsDown
<1>2. CASE PipeFails \/ ForkFails
  BY <1>2, QuietStep DEF PipeFails, ForkFails, children
<1>3. CASE UseAfterFree
  <2>1. CASE pc = "cleanup"
    BY <1>3, <2>1, QuietStep DEF UseAfterFree, children
  <2>2. CASE pc = "reap"
    BY <1>3, <2>2 DEF UseAfterFree, ReapInv, ChangesAreAnnounced, FlagIsDown, children
  <2> QED BY <1>3, <2>1, <2>2 DEF UseAfterFree
<1> QED BY <1>1, <1>2, <1>3 DEF Failure

(***************************************************************************)
(* What the shell does on a line of input.                                 *)
(***************************************************************************)
LEMMA UserStep ==
  ASSUME ReapInv, User \/ Fork \/ HandleJob \/ FinishJob
  PROVE  ReapInv'
<1>1. CASE ReadLine \/ EndOfInput \/ BgCrashes \/ NothingRuns \/ ExitBuiltin
  BY <1>1, QuietStep DEF ReadLine, EndOfInput, BgCrashes, NothingRuns, ExitBuiltin,
                         children
<1>8. CASE OtherBuiltin
  BY <1>8, QuietStep DEF OtherBuiltin, children
<1>2. CASE Interrupted
  BY <1>2, QuietStep DEF Interrupted, children
<1>3. ASSUME NEW j \in Jobs, NEW n \in Lengths[j], NEW b \in BOOLEAN,
             RunPipeline(j, n, b)
      PROVE  ReapInv'
  BY <1>3, QuietStep DEF RunPipeline, children
<1>4. CASE Fork
  BY <1>4, QuietStep DEF Fork
<1>5. CASE HandleJob
  BY <1>5, QuietStep DEF HandleJob, children
<1>6. CASE FinishJob
  BY <1>6, QuietStep DEF FinishJob, children
<1>7. ASSUME NEW i \in 1..highest, Fg(i) \/ Bg(i)
      PROVE  ReapInv'
  BY <1>7, ContinueStep DEF Fg, Bg
<1> QED BY <1>1, <1>2, <1>3, <1>4, <1>5, <1>6, <1>7, <1>8 DEF User

LEMMA ReapInvHolds == Spec => []ReapInv
<1>1. ReapInv /\ [Next]_vars => ReapInv'
  <2> SUFFICES ASSUME ReapInv, [Next]_vars PROVE ReapInv'
    OBVIOUS
  <2>1. CASE Shell
    BY <2>1, ReapStep, CleanupStep, FailureStep, UserStep DEF Shell
  <2>2. CASE User
    BY <2>2, UserStep
  <2>6. CASE Failure
    BY <2>6, FailureStep
  <2>3. CASE Child
    BY <2>3, ChildStep
  <2>4. CASE Deliver
    BY <2>4, DeliverStep
  <2>5. CASE UNCHANGED vars
    BY <2>5 DEF vars, children, control, ReapInv, ChangesAreAnnounced, FlagIsDown,
                Outstanding
  <2> QED BY <2>1, <2>2, <2>3, <2>4, <2>5, <2>6 DEF Next, Ended
<1> QED BY ReapInit, <1>1, PTL DEF Spec

(***************************************************************************)
(* A shell that sleeps in sigsuspend has no change of a child to collect   *)
(* that SIGCHLD would not wake it for.                                     *)
(***************************************************************************)
THEOREM NoLostSigchld == Spec => []NoChangeIsSleptThrough
<1>1. ReapInv => NoChangeIsSleptThrough
  BY DEF ReapInv, ChangesAreAnnounced, FlagIsDown, Outstanding,
         NoChangeIsSleptThrough
<1> QED BY ReapInvHolds, <1>1, PTL

-----------------------------------------------------------------------------
(* Lemmas about the operators of the job table.                            *)

(***************************************************************************)
(* A set of numbers that is not empty has a least and, if it is bounded, a *)
(* greatest element.                                                       *)
(***************************************************************************)
Below == {ss \in Nat \X Nat : ss[1] < ss[2]}

LEMMA LeastExists ==
  ASSUME NEW S \in SUBSET Nat, S # {}
  PROVE  \E x \in S : \A y \in S : x <= y
<1>1. IsWellFoundedOn(Below, Nat)
  BY NatLessThanWellFounded DEF OpToRel, Below
<1>2. PICK x \in S : \A y \in S : ~ (<<y, x>> \in Below)
  BY <1>1, WFMin
<1>3. ASSUME NEW y \in S
      PROVE  x <= y
  <2>1. x \in Nat /\ y \in Nat
    OBVIOUS
  <2>2. ~ (y < x)
    BY <1>2, <2>1 DEF Below
  <2> QED BY <2>1, <2>2
<1> QED BY <1>3

LEMMA GreatestExists ==
  ASSUME NEW h \in Nat, NEW S \in SUBSET (0..h), S # {}
  PROVE  \E x \in S : \A y \in S : y <= x
<1> DEFINE T == {h - x : x \in S}
<1>1. T \in SUBSET Nat
  BY DEF T
<1>2. T # {}
  BY DEF T
<1>3. PICK t \in T : \A u \in T : t <= u
  BY <1>1, <1>2, LeastExists
<1>4. PICK x \in S : t = h - x
  BY <1>3
<1>5. ASSUME NEW y \in S
      PROVE  y <= x
  <2>1. h - x <= h - y
    BY <1>3, <1>4
  <2> QED BY <2>1
<1> QED BY <1>5

(***************************************************************************)
(* update_highest_job_id finds the last slot that holds a job of the       *)
(* table, or 0.                                                            *)
(***************************************************************************)
Kept(t, s, h) == {i \in 1..h : t[i] # NoJob /\ s[t[i]] \in {"BACKGROUND", "STOPPED"}}

LEMMA UpdateHighestIs ==
  ASSUME NEW t, NEW s, NEW h \in Nat
  PROVE  /\ UpdateHighest(t, s, h) \in 0..h
         /\ UpdateHighest(t, s, h) > 0 => UpdateHighest(t, s, h) \in Kept(t, s, h)
         /\ \A k \in Kept(t, s, h) : k <= UpdateHighest(t, s, h)
<1>1. CASE Kept(t, s, h) = {}
  BY <1>1 DEF UpdateHighest, Kept
<1>2. CASE Kept(t, s, h) # {}
  <2> DEFINE kept == Kept(t, s, h)
  <2>1. UpdateHighest(t, s, h) = CHOOSE i \in kept : \A k \in kept : k <= i
    BY <1>2 DEF UpdateHighest, Kept
  <2>2. kept \in SUBSET (1..h)
    BY DEF Kept
  <2> HIDE DEF kept
  <2>3. \E i \in kept : \A k \in kept : k <= i
    <3>1. kept \in SUBSET (0..h)
      BY <2>2
    <3> QED BY <1>2, <3>1, GreatestExists DEF kept
  <2>4. /\ UpdateHighest(t, s, h) \in kept
        /\ \A k \in kept : k <= UpdateHighest(t, s, h)
    BY <2>1, <2>3
  <2> QED BY <2>2, <2>4 DEF kept
<1> QED BY <1>1, <1>2

LEMMA ProcsOfIs ==
  ASSUME TypeOK, JobAssumption, NEW j \in Jobs
  PROVE  ProcsOf(j) = {p \in Procs : p[1] = j /\ p[2] <= procs[j]}
<1>1. procs[j] \in 0..MaxProcs /\ MaxProcs \in Nat
  BY DEF TypeOK, JobAssumption
<1> QED BY <1>1 DEF ProcsOf, Procs

LEMMA ProcIs ==
  ASSUME NEW p \in Procs, JobAssumption
  PROVE  p[1] \in Jobs /\ p[2] \in 1..MaxProcs /\ p = <<p[1], p[2]>> /\ p[2] \in Nat
  BY DEF Procs, JobAssumption

(***************************************************************************)
(* The slots that hold a job are finitely many.                            *)
(***************************************************************************)
LEMMA ListedIsFinite ==
  ASSUME JobAssumption
  PROVE  /\ IsFiniteSet(Listed) /\ Cardinality(Listed) \in Nat
         /\ IsFiniteSet(Listed')
<1>1. IsFiniteSet(1..MaxJobs)
  BY FS_Interval, JobAssumption DEF JobAssumption
<1>2. Listed \in SUBSET (1..MaxJobs) /\ Listed' \in SUBSET (1..MaxJobs)
  BY DEF Listed
<1>3. IsFiniteSet(Listed) /\ IsFiniteSet(Listed')
  BY <1>1, <1>2, FS_Subset
<1> QED BY <1>3, FS_CardinalityType

-----------------------------------------------------------------------------
(* The invariant of the job table.                                         *)

(***************************************************************************)
(* A process and what is known of it.  The number k of a process <<j, k>>  *)
(* tells whether it has been forked; one that has been forked is gone      *)
(* exactly when wait_for_any_process has stored its end in info.           *)
(***************************************************************************)
ProcessesAgree ==
  \A p \in Procs :
    /\ event[p] = "EXITED" <=> kern[p] = "dead"
    /\ event[p] = "STOPPED" => kern[p] = "stopped"
    /\ event[p] = "CONTINUED" => kern[p] = "running"
    /\ p[2] > procs[p[1]] => kern[p] = "none" /\ info[p] = "NONE" /\ ~is_running[p]
    /\ p[2] <= procs[p[1]] => (kern[p] = "none" <=> info[p] = "EXITED")

(***************************************************************************)
(* Memory that holds a job is in the table, or it is the job the shell is  *)
(* launching or waiting for.                                               *)
(***************************************************************************)
JobsAgree ==
  \A j \in Jobs :
    /\ state[j] # "NULL"
    /\ state[j] = "FREE" => id[j] = 0 /\ procs[j] = 0
    /\ state[j] # "FREE" => id[j] > 0 \/ j = job
    /\ procs[j] <= planned[j]

(***************************************************************************)
(* A job is done only when all its processes have ended.                   *)
(***************************************************************************)
DoneIsDone ==
  \A j \in Jobs : state[j] = "DONE" => HasCompleted(j, info, is_running)

(***************************************************************************)
(* A job of one process whose changes have been collected has its state,   *)
(* in the foreground too.                                                  *)
(***************************************************************************)
SinglesAgree ==
  \A j \in Jobs :
    Alone(j) /\ state[j] \notin {"FREE", "DONE"} /\ event[<<j, 1>>] = "NONE" =>
      /\ kern[<<j, 1>>] # "none"
      /\ state[j] = "STOPPED" <=> kern[<<j, 1>>] = "stopped"

(***************************************************************************)
(* The table and the ids of the jobs are inverse to each other, and no job *)
(* is beyond highest_job_id, which find_job_by_pid reaches.  Only the      *)
(* clean-up may have freed a job of the table, through slot 0.             *)
(***************************************************************************)
SlotsAgree ==
  /\ highest < MaxJobs
  /\ \A i \in 1..MaxJobs : table[i] # NoJob =>
       /\ i <= highest
       /\ \/ id[table[i]] = i /\ state[table[i]] \in {"BACKGROUND", "STOPPED"}
          \/ Leaving /\ stale /\ state[table[i]] = "FREE"
  /\ \A j \in Jobs : id[j] > 0 => table[id[j]] = j

CountsAgree ==
  ~Leaving =>
    /\ num_jobs = Cardinality(Listed)
    /\ highest > 0 => table[highest] # NoJob

(***************************************************************************)
(* What the shell is doing and the job it does it with.                    *)
(***************************************************************************)
Waiting == \/ pc \in {"wait", "test", "suspend", "finish"}
           \/ pc \in {"reset", "reap", "again"} /\ ret = "test"

ForegroundAgrees ==
  /\ Waiting => /\ job \in Jobs /\ table[0] = job /\ ~stale
                /\ id[job] = 0 /\ state[job] # "FREE"
  /\ Launching =>
       /\ job \in Jobs /\ id[job] = 0
       /\ \/ state[job] = "FOREGROUND" /\ table[0] = job /\ ~stale
          \/ state[job] = "BACKGROUND" /\ (table[0] # NoJob => stale)
  /\ ~Waiting /\ ~Launching => job = NoJob /\ (table[0] # NoJob => stale)
  /\ Waiting \/ Launching => Room

LaunchAgrees == pc = "fork" => procs[job] < planned[job]

WaitAgrees ==
  /\ pc = "suspend" => ~WaitOver
  /\ pc = "finish" => WaitOver

(***************************************************************************)
(* The slots the clean-up has left behind are empty.                       *)
(***************************************************************************)
CleanupAgrees ==
  /\ pc \in {"cleanup", "collect"} =>
       slot <= highest + 1 /\ \A i \in 1..MaxJobs : i < slot => table[i] = NoJob
  /\ pc = "collect" => slot <= highest /\ table[slot] # NoJob
  /\ pc = "exited" => \A i \in 1..MaxJobs : table[i] = NoJob

JobInv ==
  /\ TypeOK
  /\ ProcessesAgree
  /\ JobsAgree
  /\ DoneIsDone
  /\ SinglesAgree
  /\ SlotsAgree
  /\ CountsAgree
  /\ ForegroundAgrees
  /\ LaunchAgrees
  /\ WaitAgrees
  /\ CleanupAgrees

-----------------------------------------------------------------------------
(* Steps that change no job.                                               *)

(***************************************************************************)
(* What does not depend on the place the shell is at.                      *)
(***************************************************************************)
Stable == ProcessesAgree /\ JobsAgree /\ DoneIsDone /\ SinglesAgree /\ SlotsAgree

LEMMA StableKeeps ==
  ASSUME Stable, UNCHANGED <<jobtable, jobs, processes, kern, event, job>>,
         Leaving => Leaving'
  PROVE  Stable'
<1> USE DEF jobtable, jobs, processes
<1>1. ProcessesAgree'
  BY DEF Stable, ProcessesAgree
<1>2. JobsAgree'
  BY DEF Stable, JobsAgree
<1>3. DoneIsDone'
  BY DEF Stable, DoneIsDone, HasCompleted, ProcsOf
<1>4. SinglesAgree'
  BY DEF Stable, SinglesAgree, Alone
<1>5. SlotsAgree'
  BY DEF Stable, SlotsAgree
<1> QED BY <1>1, <1>2, <1>3, <1>4, <1>5 DEF Stable

(***************************************************************************)
(* The invariant of what depends on it.                                    *)
(***************************************************************************)
Placed == CountsAgree /\ ForegroundAgrees /\ LaunchAgrees /\ WaitAgrees /\ CleanupAgrees

LEMMA JobInvParts == JobInv <=> TypeOK /\ Stable /\ Placed
  BY DEF JobInv, Stable, Placed

LEMMA WaitOverKeeps ==
  ASSUME UNCHANGED <<jobs, processes, job>>
  PROVE  WaitOver' <=> WaitOver
  BY DEF WaitOver, HasCompleted, ProcsOf, jobs, processes

LEMMA PlacedKeeps ==
  ASSUME Placed, UNCHANGED <<jobtable, jobs, processes, job, pc, ret, slot>>
  PROVE  Placed'
<1> USE DEF jobtable, jobs, processes
<1>1. CountsAgree'
  BY DEF Placed, CountsAgree, Listed, Leaving
<1>2. ForegroundAgrees'
  BY DEF Placed, ForegroundAgrees, Waiting, Launching, Room
<1>3. LaunchAgrees'
  BY DEF Placed, LaunchAgrees
<1>4. WaitAgrees'
  BY WaitOverKeeps DEF Placed, WaitAgrees
<1>5. CleanupAgrees'
  BY DEF Placed, CleanupAgrees
<1> QED BY <1>1, <1>2, <1>3, <1>4, <1>5 DEF Placed

(***************************************************************************)
(* The shell goes from one place to another and changes nothing else.      *)
(***************************************************************************)
LEMMA PlaceStep ==
  ASSUME JobInv, JobAssumption,
         \/ CheckPending \/ ResetPending \/ ReapNothing \/ ReapAgain
         \/ ReadLine \/ BgCrashes \/ NothingRuns \/ TestJob \/ Suspend \/ Interrupted
         \/ PipeFails \/ ForkFails
  PROVE  JobInv'
<1> USE DEF JobInv, jobtable, jobs, processes, children, control
<1> USE DEF CheckPending, AfterCheck, ResetPending, ReapNothing, ReapAgain, ReadLine,
            BgCrashes, NothingRuns, TestJob, Suspend, Interrupted, PipeFails, ForkFails
<1>1. TypeOK'
  <2>1. /\ UNCHANGED <<jobtable, jobs, processes, kern, event, job, slot>>
        /\ sigchld' \in BOOLEAN /\ pending' \in BOOLEAN
    BY DEF TypeOK
  <2>2. /\ pc' \in {"top", "readline", "line", "evaluate", "fork", "handle", "reset",
                    "reap", "again", "wait", "test", "suspend", "finish", "abort",
                    "cleanup", "collect", "exited", "failed", "crashed"}
        /\ ret' \in {"readline", "evaluate", "test"}
    BY DEF TypeOK
  <2>3. TypeOK
    OBVIOUS
  <2> QED BY <2>1, <2>2, <2>3 DEF TypeOK, jobtable, jobs, processes
<1>2. UNCHANGED <<jobtable, jobs, processes, kern, event, job>> /\ ~Leaving
  BY DEF Leaving
<1>3. Stable'
  BY <1>2, StableKeeps DEF Stable
<1>4. CountsAgree'
  BY <1>2 DEF CountsAgree, Listed
<1>5. ForegroundAgrees'
  BY DEF ForegroundAgrees, Waiting, Launching, Room, TypeOK
<1>6. LaunchAgrees'
  BY DEF LaunchAgrees, TypeOK
<1>7. WaitOver' <=> WaitOver
  BY <1>2, WaitOverKeeps
<1>8. WaitAgrees'
  BY <1>7 DEF WaitAgrees, TypeOK
<1>9. CleanupAgrees'
  BY DEF CleanupAgrees, TypeOK
<1> QED BY <1>1, <1>3, <1>4, <1>5, <1>6, <1>8, <1>9 DEF Stable

(***************************************************************************)
(* exit and the end of the input leave the main loop.                      *)
(***************************************************************************)
LEMMA LeaveStep ==
  ASSUME JobInv, JobAssumption, ExitBuiltin \/ EndOfInput
  PROVE  JobInv'
<1> USE DEF JobInv, jobtable, jobs, processes, children, control
<1>1. TypeOK'
  BY DEF TypeOK, ExitBuiltin, EndOfInput
<1>2. UNCHANGED <<jobtable, jobs, processes, kern, event, job>> /\ ~Leaving
  BY DEF ExitBuiltin, EndOfInput, Leaving
<1>3. Stable'
  BY <1>2, StableKeeps DEF Stable
<1>4. CountsAgree'
  BY DEF CountsAgree, Leaving, ExitBuiltin, EndOfInput
<1>5. ForegroundAgrees'
  BY DEF ForegroundAgrees, Waiting, Launching, Room, ExitBuiltin, EndOfInput
<1>6. LaunchAgrees' /\ WaitAgrees'
  BY DEF LaunchAgrees, WaitAgrees, ExitBuiltin, EndOfInput
<1>7. CleanupAgrees'
  <2>1. CASE EndOfInput
    BY <2>1 DEF EndOfInput, CleanupAgrees, TypeOK, JobAssumption
  <2>2. CASE ExitBuiltin
    <3>1. Cardinality(Listed) = 0
      BY <1>2, <2>2 DEF ExitBuiltin, MayExit, CountsAgree
    <3>2. Listed = {}
      BY <3>1, ListedIsFinite, FS_EmptySet
    <3> QED BY <2>2, <3>2 DEF ExitBuiltin, CleanupAgrees, Listed
  <2> QED BY <2>1, <2>2
<1> QED BY <1>1, <1>3, <1>4, <1>5, <1>6, <1>7 DEF Stable

(***************************************************************************)
(* A read of freed memory breaks the program.                              *)
(***************************************************************************)
LEMMA CrashStep ==
  ASSUME JobInv, JobAssumption, UseAfterFree
  PROVE  JobInv'
<1> USE DEF JobInv, jobtable, jobs, processes, children, control
<1>1. /\ pc' = "crashed"
      /\ UNCHANGED <<jobtable, jobs, processes, children, pending, ret, job, slot>>
  BY DEF UseAfterFree
<1>2. TypeOK'
  BY <1>1 DEF TypeOK
<1>3. Leaving' /\ ~Waiting' /\ ~Launching'
  BY <1>1 DEF Leaving, Waiting, Launching
<1>4. Stable'
  BY <1>1, <1>3, StableKeeps DEF Stable
<1>5. ~Waiting /\ ~Launching
  <2>1. pc = "cleanup" \/ (pc = "reap" /\ ReadsFreed(0))
    BY DEF UseAfterFree
  <2> QED BY <2>1 DEF ReadsFreed, ForegroundAgrees, Waiting, Launching
<1>6. ForegroundAgrees'
  BY <1>1, <1>3, <1>5 DEF ForegroundAgrees
<1>7. CountsAgree' /\ LaunchAgrees' /\ WaitAgrees' /\ CleanupAgrees'
  BY <1>1, <1>3 DEF CountsAgree, LaunchAgrees, WaitAgrees, CleanupAgrees
<1> QED BY <1>2, <1>4, <1>6, <1>7 DEF Stable

LEMMA SignalStep ==
  ASSUME JobInv, Deliver
  PROVE  JobInv'
<1> USE DEF JobInv, Deliver, control
<1>1. TypeOK'
  BY DEF TypeOK, jobtable, jobs, processes
<1>2. Stable'
  BY StableKeeps DEF Stable, Leaving
<1>3. Placed'
  BY PlacedKeeps DEF Placed
<1> QED BY <1>1, <1>2, <1>3 DEF Stable, Placed

-----------------------------------------------------------------------------
(* Steps of the children, and signals for them.                            *)

(***************************************************************************)
(* Some processes that are alive change and leave a status to collect.     *)
(***************************************************************************)
ChangesOf(k, e, kk, ee) ==
  \A p \in Procs :
    \/ kk[p] = k[p] /\ ee[p] = e[p]
    \/ /\ k[p] # "none"
       /\ \/ kk[p] = "dead" /\ ee[p] = "EXITED"
          \/ kk[p] = "stopped" /\ ee[p] = "STOPPED"
          \/ kk[p] = "running" /\ ee[p] = "CONTINUED"

LEMMA ProcessesKeep ==
  ASSUME ProcessesAgree, UNCHANGED <<procs, info>>, ChangesOf(kern, event, kern', event'),
         \A p \in Procs : is_running'[p] => is_running[p] \/ ~ (p[2] > procs[p[1]])
  PROVE  ProcessesAgree'
<1> SUFFICES ASSUME NEW p \in Procs
             PROVE  /\ event'[p] = "EXITED" <=> kern'[p] = "dead"
                    /\ event'[p] = "STOPPED" => kern'[p] = "stopped"
                    /\ event'[p] = "CONTINUED" => kern'[p] = "running"
                    /\ p[2] > procs[p[1]] =>
                         kern'[p] = "none" /\ info[p] = "NONE" /\ ~is_running'[p]
                    /\ p[2] <= procs[p[1]] => (kern'[p] = "none" <=> info[p] = "EXITED")
  BY DEF ProcessesAgree
<1> QED BY DEF ProcessesAgree, ChangesOf

LEMMA SinglesKeep ==
  ASSUME SinglesAgree, JobAssumption, UNCHANGED <<procs, planned>>,
         ChangesOf(kern, event, kern', event'),
         \A j \in Jobs : \/ state'[j] = state[j]
                         \/ /\ state[j] \notin {"FREE", "DONE"}
                            /\ state'[j] # "STOPPED"
                            /\ Alone(j) => kern'[<<j, 1>>] # "stopped"
  PROVE  SinglesAgree'
<1> SUFFICES ASSUME NEW j \in Jobs, Alone(j)', state'[j] \notin {"FREE", "DONE"},
                    event'[<<j, 1>>] = "NONE"
             PROVE  /\ kern'[<<j, 1>>] # "none"
                    /\ state'[j] = "STOPPED" <=> kern'[<<j, 1>>] = "stopped"
  BY DEF SinglesAgree
<1>1. <<j, 1>> \in Procs
  BY DEF Procs, JobAssumption
<1>2. kern'[<<j, 1>>] = kern[<<j, 1>>] /\ event'[<<j, 1>>] = event[<<j, 1>>]
  BY <1>1 DEF ChangesOf
<1>3. Alone(j)
  BY DEF Alone
<1>4. state[j] \notin {"FREE", "DONE"}
  OBVIOUS
<1>5. /\ kern[<<j, 1>>] # "none"
      /\ state[j] = "STOPPED" <=> kern[<<j, 1>>] = "stopped"
  BY <1>2, <1>3, <1>4 DEF SinglesAgree
<1> QED BY <1>2, <1>3, <1>5

(***************************************************************************)
(* A child ends, stops or continues.                                       *)
(***************************************************************************)
LEMMA ChildKeeps ==
  ASSUME JobInv, JobAssumption, Child
  PROVE  JobInv'
<1>1. PICK p \in Procs : Exit(p) \/ Stop(p) \/ Continue(p)
  BY DEF Child
<1>2. /\ UNCHANGED <<jobtable, jobs, processes, pending, control>>
      /\ sigchld' = TRUE
      /\ kern[p] # "none"
      /\ \E k \in {"dead", "stopped", "running"}, e \in Changes :
           /\ kern' = [kern EXCEPT ![p] = k] /\ event' = [event EXCEPT ![p] = e]
           /\ \/ k = "dead" /\ e = "EXITED"
              \/ k = "stopped" /\ e = "STOPPED"
              \/ k = "running" /\ e = "CONTINUED"
  BY <1>1 DEF Exit, Stop, Continue, Change, Changes
<1>3. UNCHANGED <<table, num_jobs, highest, stale, state, id, procs, planned, info,
                  is_running, pending, pc, ret, job, slot>>
  BY <1>2 DEF jobtable, jobs, processes, control
<1>4. TypeOK'
  BY <1>2, <1>3 DEF JobInv, TypeOK, Changes
<1>5. ChangesOf(kern, event, kern', event')
  BY <1>2 DEF JobInv, TypeOK, ChangesOf
<1>6. ProcessesAgree'
  BY <1>3, <1>5, ProcessesKeep DEF JobInv
<1>7. JobsAgree' /\ SlotsAgree'
  BY <1>3 DEF JobInv, JobsAgree, SlotsAgree, Leaving
<1>8. DoneIsDone'
  BY <1>3 DEF JobInv, DoneIsDone, HasCompleted, ProcsOf
<1>9. SinglesAgree'
  BY <1>3, <1>5, SinglesKeep DEF JobInv
<1>10. Placed'
  <2>1. Placed
    BY JobInvParts
  <2> QED BY <1>3, <2>1, PlacedKeeps DEF jobtable, jobs, processes
<1> QED BY <1>4, <1>6, <1>7, <1>8, <1>9, <1>10 DEF JobInv, Placed

(***************************************************************************)
(* SIGCONT for a process group.                                            *)
(***************************************************************************)
LEMMA ContinueAllIs ==
  ASSUME TypeOK, JobAssumption, ProcessesAgree, NEW j \in Jobs, ContinueAll(j)
  PROVE  /\ kern' \in [Procs -> {"none", "running", "stopped", "dead"}]
         /\ event' \in [Procs -> Changes \cup {"NONE"}]
         /\ sigchld' \in BOOLEAN
         /\ ChangesOf(kern, event, kern', event')
         /\ \A p \in Procs : p[1] = j => kern'[p] # "stopped"
<1> USE DEF ContinueAll
<1>1. /\ kern' \in [Procs -> {"none", "running", "stopped", "dead"}]
      /\ event' \in [Procs -> Changes \cup {"NONE"}]
      /\ sigchld' \in BOOLEAN
  BY DEF TypeOK, Changes
<1>2. ChangesOf(kern, event, kern', event')
  BY DEF TypeOK, ChangesOf
<1>3. ASSUME NEW p \in Procs, p[1] = j, kern'[p] = "stopped"
      PROVE  FALSE
  <2>1. kern[p] = "stopped" /\ p \notin ProcsOf(j)
    BY <1>3
  <2>2. p[2] > procs[j]
    <3>1. p[2] \in Nat /\ procs[j] \in Nat
      BY <1>3, ProcIs DEF TypeOK, JobAssumption
    <3>2. ~ (p[2] <= procs[j])
      BY <1>3, <2>1, ProcsOfIs
    <3> QED BY <3>1, <3>2
  <2> QED BY <1>3, <2>1, <2>2 DEF ProcessesAgree
<1> QED BY <1>1, <1>2, <1>3

-----------------------------------------------------------------------------
(* Jobs enter the table and leave it.                                      *)

(***************************************************************************)
(* A job that leaves its slot, for slot 0 or for good.                     *)
(***************************************************************************)
LEMMA RemoveJob ==
  ASSUME TypeOK, JobAssumption, SlotsAgree, ~Leaving, num_jobs = Cardinality(Listed),
         NEW j \in Jobs, id[j] > 0,
         \A i \in 1..MaxJobs : table'[i] = IF i = id[j] THEN NoJob ELSE table[i],
         highest' = UpdateHighest([table EXCEPT ![id[j]] = NoJob], state, highest),
         num_jobs' = CountWithout(j),
         id'[j] = 0,
         \A k \in Jobs \ {j} : id'[k] = id[k] /\ state'[k] = state[k]
  PROVE  /\ SlotsAgree'
         /\ num_jobs' = Cardinality(Listed)'
         /\ num_jobs' \in 0..MaxJobs
         /\ highest' \in 0..highest
         /\ highest' > 0 => table'[highest'] # NoJob
<1> DEFINE left == [table EXCEPT ![id[j]] = NoJob]
<1>0. /\ table \in [0..MaxJobs -> Jobs \cup {NoJob}]
      /\ id \in [Jobs -> 0..MaxJobs] /\ highest \in Nat /\ MaxJobs \in Nat
      /\ NoJob \notin Jobs /\ num_jobs \in 0..MaxJobs
  BY DEF TypeOK, JobAssumption
<1>1. \A i \in 1..MaxJobs : left[i] = table'[i]
  BY <1>0
<1> HIDE DEF left
<1>2. /\ highest' \in 0..highest
      /\ highest' > 0 => highest' \in Kept(left, state, highest)
      /\ \A k \in Kept(left, state, highest) : k <= highest'
  BY <1>0, UpdateHighestIs DEF left
<1>3. table[id[j]] = j /\ id[j] \in 1..MaxJobs
  BY <1>0 DEF SlotsAgree
<1>4. ASSUME NEW i \in 1..MaxJobs, table'[i] # NoJob
      PROVE  /\ i <= highest'
             /\ id'[table'[i]] = i
             /\ state'[table'[i]] \in {"BACKGROUND", "STOPPED"}
  <2>1. i # id[j] /\ table'[i] = table[i] /\ table[i] \in Jobs
    BY <1>0, <1>4
  <2>2. i <= highest /\ id[table[i]] = i /\ state[table[i]] \in {"BACKGROUND", "STOPPED"}
    BY <1>0, <2>1 DEF SlotsAgree
  <2>3. table[i] # j
    BY <2>1, <2>2
  <2>4. i \in Kept(left, state, highest)
    BY <1>0, <1>1, <1>4, <2>1, <2>2 DEF Kept
  <2> QED BY <1>2, <2>1, <2>2, <2>3, <2>4
<1>5. ASSUME NEW k \in Jobs, id'[k] > 0
      PROVE  table'[id'[k]] = k
  <2>1. k # j /\ id'[k] = id[k]
    BY <1>5
  <2>2. table[id[k]] = k /\ id[k] \in 1..MaxJobs
    BY <1>0, <1>5, <2>1 DEF SlotsAgree
  <2> QED BY <1>3, <2>1, <2>2
<1>6. highest' < MaxJobs
  BY <1>0, <1>2 DEF SlotsAgree
<1>7. SlotsAgree'
  BY <1>4, <1>5, <1>6 DEF SlotsAgree
<1>8. Listed' = Listed \ {id[j]}
  BY <1>0 DEF Listed
<1>9. id[j] \in Listed
  BY <1>0, <1>3 DEF Listed
<1>10. Cardinality(Listed)' = Cardinality(Listed) - 1 /\ Cardinality(Listed)' \in Nat
  BY <1>8, <1>9, ListedIsFinite, FS_RemoveElement, FS_CardinalityType
<1>11. num_jobs' = num_jobs - 1
  BY DEF CountWithout
<1>12. num_jobs' = Cardinality(Listed)' /\ num_jobs' \in 0..MaxJobs
  BY <1>0, <1>10, <1>11
<1>13. ASSUME highest' > 0
       PROVE  table'[highest'] # NoJob
  <2>1. highest' \in 1..MaxJobs
    BY <1>0, <1>2, <1>6, <1>13
  <2>2. left[highest'] # NoJob
    BY <1>2, <1>13 DEF Kept
  <2> QED BY <1>1, <2>1, <2>2
<1> QED BY <1>2, <1>7, <1>12, <1>13

(***************************************************************************)
(* A job that gets the slot after the last one.                            *)
(***************************************************************************)
LEMMA AddJob ==
  ASSUME TypeOK, JobAssumption, SlotsAgree, ~Leaving, num_jobs = Cardinality(Listed), Room,
         NEW j \in Jobs, id[j] = 0,
         NEW t0 \in Jobs \cup {NoJob}, AddJobToTable(j, t0),
         state' = state, state[j] \in {"BACKGROUND", "STOPPED"}
  PROVE  /\ SlotsAgree'
         /\ num_jobs' = Cardinality(Listed)'
         /\ highest' > 0 => table'[highest'] # NoJob
         /\ table' \in [0..MaxJobs -> Jobs \cup {NoJob}] /\ table'[0] = t0
         /\ num_jobs' \in 0..MaxJobs /\ highest' \in 0..MaxJobs
         /\ id' \in [Jobs -> 0..MaxJobs]
<1>0. /\ table \in [0..MaxJobs -> Jobs \cup {NoJob}]
      /\ id \in [Jobs -> 0..MaxJobs] /\ highest \in Nat /\ MaxJobs \in Nat
      /\ NoJob \notin Jobs /\ num_jobs \in 0..MaxJobs
  BY DEF TypeOK, JobAssumption
<1>1. /\ highest' = highest + 1 /\ highest' < MaxJobs
      /\ table' = [table EXCEPT ![0] = t0, ![highest'] = j]
      /\ id' = [id EXCEPT ![j] = highest'] /\ num_jobs' = num_jobs + 1
  BY DEF AddJobToTable, Room
<1>2. /\ \A i \in 1..MaxJobs : table'[i] = IF i = highest' THEN j ELSE table[i]
      /\ table'[0] = t0 /\ table' \in [0..MaxJobs -> Jobs \cup {NoJob}]
      /\ id' \in [Jobs -> 0..MaxJobs] /\ highest' \in 1..MaxJobs
  <2> DEFINE h == highest'
  <2>1. h \in 1..MaxJobs
    BY <1>0, <1>1
  <2>2. table' = [table EXCEPT ![0] = t0, ![h] = j] /\ id' = [id EXCEPT ![j] = h]
    BY <1>1
  <2>3. h \in 0..MaxJobs /\ h # 0
    BY <2>1
  <2> HIDE DEF h
  <2>4. table' \in [0..MaxJobs -> Jobs \cup {NoJob}] /\ id' \in [Jobs -> 0..MaxJobs]
    BY <1>0, <2>2, <2>3
  <2>5. \A i \in 1..MaxJobs : i \in 0..MaxJobs /\ i # 0
    BY <1>0
  <2>6. /\ \A i \in 1..MaxJobs : table'[i] = IF i = h THEN j ELSE table[i]
        /\ table'[0] = t0
    BY <1>0, <2>2, <2>3, <2>5
  <2> QED BY <2>1, <2>4, <2>6 DEF h
<1>3. ASSUME NEW i \in 1..MaxJobs, table[i] # NoJob
      PROVE  /\ i <= highest /\ id[table[i]] = i /\ table[i] # j /\ table[i] \in Jobs
             /\ state[table[i]] \in {"BACKGROUND", "STOPPED"}
  BY <1>0, <1>3 DEF SlotsAgree
<1>4. ASSUME NEW i \in 1..MaxJobs, table'[i] # NoJob
      PROVE  /\ i <= highest'
             /\ id'[table'[i]] = i
             /\ state'[table'[i]] \in {"BACKGROUND", "STOPPED"}
  <2>1. CASE i = highest'
    BY <1>0, <1>1, <1>2, <2>1
  <2>2. CASE i # highest'
    BY <1>0, <1>1, <1>2, <1>3, <1>4, <2>2
  <2> QED BY <2>1, <2>2
<1>5. ASSUME NEW k \in Jobs, id'[k] > 0
      PROVE  table'[id'[k]] = k
  <2>1. CASE k = j
    BY <1>0, <1>1, <1>2, <2>1
  <2>2. CASE k # j
    <3>1. id'[k] = id[k] /\ table[id[k]] = k /\ id[k] \in 1..MaxJobs
      BY <1>0, <1>1, <1>5, <2>2 DEF SlotsAgree
    <3>2. id[k] # highest'
      BY <1>0, <1>1, <1>3, <3>1
    <3> QED BY <1>2, <3>1, <3>2
  <2> QED BY <2>1, <2>2
<1>6. SlotsAgree'
  BY <1>1, <1>4, <1>5 DEF SlotsAgree
<1>7. table[highest'] = NoJob
  BY <1>0, <1>1, <1>2, <1>3
<1>8. Listed' = Listed \cup {highest'} /\ highest' \notin Listed
  BY <1>0, <1>2, <1>7 DEF Listed
<1>9. Cardinality(Listed)' = Cardinality(Listed) + 1
  BY <1>8, ListedIsFinite, FS_AddElement
<1>10. Cardinality(Listed) <= highest
  <2>1. Listed \in SUBSET (1..highest)
    BY <1>0, <1>3 DEF Listed
  <2>2. IsFiniteSet(1..highest) /\ Cardinality(1..highest) <= highest
    <3>1. 1 \in Int /\ highest \in Int
      BY <1>0
    <3>2. /\ IsFiniteSet(1..highest)
          /\ Cardinality(1..highest) = IF 1 > highest THEN 0 ELSE highest - 1 + 1
      BY <3>1, FS_Interval
    <3> QED BY <1>0, <3>2
  <2>3. Cardinality(Listed) <= Cardinality(1..highest)
    BY <2>1, <2>2, FS_Subset
  <2>4. Cardinality(Listed) \in Nat /\ Cardinality(1..highest) \in Nat
    BY <2>2, ListedIsFinite, FS_CardinalityType
  <2> QED BY <1>0, <2>2, <2>3, <2>4
<1>11. num_jobs' = Cardinality(Listed)' /\ num_jobs' \in 0..MaxJobs
  BY <1>0, <1>1, <1>9, <1>10
<1>12. highest' > 0 => table'[highest'] # NoJob
  BY <1>0, <1>2
<1>13. highest' \in 0..MaxJobs
  BY <1>0, <1>2
<1> QED BY <1>2, <1>6, <1>11, <1>12, <1>13

(***************************************************************************)
(* Slot 0 is emptied.                                                      *)
(***************************************************************************)
LEMMA EmptySlotIs ==
  ASSUME TypeOK, JobAssumption, EmptyForegroundSlot
  PROVE  /\ table' \in [0..MaxJobs -> Jobs \cup {NoJob}] /\ table'[0] = NoJob
         /\ \A i \in 1..MaxJobs : table'[i] = table[i]
         /\ Listed' = Listed /\ highest \in 0..MaxJobs
         /\ stale' = FALSE /\ num_jobs' = num_jobs /\ highest' = highest
<1>1. /\ table' = [table EXCEPT ![0] = NoJob] /\ stale' = FALSE
      /\ num_jobs' = num_jobs /\ highest' = highest
  BY DEF EmptyForegroundSlot
<1>2. /\ table \in [0..MaxJobs -> Jobs \cup {NoJob}] /\ 0 \in 0..MaxJobs
      /\ highest \in 0..MaxJobs
  BY DEF TypeOK, JobAssumption
<1>3. \A i \in 1..MaxJobs : i \in 0..MaxJobs /\ i # 0
  BY DEF JobAssumption
<1>4. /\ table' \in [0..MaxJobs -> Jobs \cup {NoJob}] /\ table'[0] = NoJob
      /\ \A i \in 1..MaxJobs : table'[i] = table[i]
  BY <1>1, <1>2, <1>3
<1>5. Listed' = Listed
  BY <1>4 DEF Listed
<1> QED BY <1>1, <1>2, <1>4, <1>5

LEMMA EmptyCounts ==
  ASSUME TypeOK, JobAssumption, CountsAgree, EmptyForegroundSlot, ~Leaving
  PROVE  CountsAgree'
<1>1. /\ \A i \in 1..MaxJobs : table'[i] = table[i]
      /\ Listed' = Listed /\ highest \in 0..MaxJobs
      /\ num_jobs' = num_jobs /\ highest' = highest
  BY EmptySlotIs
<1>2. highest > 0 => table'[highest'] = table[highest]
  BY <1>1, JobAssumption DEF JobAssumption
<1> QED BY <1>1, <1>2 DEF CountsAgree

-----------------------------------------------------------------------------
(* The commands.                                                           *)

(***************************************************************************)
(* A job that is done stays done while its processes are left alone.       *)
(***************************************************************************)
LEMMA DoneKeeps ==
  ASSUME DoneIsDone,
         \A j \in Jobs : state'[j] = "DONE" =>
           /\ state[j] = "DONE" /\ procs'[j] = procs[j]
           /\ \A p \in ProcsOf(j) : info'[p] = info[p] /\ (is_running'[p] => is_running[p])
  PROVE  DoneIsDone'
<1> SUFFICES ASSUME NEW j \in Jobs, state'[j] = "DONE"
             PROVE  HasCompleted(j, info, is_running)'
  BY DEF DoneIsDone
<1>1. HasCompleted(j, info, is_running) /\ ProcsOf(j)' = ProcsOf(j)
  BY DEF DoneIsDone, ProcsOf
<1> QED BY <1>1 DEF HasCompleted

LEMMA MarkRunningIs ==
  ASSUME TypeOK, JobAssumption, NEW j \in Jobs, MarkRunning(j)
  PROVE  /\ is_running' \in [Procs -> BOOLEAN]
         /\ \A p \in Procs : is_running'[p] => is_running[p] \/ ~ (p[2] > procs[p[1]])
         /\ \A p \in Procs : p[1] # j => is_running'[p] = is_running[p]
         /\ procs[j] = 0 => is_running' = is_running
<1>1. \A p \in Procs : p \in ProcsOf(j) <=> p[1] = j /\ p[2] <= procs[j]
  BY ProcsOfIs
<1>2. \A p \in Procs : p[2] \in Nat \ {0} /\ p[1] \in Jobs /\ procs[p[1]] \in Nat
  BY JobAssumption DEF TypeOK, Procs, JobAssumption
<1>3. \A p \in Procs : is_running[p] \in BOOLEAN
  BY DEF TypeOK
<1>4. is_running \in [Procs -> BOOLEAN]
  BY DEF TypeOK
<1>5. is_running' \in [Procs -> BOOLEAN]
  BY DEF MarkRunning
<1>6. \A p \in Procs : is_running'[p] = (is_running[p] \/ p \in ProcsOf(j))
  BY DEF MarkRunning
<1>7. \A p \in Procs : is_running'[p] => is_running[p] \/ ~ (p[2] > procs[p[1]])
  <2> SUFFICES ASSUME NEW p \in Procs, p \in ProcsOf(j)
               PROVE  ~ (p[2] > procs[p[1]])
    BY <1>6
  <2> QED BY <1>1, <1>2
<1>8. \A p \in Procs : p[1] # j => is_running'[p] = is_running[p]
  BY <1>1, <1>3, <1>6
<1>9. ASSUME procs[j] = 0
      PROVE  is_running' = is_running
  <2>1. ProcsOf(j) \cap Procs = {}
    BY <1>1, <1>2, <1>9
  <2>2. \A p \in Procs : is_running'[p] = is_running[p]
    BY <1>3, <1>6, <2>1
  <2> QED BY <1>4, <1>5, <2>2
<1> QED BY <1>5, <1>7, <1>8, <1>9

(***************************************************************************)
(* run_pipeline.                                                           *)
(***************************************************************************)
LEMMA RunKeeps ==
  ASSUME JobInv, JobAssumption, NEW j \in Jobs, NEW n \in Lengths[j],
         NEW b \in BOOLEAN, RunPipeline(j, n, b)
  PROVE  JobInv'
<1>0. n \in Nat \ {0}
  BY DEF JobAssumption
<1>1. /\ pc = "evaluate" /\ Room /\ state[j] = "FREE" /\ job' = j /\ pc' = "fork"
      /\ planned' = [planned EXCEPT ![j] = n]
      /\ UNCHANGED <<procs, info, kern, event, sigchld, pending, ret, slot>>
  BY DEF RunPipeline, children
<1>2. /\ id[j] = 0 /\ procs[j] = 0 /\ job = NoJob /\ (table[0] # NoJob => stale)
      /\ stale \in BOOLEAN /\ ~Leaving
  BY <1>1 DEF JobInv, TypeOK, JobsAgree, ForegroundAgrees, Waiting, Launching, Leaving
<1>3. /\ UNCHANGED <<num_jobs, highest, is_running>>
      /\ id' = id
      /\ \/ /\ state' = [state EXCEPT ![j] = "BACKGROUND"]
            /\ UNCHANGED <<table, stale>>
         \/ /\ state' = [state EXCEPT ![j] = "FOREGROUND"]
            /\ table' = [table EXCEPT ![0] = j] /\ stale' = FALSE
  <2>1. CASE b
    BY <1>1, <2>1 DEF RunPipeline, jobtable
  <2>2. CASE ~b
    <3>1. SetForegroundJob(j)
      BY <2>2 DEF RunPipeline
    <3>2. /\ table' = [[table EXCEPT ![0] = NoJob] EXCEPT ![0] = j] /\ stale' = FALSE
          /\ num_jobs' = num_jobs /\ highest' = highest
          /\ state' = [state EXCEPT ![j] = "FOREGROUND"] /\ id' = [id EXCEPT ![j] = 0]
          /\ MarkRunning(j)
      BY <1>2, <3>1 DEF SetForegroundJob, CountWithout
    <3>3. is_running' = is_running
      BY <1>2, <3>2, MarkRunningIs DEF JobInv
    <3>4. id' = id /\ table' = [table EXCEPT ![0] = j]
      BY <1>2, <3>2 DEF JobInv, TypeOK, JobAssumption
    <3> QED BY <3>2, <3>3, <3>4
  <2> QED BY <2>1, <2>2
<1>4. /\ table \in [0..MaxJobs -> Jobs \cup {NoJob}] /\ 0 \in 0..MaxJobs /\ MaxJobs \in Nat
      /\ state \in [Jobs -> {"FREE", "NULL", "FOREGROUND", "BACKGROUND", "STOPPED", "DONE"}]
      /\ NoJob \notin Jobs /\ id \in [Jobs -> 0..MaxJobs] /\ n \in Nat
      /\ planned \in [Jobs -> Nat] /\ MaxProcs \in Nat
  BY <1>0, JobAssumption DEF JobInv, TypeOK, JobAssumption
<1>5. \A i \in 1..MaxJobs : table'[i] = table[i]
  <2>1. \A i \in 1..MaxJobs : i \in 0..MaxJobs /\ i # 0
    BY <1>4
  <2> QED BY <1>3, <1>4, <2>1
<1>6. TypeOK'
  <2>1. table' \in [0..MaxJobs -> Jobs \cup {NoJob}]
    BY <1>3, <1>4
  <2>2. state' \in [Jobs -> {"FREE", "NULL", "FOREGROUND", "BACKGROUND", "STOPPED", "DONE"}]
    BY <1>3, <1>4
  <2>3. planned' \in [Jobs -> Nat]
    BY <1>1, <1>4
  <2>4. stale' \in BOOLEAN
    BY <1>2, <1>3
  <2> QED BY <1>1, <1>3, <2>1, <2>2, <2>3, <2>4 DEF JobInv, TypeOK
<1>7. \A k \in Jobs : k # j => state'[k] = state[k] /\ planned'[k] = planned[k]
  BY <1>1, <1>3, <1>4
<1>8. state'[j] \in {"BACKGROUND", "FOREGROUND"} /\ planned'[j] = n
  BY <1>1, <1>3, <1>4
<1>9. ProcessesAgree'
  BY <1>1, <1>3 DEF JobInv, ProcessesAgree
<1>10. JobsAgree'
  <2>1. \A k \in Jobs : k # NoJob
    BY <1>4
  <2> QED BY <1>0, <1>1, <1>2, <1>3, <1>4, <1>7, <1>8, <2>1 DEF JobInv, JobsAgree
<1>11. DoneIsDone'
  <2>1. \A k \in Jobs : state'[k] = "DONE" => state[k] = "DONE"
    BY <1>7, <1>8
  <2> QED BY <1>1, <1>3, <2>1, DoneKeeps DEF JobInv
<1>12. SinglesAgree'
  BY <1>1, <1>2, <1>3, <1>7 DEF JobInv, SinglesAgree, Alone
<1>13. SlotsAgree'
  <2>1. \A i \in 1..MaxJobs : table[i] # NoJob =>
          /\ table[i] # j /\ table[i] \in Jobs /\ i <= highest /\ id[table[i]] = i
          /\ state[table[i]] \in {"BACKGROUND", "STOPPED"}
    <3> SUFFICES ASSUME NEW i \in 1..MaxJobs, table[i] # NoJob
                 PROVE  /\ table[i] # j /\ table[i] \in Jobs /\ i <= highest
                        /\ id[table[i]] = i /\ state[table[i]] \in {"BACKGROUND", "STOPPED"}
      OBVIOUS
    <3>1. table[i] \in Jobs
      BY <1>4
    <3>2. i <= highest /\ id[table[i]] = i /\ state[table[i]] \in {"BACKGROUND", "STOPPED"}
      BY <1>2 DEF JobInv, SlotsAgree
    <3> QED BY <1>1, <3>1, <3>2
  <2>2. \A k \in Jobs : id[k] > 0 => id[k] \in 1..MaxJobs
    BY <1>4
  <2> QED BY <1>3, <1>4, <1>5, <1>7, <2>1, <2>2 DEF JobInv, SlotsAgree
<1>14. CountsAgree'
  <2>1. Listed' = Listed
    BY <1>5 DEF Listed
  <2>2. highest \in Nat /\ highest <= MaxJobs
    BY <1>4 DEF JobInv, TypeOK
  <2>3. num_jobs = Cardinality(Listed) /\ (highest > 0 => table[highest] # NoJob)
    BY <1>2 DEF JobInv, CountsAgree
  <2> QED BY <1>3, <1>4, <1>5, <2>1, <2>2, <2>3 DEF CountsAgree
<1>15. ForegroundAgrees'
  <2>1. \/ state'[j] = "FOREGROUND" /\ table'[0] = j /\ ~stale'
        \/ state'[j] = "BACKGROUND" /\ (table'[0] # NoJob => stale')
    BY <1>2, <1>3, <1>4
  <2> QED BY <1>1, <1>2, <1>3, <2>1 DEF ForegroundAgrees, Waiting, Launching, Room
<1>16. LaunchAgrees'
  BY <1>0, <1>1, <1>2, <1>8 DEF LaunchAgrees
<1>17. WaitAgrees' /\ CleanupAgrees'
  BY <1>1 DEF WaitAgrees, CleanupAgrees
<1> QED BY <1>6, <1>9, <1>10, <1>11, <1>12, <1>13, <1>14, <1>15, <1>16, <1>17 DEF JobInv

(***************************************************************************)
(* run_fg.                                                                 *)
(***************************************************************************)
LEMMA FgKeeps ==
  ASSUME JobInv, JobAssumption, NEW i \in 1..highest, Fg(i)
  PROVE  JobInv'
<1> DEFINE j == table[i]
<1>1. /\ pc = "evaluate" /\ Room /\ j # NoJob /\ job' = j /\ pc' = "handle"
      /\ SetForegroundJob(j) /\ ContinueAll(j)
      /\ UNCHANGED <<procs, planned, info, pending, ret, slot>>
  BY DEF Fg
<1>2. /\ table \in [0..MaxJobs -> Jobs \cup {NoJob}] /\ 0 \in 0..MaxJobs /\ MaxJobs \in Nat
      /\ state \in [Jobs -> {"FREE", "NULL", "FOREGROUND", "BACKGROUND", "STOPPED", "DONE"}]
      /\ NoJob \notin Jobs /\ id \in [Jobs -> 0..MaxJobs] /\ highest \in Nat
  BY JobAssumption DEF JobInv, TypeOK, JobAssumption
<1>3. highest < MaxJobs
  BY DEF JobInv, SlotsAgree
<1>4. i \in 1..MaxJobs /\ i \in 0..MaxJobs /\ i # 0
  BY <1>2, <1>3
<1>5. j \in Jobs
  BY <1>1, <1>2, <1>4
<1>6. id[j] = i /\ state[j] \in {"BACKGROUND", "STOPPED"} /\ i > 0
  BY <1>1, <1>2, <1>4 DEF JobInv, SlotsAgree, Leaving
<1>7. job = NoJob /\ num_jobs = Cardinality(Listed)
  BY <1>1 DEF JobInv, ForegroundAgrees, CountsAgree, Waiting, Launching, Leaving
<1> HIDE DEF j
<1>8. /\ table' = [[table EXCEPT ![id[j]] = NoJob] EXCEPT ![0] = j] /\ stale' = FALSE
      /\ num_jobs' = CountWithout(j)
      /\ highest' = UpdateHighest([table EXCEPT ![id[j]] = NoJob], state, highest)
      /\ state' = [state EXCEPT ![j] = "FOREGROUND"]
      /\ id' = [id EXCEPT ![j] = 0]
      /\ MarkRunning(j)
  BY <1>1, <1>6 DEF SetForegroundJob
<1>9. /\ table' \in [0..MaxJobs -> Jobs \cup {NoJob}]
      /\ \A k \in 1..MaxJobs : table'[k] = IF k = id[j] THEN NoJob ELSE table[k]
      /\ table'[0] = j
  <2>1. \A k \in 1..MaxJobs : k \in 0..MaxJobs /\ k # 0
    BY <1>2
  <2> QED BY <1>2, <1>4, <1>5, <1>6, <1>8, <2>1
<1>10. /\ id' \in [Jobs -> 0..MaxJobs] /\ id'[j] = 0
       /\ state' \in [Jobs -> {"FREE", "NULL", "FOREGROUND", "BACKGROUND", "STOPPED", "DONE"}]
       /\ state'[j] = "FOREGROUND"
       /\ \A k \in Jobs \ {j} : id'[k] = id[k] /\ state'[k] = state[k]
  BY <1>2, <1>5, <1>8
<1>11. /\ SlotsAgree'
       /\ num_jobs' = Cardinality(Listed)'
       /\ num_jobs' \in 0..MaxJobs
       /\ highest' \in 0..highest
       /\ highest' > 0 => table'[highest'] # NoJob
  <2>1. TypeOK /\ SlotsAgree /\ ~Leaving
    BY <1>1 DEF JobInv, Leaving
  <2>2. id[j] > 0
    BY <1>6
  <2> QED BY <1>5, <1>7, <1>8, <1>9, <1>10, <2>1, <2>2, JobAssumption, RemoveJob
<1>12. /\ is_running' \in [Procs -> BOOLEAN]
       /\ \A p \in Procs : is_running'[p] => is_running[p] \/ ~ (p[2] > procs[p[1]])
       /\ \A p \in Procs : p[1] # j => is_running'[p] = is_running[p]
  BY <1>5, <1>8, MarkRunningIs, JobAssumption DEF JobInv
<1>13. /\ kern' \in [Procs -> {"none", "running", "stopped", "dead"}]
       /\ event' \in [Procs -> Changes \cup {"NONE"}]
       /\ sigchld' \in BOOLEAN
       /\ ChangesOf(kern, event, kern', event')
       /\ \A p \in Procs : p[1] = j => kern'[p] # "stopped"
  BY <1>1, <1>5, ContinueAllIs, JobAssumption DEF JobInv
<1>14. TypeOK'
  <2>1. highest' \in 0..MaxJobs
    BY <1>2, <1>3, <1>11
  <2> QED BY <1>1, <1>5, <1>8, <1>9, <1>10, <1>11, <1>12, <1>13, <2>1 DEF JobInv, TypeOK
<1>15. ProcessesAgree'
  BY <1>1, <1>12, <1>13, ProcessesKeep DEF JobInv
<1>16. JobsAgree'
  <2>1. \A k \in Jobs : k # NoJob
    BY <1>2
  <2> QED BY <1>1, <1>6, <1>7, <1>10, <2>1 DEF JobInv, JobsAgree
<1>17. DoneIsDone'
  <2>1. ASSUME NEW k \in Jobs, state'[k] = "DONE"
        PROVE  /\ state[k] = "DONE" /\ procs'[k] = procs[k]
               /\ \A p \in ProcsOf(k) : info'[p] = info[p] /\ (is_running'[p] => is_running[p])
    <3>1. k # j /\ state[k] = "DONE"
      BY <1>10, <2>1
    <3>2. \A p \in ProcsOf(k) : p \in Procs /\ p[1] # j
      BY <3>1, ProcsOfIs, JobAssumption DEF JobInv
    <3> QED BY <1>1, <1>12, <3>1, <3>2
  <2> QED BY <2>1, DoneKeeps DEF JobInv
<1>18. SinglesAgree'
  <2>1. <<j, 1>> \in Procs /\ <<j, 1>>[1] = j
    BY <1>5, JobAssumption DEF Procs, JobAssumption
  <2>2. \A k \in Jobs : \/ state'[k] = state[k]
                        \/ /\ state[k] \notin {"FREE", "DONE"}
                           /\ state'[k] # "STOPPED"
                           /\ Alone(k) => kern'[<<k, 1>>] # "stopped"
    BY <1>6, <1>10, <1>13, <2>1
  <2> QED BY <1>1, <1>13, <2>2, SinglesKeep, JobAssumption DEF JobInv
<1>19. CountsAgree'
  BY <1>11 DEF CountsAgree
<1>20. ForegroundAgrees'
  <2>1. Room'
    BY <1>1, <1>2, <1>11, JobAssumption DEF Room, JobAssumption
  <2> QED BY <1>1, <1>5, <1>8, <1>9, <1>10, <2>1 DEF ForegroundAgrees, Waiting, Launching
<1>21. LaunchAgrees' /\ WaitAgrees' /\ CleanupAgrees'
  BY <1>1 DEF LaunchAgrees, WaitAgrees, CleanupAgrees
<1> QED BY <1>11, <1>14, <1>15, <1>16, <1>17, <1>18, <1>19, <1>20, <1>21 DEF JobInv

(***************************************************************************)
(* run_bg.                                                                 *)
(***************************************************************************)
LEMMA BgKeeps ==
  ASSUME JobInv, JobAssumption, NEW i \in 1..highest, Bg(i)
  PROVE  JobInv'
<1> DEFINE j == table[i]
<1>1. /\ pc = "evaluate" /\ j # NoJob /\ pc' = "top"
      /\ MarkRunning(j) /\ ContinueAll(j)
      /\ state' = [state EXCEPT ![j] = "BACKGROUND"]
      /\ EmptyForegroundSlot /\ ~Leaving
      /\ UNCHANGED <<id, procs, planned, info, pending, ret, job, slot>>
  BY DEF Bg, Leaving
<1>2. /\ table \in [0..MaxJobs -> Jobs \cup {NoJob}] /\ MaxJobs \in Nat
      /\ state \in [Jobs -> {"FREE", "NULL", "FOREGROUND", "BACKGROUND", "STOPPED", "DONE"}]
      /\ NoJob \notin Jobs /\ highest \in Nat
  BY JobAssumption DEF JobInv, TypeOK, JobAssumption
<1>3. highest < MaxJobs
  BY DEF JobInv, SlotsAgree
<1>4. i \in 1..MaxJobs /\ i \in 0..MaxJobs
  BY <1>2, <1>3
<1>5. j \in Jobs
  BY <1>1, <1>2, <1>4
<1>6. id[j] > 0 /\ state[j] \in {"BACKGROUND", "STOPPED"}
  BY <1>1, <1>2, <1>4 DEF JobInv, SlotsAgree
<1>0. /\ table' \in [0..MaxJobs -> Jobs \cup {NoJob}] /\ table'[0] = NoJob
      /\ \A k \in 1..MaxJobs : table'[k] = table[k]
      /\ stale' = FALSE /\ num_jobs' = num_jobs /\ highest' = highest
  BY <1>1, EmptySlotIs, JobAssumption DEF JobInv
<1> HIDE DEF j
<1>7. /\ state' \in [Jobs -> {"FREE", "NULL", "FOREGROUND", "BACKGROUND", "STOPPED", "DONE"}]
      /\ state'[j] = "BACKGROUND"
      /\ \A k \in Jobs \ {j} : state'[k] = state[k]
  BY <1>1, <1>2, <1>5
<1>8. /\ is_running' \in [Procs -> BOOLEAN]
      /\ \A p \in Procs : is_running'[p] => is_running[p] \/ ~ (p[2] > procs[p[1]])
      /\ \A p \in Procs : p[1] # j => is_running'[p] = is_running[p]
  BY <1>1, <1>5, MarkRunningIs, JobAssumption DEF JobInv
<1>9. /\ kern' \in [Procs -> {"none", "running", "stopped", "dead"}]
      /\ event' \in [Procs -> Changes \cup {"NONE"}]
      /\ sigchld' \in BOOLEAN
      /\ ChangesOf(kern, event, kern', event')
      /\ \A p \in Procs : p[1] = j => kern'[p] # "stopped"
  BY <1>1, <1>5, ContinueAllIs, JobAssumption DEF JobInv
<1>10. TypeOK'
  BY <1>0, <1>1, <1>7, <1>8, <1>9 DEF JobInv, TypeOK
<1>11. ProcessesAgree'
  BY <1>1, <1>8, <1>9, ProcessesKeep DEF JobInv
<1>12. JobsAgree'
  BY <1>1, <1>6, <1>7 DEF JobInv, JobsAgree
<1>13. DoneIsDone'
  <2>1. ASSUME NEW k \in Jobs, state'[k] = "DONE"
        PROVE  /\ state[k] = "DONE" /\ procs'[k] = procs[k]
               /\ \A p \in ProcsOf(k) : info'[p] = info[p] /\ (is_running'[p] => is_running[p])
    <3>1. k # j /\ state[k] = "DONE"
      BY <1>7, <2>1
    <3>2. \A p \in ProcsOf(k) : p \in Procs /\ p[1] # j
      BY <3>1, ProcsOfIs, JobAssumption DEF JobInv
    <3> QED BY <1>1, <1>8, <3>1, <3>2
  <2> QED BY <2>1, DoneKeeps DEF JobInv
<1>14. SinglesAgree'
  <2>1. <<j, 1>> \in Procs /\ <<j, 1>>[1] = j
    BY <1>5, JobAssumption DEF Procs, JobAssumption
  <2>2. \A k \in Jobs : \/ state'[k] = state[k]
                        \/ /\ state[k] \notin {"FREE", "DONE"}
                           /\ state'[k] # "STOPPED"
                           /\ Alone(k) => kern'[<<k, 1>>] # "stopped"
    BY <1>6, <1>7, <1>9, <2>1
  <2> QED BY <1>1, <1>9, <2>2, SinglesKeep, JobAssumption DEF JobInv
<1>15. SlotsAgree'
  <2>1. \A k \in Jobs : id[k] > 0 => id[k] \in 1..MaxJobs
    BY JobAssumption DEF JobInv, TypeOK, JobAssumption
  <2>2. \A k \in 1..MaxJobs : table[k] # NoJob =>
          /\ k <= highest /\ id[table[k]] = k /\ table[k] \in Jobs
          /\ state'[table[k]] \in {"BACKGROUND", "STOPPED"}
    BY <1>1, <1>2, <1>7 DEF JobInv, SlotsAgree
  <2> QED BY <1>0, <1>1, <2>1, <2>2 DEF JobInv, SlotsAgree
<1>16. CountsAgree'
  BY <1>1, EmptyCounts, JobAssumption DEF JobInv
<1>17. ForegroundAgrees' /\ LaunchAgrees' /\ WaitAgrees' /\ CleanupAgrees'
  BY <1>0, <1>1 DEF JobInv, ForegroundAgrees, Waiting, Launching, LaunchAgrees, WaitAgrees,
                    CleanupAgrees
<1> QED BY <1>10, <1>11, <1>12, <1>13, <1>14, <1>15, <1>16, <1>17 DEF JobInv

(***************************************************************************)
(* A builtin that moves no job.                                            *)
(***************************************************************************)
LEMMA BuiltinKeeps ==
  ASSUME JobInv, JobAssumption, OtherBuiltin
  PROVE  JobInv'
<1>1. /\ pc = "evaluate" /\ pc' = "top" /\ EmptyForegroundSlot /\ ~Leaving
      /\ UNCHANGED <<state, id, procs, planned, info, is_running, kern, event, sigchld,
                     pending, ret, job, slot>>
  BY DEF OtherBuiltin, jobs, processes, children, Leaving
<1>2. /\ table' \in [0..MaxJobs -> Jobs \cup {NoJob}] /\ table'[0] = NoJob
      /\ \A k \in 1..MaxJobs : table'[k] = table[k]
      /\ stale' = FALSE /\ num_jobs' = num_jobs /\ highest' = highest
  BY <1>1, EmptySlotIs, JobAssumption DEF JobInv
<1>3. TypeOK'
  BY <1>1, <1>2 DEF JobInv, TypeOK
<1>4. ProcessesAgree' /\ JobsAgree' /\ SinglesAgree'
  BY <1>1 DEF JobInv, ProcessesAgree, JobsAgree, SinglesAgree, Alone
<1>5. DoneIsDone'
  BY <1>1, DoneKeeps DEF JobInv
<1>6. SlotsAgree'
  <2>1. \A k \in Jobs : id[k] > 0 => id[k] \in 1..MaxJobs
    BY JobAssumption DEF JobInv, TypeOK, JobAssumption
  <2> QED BY <1>1, <1>2, <2>1 DEF JobInv, SlotsAgree
<1>7. CountsAgree'
  BY <1>1, EmptyCounts, JobAssumption DEF JobInv
<1>8. ForegroundAgrees' /\ LaunchAgrees' /\ WaitAgrees' /\ CleanupAgrees'
  BY <1>1, <1>2 DEF JobInv, ForegroundAgrees, Waiting, Launching, LaunchAgrees, WaitAgrees,
                    CleanupAgrees
<1> QED BY <1>3, <1>4, <1>5, <1>6, <1>7, <1>8 DEF JobInv

(***************************************************************************)
(* fork in run_pipeline.                                                   *)
(***************************************************************************)
LEMMA ForkKeeps ==
  ASSUME JobInv, JobAssumption, Fork
  PROVE  JobInv'
<1> DEFINE p == <<job, procs[job] + 1>>
<1>1. /\ pc = "fork"
      /\ kern' = [kern EXCEPT ![p] = "running"]
      /\ is_running' = [is_running EXCEPT ![p] = TRUE]
      /\ procs' = [procs EXCEPT ![job] = @ + 1]
      /\ pc' = IF procs[job] + 1 = planned[job] THEN "handle" ELSE "fork"
      /\ procs[job] < MaxProcs
      /\ UNCHANGED <<table, num_jobs, highest, stale, state, id, planned, info, event,
                     sigchld, pending, ret, job, slot>>
  BY DEF Fork, jobtable
<1>2. job \in Jobs /\ state[job] \in {"FOREGROUND", "BACKGROUND"}
  BY <1>1 DEF JobInv, ForegroundAgrees, Launching
<1>3. /\ procs \in [Jobs -> 0..MaxProcs] /\ planned \in [Jobs -> Nat]
      /\ MaxProcs \in Nat /\ procs[job] < planned[job]
  BY <1>1, JobAssumption DEF JobInv, TypeOK, JobAssumption, LaunchAgrees
<1>4. p \in Procs /\ p[1] = job /\ p[2] = procs[job] + 1
  BY <1>1, <1>2, <1>3 DEF Procs
<1>5. \A q \in Procs : q # p => ~ (q[1] = job /\ q[2] = procs[job] + 1)
  BY JobAssumption, ProcIs
<1> HIDE DEF p
<1>6. /\ procs' \in [Jobs -> 0..MaxProcs] /\ procs'[job] = procs[job] + 1
      /\ \A k \in Jobs : k # job => procs'[k] = procs[k]
  <2>1. procs[job] + 1 \in 0..MaxProcs
    BY <1>1, <1>2, <1>3
  <2> QED BY <1>1, <1>2, <1>3, <2>1
<1>7. /\ kern'[p] = "running" /\ is_running'[p] = TRUE
      /\ \A q \in Procs : q # p => kern'[q] = kern[q] /\ is_running'[q] = is_running[q]
      /\ kern' \in [Procs -> {"none", "running", "stopped", "dead"}]
      /\ is_running' \in [Procs -> BOOLEAN]
  BY <1>1, <1>4 DEF JobInv, TypeOK
<1>8. kern[p] = "none" /\ info[p] = "NONE" /\ event[p] = "NONE"
  <2>1. p[2] > procs[p[1]]
    BY <1>2, <1>3, <1>4
  <2>2. kern[p] = "none" /\ info[p] = "NONE"
    BY <1>4, <2>1 DEF JobInv, ProcessesAgree
  <2>3. event[p] \in Changes \cup {"NONE"}
    BY <1>4 DEF JobInv, TypeOK
  <2> QED BY <1>4, <2>2, <2>3 DEF JobInv, ProcessesAgree, Changes
<1>9. TypeOK'
  BY <1>1, <1>6, <1>7 DEF JobInv, TypeOK
<1>10. ProcessesAgree'
  <2> SUFFICES ASSUME NEW q \in Procs
               PROVE  /\ event[q] = "EXITED" <=> kern'[q] = "dead"
                      /\ event[q] = "STOPPED" => kern'[q] = "stopped"
                      /\ event[q] = "CONTINUED" => kern'[q] = "running"
                      /\ q[2] > procs'[q[1]] =>
                           kern'[q] = "none" /\ info[q] = "NONE" /\ ~is_running'[q]
                      /\ q[2] <= procs'[q[1]] => (kern'[q] = "none" <=> info[q] = "EXITED")
    BY <1>1 DEF ProcessesAgree
  <2>1. CASE q = p
    BY <1>2, <1>3, <1>4, <1>6, <1>7, <1>8, <2>1
  <2>2. CASE q # p
    <3>1. /\ q[2] > procs'[q[1]] => q[2] > procs[q[1]]
          /\ q[2] <= procs'[q[1]] => q[2] <= procs[q[1]]
      <4>1. q[1] \in Jobs /\ q[2] \in Nat /\ procs[q[1]] \in Nat
        BY <1>3, ProcIs, JobAssumption
      <4>2. CASE q[1] = job
        BY <1>5, <1>6, <2>2, <4>1, <4>2
      <4>3. CASE q[1] # job
        BY <1>6, <4>1, <4>3
      <4> QED BY <4>2, <4>3
    <3> QED BY <1>7, <2>2, <3>1 DEF JobInv, ProcessesAgree
  <2> QED BY <2>1, <2>2
<1>11. JobsAgree'
  <2>1. procs'[job] <= planned[job]
    BY <1>2, <1>3, <1>6
  <2> QED BY <1>1, <1>2, <1>6, <2>1 DEF JobInv, JobsAgree
<1>12. DoneIsDone'
  <2>1. ASSUME NEW k \in Jobs, state'[k] = "DONE"
        PROVE  /\ state[k] = "DONE" /\ procs'[k] = procs[k]
               /\ \A q \in ProcsOf(k) : info'[q] = info[q] /\ (is_running'[q] => is_running[q])
    <3>1. k # job /\ state[k] = "DONE"
      BY <1>1, <1>2, <2>1
    <3>2. \A q \in ProcsOf(k) : q \in Procs /\ q # p
      BY <1>4, <3>1, ProcsOfIs, JobAssumption DEF JobInv
    <3> QED BY <1>1, <1>6, <1>7, <3>1, <3>2
  <2> QED BY <2>1, DoneKeeps DEF JobInv
<1>13. SinglesAgree'
  <2> SUFFICES ASSUME NEW k \in Jobs, Alone(k)', state[k] \notin {"FREE", "DONE"},
                      event[<<k, 1>>] = "NONE"
               PROVE  /\ kern'[<<k, 1>>] # "none"
                      /\ state[k] = "STOPPED" <=> kern'[<<k, 1>>] = "stopped"
    BY <1>1 DEF SinglesAgree
  <2>1. CASE k = job
    <3>1. procs[job] + 1 = 1
      BY <1>6, <2>1 DEF Alone
    <3>2. p = <<k, 1>>
      BY <2>1, <3>1 DEF p
    <3> QED BY <1>2, <1>7, <2>1, <3>2
  <2>2. CASE k # job
    <3>1. <<k, 1>> \in Procs /\ <<k, 1>> # p
      BY <1>4, <2>2, JobAssumption DEF Procs, JobAssumption
    <3>2. Alone(k)
      BY <1>1, <1>6, <2>2 DEF Alone
    <3> QED BY <1>7, <3>1, <3>2 DEF JobInv, SinglesAgree
  <2> QED BY <2>1, <2>2
<1>14. SlotsAgree'
  BY <1>1 DEF JobInv, SlotsAgree, Leaving
<1>15. CountsAgree'
  BY <1>1 DEF JobInv, CountsAgree, Listed, Leaving
<1>16. ForegroundAgrees'
  BY <1>1 DEF JobInv, ForegroundAgrees, Waiting, Launching, Room
<1>17. LaunchAgrees'
  BY <1>1, <1>2, <1>3, <1>6 DEF LaunchAgrees
<1>18. WaitAgrees' /\ CleanupAgrees'
  BY <1>1 DEF WaitAgrees, CleanupAgrees
<1> QED BY <1>9, <1>10, <1>11, <1>12, <1>13, <1>14, <1>15, <1>16, <1>17, <1>18 DEF JobInv

(***************************************************************************)
(* A job moves into the table, and the shell goes back to its loop.        *)
(***************************************************************************)
LEMMA ListKeeps ==
  ASSUME JobInv, JobAssumption, job \in Jobs, id[job] = 0, Room, pc \in {"handle", "finish"},
         NEW t0 \in Jobs \cup {NoJob}, t0 # NoJob => stale, AddJobToTable(job, t0),
         state[job] \in {"BACKGROUND", "STOPPED"},
         UNCHANGED <<state, procs, planned, processes, children, pending, ret, slot>>,
         job' = NoJob, pc' = "top"
  PROVE  JobInv'
<1>1. UNCHANGED <<info, is_running, kern, event, sigchld>>
  BY DEF processes, children
<1>2. num_jobs = Cardinality(Listed) /\ ~Leaving /\ stale' = stale
  BY DEF JobInv, CountsAgree, Leaving, AddJobToTable
<1>3. /\ SlotsAgree'
      /\ num_jobs' = Cardinality(Listed)'
      /\ highest' > 0 => table'[highest'] # NoJob
      /\ table' \in [0..MaxJobs -> Jobs \cup {NoJob}] /\ table'[0] = t0
      /\ num_jobs' \in 0..MaxJobs /\ highest' \in 0..MaxJobs
      /\ id' \in [Jobs -> 0..MaxJobs]
  <2>1. TypeOK /\ SlotsAgree
    BY DEF JobInv
  <2> QED BY <1>2, <2>1, JobAssumption, AddJob
<1>4. TypeOK'
  BY <1>1, <1>2, <1>3 DEF JobInv, TypeOK
<1>5. ProcessesAgree' /\ SinglesAgree'
  BY <1>1 DEF JobInv, ProcessesAgree, SinglesAgree, Alone
<1>6. JobsAgree'
  <2>1. highest + 1 > 0 /\ id'[job] = highest + 1
        /\ \A k \in Jobs : k # job => id'[k] = id[k]
    BY JobAssumption DEF AddJobToTable, JobInv, TypeOK, JobAssumption
  <2> QED BY <2>1 DEF JobInv, JobsAgree
<1>7. DoneIsDone'
  BY <1>1, DoneKeeps DEF JobInv
<1>8. CountsAgree'
  BY <1>3 DEF CountsAgree
<1>9. ForegroundAgrees' /\ LaunchAgrees' /\ WaitAgrees' /\ CleanupAgrees'
  BY <1>2, <1>3 DEF ForegroundAgrees, Waiting, Launching, LaunchAgrees, WaitAgrees,
                    CleanupAgrees
<1> QED BY <1>3, <1>4, <1>5, <1>6, <1>7, <1>8, <1>9 DEF JobInv

LEMMA HandleKeeps ==
  ASSUME JobInv, JobAssumption, HandleJob
  PROVE  JobInv'
<1>1. /\ job \in Jobs /\ id[job] = 0 /\ Room /\ pc = "handle" /\ ~Leaving
      /\ \/ state[job] = "FOREGROUND" /\ table[0] = job /\ ~stale
         \/ state[job] = "BACKGROUND" /\ (table[0] # NoJob => stale)
  BY DEF HandleJob, JobInv, ForegroundAgrees, Launching, Leaving
<1>2. CASE state[job] = "FOREGROUND"
  <2>1. /\ pc' = "wait"
        /\ UNCHANGED <<jobtable, jobs, processes, kern, event, sigchld, pending, job, ret,
                       slot>>
    BY <1>2 DEF HandleJob, children, jobs
  <2>2. TypeOK'
    BY <2>1 DEF JobInv, TypeOK, jobtable, jobs, processes
  <2>3. Stable'
    BY <1>1, <2>1, StableKeeps, JobInvParts
  <2>4. CountsAgree'
    BY <1>1, <2>1 DEF JobInv, CountsAgree, Listed, jobtable
  <2>5. ForegroundAgrees'
    BY <1>1, <1>2, <2>1 DEF ForegroundAgrees, Waiting, Launching, Room, jobtable, jobs
  <2>6. LaunchAgrees' /\ WaitAgrees' /\ CleanupAgrees'
    BY <2>1 DEF LaunchAgrees, WaitAgrees, CleanupAgrees
  <2> QED BY <2>2, <2>3, <2>4, <2>5, <2>6 DEF JobInv, Stable
<1>3. CASE state[job] # "FOREGROUND"
  <2>1. (table[0] # NoJob => stale) /\ state[job] = "BACKGROUND"
    BY <1>1, <1>3
  <2>2. AddJobToTable(job, table[0]) /\ pc' = "top" /\ job' = NoJob
    BY <1>3 DEF HandleJob
  <2>3. table[0] \in Jobs \cup {NoJob}
    BY JobAssumption DEF JobInv, TypeOK, JobAssumption
  <2>4. UNCHANGED <<state, procs, planned, processes, children, pending, ret, slot>>
    BY DEF HandleJob
  <2> QED BY <1>1, <2>1, <2>2, <2>3, <2>4, ListKeeps, JobAssumption
<1> QED BY <1>2, <1>3

-----------------------------------------------------------------------------
(* Jobs are freed.                                                         *)

(***************************************************************************)
(* A completed job has no process left, and no change to collect.          *)
(***************************************************************************)
LEMMA NoneIsQuiet ==
  ASSUME TypeOK, ProcessesAgree, NEW p \in Procs, kern[p] = "none"
  PROVE  event[p] = "NONE"
<1>1. event[p] \in {"EXITED", "STOPPED", "CONTINUED", "NONE"}
  BY DEF TypeOK, Changes
<1> QED BY <1>1 DEF ProcessesAgree

LEMMA OthersAreGone ==
  ASSUME TypeOK, JobAssumption, ProcessesAgree, NEW j \in Jobs, NEW p \in Procs, p[1] = j,
         p \in ProcsOf(j) => info[p] = "EXITED"
  PROVE  kern[p] = "none"
<1>1. p[2] \in Nat /\ procs[j] \in Nat
  BY ProcIs, JobAssumption DEF TypeOK, JobAssumption
<1>2. p \in ProcsOf(j) <=> p[2] <= procs[j]
  BY ProcsOfIs
<1>3. CASE p[2] <= procs[j]
  BY <1>2, <1>3 DEF ProcessesAgree
<1>4. CASE p[2] > procs[j]
  BY <1>4 DEF ProcessesAgree
<1> QED BY <1>1, <1>3, <1>4

(***************************************************************************)
(* free_job for a job none of whose processes is left.                     *)
(***************************************************************************)
LEMMA FreeKeeps ==
  ASSUME TypeOK, JobAssumption, ProcessesAgree, DoneIsDone, SinglesAgree,
         NEW j \in Jobs, FreeJob(j),
         \A p \in Procs : /\ p[1] # j => kern'[p] = kern[p] /\ event'[p] = event[p]
                          /\ p[1] = j => kern'[p] = "none" /\ event'[p] = "NONE"
  PROVE  /\ state' \in [Jobs -> {"FREE", "NULL", "FOREGROUND", "BACKGROUND", "STOPPED", "DONE"}]
         /\ id' \in [Jobs -> 0..MaxJobs]
         /\ procs' \in [Jobs -> 0..MaxProcs]
         /\ planned' \in [Jobs -> Nat]
         /\ info' \in [Procs -> Changes \cup {"NONE"}]
         /\ is_running' \in [Procs -> BOOLEAN]
         /\ state'[j] = "FREE" /\ id'[j] = 0 /\ procs'[j] = 0 /\ planned'[j] = 0
         /\ \A k \in Jobs \ {j} : /\ state'[k] = state[k] /\ id'[k] = id[k]
                                  /\ procs'[k] = procs[k] /\ planned'[k] = planned[k]
         /\ ProcessesAgree' /\ DoneIsDone' /\ SinglesAgree'
<1>0. /\ 0 \in 0..MaxJobs /\ 0 \in 0..MaxProcs
      /\ info' = [p \in Procs |-> IF p[1] = j THEN "NONE" ELSE info[p]]
      /\ is_running' = [p \in Procs |-> p[1] # j /\ is_running[p]]
  BY DEF JobAssumption, FreeJob
<1>1. /\ state' \in [Jobs -> {"FREE", "NULL", "FOREGROUND", "BACKGROUND", "STOPPED", "DONE"}]
      /\ id' \in [Jobs -> 0..MaxJobs]
      /\ procs' \in [Jobs -> 0..MaxProcs]
      /\ planned' \in [Jobs -> Nat]
      /\ state'[j] = "FREE" /\ id'[j] = 0 /\ procs'[j] = 0 /\ planned'[j] = 0
      /\ \A k \in Jobs \ {j} : /\ state'[k] = state[k] /\ id'[k] = id[k]
                               /\ procs'[k] = procs[k] /\ planned'[k] = planned[k]
  BY <1>0 DEF FreeJob, TypeOK
<1>2. info' \in [Procs -> Changes \cup {"NONE"}] /\ is_running' \in [Procs -> BOOLEAN]
  BY <1>0 DEF TypeOK
<1>3. \A p \in Procs : /\ p[1] # j => info'[p] = info[p] /\ is_running'[p] = is_running[p]
                       /\ p[1] = j => info'[p] = "NONE" /\ is_running'[p] = FALSE
  <2> SUFFICES ASSUME NEW p \in Procs
               PROVE  /\ p[1] # j => info'[p] = info[p] /\ is_running'[p] = is_running[p]
                      /\ p[1] = j => info'[p] = "NONE" /\ is_running'[p] = FALSE
    OBVIOUS
  <2>1. /\ p[1] # j => info'[p] = info[p]
        /\ p[1] = j => info'[p] = "NONE"
    BY <1>0
  <2>2. is_running[p] \in BOOLEAN
    BY DEF TypeOK
  <2>3. is_running'[p] = (p[1] # j /\ is_running[p])
    BY <1>0
  <2>4. p[1] # j => is_running'[p] = is_running[p]
    BY <2>2, <2>3
  <2>5. p[1] = j => is_running'[p] = FALSE
    BY <2>3
  <2> QED BY <2>1, <2>4, <2>5
<1>4. ProcessesAgree'
  <2> SUFFICES ASSUME NEW p \in Procs
               PROVE  /\ event'[p] = "EXITED" <=> kern'[p] = "dead"
                      /\ event'[p] = "STOPPED" => kern'[p] = "stopped"
                      /\ event'[p] = "CONTINUED" => kern'[p] = "running"
                      /\ p[2] > procs'[p[1]] =>
                           kern'[p] = "none" /\ info'[p] = "NONE" /\ ~is_running'[p]
                      /\ p[2] <= procs'[p[1]] => (kern'[p] = "none" <=> info'[p] = "EXITED")
    BY DEF ProcessesAgree
  <2>1. p[1] \in Jobs /\ p[2] \in 1..MaxProcs
    BY ProcIs
  <2>2. CASE p[1] = j
    <3>1. ~ (p[2] <= procs'[p[1]])
      BY <1>1, <2>1, <2>2
    <3> QED BY <1>3, <2>2, <3>1
  <2>3. CASE p[1] # j
    BY <1>1, <1>3, <2>1, <2>3 DEF ProcessesAgree
  <2> QED BY <2>2, <2>3
<1>5. DoneIsDone'
  <2>1. ASSUME NEW k \in Jobs, state'[k] = "DONE"
        PROVE  /\ state[k] = "DONE" /\ procs'[k] = procs[k]
               /\ \A p \in ProcsOf(k) : info'[p] = info[p] /\ (is_running'[p] => is_running[p])
    <3>1. k # j /\ state[k] = "DONE"
      BY <1>1, <2>1
    <3>2. \A p \in ProcsOf(k) : p \in Procs /\ p[1] # j
      BY <3>1, ProcsOfIs
    <3> QED BY <1>1, <1>3, <3>1, <3>2
  <2> QED BY <2>1, DoneKeeps
<1>6. SinglesAgree'
  <2> SUFFICES ASSUME NEW k \in Jobs, Alone(k)', state'[k] \notin {"FREE", "DONE"},
                      event'[<<k, 1>>] = "NONE"
               PROVE  /\ kern'[<<k, 1>>] # "none"
                      /\ state'[k] = "STOPPED" <=> kern'[<<k, 1>>] = "stopped"
    BY DEF SinglesAgree
  <2>1. k # j
    BY <1>1
  <2>2. <<k, 1>> \in Procs /\ <<k, 1>>[1] # j
    BY <2>1 DEF Procs, JobAssumption
  <2>3. Alone(k)
    BY <1>1, <2>1 DEF Alone
  <2> QED BY <1>1, <2>1, <2>2, <2>3 DEF SinglesAgree
<1> QED BY <1>1, <1>2, <1>4, <1>5, <1>6

(***************************************************************************)
(* The job that is in no slot but slot 0 is freed, and the shell goes back *)
(* to its loop.                                                            *)
(***************************************************************************)
LEMMA DropKeeps ==
  ASSUME JobInv, JobAssumption, job \in Jobs, id[job] = 0, ~Leaving, FreeJob(job),
         \A p \in Procs : /\ p[1] # job => kern'[p] = kern[p] /\ event'[p] = event[p]
                          /\ p[1] = job => kern'[p] = "none" /\ event'[p] = "NONE",
         kern' \in [Procs -> {"none", "running", "stopped", "dead"}],
         event' \in [Procs -> Changes \cup {"NONE"}],
         table' \in [0..MaxJobs -> Jobs \cup {NoJob}],
         \A i \in 1..MaxJobs : table'[i] = table[i],
         table'[0] # NoJob => stale', stale' \in BOOLEAN, CountsAgree',
         job' = NoJob, pc' = "top",
         UNCHANGED <<num_jobs, highest, sigchld, pending, ret, slot>>
  PROVE  JobInv'
<1>1. /\ state' \in [Jobs -> {"FREE", "NULL", "FOREGROUND", "BACKGROUND", "STOPPED", "DONE"}]
      /\ id' \in [Jobs -> 0..MaxJobs]
      /\ procs' \in [Jobs -> 0..MaxProcs]
      /\ planned' \in [Jobs -> Nat]
      /\ info' \in [Procs -> Changes \cup {"NONE"}]
      /\ is_running' \in [Procs -> BOOLEAN]
      /\ state'[job] = "FREE" /\ id'[job] = 0 /\ procs'[job] = 0 /\ planned'[job] = 0
      /\ \A k \in Jobs \ {job} : /\ state'[k] = state[k] /\ id'[k] = id[k]
                                 /\ procs'[k] = procs[k] /\ planned'[k] = planned[k]
      /\ ProcessesAgree' /\ DoneIsDone' /\ SinglesAgree'
  BY FreeKeeps, JobAssumption DEF JobInv
<1>2. /\ table \in [0..MaxJobs -> Jobs \cup {NoJob}] /\ MaxJobs \in Nat
      /\ NoJob \notin Jobs /\ id \in [Jobs -> 0..MaxJobs]
  BY JobAssumption DEF JobInv, TypeOK, JobAssumption
<1>3. TypeOK'
  BY <1>1 DEF JobInv, TypeOK
<1>4. JobsAgree'
  <2> SUFFICES ASSUME NEW k \in Jobs
               PROVE  /\ state'[k] # "NULL"
                      /\ state'[k] = "FREE" => id'[k] = 0 /\ procs'[k] = 0
                      /\ state'[k] # "FREE" => id'[k] > 0 \/ k = job'
                      /\ procs'[k] <= planned'[k]
    BY DEF JobsAgree
  <2>1. CASE k = job
    BY <1>1, <2>1
  <2>2. CASE k # job
    <3>1. /\ state[k] # "NULL"
          /\ state[k] = "FREE" => id[k] = 0 /\ procs[k] = 0
          /\ state[k] # "FREE" => id[k] > 0
          /\ procs[k] <= planned[k]
      BY <2>2 DEF JobInv, JobsAgree
    <3> QED BY <1>1, <2>2, <3>1
  <2> QED BY <2>1, <2>2
<1>5. SlotsAgree'
  <2>1. ASSUME NEW i \in 1..MaxJobs, table'[i] # NoJob
        PROVE  /\ i <= highest'
               /\ id'[table'[i]] = i
               /\ state'[table'[i]] \in {"BACKGROUND", "STOPPED"}
    <3>0. i \in 0..MaxJobs /\ table'[i] = table[i]
      BY <1>2, SMTT(40)
    <3>1. table[i] \in Jobs /\ table'[i] = table[i]
      BY <1>2, <2>1, <3>0
    <3>2. i <= highest /\ id[table[i]] = i /\ state[table[i]] \in {"BACKGROUND", "STOPPED"}
      BY <2>1, <3>1 DEF JobInv, SlotsAgree
    <3>3. table[i] # job
      BY <1>2, <3>2
    <3> QED BY <1>1, <3>1, <3>2, <3>3
  <2>2. ASSUME NEW k \in Jobs, id'[k] > 0
        PROVE  table'[id'[k]] = k
    <3>1. k # job /\ id'[k] = id[k]
      BY <1>1, <2>2
    <3>2. id[k] \in 1..MaxJobs
      BY <1>2, <2>2, <3>1
    <3> QED BY <3>1, <3>2 DEF JobInv, SlotsAgree
  <2> QED BY <2>1, <2>2 DEF JobInv, SlotsAgree
<1>6. ForegroundAgrees' /\ LaunchAgrees' /\ WaitAgrees' /\ CleanupAgrees'
  BY DEF ForegroundAgrees, Waiting, Launching, LaunchAgrees, WaitAgrees, CleanupAgrees
<1> QED BY <1>1, <1>3, <1>4, <1>5, <1>6 DEF JobInv

(***************************************************************************)
(* The end of handle_job.                                                  *)
(***************************************************************************)
LEMMA FinishKeeps ==
  ASSUME JobInv, JobAssumption, FinishJob
  PROVE  JobInv'
<1>1. /\ job \in Jobs /\ id[job] = 0 /\ Room /\ pc = "finish" /\ WaitOver /\ ~Leaving
      /\ table[0] = job
  BY DEF FinishJob, JobInv, ForegroundAgrees, Waiting, WaitAgrees, Leaving
<1>2. CASE state[job] = "STOPPED"
  <2>1. AddJobToTable(job, NoJob) /\ pc' = "top" /\ job' = NoJob
    BY <1>2 DEF FinishJob
  <2>2. UNCHANGED <<state, procs, planned, processes, children, pending, ret, slot>>
    BY <1>2 DEF FinishJob
  <2> QED BY <1>1, <1>2, <2>1, <2>2, ListKeeps, JobAssumption
<1>3. CASE state[job] # "STOPPED"
  <2>1. /\ EmptyForegroundSlot /\ FreeJob(job) /\ job' = NoJob /\ pc' = "top"
        /\ UNCHANGED <<kern, event, sigchld, pending, ret, slot>>
    BY <1>3 DEF FinishJob, children
  <2>2. \A p \in Procs : p[1] = job => kern[p] = "none" /\ event[p] = "NONE"
    <3>1. \A p \in ProcsOf(job) : info[p] = "EXITED"
      BY <1>1, <1>3 DEF WaitOver, HasCompleted
    <3> QED BY <1>1, <3>1, OthersAreGone, NoneIsQuiet, JobAssumption DEF JobInv
  <2>3. \A p \in Procs : /\ p[1] # job => kern'[p] = kern[p] /\ event'[p] = event[p]
                         /\ p[1] = job => kern'[p] = "none" /\ event'[p] = "NONE"
    BY <2>1, <2>2
  <2>4. /\ table' \in [0..MaxJobs -> Jobs \cup {NoJob}] /\ table'[0] = NoJob
        /\ \A k \in 1..MaxJobs : table'[k] = table[k]
        /\ stale' = FALSE /\ num_jobs' = num_jobs /\ highest' = highest
    BY <2>1, EmptySlotIs, JobAssumption DEF JobInv
  <2>5. CountsAgree'
    BY <1>1, <2>1, EmptyCounts, JobAssumption DEF JobInv
  <2>6. /\ (table'[0] # NoJob => stale') /\ stale' \in BOOLEAN
        /\ kern' \in [Procs -> {"none", "running", "stopped", "dead"}]
        /\ event' \in [Procs -> Changes \cup {"NONE"}]
    BY <2>1, <2>4 DEF JobInv, TypeOK
  <2> QED BY <1>1, <2>1, <2>3, <2>4, <2>5, <2>6, DropKeeps, JobAssumption
<1> QED BY <1>2, <1>3

(***************************************************************************)
(* The end of a pipeline whose pipe() has failed.                          *)
(***************************************************************************)
LEMMA AbortKeeps ==
  ASSUME JobInv, JobAssumption, AbortJob
  PROVE  JobInv'
<1>1. /\ pc = "abort" /\ pc' = "top" /\ job' = NoJob /\ FreeJob(job) /\ WaitForAll(job)
      /\ stale' = (stale \/ state[job] = "FOREGROUND")
      /\ UNCHANGED <<table, num_jobs, highest, sigchld, pending, ret, slot>>
  BY DEF AbortJob, WaitForAll
<1>2. job \in Jobs /\ id[job] = 0 /\ ~Leaving /\ stale \in BOOLEAN
  BY <1>1 DEF JobInv, TypeOK, ForegroundAgrees, Launching, Leaving
<1>3. \A p \in Procs : /\ p[1] # job => kern'[p] = kern[p] /\ event'[p] = event[p]
                       /\ p[1] = job => kern'[p] = "none" /\ event'[p] = "NONE"
  BY <1>1 DEF WaitForAll
<1>4. /\ kern' \in [Procs -> {"none", "running", "stopped", "dead"}]
      /\ event' \in [Procs -> Changes \cup {"NONE"}]
  BY <1>1 DEF WaitForAll, JobInv, TypeOK, Changes
<1>5. (table'[0] # NoJob => stale') /\ stale' \in BOOLEAN
  BY <1>1, <1>2 DEF JobInv, ForegroundAgrees, Launching
<1>6. CountsAgree'
  BY <1>1, <1>2 DEF JobInv, CountsAgree, Listed
<1>7. /\ table' \in [0..MaxJobs -> Jobs \cup {NoJob}]
      /\ \A k \in 1..MaxJobs : table'[k] = table[k]
  BY <1>1 DEF JobInv, TypeOK
<1> QED BY <1>1, <1>2, <1>3, <1>4, <1>5, <1>6, <1>7, DropKeeps, JobAssumption

-----------------------------------------------------------------------------
(* wait_for_any_process.                                                   *)

(***************************************************************************)
(* What a change that waits to be collected says of its process.           *)
(***************************************************************************)
LEMMA ReapedIs ==
  ASSUME JobInv, JobAssumption, NEW p \in Procs, ReapChild(p)
  PROVE  /\ p[1] \in Jobs /\ p \in ProcsOf(p[1]) /\ p[2] <= procs[p[1]]
         /\ state[p[1]] # "FREE"
         /\ event[p] \in Changes /\ kern[p] # "none" /\ info[p] # "EXITED"
         /\ kern' \in [Procs -> {"none", "running", "stopped", "dead"}]
         /\ event' \in [Procs -> Changes \cup {"NONE"}]
         /\ event'[p] = "NONE"
         /\ kern'[p] = IF event[p] = "EXITED" THEN "none" ELSE kern[p]
         /\ \A q \in Procs : q # p => kern'[q] = kern[q] /\ event'[q] = event[q]
<1>1. event[p] # "NONE" /\ Collect(p)
  BY DEF ReapChild
<1>2. p[1] \in Jobs /\ p[2] \in 1..MaxProcs /\ p[2] \in Nat
  BY ProcIs
<1>3. kern[p] # "none"
  BY <1>1, NoneIsQuiet DEF JobInv
<1>4. p[2] <= procs[p[1]] /\ procs[p[1]] \in Nat
  <2>1. procs[p[1]] \in Nat
    BY <1>2, JobAssumption DEF JobInv, TypeOK, JobAssumption
  <2>2. ~ (p[2] > procs[p[1]])
    BY <1>3 DEF JobInv, ProcessesAgree
  <2> QED BY <1>2, <2>1, <2>2
<1>5. p \in ProcsOf(p[1])
  BY <1>2, <1>4, ProcsOfIs DEF JobInv
<1>6. state[p[1]] # "FREE"
  <2>1. procs[p[1]] # 0
    BY <1>2, <1>4
  <2> QED BY <1>2, <2>1 DEF JobInv, JobsAgree
<1>7. info[p] # "EXITED"
  BY <1>3, <1>4 DEF JobInv, ProcessesAgree
<1>8. event[p] \in Changes
  BY <1>1 DEF JobInv, TypeOK
<1>9. /\ kern' \in [Procs -> {"none", "running", "stopped", "dead"}]
      /\ event' \in [Procs -> Changes \cup {"NONE"}]
      /\ event'[p] = "NONE"
      /\ kern'[p] = IF event[p] = "EXITED" THEN "none" ELSE kern[p]
      /\ \A q \in Procs : q # p => kern'[q] = kern[q] /\ event'[q] = event[q]
  BY <1>1 DEF Collect, JobInv, TypeOK
<1> QED BY <1>2, <1>3, <1>4, <1>5, <1>6, <1>7, <1>8, <1>9

(***************************************************************************)
(* A job of the table that has completed is freed.                         *)
(***************************************************************************)
LEMMA ReapFreeKeeps ==
  ASSUME JobInv, JobAssumption, NEW p \in Procs, ReapChild(p),
         NEW j \in Jobs, j = p[1], id[j] > 0,
         HasCompleted(j, [info EXCEPT ![p] = event[p]], [is_running EXCEPT ![p] = FALSE])
  PROVE  JobInv'
<1>1. /\ pc = "reap"
      /\ table' = [table EXCEPT ![id[j]] = NoJob]
      /\ num_jobs' = CountWithout(j)
      /\ highest' = UpdateHighest([table EXCEPT ![id[j]] = NoJob], state, highest)
      /\ FreeJob(j) /\ ~Leaving
      /\ UNCHANGED <<stale, pending, pc, ret, job, slot, sigchld>>
  BY DEF ReapChild, control, Collect, Leaving
<1>2. \A q \in ProcsOf(j) : [info EXCEPT ![p] = event[p]][q] = "EXITED"
  BY DEF HasCompleted
<1>3. info \in [Procs -> Changes \cup {"NONE"}]
  BY DEF JobInv, TypeOK
<1>4. /\ p \in ProcsOf(j) /\ event[p] \in Changes
      /\ kern' \in [Procs -> {"none", "running", "stopped", "dead"}]
      /\ event' \in [Procs -> Changes \cup {"NONE"}]
      /\ event'[p] = "NONE"
      /\ kern'[p] = IF event[p] = "EXITED" THEN "none" ELSE kern[p]
      /\ \A q \in Procs : q # p => kern'[q] = kern[q] /\ event'[q] = event[q]
  BY ReapedIs
<1>5. ASSUME NEW q \in Procs, q[1] = j
      PROVE  kern'[q] = "none" /\ event'[q] = "NONE"
  <2>1. CASE q = p
    <3>1. event[p] = "EXITED"
      BY <1>2, <1>3, <1>4
    <3> QED BY <1>4, <2>1, <3>1
  <2>2. CASE q # p
    <3>1. q \in ProcsOf(j) => info[q] = "EXITED"
      BY <1>2, <1>3, <2>2
    <3>2. kern[q] = "none"
      BY <1>5, <3>1, OthersAreGone DEF JobInv
    <3>3. event[q] = "NONE"
      BY <3>2, NoneIsQuiet DEF JobInv
    <3> QED BY <1>4, <2>2, <3>2, <3>3
  <2> QED BY <2>1, <2>2
<1>6. /\ state' \in [Jobs -> {"FREE", "NULL", "FOREGROUND", "BACKGROUND", "STOPPED", "DONE"}]
      /\ id' \in [Jobs -> 0..MaxJobs]
      /\ procs' \in [Jobs -> 0..MaxProcs]
      /\ planned' \in [Jobs -> Nat]
      /\ info' \in [Procs -> Changes \cup {"NONE"}]
      /\ is_running' \in [Procs -> BOOLEAN]
      /\ state'[j] = "FREE" /\ id'[j] = 0 /\ procs'[j] = 0 /\ planned'[j] = 0
      /\ \A k \in Jobs \ {j} : /\ state'[k] = state[k] /\ id'[k] = id[k]
                               /\ procs'[k] = procs[k] /\ planned'[k] = planned[k]
      /\ ProcessesAgree' /\ DoneIsDone' /\ SinglesAgree'
  <2>1. \A q \in Procs : /\ q[1] # j => kern'[q] = kern[q] /\ event'[q] = event[q]
                         /\ q[1] = j => kern'[q] = "none" /\ event'[q] = "NONE"
    BY <1>4, <1>5
  <2> QED BY <1>1, <2>1, FreeKeeps, JobAssumption DEF JobInv
<1>7. /\ table \in [0..MaxJobs -> Jobs \cup {NoJob}] /\ 0 \in 0..MaxJobs /\ MaxJobs \in Nat
      /\ NoJob \notin Jobs /\ id \in [Jobs -> 0..MaxJobs] /\ highest \in 0..MaxJobs
  BY JobAssumption DEF JobInv, TypeOK, JobAssumption
<1>8. /\ table' \in [0..MaxJobs -> Jobs \cup {NoJob}] /\ table'[0] = table[0]
      /\ \A i \in 1..MaxJobs : table'[i] = IF i = id[j] THEN NoJob ELSE table[i]
  <2>1. \A i \in 1..MaxJobs : i \in 0..MaxJobs
    BY <1>7
  <2>2. id[j] # 0
    OBVIOUS
  <2> QED BY <1>1, <1>7, <2>1, <2>2
<1>9. /\ SlotsAgree'
      /\ num_jobs' = Cardinality(Listed)'
      /\ num_jobs' \in 0..MaxJobs
      /\ highest' \in 0..highest
      /\ highest' > 0 => table'[highest'] # NoJob
  <2>1. TypeOK /\ SlotsAgree /\ num_jobs = Cardinality(Listed) /\ ~Leaving
    BY <1>1 DEF JobInv, CountsAgree
  <2>2. /\ id'[j] = 0
        /\ \A k \in Jobs \ {j} : id'[k] = id[k] /\ state'[k] = state[k]
    BY <1>6
  <2>3. /\ num_jobs' = CountWithout(j)
        /\ highest' = UpdateHighest([table EXCEPT ![id[j]] = NoJob], state, highest)
    BY <1>1
  <2>4. \A i \in 1..MaxJobs : table'[i] = IF i = id[j] THEN NoJob ELSE table[i]
    BY <1>8
  <2> QED BY <2>1, <2>2, <2>3, <2>4, JobAssumption, RemoveJob
<1>10. j # job
  BY <1>1, <1>7 DEF JobInv, ForegroundAgrees, Waiting, Launching
<1>11. TypeOK'
  <2>1. highest' \in 0..MaxJobs
    BY <1>7, <1>9
  <2> QED BY <1>1, <1>4, <1>6, <1>8, <1>9, <2>1 DEF JobInv, TypeOK
<1>12. JobsAgree'
  <2> SUFFICES ASSUME NEW k \in Jobs
               PROVE  /\ state'[k] # "NULL"
                      /\ state'[k] = "FREE" => id'[k] = 0 /\ procs'[k] = 0
                      /\ state'[k] # "FREE" => id'[k] > 0 \/ k = job'
                      /\ procs'[k] <= planned'[k]
    BY DEF JobsAgree
  <2>1. CASE k = j
    BY <1>6, <2>1
  <2>2. CASE k # j
    BY <1>1, <1>6, <2>2 DEF JobInv, JobsAgree
  <2> QED BY <2>1, <2>2
<1>13. CountsAgree'
  BY <1>9 DEF CountsAgree
<1>14. ForegroundAgrees'
  <2>1. Room => Room'
    BY <1>7, <1>9, JobAssumption DEF Room, JobAssumption
  <2> QED BY <1>1, <1>6, <1>8, <1>10, <2>1 DEF JobInv, ForegroundAgrees, Waiting, Launching
<1>15. LaunchAgrees' /\ WaitAgrees' /\ CleanupAgrees'
  BY <1>1 DEF LaunchAgrees, WaitAgrees, CleanupAgrees
<1> QED BY <1>6, <1>9, <1>11, <1>12, <1>13, <1>14, <1>15 DEF JobInv

(***************************************************************************)
(* Any other job is given the state its change calls for.                  *)
(***************************************************************************)
LEMMA ReapMarkKeeps ==
  ASSUME JobInv, JobAssumption, NEW p \in Procs, ReapChild(p),
         NEW j \in Jobs, j = p[1],
         NEW completed \in BOOLEAN,
         completed <=> HasCompleted(j, [info EXCEPT ![p] = event[p]],
                                       [is_running EXCEPT ![p] = FALSE]),
         ~ (completed /\ id[j] > 0)
  PROVE  JobInv'
<1>1. /\ pc = "reap"
      /\ info' = [info EXCEPT ![p] = event[p]]
      /\ is_running' = [is_running EXCEPT ![p] = FALSE]
      /\ state' = [state EXCEPT ![j] = IF completed THEN "DONE" ELSE SetJobState(j, event[p])]
      /\ ~Leaving
      /\ UNCHANGED <<table, num_jobs, highest, stale, id, procs, planned, pending, pc, ret,
                     job, slot, sigchld>>
  BY DEF ReapChild, control, jobtable, Collect, Leaving
<1>2. /\ p \in ProcsOf(j) /\ p[2] <= procs[j] /\ state[j] # "FREE"
      /\ event[p] \in Changes /\ kern[p] # "none" /\ info[p] # "EXITED"
      /\ kern' \in [Procs -> {"none", "running", "stopped", "dead"}]
      /\ event' \in [Procs -> Changes \cup {"NONE"}]
      /\ event'[p] = "NONE"
      /\ kern'[p] = IF event[p] = "EXITED" THEN "none" ELSE kern[p]
      /\ \A q \in Procs : q # p => kern'[q] = kern[q] /\ event'[q] = event[q]
  BY ReapedIs
<1>3. /\ info'[p] = event[p] /\ is_running'[p] = FALSE
      /\ \A q \in Procs : q # p => info'[q] = info[q] /\ is_running'[q] = is_running[q]
      /\ info' \in [Procs -> Changes \cup {"NONE"}]
      /\ is_running' \in [Procs -> BOOLEAN]
  BY <1>1, <1>2 DEF JobInv, TypeOK
<1>4. HasCompleted(j, info', is_running') <=> completed
  BY <1>1
<1>5. /\ state'[j] = IF completed THEN "DONE" ELSE SetJobState(j, event[p])
      /\ \A k \in Jobs : k # j => state'[k] = state[k]
  BY <1>1 DEF JobInv, TypeOK
<1>6. state[j] \in {"FOREGROUND", "BACKGROUND", "STOPPED", "DONE"}
  BY <1>2 DEF JobInv, TypeOK, JobsAgree
<1>7. /\ SetJobState(j, event[p]) \in {"STOPPED", "BACKGROUND", state[j]}
      /\ event[p] = "STOPPED" => SetJobState(j, event[p]) = "STOPPED"
      /\ event[p] = "CONTINUED" => SetJobState(j, event[p]) \in {"BACKGROUND", "FOREGROUND"}
  BY DEF SetJobState
<1>8. state'[j] \in {"FOREGROUND", "BACKGROUND", "STOPPED", "DONE"}
  BY <1>5, <1>6, <1>7
<1>9. TypeOK'
  <2>1. state' \in [Jobs -> {"FREE", "NULL", "FOREGROUND", "BACKGROUND", "STOPPED", "DONE"}]
    <3>1. (IF completed THEN "DONE" ELSE SetJobState(j, event[p]))
            \in {"FREE", "NULL", "FOREGROUND", "BACKGROUND", "STOPPED", "DONE"}
      BY <1>5, <1>8
    <3> QED BY <1>1, <3>1 DEF JobInv, TypeOK
  <2> QED BY <1>1, <1>2, <1>3, <2>1 DEF JobInv, TypeOK
<1>10. ProcessesAgree'
  <2> SUFFICES ASSUME NEW q \in Procs
               PROVE  /\ event'[q] = "EXITED" <=> kern'[q] = "dead"
                      /\ event'[q] = "STOPPED" => kern'[q] = "stopped"
                      /\ event'[q] = "CONTINUED" => kern'[q] = "running"
                      /\ q[2] > procs[q[1]] =>
                           kern'[q] = "none" /\ info'[q] = "NONE" /\ ~is_running'[q]
                      /\ q[2] <= procs[q[1]] => (kern'[q] = "none" <=> info'[q] = "EXITED")
    BY <1>1 DEF ProcessesAgree
  <2>1. CASE q = p
    <3>1. ~ (p[2] > procs[p[1]])
      <4>1. procs[j] \in Nat /\ p[2] \in Nat
        BY ProcIs, JobAssumption DEF JobInv, TypeOK, JobAssumption
      <4>2. ~ (p[2] > procs[j])
        BY <1>2, <4>1
      <4> QED BY <4>2
    <3>2. event[p] = "EXITED" <=> kern[p] = "dead"
      BY DEF JobInv, ProcessesAgree
    <3> QED BY <1>2, <1>3, <2>1, <3>1, <3>2
  <2>2. CASE q # p
    BY <1>2, <1>3, <2>2 DEF JobInv, ProcessesAgree
  <2> QED BY <2>1, <2>2
<1>11. JobsAgree'
  BY <1>1, <1>2, <1>5, <1>8 DEF JobInv, JobsAgree
<1>12. state[j] # "DONE"
  BY <1>2 DEF JobInv, DoneIsDone, HasCompleted
<1>13. DoneIsDone'
  <2> SUFFICES ASSUME NEW k \in Jobs, state'[k] = "DONE"
               PROVE  HasCompleted(k, info, is_running)'
    BY DEF DoneIsDone
  <2>1. \A l \in Jobs : ProcsOf(l)' = ProcsOf(l)
    BY <1>1 DEF ProcsOf
  <2>2. CASE k = j
    <3>1. completed
      BY <1>5, <1>7, <1>12, <2>2
    <3> QED BY <1>4, <2>1, <2>2, <3>1 DEF HasCompleted
  <2>3. CASE k # j
    <3>1. state[k] = "DONE"
      BY <1>5, <2>3
    <3>2. HasCompleted(k, info, is_running)
      BY <3>1 DEF JobInv, DoneIsDone
    <3>3. \A q \in ProcsOf(k) : q \in Procs /\ q # p
      BY <2>3, ProcsOfIs DEF JobInv
    <3> QED BY <1>3, <2>1, <3>2, <3>3 DEF HasCompleted
  <2> QED BY <2>2, <2>3
<1>14. SinglesAgree'
  <2> SUFFICES ASSUME NEW k \in Jobs, Alone(k)', state'[k] \notin {"FREE", "DONE"},
                      event'[<<k, 1>>] = "NONE"
               PROVE  /\ kern'[<<k, 1>>] # "none"
                      /\ state'[k] = "STOPPED" <=> kern'[<<k, 1>>] = "stopped"
    BY DEF SinglesAgree
  <2>1. Alone(k) /\ procs[k] = 1
    BY <1>1 DEF Alone
  <2>2. <<k, 1>> \in Procs
    BY JobAssumption DEF Procs, JobAssumption
  <2>3. CASE k = j
    <3>1. p = <<k, 1>>
      <4>1. p[2] = 1
        BY <1>2, <2>1, <2>3, ProcIs, JobAssumption DEF JobAssumption
      <4> QED BY <2>3, <4>1, ProcIs
    <3>2. \A q \in ProcsOf(j) : q = p
      BY <2>1, <2>3, <3>1 DEF ProcsOf
    <3>3. ~completed
      BY <1>5, <2>3
    <3>4. event[p] # "EXITED"
      BY <1>3, <1>4, <3>2, <3>3 DEF HasCompleted
    <3>5. \/ event[p] = "STOPPED" /\ kern[p] = "stopped"
          \/ event[p] = "CONTINUED" /\ kern[p] = "running"
      BY <1>2, <3>4 DEF JobInv, ProcessesAgree, Changes
    <3> QED BY <1>2, <1>5, <1>7, <2>3, <3>1, <3>3, <3>5
  <2>4. CASE k # j
    <3>1. <<k, 1>> # p
      BY <2>4
    <3> QED BY <1>2, <1>5, <2>1, <2>2, <2>4, <3>1 DEF JobInv, SinglesAgree
  <2> QED BY <2>3, <2>4
<1>15. SlotsAgree'
  <2>1. ASSUME id[j] > 0
        PROVE  state'[j] \in {"BACKGROUND", "STOPPED"}
    <3>1. id[j] \in 1..MaxJobs /\ table[id[j]] = j /\ j # NoJob
      BY <2>1, JobAssumption DEF JobInv, TypeOK, SlotsAgree, JobAssumption
    <3>2. state[j] \in {"BACKGROUND", "STOPPED"}
      BY <1>1, <3>1 DEF JobInv, SlotsAgree
    <3> QED BY <1>5, <1>7, <2>1, <3>2
  <2>2. ASSUME NEW i \in 1..MaxJobs, table[i] # NoJob
        PROVE  /\ i <= highest /\ id[table[i]] = i
               /\ state'[table[i]] \in {"BACKGROUND", "STOPPED"}
    <3>1. table[i] \in Jobs
      BY <2>2, JobAssumption DEF JobInv, TypeOK, JobAssumption
    <3>2. /\ id[table[i]] = i /\ i > 0 /\ i <= highest
          /\ state[table[i]] \in {"BACKGROUND", "STOPPED"}
      BY <1>1, <2>2, JobAssumption DEF JobInv, SlotsAgree, JobAssumption
    <3> QED BY <1>5, <2>1, <3>1, <3>2
  <2> QED BY <1>1, <2>2 DEF JobInv, SlotsAgree
<1>16. CountsAgree'
  BY <1>1 DEF JobInv, CountsAgree, Listed
<1>17. ForegroundAgrees'
  BY <1>1, <1>5, <1>6, <1>8 DEF JobInv, ForegroundAgrees, Waiting, Launching, Room
<1>18. LaunchAgrees' /\ WaitAgrees' /\ CleanupAgrees'
  BY <1>1 DEF LaunchAgrees, WaitAgrees, CleanupAgrees
<1> QED BY <1>9, <1>10, <1>11, <1>13, <1>14, <1>15, <1>16, <1>17, <1>18 DEF JobInv

LEMMA ReapKeeps ==
  ASSUME JobInv, JobAssumption, NEW p \in Procs, ReapChild(p)
  PROVE  JobInv'
<1> DEFINE j == p[1]
           completed == HasCompleted(j, [info EXCEPT ![p] = event[p]],
                                        [is_running EXCEPT ![p] = FALSE])
<1>1. j \in Jobs
  BY ProcIs
<1>2. completed \in BOOLEAN
  BY DEF HasCompleted
<1>3. CASE completed /\ id[j] > 0
  BY <1>1, <1>3, ReapFreeKeeps
<1>4. CASE ~ (completed /\ id[j] > 0)
  <2> HIDE DEF completed
  <2>1. completed <=> HasCompleted(j, [info EXCEPT ![p] = event[p]],
                                      [is_running EXCEPT ![p] = FALSE])
    BY DEF completed
  <2> QED BY <1>1, <1>2, <1>4, <2>1, ReapMarkKeeps
<1> QED BY <1>3, <1>4

-----------------------------------------------------------------------------
(* The clean-up at the end of the input.                                   *)

LEMMA KillKeeps ==
  ASSUME JobInv, JobAssumption, KillJob
  PROVE  JobInv'
<1>1. /\ pc = "cleanup"
      /\ UNCHANGED <<table, num_jobs, highest, stale, state, id, procs, planned, info,
                     is_running, pending, ret, job>>
  BY DEF KillJob, jobtable, jobs, processes
<1>2. /\ highest \in Nat /\ slot \in Nat /\ MaxJobs \in Nat /\ highest < MaxJobs
      /\ slot <= highest + 1 /\ \A i \in 1..MaxJobs : i < slot => table[i] = NoJob
      /\ table \in [0..MaxJobs -> Jobs \cup {NoJob}]
  BY <1>1, JobAssumption DEF JobInv, TypeOK, SlotsAgree, CleanupAgrees, JobAssumption
<1>5. pc' \in {"cleanup", "collect", "exited"} /\ Leaving'
  BY <1>1 DEF KillJob, Leaving
<1>3. JobsAgree' /\ SlotsAgree'
  BY <1>1, <1>5 DEF JobInv, JobsAgree, SlotsAgree
<1>4. DoneIsDone'
  BY <1>1, DoneKeeps DEF JobInv
<1>6. CountsAgree' /\ LaunchAgrees' /\ WaitAgrees'
  BY <1>5 DEF CountsAgree, LaunchAgrees, WaitAgrees
<1>7. ForegroundAgrees'
  BY <1>1, <1>5 DEF JobInv, ForegroundAgrees, Waiting, Launching
<1>8. CASE slot > highest
  <2>1. pc' = "exited" /\ UNCHANGED <<kern, event, sigchld, slot>>
    BY <1>8 DEF KillJob, LastSlot, children
  <2>2. TypeOK' /\ ProcessesAgree' /\ SinglesAgree'
    BY <1>1, <2>1 DEF JobInv, TypeOK, ProcessesAgree, SinglesAgree, Alone
  <2>3. CleanupAgrees'
    <3>1. \A i \in 1..MaxJobs : table[i] # NoJob => i <= highest
      BY DEF JobInv, SlotsAgree
    <3>2. \A i \in 1..MaxJobs : table[i] = NoJob
      BY <1>2, <1>8, <3>1
    <3> QED BY <1>1, <2>1, <3>2 DEF CleanupAgrees
  <2> QED BY <1>3, <1>4, <1>6, <1>7, <2>2, <2>3 DEF JobInv
<1>9. CASE slot <= highest /\ table[slot] = NoJob
  <2>1. pc' = "cleanup" /\ slot' = slot + 1 /\ UNCHANGED <<kern, event, sigchld>>
    BY <1>1, <1>2, <1>9 DEF KillJob, LastSlot, children
  <2>2. ProcessesAgree' /\ SinglesAgree'
    BY <1>1, <2>1 DEF JobInv, ProcessesAgree, SinglesAgree, Alone
  <2>3. TypeOK'
    <3>1. slot' \in 0..MaxJobs + 1
      BY <1>2, <1>9, <2>1
    <3> QED BY <1>1, <2>1, <3>1 DEF JobInv, TypeOK
  <2>4. CleanupAgrees'
    <3>1. slot' <= highest + 1
      BY <1>2, <1>9, <2>1
    <3>2. \A i \in 1..MaxJobs : i < slot' => table[i] = NoJob
      BY <1>2, <1>9, <2>1
    <3> QED BY <1>1, <2>1, <3>1, <3>2 DEF CleanupAgrees
  <2> QED BY <1>3, <1>4, <1>6, <1>7, <2>2, <2>3, <2>4 DEF JobInv
<1>10. CASE slot <= highest /\ table[slot] # NoJob
  <2> DEFINE j == table[slot]
  <2>1. ContinueAll(j) /\ pc' = "collect" /\ slot' = slot
    BY <1>2, <1>10 DEF KillJob, LastSlot
  <2>2. j \in Jobs
    BY <1>2, <1>10
  <2> HIDE DEF j
  <2>3. /\ kern' \in [Procs -> {"none", "running", "stopped", "dead"}]
        /\ event' \in [Procs -> Changes \cup {"NONE"}]
        /\ sigchld' \in BOOLEAN
        /\ ChangesOf(kern, event, kern', event')
    BY <2>1, <2>2, ContinueAllIs, JobAssumption DEF JobInv
  <2>4. TypeOK'
    BY <1>1, <2>1, <2>3 DEF JobInv, TypeOK
  <2>5. ProcessesAgree'
    BY <1>1, <2>3, ProcessesKeep DEF JobInv
  <2>6. SinglesAgree'
    BY <1>1, <2>3, SinglesKeep, JobAssumption DEF JobInv
  <2>7. CleanupAgrees'
    BY <1>1, <1>2, <1>10, <2>1 DEF CleanupAgrees
  <2> QED BY <1>3, <1>4, <1>6, <1>7, <2>4, <2>5, <2>6, <2>7 DEF JobInv
<1> QED BY <1>2, <1>8, <1>9, <1>10

LEMMA CollectKeeps ==
  ASSUME JobInv, JobAssumption, CollectJob
  PROVE  JobInv'
<1> DEFINE j == table[slot]
<1>1. /\ pc = "collect"
      /\ kern' = [q \in Procs |-> IF q[1] = j THEN "none" ELSE kern[q]]
      /\ event' = [q \in Procs |-> IF q[1] = j THEN "NONE" ELSE event[q]]
      /\ FreeJob(j)
      /\ table' = [table EXCEPT ![slot] = NoJob]
      /\ slot' = slot + 1
      /\ pc' = "cleanup" /\ Leaving'
      /\ UNCHANGED <<num_jobs, highest, stale, sigchld, pending, ret, job>>
  BY DEF CollectJob, WaitForAll, Leaving
<1>2. /\ table[0] # NoJob => stale
      /\ job = NoJob /\ slot <= highest /\ j # NoJob
      /\ \A i \in 1..MaxJobs : i < slot => table[i] = NoJob
  BY <1>1 DEF JobInv, ForegroundAgrees, CleanupAgrees, Waiting, Launching
<1>3. /\ table \in [0..MaxJobs -> Jobs \cup {NoJob}] /\ MaxJobs \in Nat /\ 0 \in 0..MaxJobs
      /\ NoJob \notin Jobs /\ id \in [Jobs -> 0..MaxJobs] /\ highest \in Nat /\ slot \in Nat
      /\ highest < MaxJobs
  BY JobAssumption DEF JobInv, TypeOK, JobAssumption, SlotsAgree
<1>4. slot = 0 => stale
  BY <1>2
<1>5. slot \in 0..MaxJobs /\ (slot # 0 => slot \in 1..MaxJobs)
  BY <1>2, <1>3
<1>6. j \in Jobs /\ (slot # 0 => id[j] = slot \/ stale)
  BY <1>2, <1>3, <1>5 DEF JobInv, SlotsAgree
<1> HIDE DEF j
<1>7. /\ state' \in [Jobs -> {"FREE", "NULL", "FOREGROUND", "BACKGROUND", "STOPPED", "DONE"}]
      /\ id' \in [Jobs -> 0..MaxJobs]
      /\ procs' \in [Jobs -> 0..MaxProcs]
      /\ planned' \in [Jobs -> Nat]
      /\ info' \in [Procs -> Changes \cup {"NONE"}]
      /\ is_running' \in [Procs -> BOOLEAN]
      /\ state'[j] = "FREE" /\ id'[j] = 0 /\ procs'[j] = 0 /\ planned'[j] = 0
      /\ \A k \in Jobs \ {j} : /\ state'[k] = state[k] /\ id'[k] = id[k]
                               /\ procs'[k] = procs[k] /\ planned'[k] = planned[k]
      /\ ProcessesAgree' /\ DoneIsDone' /\ SinglesAgree'
  <2>1. \A q \in Procs : /\ q[1] # j => kern'[q] = kern[q] /\ event'[q] = event[q]
                         /\ q[1] = j => kern'[q] = "none" /\ event'[q] = "NONE"
    BY <1>1
  <2> QED BY <1>1, <1>6, <2>1, FreeKeeps, JobAssumption DEF JobInv
<1>8. /\ table' \in [0..MaxJobs -> Jobs \cup {NoJob}] /\ table'[0] \in {NoJob, table[0]}
      /\ \A i \in 1..MaxJobs : table'[i] = IF i = slot THEN NoJob ELSE table[i]
  <2>1. \A i \in 1..MaxJobs : i \in 0..MaxJobs
    BY <1>3
  <2> QED BY <1>1, <1>3, <1>5, <2>1
<1>9. TypeOK'
  <2>1. /\ kern' \in [Procs -> {"none", "running", "stopped", "dead"}]
        /\ event' \in [Procs -> Changes \cup {"NONE"}]
    BY <1>1 DEF JobInv, TypeOK, Changes
  <2>2. slot' \in 0..MaxJobs + 1
    BY <1>1, <1>2, <1>3
  <2> QED BY <1>1, <1>7, <1>8, <2>1, <2>2 DEF JobInv, TypeOK
<1>10. JobsAgree'
  <2> SUFFICES ASSUME NEW k \in Jobs
               PROVE  /\ state'[k] # "NULL"
                      /\ state'[k] = "FREE" => id'[k] = 0 /\ procs'[k] = 0
                      /\ state'[k] # "FREE" => id'[k] > 0 \/ k = job'
                      /\ procs'[k] <= planned'[k]
    BY DEF JobsAgree
  <2>1. CASE k = j
    BY <1>7, <2>1
  <2>2. CASE k # j
    BY <1>1, <1>7, <2>2 DEF JobInv, JobsAgree
  <2> QED BY <2>1, <2>2
<1>11. SlotsAgree'
  <2>1. ASSUME NEW i \in 1..MaxJobs, table'[i] # NoJob
        PROVE  /\ i <= highest'
               /\ \/ /\ id'[table'[i]] = i
                     /\ state'[table'[i]] \in {"BACKGROUND", "STOPPED"}
                  \/ stale /\ state'[table'[i]] = "FREE"
    <3>1. i # slot /\ table[i] \in Jobs /\ table'[i] = table[i]
      BY <1>3, <1>8, <2>1
    <3>2. /\ i <= highest
          /\ \/ id[table[i]] = i /\ state[table[i]] \in {"BACKGROUND", "STOPPED"}
             \/ stale /\ state[table[i]] = "FREE"
      BY <2>1, <3>1 DEF JobInv, SlotsAgree
    <3>3. CASE table[i] = j
      BY <1>1, <1>4, <1>6, <1>7, <3>1, <3>2, <3>3
    <3>4. CASE table[i] # j
      BY <1>1, <1>7, <3>1, <3>2, <3>4
    <3> QED BY <3>3, <3>4
  <2>2. ASSUME NEW k \in Jobs, id'[k] > 0
        PROVE  table'[id'[k]] = k
    <3>1. k # j /\ id'[k] = id[k]
      BY <1>7, <2>2
    <3>2. id[k] \in 1..MaxJobs /\ table[id[k]] = k
      BY <1>3, <2>2, <3>1 DEF JobInv, SlotsAgree
    <3>3. id[k] # slot
      BY <3>1, <3>2 DEF j
    <3> QED BY <1>8, <3>1, <3>2, <3>3
  <2> QED BY <1>1, <1>3, <2>1, <2>2 DEF SlotsAgree
<1>12. CountsAgree' /\ LaunchAgrees' /\ WaitAgrees'
  BY <1>1 DEF CountsAgree, LaunchAgrees, WaitAgrees
<1>13. ForegroundAgrees'
  BY <1>1, <1>2, <1>8 DEF ForegroundAgrees, Waiting, Launching
<1>14. CleanupAgrees'
  <2>1. slot' <= highest' + 1
    BY <1>1, <1>2, <1>3
  <2>2. \A i \in 1..MaxJobs : i < slot' => table'[i] = NoJob
    BY <1>1, <1>2, <1>3, <1>8
  <2> QED BY <1>1, <2>1, <2>2 DEF CleanupAgrees
<1> QED BY <1>7, <1>9, <1>10, <1>11, <1>12, <1>13, <1>14 DEF JobInv

-----------------------------------------------------------------------------
(* The theorems about the job table.                                       *)

LEMMA JobInitHolds ==
  ASSUME JobAssumption, Init
  PROVE  JobInv
<1> USE DEF Init
<1>1. MaxProcs \in Nat \ {0} /\ MaxJobs \in Nat \ {0} /\ NoJob \notin Jobs
  BY DEF JobAssumption
<1>2. TypeOK
  <2>1. 0 \in 0..MaxJobs /\ 0 \in 0..MaxProcs /\ 0 \in 0..MaxJobs + 1
    BY <1>1
  <2>2. /\ table \in [0..MaxJobs -> Jobs \cup {NoJob}]
        /\ id \in [Jobs -> 0..MaxJobs]
        /\ procs \in [Jobs -> 0..MaxProcs]
        /\ planned \in [Jobs -> Nat]
    BY <2>1
  <2>3. num_jobs \in 0..MaxJobs /\ highest \in 0..MaxJobs /\ slot \in 0..MaxJobs + 1
    BY <2>1
  <2> QED BY <2>2, <2>3 DEF TypeOK, Changes
<1>3. ProcessesAgree
  BY ProcIs, JobAssumption DEF ProcessesAgree
<1>4. JobsAgree /\ DoneIsDone /\ SinglesAgree
  BY <1>1 DEF JobsAgree, DoneIsDone, SinglesAgree
<1>5. SlotsAgree
  BY <1>1 DEF SlotsAgree
<1>6. Listed = {} /\ Cardinality(Listed) = 0
  <2>1. \A i \in 1..MaxJobs : table[i] = NoJob
    BY <1>1
  <2> QED BY <2>1, FS_EmptySet DEF Listed
<1>7. CountsAgree
  BY <1>6 DEF CountsAgree
<1>8. ForegroundAgrees /\ LaunchAgrees /\ WaitAgrees /\ CleanupAgrees
  BY <1>1 DEF ForegroundAgrees, Waiting, Launching, LaunchAgrees, WaitAgrees, CleanupAgrees
<1> QED BY <1>2, <1>3, <1>4, <1>5, <1>7, <1>8 DEF JobInv

LEMMA ShellKeeps ==
  ASSUME JobInv, JobAssumption, Shell
  PROVE  JobInv'
<1>1. CASE CheckPending \/ ResetPending \/ ReapNothing \/ ReapAgain \/ TestJob \/ Suspend
  BY <1>1, PlaceStep
<1>2. CASE \E p \in Procs : ReapChild(p)
  BY <1>2, ReapKeeps
<1>3. CASE Fork
  BY <1>3, ForkKeeps
<1>4. CASE HandleJob
  BY <1>4, HandleKeeps
<1>5. CASE FinishJob
  BY <1>5, FinishKeeps
<1>6. CASE KillJob
  BY <1>6, KillKeeps
<1>7. CASE CollectJob
  BY <1>7, CollectKeeps
<1>8. CASE AbortJob
  BY <1>8, AbortKeeps
<1> QED BY <1>1, <1>2, <1>3, <1>4, <1>5, <1>6, <1>7, <1>8 DEF Shell

LEMMA UserKeeps ==
  ASSUME JobInv, JobAssumption, User
  PROVE  JobInv'
<1>1. CASE ReadLine \/ Interrupted \/ BgCrashes \/ NothingRuns
  BY <1>1, PlaceStep
<1>5. CASE OtherBuiltin
  BY <1>5, BuiltinKeeps
<1>2. CASE EndOfInput \/ ExitBuiltin
  BY <1>2, LeaveStep
<1>3. CASE \E j \in Jobs : \E n \in Lengths[j], b \in BOOLEAN : RunPipeline(j, n, b)
  BY <1>3, RunKeeps
<1>4. CASE \E i \in 1..highest : Fg(i) \/ Bg(i)
  BY <1>4, FgKeeps, BgKeeps
<1> QED BY <1>1, <1>2, <1>3, <1>4, <1>5 DEF User

LEMMA JobInvHolds == Spec => []JobInv
<1>1. JobInv /\ [Next]_vars => JobInv'
  <2> SUFFICES ASSUME JobInv, [Next]_vars
               PROVE  JobInv'
    OBVIOUS
  <2>1. CASE Shell
    BY <2>1, ShellKeeps, JobAssumption
  <2>2. CASE User
    BY <2>2, UserKeeps, JobAssumption
  <2>6. CASE Failure
    BY <2>6, PlaceStep, CrashStep, JobAssumption DEF Failure
  <2>3. CASE Child
    BY <2>3, ChildKeeps, JobAssumption
  <2>4. CASE Deliver
    BY <2>4, SignalStep
  <2>5. CASE UNCHANGED vars
    <3>1. UNCHANGED <<jobtable, jobs, processes, children, pending, control>>
      BY <2>5 DEF vars
    <3>2. UNCHANGED <<kern, event, sigchld, job, pc, ret, slot>>
      BY <3>1 DEF children, control
    <3>3. TypeOK'
      BY <3>1, <3>2 DEF JobInv, TypeOK, jobtable, jobs, processes
    <3>4. Stable' /\ Placed'
      BY <3>1, <3>2, StableKeeps, PlacedKeeps, JobInvParts DEF Leaving
    <3> QED BY <3>3, <3>4 DEF JobInv, Stable, Placed
  <2> QED BY <2>1, <2>2, <2>3, <2>4, <2>5, <2>6 DEF Next, Ended
<1>2. Init => JobInv
  BY JobInitHolds, JobAssumption
<1> QED BY <1>1, <1>2, PTL DEF Spec

(***************************************************************************)
(* Every child is found in the table by its pid, or its job is the one     *)
(* that is being launched.                                                 *)
(***************************************************************************)
LEMMA LiveIsFound ==
  ASSUME JobInv, JobAssumption, NEW p \in Procs, Live(p)
  PROVE  /\ state[p[1]] # "FREE"
         /\ FindJobByPid(p) # {} \/ (job = p[1] /\ Launching)
<1> DEFINE j == p[1]
<1>1. j \in Jobs /\ p[2] \in 1..MaxProcs /\ procs[j] \in Nat /\ id[j] \in 0..MaxJobs
  BY ProcIs, JobAssumption DEF JobInv, TypeOK, JobAssumption
<1>2. ~ (p[2] > procs[j])
  BY DEF Live, JobInv, ProcessesAgree
<1>3. procs[j] # 0
  BY <1>1, <1>2, JobAssumption DEF JobAssumption
<1>4. state[j] # "FREE"
  BY <1>1, <1>3 DEF JobInv, JobsAgree
<1>5. highest < MaxJobs /\ highest \in Nat /\ MaxJobs \in Nat /\ MaxJobs # 0
  BY JobAssumption DEF JobInv, TypeOK, SlotsAgree, JobAssumption
<1>6. CASE id[j] > 0
  <2>1. table[id[j]] = j /\ id[j] \in 1..MaxJobs /\ j # NoJob
    BY <1>1, <1>5, <1>6, JobAssumption DEF JobInv, SlotsAgree, JobAssumption
  <2>2. id[j] <= highest
    BY <2>1 DEF JobInv, SlotsAgree
  <2>3. id[j] \in 0..MaxJobs - 1
    BY <1>5, <2>1, <2>2
  <2> QED BY <1>4, <2>1, <2>3 DEF FindJobByPid
<1>7. CASE ~ (id[j] > 0)
  <2>1. job = j /\ job # NoJob
    BY <1>1, <1>4, <1>7, JobAssumption DEF JobInv, JobsAgree, JobAssumption
  <2>2. CASE Launching
    BY <1>4, <2>1, <2>2
  <2>3. CASE ~Launching
    <3>1. table[0] = j
      BY <2>1, <2>3 DEF JobInv, ForegroundAgrees, Waiting
    <3>2. 0 \in 0..MaxJobs - 1
      BY <1>5
    <3> QED BY <1>4, <3>1, <3>2 DEF FindJobByPid
  <2> QED BY <2>2, <2>3
<1> QED BY <1>6, <1>7

LEMMA JobInvIsSound ==
  ASSUME JobInv, JobAssumption
  PROVE  JobsAreSound
<1>1. \A i \in 0..MaxJobs : i = 0 \/ i \in 1..MaxJobs
  BY JobAssumption DEF JobAssumption
<1>2. \A i \in 0..MaxJobs : table[i] # NoJob => table[i] \in Jobs
  BY DEF JobInv, TypeOK
<1>3. TableAgrees
  <2> SUFFICES ASSUME ~Leaving
               PROVE  /\ num_jobs = Cardinality(Listed)
                      /\ \A i \in Listed : i <= highest
                      /\ highest > 0 => highest \in Listed
                      /\ \A i \in Listed : /\ id[table[i]] = i
                                           /\ state[table[i]] \in {"BACKGROUND", "STOPPED"}
    BY DEF TableAgrees
  <2>1. num_jobs = Cardinality(Listed) /\ (highest > 0 => table[highest] # NoJob)
    BY DEF JobInv, CountsAgree
  <2>2. \A i \in Listed : /\ i <= highest /\ id[table[i]] = i
                          /\ state[table[i]] \in {"BACKGROUND", "STOPPED"}
    BY DEF JobInv, SlotsAgree, Listed
  <2>3. highest > 0 => highest \in 1..MaxJobs
    BY JobAssumption DEF JobInv, TypeOK, JobAssumption
  <2> QED BY <2>1, <2>2, <2>3 DEF Listed
<1>4. FreedJobsAreGone
  <2>1. table[0] # NoJob /\ ~stale => table[0] = job
    BY DEF JobInv, ForegroundAgrees, Waiting, Launching
  <2>2. ASSUME NEW i \in 0..MaxJobs, ReadsFreed(i)
        PROVE  stale /\ (i = 0 \/ Leaving)
    <3>1. CASE i = 0
      BY <2>2, <3>1 DEF ReadsFreed, JobInv, ForegroundAgrees, Waiting, Launching
    <3>2. CASE i \in 1..MaxJobs
      BY <2>2, <3>2 DEF ReadsFreed, JobInv, SlotsAgree
    <3> QED BY <1>1, <3>1, <3>2
  <2> QED BY <2>1, <2>2 DEF FreedJobsAreGone
<1>7. ChildrenHaveJobs
  BY LiveIsFound DEF ChildrenHaveJobs
<1>5. SingleJobsAreAccurate
  <2> SUFFICES ASSUME NEW i \in 0..MaxJobs, table[i] # NoJob, Alone(table[i]),
                      event[<<table[i], 1>>] = "NONE", i > 0 \/ pc = "suspend", ~Leaving
               PROVE  /\ kern[<<table[i], 1>>] # "none"
                      /\ state[table[i]] = "STOPPED" <=> kern[<<table[i], 1>>] = "stopped"
    BY DEF SingleJobsAreAccurate
  <2>1. table[i] \in Jobs
    BY <1>2
  <2>2. state[table[i]] \notin {"FREE", "DONE"}
    <3>1. CASE i = 0
      <4>1. pc = "suspend" /\ table[0] = job /\ state[job] # "FREE" /\ job \in Jobs
        BY <3>1 DEF JobInv, ForegroundAgrees, Waiting
      <4>2. ~HasCompleted(job, info, is_running)
        BY <4>1 DEF JobInv, WaitAgrees, WaitOver
      <4> QED BY <3>1, <4>1, <4>2 DEF JobInv, DoneIsDone
    <3>2. CASE i \in 1..MaxJobs
      BY <3>2 DEF JobInv, SlotsAgree
    <3> QED BY <1>1, <3>1, <3>2
  <2> QED BY <2>1, <2>2 DEF JobInv, SinglesAgree
<1>6. WaitsForTheLiving
  <2> SUFFICES ASSUME pc = "suspend", \A p \in ProcsOf(job) : ~Live(p),
                      \A p \in ProcsOf(job) : ~is_running[p]
               PROVE  FALSE
    BY DEF WaitsForTheLiving, Revived
  <2>1. job \in Jobs /\ ~HasCompleted(job, info, is_running)
    BY DEF JobInv, ForegroundAgrees, Waiting, WaitAgrees, WaitOver
  <2>2. ASSUME NEW p \in ProcsOf(job)
        PROVE  info[p] = "EXITED"
    <3>1. p \in Procs /\ p[1] = job /\ p[2] <= procs[p[1]]
      BY <2>1, ProcsOfIs DEF JobInv
    <3> QED BY <3>1 DEF JobInv, ProcessesAgree, Live
  <2> QED BY <2>1, <2>2 DEF HasCompleted
<1> QED BY <1>3, <1>4, <1>5, <1>6, <1>7 DEF JobInv, JobsAreSound

(***************************************************************************)
(* num_jobs and highest_job_id describe the table, whose jobs know their   *)
(* slots; slot 0 outlives its job only after a pipe() that failed, and no  *)
(* other job of the table has been freed; every child has a job that       *)
(* find_job_by_pid finds; a job of one command is listed with the state of *)
(* its process; and the shell sleeps only for a job that has a process     *)
(* left or one that was marked again.                                      *)
(***************************************************************************)
THEOREM TheJobTableIsSound == Spec => []JobsAreSound
<1>1. JobInv => JobsAreSound
  BY JobInvIsSound, JobAssumption
<1> QED BY JobInvHolds, <1>1, PTL

(***************************************************************************)
(* A shell that has ended, by exit or at the end of its input, has left no *)
(* child behind.                                                           *)
(***************************************************************************)
THEOREM TheShellLeavesNoChild == Spec => []NoChildIsLeft
<1>1. JobInv => NoChildIsLeft
  <2> SUFFICES ASSUME JobInv, pc = "exited", NEW p \in Procs, Live(p)
               PROVE  FALSE
    BY DEF NoChildIsLeft
  <2>1. p[1] \in Jobs /\ p[1] # NoJob
    BY ProcIs, JobAssumption DEF JobAssumption
  <2>2. state[p[1]] # "FREE"
    BY LiveIsFound, JobAssumption
  <2>3. job = NoJob
    BY DEF JobInv, ForegroundAgrees, Waiting, Launching
  <2>4. id[p[1]] \in 1..MaxJobs
    BY <2>1, <2>2, <2>3, JobAssumption DEF JobInv, TypeOK, JobsAgree, JobAssumption
  <2>5. table[id[p[1]]] = p[1]
    BY <2>1, <2>4 DEF JobInv, SlotsAgree
  <2> QED BY <2>1, <2>4, <2>5 DEF JobInv, CleanupAgrees
<1> QED BY JobInvHolds, <1>1, PTL
=============================================================================
