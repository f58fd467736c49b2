----------------------------- MODULE JobControl -----------------------------
(***************************************************************************)
(* Job control in the PA2 shell (src/PA2/shell_src): the job table of      *)
(* jobs.c, the launch of a pipeline and the SIGCHLD handling of pa2.c, and *)
(* the builtins fg, bg and exit, together with the child processes, which  *)
(* stop, continue and end whenever they like.                              *)
(*                                                                         *)
(* A child has at most one wait status at a time: a later change of state  *)
(* replaces one that waitid has not collected.  SIGCHLD is one bit.        *)
(***************************************************************************)
EXTENDS Naturals, FiniteSets

CONSTANTS Jobs,      \* Job objects malloc hands out
          MaxProcs,  \* bound: processes of a pipeline
          Lengths,   \* bound: the numbers of commands a job is tried with
          MaxJobs,   \* MAX_JOBS
          NoJob

Procs == Jobs \X (1..MaxProcs)

ASSUME JobAssumption ==
  /\ MaxProcs \in Nat \ {0}
  /\ MaxJobs \in Nat \ {0}
  /\ Lengths \in [Jobs -> SUBSET (Nat \ {0})]
  /\ NoJob \notin Jobs

VARIABLES
  table,      \* jobs->table, the foreground job in slot 0
  num_jobs,   \* jobs->num_jobs
  highest,    \* jobs->highest_job_id
  stale,      \* (history) has slot 0 been left to a pipeline that was given up?
  state,      \* job->state, "FREE" for memory that holds no job
  id,         \* job->id
  procs,      \* the number of processes of a job that have been forked
  planned,    \* the number of commands of its pipeline
  info,       \* process->info.si_code
  is_running, \* process->is_running
  kern,       \* what a child process is doing
  event,      \* the wait status waitid would collect
  sigchld,    \* is SIGCHLD pending in the kernel?
  pending,    \* pending_sigchld
  pc,         \* where the shell is
  ret,        \* where handle_pending_sigchld returns to
  job,        \* the job it launches or waits for
  slot        \* the loop index of the clean-up

jobtable == <<table, num_jobs, highest, stale>>
jobs == <<state, id, procs, planned>>
processes == <<info, is_running>>
children == <<kern, event, sigchld>>
control == <<pc, ret, job, slot>>
vars == <<jobtable, jobs, processes, children, pending, control>>

Changes == {"EXITED", "STOPPED", "CONTINUED"}

TypeOK ==
  /\ table \in [0..MaxJobs -> Jobs \cup {NoJob}]
  /\ num_jobs \in 0..MaxJobs
  /\ highest \in 0..MaxJobs
  /\ stale \in BOOLEAN
  /\ state \in [Jobs -> {"FREE", "NULL", "FOREGROUND", "BACKGROUND", "STOPPED", "DONE"}]
  /\ id \in [Jobs -> 0..MaxJobs]
  /\ procs \in [Jobs -> 0..MaxProcs]
  /\ planned \in [Jobs -> Nat]
  /\ info \in [Procs -> Changes \cup {"NONE"}]
  /\ is_running \in [Procs -> BOOLEAN]
  /\ kern \in [Procs -> {"none", "running", "stopped", "dead"}]
  /\ event \in [Procs -> Changes \cup {"NONE"}]
  /\ sigchld \in BOOLEAN
  /\ pending \in BOOLEAN
  /\ pc \in {"top", "readline", "line", "evaluate", "fork", "handle", "reset",
             "reap", "again", "wait", "test", "suspend", "finish", "abort",
             "cleanup", "collect", "exited", "failed", "crashed"}
  /\ ret \in {"readline", "evaluate", "test"}
  /\ job \in Jobs \cup {NoJob}
  /\ slot \in 0..MaxJobs + 1

Init ==
  /\ table = [i \in 0..MaxJobs |-> NoJob]
  /\ num_jobs = 0
  /\ highest = 0
  /\ stale = FALSE
  /\ state = [j \in Jobs |-> "FREE"]
  /\ id = [j \in Jobs |-> 0]
  /\ procs = [j \in Jobs |-> 0]
  /\ planned = [j \in Jobs |-> 0]
  /\ info = [p \in Procs |-> "NONE"]
  /\ is_running = [p \in Procs |-> FALSE]
  /\ kern = [p \in Procs |-> "none"]
  /\ event = [p \in Procs |-> "NONE"]
  /\ sigchld = FALSE
  /\ pending = FALSE
  /\ pc = "top"
  /\ ret = "readline"
  /\ job = NoJob
  /\ slot = 0

Live(p) == kern[p] # "none"
ProcsOf(j) == {j} \X (1..procs[j])

-----------------------------------------------------------------------------
(* Child processes and signals.                                            *)

Change(p, k, e) ==
  /\ kern' = [kern EXCEPT ![p] = k]
  /\ event' = [event EXCEPT ![p] = e]
  /\ sigchld' = TRUE
  /\ UNCHANGED <<jobtable, jobs, processes, pending, control>>

Exit(p) == kern[p] \in {"running", "stopped"} /\ Change(p, "dead", "EXITED")
Stop(p) == kern[p] = "running" /\ Change(p, "stopped", "STOPPED")
Continue(p) == kern[p] = "stopped" /\ Change(p, "running", "CONTINUED")

(***************************************************************************)
(* kill(-job->pgid, SIGCONT).                                              *)
(***************************************************************************)
ContinueAll(j) ==
  LET stopped == {p \in ProcsOf(j) : kern[p] = "stopped"} IN
  /\ kern' = [p \in Procs |-> IF p \in stopped THEN "running" ELSE kern[p]]
  /\ event' = [p \in Procs |-> IF p \in stopped THEN "CONTINUED" ELSE event[p]]
  /\ sigchld' = (sigchld \/ stopped # {})

(***************************************************************************)
(* wait_for_processes blocks SIGCHLD, except inside sigsuspend.            *)
(***************************************************************************)
NeverBlocked == FALSE
Blocked == \/ pc \in {"wait", "test", "suspend"}
           \/ pc \in {"reset", "reap", "again"} /\ ret = "test"

(***************************************************************************)
(* sigchld_handler.                                                        *)
(***************************************************************************)
Deliver ==
  /\ sigchld
  /\ ~Blocked
  /\ sigchld' = FALSE
  /\ pending' = TRUE
  /\ UNCHANGED <<jobtable, jobs, processes, kern, event, control>>

-----------------------------------------------------------------------------
(* The job table: jobs.c.                                                  *)

(***************************************************************************)
(* update_highest_job_id for a table t and states s, from slot h down.     *)
(***************************************************************************)
UpdateHighest(t, s, h) ==
  LET kept == {i \in 1..h : t[i] # NoJob /\ s[t[i]] \in {"BACKGROUND", "STOPPED"}}
  IN IF kept = {} THEN 0 ELSE CHOOSE i \in kept : \A k \in kept : k <= i

(***************************************************************************)
(* add_job_to_table, once the foreground slot is t0.                       *)
(***************************************************************************)
AddJobToTable(j, t0) ==
  /\ highest' = highest + 1
  /\ table' = [table EXCEPT ![0] = t0, ![highest + 1] = j]
  /\ id' = [id EXCEPT ![j] = highest + 1]
  /\ num_jobs' = num_jobs + 1
  /\ UNCHANGED stale

KeepCount(j) == num_jobs
CountWithout(j) == IF id[j] > 0 THEN num_jobs - 1 ELSE num_jobs

MarkRunning(j) ==
  is_running' = [p \in Procs |-> is_running[p] \/ p \in ProcsOf(j)]

(***************************************************************************)
(* set_foreground_job for a job of the table, or a new one.                *)
(***************************************************************************)
SetForegroundJob(j) ==
  LET left == [table EXCEPT ![id[j]] = NoJob] IN
  /\ table' = [left EXCEPT ![0] = j]
  /\ stale' = FALSE
  /\ num_jobs' = CountWithout(j)
  /\ highest' = IF id[j] > 0 THEN UpdateHighest(left, state, highest) ELSE highest
  /\ state' = [state EXCEPT ![j] = "FOREGROUND"]
  /\ id' = [id EXCEPT ![j] = 0]
  /\ MarkRunning(j)

(***************************************************************************)
(* remove_foreground_job, without what becomes of the job.                 *)
(***************************************************************************)
EmptyForegroundSlot ==
  /\ table' = [table EXCEPT ![0] = NoJob]
  /\ stale' = FALSE
  /\ UNCHANGED <<num_jobs, highest>>

(***************************************************************************)
(* has_completed, if the processes of j have the codes c and flags r.      *)
(***************************************************************************)
HasCompleted(j, c, r) == \A p \in ProcsOf(j) : ~r[p] /\ c[p] = "EXITED"

(***************************************************************************)
(* set_job_state after a change e of one of the processes of j.            *)
(***************************************************************************)
SetJobState(j, e) ==
  IF e = "STOPPED" THEN "STOPPED"
  ELSE IF e = "CONTINUED" /\ state[j] # "FOREGROUND" THEN "BACKGROUND"
  ELSE state[j]

(***************************************************************************)
(* find_job_by_pid: the slots it looks at, the last one not among them.    *)
(***************************************************************************)
FindJobByPid(p) == {i \in 0..MaxJobs - 1 : table[i] = p[1]}

(***************************************************************************)
(* free_job: the memory of j may be the next job.                          *)
(***************************************************************************)
FreeJob(j) ==
  /\ state' = [state EXCEPT ![j] = "FREE"]
  /\ id' = [id EXCEPT ![j] = 0]
  /\ procs' = [procs EXCEPT ![j] = 0]
  /\ planned' = [planned EXCEPT ![j] = 0]
  /\ info' = [p \in Procs |-> IF p[1] = j THEN "NONE" ELSE info[p]]
  /\ is_running' = [p \in Procs |-> p[1] # j /\ is_running[p]]

(***************************************************************************)
(* waitpid(-job->pgid) until there is no child of j left to wait for.      *)
(***************************************************************************)
WaitForAll(j) ==
  /\ \A p \in ProcsOf(j) : kern[p] \in {"none", "dead"}
  /\ kern' = [p \in Procs |-> IF p[1] = j THEN "none" ELSE kern[p]]
  /\ event' = [p \in Procs |-> IF p[1] = j THEN "NONE" ELSE event[p]]
  /\ UNCHANGED sigchld

-----------------------------------------------------------------------------
(* handle_pending_sigchld and the places that call it.                     *)

AfterCheck == IF pc = "top" THEN "readline" ELSE IF pc = "line" THEN "evaluate" ELSE "test"

CheckPending ==
  /\ pc \in {"top", "line", "wait"}
  /\ IF pending THEN pc' = "reset" /\ ret' = AfterCheck
                ELSE pc' = AfterCheck /\ UNCHANGED ret
  /\ UNCHANGED <<jobtable, jobs, processes, children, pending, job, slot>>

ResetPending ==
  /\ pc = "reset"
  /\ pending' = FALSE
  /\ pc' = "reap"
  /\ UNCHANGED <<jobtable, jobs, processes, children, ret, job, slot>>

(***************************************************************************)
(* waitid has nothing to report.                                           *)
(***************************************************************************)
ReapNothing ==
  /\ pc = "reap"
  /\ \A p \in Procs : event[p] = "NONE"
  /\ pc' = "again"
  /\ UNCHANGED <<jobtable, jobs, processes, children, pending, ret, job, slot>>

Collect(p) ==
  /\ event' = [event EXCEPT ![p] = "NONE"]
  /\ kern' = [kern EXCEPT ![p] = IF event[p] = "EXITED" THEN "none" ELSE @]
  /\ UNCHANGED sigchld

(***************************************************************************)
(* wait_for_any_process collects a change of a process of job j: a job of  *)
(* the table whose processes have all ended leaves it and is freed, a      *)
(* foreground job is only marked.  A change of a process that no job has   *)
(* would be lost; ChildrenHaveJobs says that there is none.                *)
(***************************************************************************)
ReapChild(p) ==
  LET j == p[1]
      codes == [info EXCEPT ![p] = event[p]]
      flags == [is_running EXCEPT ![p] = FALSE]
      left == [table EXCEPT ![id[j]] = NoJob]
  IN
  /\ pc = "reap"
  /\ event[p] # "NONE"
  /\ FindJobByPid(p) # {}
  /\ Collect(p)
  /\ IF HasCompleted(j, codes, flags) /\ id[j] > 0
     THEN /\ table' = left
          /\ num_jobs' = CountWithout(j)
          /\ highest' = UpdateHighest(left, state, highest)
          /\ FreeJob(j)
          /\ UNCHANGED stale
     ELSE /\ info' = codes
          /\ is_running' = flags
          /\ state' = [state EXCEPT ![j] = IF HasCompleted(j, codes, flags) THEN "DONE"
                                           ELSE SetJobState(j, event[p])]
          /\ UNCHANGED <<jobtable, id, procs, planned>>
  /\ UNCHANGED <<pending, control>>

ReapAgain ==
  /\ pc = "again"
  /\ pc' = IF pending THEN "reset" ELSE ret
  /\ UNCHANGED <<jobtable, jobs, processes, children, pending, ret, job, slot>>

-----------------------------------------------------------------------------
(* The main loop and the builtins.                                         *)

ReadLine ==
  /\ pc = "readline"
  /\ pc' = "line"
  /\ UNCHANGED <<jobtable, jobs, processes, children, pending, ret, job, slot>>

(***************************************************************************)
(* Bound: a command that can add a job is typed only while the table has   *)
(* room for it below its last slot.                                        *)
(***************************************************************************)
Room == highest + 1 < MaxJobs

(***************************************************************************)
(* run_pipeline: a new job of n commands, which is in slot 0 at once if it *)
(* is a foreground job and in no slot if it is not.                        *)
(***************************************************************************)
RunPipeline(j, n, background) ==
  /\ pc = "evaluate"
  /\ Room
  /\ state[j] = "FREE"
  /\ planned' = [planned EXCEPT ![j] = n]
  /\ IF background
     THEN /\ state' = [state EXCEPT ![j] = "BACKGROUND"]
          /\ UNCHANGED <<jobtable, id, is_running>>
     ELSE SetForegroundJob(j)
  /\ job' = j
  /\ pc' = "fork"
  /\ UNCHANGED <<procs, info, children, pending, ret, slot>>

(***************************************************************************)
(* One turn of the loop: pipe(), fork() and what the shell notes of the    *)
(* child.  Bound: the processes of a job; a longer pipeline is one whose   *)
(* pipe() or fork() fails.                                                 *)
(***************************************************************************)
Fork ==
  /\ pc = "fork"
  /\ procs[job] < MaxProcs
  /\ LET p == <<job, procs[job] + 1>> IN
     /\ kern' = [kern EXCEPT ![p] = "running"]
     /\ is_running' = [is_running EXCEPT ![p] = TRUE]
     /\ procs' = [procs EXCEPT ![job] = @ + 1]
  /\ pc' = IF procs[job] + 1 = planned[job] THEN "handle" ELSE "fork"
  /\ UNCHANGED <<jobtable, state, id, planned, info, event, sigchld, pending, ret,
                 job, slot>>

(***************************************************************************)
(* setup_pipe fails: the processes forked so far get SIGTERM.  As in the   *)
(* clean-up, they may take their time, or stop, before they end.           *)
(***************************************************************************)
PipeFails ==
  /\ pc = "fork"
  /\ procs[job] + 1 < planned[job]
  /\ pc' = "abort"
  /\ UNCHANGED <<jobtable, jobs, processes, children, pending, ret, job, slot>>

(***************************************************************************)
(* The job is freed, but slot 0 keeps naming a foreground job.             *)
(***************************************************************************)
AbortJob ==
  /\ pc = "abort"
  /\ WaitForAll(job)
  /\ FreeJob(job)
  /\ stale' = (stale \/ state[job] = "FOREGROUND")
  /\ job' = NoJob
  /\ pc' = "top"
  /\ UNCHANGED <<table, num_jobs, highest, pending, ret, slot>>

(***************************************************************************)
(* fork fails: the shell calls exit(1), whatever children it has.          *)
(***************************************************************************)
ForkFails ==
  /\ pc = "fork"
  /\ pc' = "failed"
  /\ UNCHANGED <<jobtable, jobs, processes, children, pending, ret, job, slot>>

(***************************************************************************)
(* handle_job: wait for a foreground job, put a background job into the    *)
(* table.                                                                  *)
(***************************************************************************)
HandleJob ==
  /\ pc = "handle"
  /\ IF state[job] = "FOREGROUND"
     THEN pc' = "wait" /\ UNCHANGED <<jobtable, id, job>>
     ELSE AddJobToTable(job, table[0]) /\ pc' = "top" /\ job' = NoJob
  /\ UNCHANGED <<state, procs, planned, processes, children, pending, ret, slot>>

(***************************************************************************)
(* run_fg: any job of the table, by its pid or its number.  The slot of    *)
(* the builtin itself is empty by then.                                    *)
(***************************************************************************)
Fg(i) ==
  /\ pc = "evaluate"
  /\ Room
  /\ table[i] # NoJob
  /\ SetForegroundJob(table[i])
  /\ ContinueAll(table[i])
  /\ job' = table[i]
  /\ pc' = "handle"
  /\ UNCHANGED <<procs, planned, info, pending, ret, slot>>

(***************************************************************************)
(* get_highest_stopped_job_id, which run_bg calls whatever its argument,   *)
(* dereferences every slot it comes across.                                *)
(***************************************************************************)
MeetsHole ==
  \E i \in 1..highest :
    /\ table[i] = NoJob
    /\ \A k \in i + 1..highest : table[k] # NoJob => state[table[k]] # "STOPPED"

Bg(i) ==
  /\ pc = "evaluate"
  /\ ~MeetsHole
  /\ table[i] # NoJob
  /\ MarkRunning(table[i])
  /\ state' = [state EXCEPT ![table[i]] = "BACKGROUND"]
  /\ ContinueAll(table[i])
  /\ EmptyForegroundSlot
  /\ pc' = "top"
  /\ UNCHANGED <<id, procs, planned, info, pending, ret, job, slot>>

BgCrashes ==
  /\ pc = "evaluate"
  /\ MeetsHole
  /\ pc' = "crashed"
  /\ UNCHANGED <<jobtable, jobs, processes, children, pending, ret, job, slot>>

(***************************************************************************)
(* A builtin that moves no job, and fg and bg when they refuse: slot 0 was *)
(* the builtin's own.                                                      *)
(***************************************************************************)
OtherBuiltin ==
  /\ pc = "evaluate"
  /\ EmptyForegroundSlot
  /\ pc' = "top"
  /\ UNCHANGED <<jobs, processes, children, pending, ret, job, slot>>

(***************************************************************************)
(* A line with nothing to run, and exit when it refuses.                   *)
(***************************************************************************)
NothingRuns ==
  /\ pc = "evaluate"
  /\ pc' = "top"
  /\ UNCHANGED <<jobtable, jobs, processes, children, pending, ret, job, slot>>

(***************************************************************************)
(* exit refuses as long as there are jobs (run_single_builtin_command).    *)
(***************************************************************************)
MayAlwaysExit == TRUE
MayExit == num_jobs = 0

ExitBuiltin ==
  /\ pc = "evaluate"
  /\ MayExit
  /\ pc' = "exited"
  /\ UNCHANGED <<jobtable, jobs, processes, children, pending, ret, job, slot>>

(***************************************************************************)
(* The end of the input: main continues and terminates the jobs of the     *)
(* table one after the other, and collects their processes.                *)
(***************************************************************************)
EndOfInput ==
  /\ pc = "readline"
  /\ pc' = "cleanup"
  /\ slot' = 0
  /\ UNCHANGED <<jobtable, jobs, processes, children, pending, ret, job>>

LastSlot == highest
KillJob ==
  /\ pc = "cleanup"
  /\ IF slot > LastSlot
     THEN pc' = "exited" /\ UNCHANGED <<children, slot>>
     ELSE IF table[slot] = NoJob
     THEN slot' = slot + 1 /\ UNCHANGED <<children, pc>>
     ELSE ContinueAll(table[slot]) /\ pc' = "collect" /\ UNCHANGED slot
  /\ UNCHANGED <<jobtable, jobs, processes, pending, ret, job>>

CollectJob ==
  /\ pc = "collect"
  /\ WaitForAll(table[slot])
  /\ FreeJob(table[slot])
  /\ table' = [table EXCEPT ![slot] = NoJob]
  /\ slot' = slot + 1
  /\ pc' = "cleanup"
  /\ UNCHANGED <<num_jobs, highest, stale, pending, ret, job>>

(***************************************************************************)
(* find_job_by_pid and the clean-up read a job that has been freed: they   *)
(* may come through, as if it had no process, or free it a second time;    *)
(* or the program breaks, and nothing is said of it any more.              *)
(***************************************************************************)
ReadsFreed(i) == table[i] # NoJob /\ state[table[i]] = "FREE"

UseAfterFree ==
  /\ \/ pc = "reap" /\ ReadsFreed(0) /\ \E p \in Procs : event[p] # "NONE"
     \/ pc = "cleanup" /\ slot <= LastSlot /\ ReadsFreed(slot)
  /\ pc' = "crashed"
  /\ UNCHANGED <<jobtable, jobs, processes, children, pending, ret, job, slot>>

-----------------------------------------------------------------------------
(* wait_for_processes and the end of handle_job.                           *)

WaitOver == state[job] = "STOPPED" \/ HasCompleted(job, info, is_running)

TestJob ==
  /\ pc = "test"
  /\ pc' = IF WaitOver THEN "finish" ELSE "suspend"
  /\ UNCHANGED <<jobtable, jobs, processes, children, pending, ret, job, slot>>

(***************************************************************************)
(* sigsuspend lets a SIGCHLD that is pending in; SIGINT ends it as well.   *)
(***************************************************************************)
Suspend ==
  /\ pc = "suspend"
  /\ sigchld
  /\ sigchld' = FALSE
  /\ pending' = TRUE
  /\ pc' = "wait"
  /\ UNCHANGED <<jobtable, jobs, processes, kern, event, ret, job, slot>>

Interrupted ==
  /\ pc = "suspend"
  /\ ~sigchld
  /\ pc' = "wait"
  /\ UNCHANGED <<jobtable, jobs, processes, children, pending, ret, job, slot>>

FinishJob ==
  /\ pc = "finish"
  /\ IF state[job] = "STOPPED"
     THEN /\ AddJobToTable(job, NoJob)
          /\ UNCHANGED <<state, procs, planned, processes>>
     ELSE EmptyForegroundSlot /\ FreeJob(job)
  /\ job' = NoJob
  /\ pc' = "top"
  /\ UNCHANGED <<children, pending, ret, slot>>

-----------------------------------------------------------------------------

(***************************************************************************)
(* What the shell does by itself, once it has a line to work on.           *)
(***************************************************************************)
Shell ==
  \/ CheckPending \/ ResetPending \/ ReapNothing \/ ReapAgain
  \/ \E p \in Procs : ReapChild(p)
  \/ Fork \/ AbortJob \/ HandleJob \/ TestJob \/ Suspend \/ FinishJob
  \/ KillJob \/ CollectJob

Failure == PipeFails \/ ForkFails \/ UseAfterFree

User ==
  \/ ReadLine \/ EndOfInput \/ Interrupted
  \/ \E j \in Jobs : \E n \in Lengths[j], b \in BOOLEAN : RunPipeline(j, n, b)
  \/ \E i \in 1..highest : Fg(i) \/ Bg(i)
  \/ BgCrashes \/ OtherBuiltin \/ NothingRuns \/ ExitBuiltin

Child == \E p \in Procs : Exit(p) \/ Stop(p) \/ Continue(p)

Ended == pc \in {"exited", "failed", "crashed"} /\ UNCHANGED vars

Next == Shell \/ Failure \/ User \/ Child \/ Deliver \/ Ended

Spec == Init /\ [][Next]_vars

(***************************************************************************)
(* The shell runs, and signals are delivered.  Nothing is promised of the  *)
(* user and the children.                                                  *)
(***************************************************************************)
FairSpec == Spec /\ WF_vars(Shell) /\ WF_vars(Deliver)

-----------------------------------------------------------------------------
(* Correctness.                                                            *)

Launching == pc \in {"fork", "handle", "abort", "failed"}
Leaving == pc \in {"cleanup", "collect", "exited", "crashed"}

(***************************************************************************)
(* Between two commands and while the shell waits, every job of the table  *)
(* knows its slot, num_jobs counts them, highest_job_id is the last one,   *)
(* and none of them is in the foreground or done.                          *)
(***************************************************************************)
Listed == {i \in 1..MaxJobs : table[i] # NoJob}

TableAgrees ==
  ~Leaving =>
    /\ num_jobs = Cardinality(Listed)
    /\ \A i \in Listed : i <= highest
    /\ highest > 0 => highest \in Listed
    /\ \A i \in Listed : /\ id[table[i]] = i
                         /\ state[table[i]] \in {"BACKGROUND", "STOPPED"}

(***************************************************************************)
(* Slot 0 is empty, or names the job the shell launches or waits for, or   *)
(* the one of a pipeline that was given up: pa2.c:409 frees it and leaves  *)
(* it there until the next command that has slot 0.  Any other job of the  *)
(* table still exists, until the clean-up frees it through slot 0.         *)
(***************************************************************************)
FreedJobsAreGone ==
  /\ table[0] # NoJob /\ ~stale => table[0] = job
  /\ \A i \in 0..MaxJobs : ReadsFreed(i) => stale /\ (i = 0 \/ Leaving)

(***************************************************************************)
(* Every child belongs to a job that find_job_by_pid finds, or that is     *)
(* being launched, so that its end is never lost, and that has not been    *)
(* freed.                                                                  *)
(***************************************************************************)
ChildrenHaveJobs ==
  \A p \in Procs : Live(p) =>
    /\ state[p[1]] # "FREE"
    /\ FindJobByPid(p) # {} \/ (job = p[1] /\ Launching)

(***************************************************************************)
(* No change of a child is slept through: the shell that sleeps in         *)
(* sigsuspend has collected them all, or SIGCHLD is pending.               *)
(***************************************************************************)
NoChangeIsSleptThrough ==
  pc = "suspend" /\ (\E p \in Procs : event[p] # "NONE") => sigchld

(***************************************************************************)
(* jobs tells the truth of a job of one command once its changes have been *)
(* collected: it is listed as stopped exactly when its process is, and the *)
(* shell does not wait for a process that has stopped.                     *)
(***************************************************************************)
Alone(j) == planned[j] = 1 /\ procs[j] = 1

SingleJobsAreAccurate ==
  \A i \in 0..MaxJobs :
    LET j == table[i] p == <<j, 1>> IN
    /\ j # NoJob /\ Alone(j) /\ event[p] = "NONE"
    /\ i > 0 \/ pc = "suspend"
    /\ ~Leaving
    => /\ kern[p] # "none"
       /\ state[j] = "STOPPED" <=> kern[p] = "stopped"

(***************************************************************************)
(* A shell that ends leaves no child behind, neither at the end of its     *)
(* input nor by exit (pa2.c:619-621); one that cannot fork does.           *)
(***************************************************************************)
NoChildIsLeft == pc = "exited" => \A p \in Procs : ~Live(p)

(***************************************************************************)
(* The shell sleeps only for a foreground job that has a process left,     *)
(* unless fg or bg has marked one that had ended as running.               *)
(***************************************************************************)
Revived(j) == \E p \in ProcsOf(j) : ~Live(p) /\ is_running[p]

WaitsForTheLiving ==
  pc = "suspend" /\ (\A p \in ProcsOf(job) : event[p] = "NONE") =>
    (\E p \in ProcsOf(job) : Live(p)) \/ Revived(job)

(***************************************************************************)
(* What every command of the shell relies on when it looks for a job or    *)
(* waits for one.                                                          *)
(***************************************************************************)
JobsAreSound ==
  /\ TypeOK
  /\ TableAgrees
  /\ FreedJobsAreGone
  /\ ChildrenHaveJobs
  /\ SingleJobsAreAccurate
  /\ WaitsForTheLiving

(***************************************************************************)
(* 2021312344_pa2_report.md section 7: the shell waits for a foreground    *)
(* pipeline until all of its children have ended or stopped, not longer.   *)
(***************************************************************************)
AllEnded == pc = "suspend" /\ \A p \in ProcsOf(job) : kern[p] \in {"none", "dead"}

ForegroundWaitEnds == AllEnded ~> pc \in {"top", "finish"}
=============================================================================
