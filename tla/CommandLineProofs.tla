------------------------- MODULE CommandLineProofs -------------------------
(***************************************************************************)
(* Theorems about CommandLine, for any lines, commands, files and pipe     *)
(* capacity: every command runs with the descriptors its line gives it,    *)
(* and nobody keeps the writing end of a pipe that is not its own; and     *)
(* what is evaluated is what is written in the line, whatever the line.    *)
(***************************************************************************)
EXTENDS CommandLine, FiniteSetTheorems, SequenceTheorems, WellFoundedInduction, TLAPS

-----------------------------------------------------------------------------
(* The inductive invariant.                                                *)

Stages == {"detach", "stdin", "stdout", "dup2", "run"}
AtCommand == {"setup", "fork", "close", "wait", "abort", "backup", "restore"}
               \cup RedirectLabels

FileDescriptors == {"file", "append", "write"} \X Openable \X Procs
ReadEnds == {ReadEnd(p) : p \in Procs}

(***************************************************************************)
(* The ends of the pipes of command p, as run_pipeline hands them out.     *)
(***************************************************************************)
PipeIn(p) == IF p[2] = 1 THEN NoFd ELSE ReadEnd(Previous(p))
PipeOut(p) == IF IsLast(p) THEN NoFd ELSE WriteEnd(p)
PipeNext(p) == IF IsLast(p) THEN NoFd ELSE ReadEnd(p)

(***************************************************************************)
(* The shell is at a command of its plan, and so is every process.         *)
(***************************************************************************)
InPlan(p) == p[1] \in 1..Len(plan) /\ p[2] \in 1..Len(plan[p[1]].commands)

PlanInv ==
  /\ FitsTheBounds(plan)
  /\ pc[Shell] \in ShellLabels \cup RedirectLabels
  /\ at = Shell \/ InPlan(at)
  /\ pc[Shell] \in AtCommand => at # Shell
  /\ pc[Shell] = "prompt" => /\ at = Shell
                             /\ \A p \in Procs : pc[p] = "none" /\ ~carried[p]
  /\ \A p \in Procs : pc[p] # "none" => pc[p] \in Stages /\ InPlan(p)

(***************************************************************************)
(* What the shell's own Process record holds, and what of its open         *)
(* descriptors that record, or the backups, still name.                    *)
(***************************************************************************)
ShellProcess ==
  /\ pc[Shell] \in {"setup", "abort"} =>
       process[Shell] = [NoProcess EXCEPT !.in = PipeIn(at)]
  /\ pc[Shell] \in {"fork", "close"} =>
       process[Shell] = [in |-> PipeIn(at), out |-> PipeOut(at), next |-> PipeNext(at)]
  /\ pc[Shell] \in {"backup", "stdin"} => process[Shell] = NoProcess
  /\ pc[Shell] \in {"stdout", "dup2", "restore"} =>
       /\ process[Shell].in \in {NoFd} \cup FileDescriptors
       /\ process[Shell].out \in {NoFd} \cup FileDescriptors

ShellDescriptors ==
  /\ pc[Shell] \in {"setup", "abort"} =>
       fds[Shell].others \subseteq lost \cup {process[Shell].in}
  /\ pc[Shell] \in {"fork", "close"} =>
       fds[Shell].others \subseteq
         lost \cup {process[Shell].in, process[Shell].out, process[Shell].next}
  /\ pc[Shell] \in RedirectLabels \cup {"restore"} =>
       fds[Shell].others \subseteq
         lost \cup Backups \cup {process[Shell].in, process[Shell].out}
  /\ pc[Shell] \in {"prompt", "next", "backup", "wait", "done"} =>
       fds[Shell].others \subseteq lost

ShellInv ==
  /\ pc[Shell] # "restore" => fds[Shell].in = Standard /\ fds[Shell].out = Standard
  /\ {fds[Shell].in, fds[Shell].out} \subseteq {Standard} \cup FileDescriptors
  /\ NoFd \notin fds[Shell].others
  /\ ShellDescriptors
  /\ ShellProcess

(***************************************************************************)
(* A child on its way to its command: a file has taken the place of the    *)
(* end of a pipe where setup_redirection has been, and what it has open is *)
(* what its record names, or what the shell has lost.                      *)
(***************************************************************************)
RedirectedIn(p) == IF CommandOf(p).in # NoFile THEN InFile(p) ELSE PipeIn(p)
RedirectedOut(p) == IF CommandOf(p).out # NoFile THEN OutFile(p) ELSE PipeOut(p)

ChildProcess(p) ==
  /\ pc[p] = "detach" =>
       process[p] = [in |-> PipeIn(p), out |-> PipeOut(p), next |-> PipeNext(p)]
  /\ pc[p] = "stdin" => process[p].in = PipeIn(p)
  /\ pc[p] \in {"stdin", "stdout"} => process[p].out = PipeOut(p)
  /\ pc[p] \in {"stdout", "dup2"} => process[p].in = RedirectedIn(p)
  /\ pc[p] = "dup2" => process[p].out = RedirectedOut(p)

ChildDescriptors(p) ==
  /\ NoFd \notin fds[p].others
  /\ pc[p] = "none" => fds[p] = NoDescriptors
  /\ pc[p] \in {"detach", "stdin", "stdout", "dup2"} =>
       fds[p].in = Standard /\ fds[p].out = Standard
  /\ pc[p] = "detach" =>
       fds[p].others \subseteq
         lost \cup {process[p].in, process[p].out, process[p].next}
  /\ pc[p] \in {"stdin", "stdout", "dup2"} =>
       fds[p].others \subseteq lost \cup {process[p].in, process[p].out}
  /\ pc[p] = "run" => /\ fds[p].in = MeantInput(p)
                      /\ fds[p].out = MeantOutput(p)
                      /\ fds[p].others \subseteq lost

ChildInv(p) == ChildProcess(p) /\ ChildDescriptors(p)

(***************************************************************************)
(* The shell loses reading ends and files; what a command has read and not *)
(* written yet, a command that reads its input has read.                   *)
(***************************************************************************)
LostInv == lost \subseteq ReadEnds \cup FileDescriptors
CarriedInv == \A p \in Procs : carried[p] => Reads(p)

PlumbingInv ==
  /\ TypeOK
  /\ PlanInv
  /\ ShellInv
  /\ \A p \in Procs : ChildInv(p)
  /\ LostInv
  /\ CarriedInv

(***************************************************************************)
(* Whoever could still write to a pipe: the command it belongs to, and the *)
(* shell while it starts that command.                                     *)
(***************************************************************************)
WritersAreAlone ==
  \A q \in Procs :
    IsHeld(WriteEnd(q)) =>
      Holds(q, WriteEnd(q)) \/ (pc[Shell] \in {"fork", "close"} /\ at = q)

-----------------------------------------------------------------------------
(* Descriptors.                                                            *)

LEMMA ShellIsNoCommand == Shell \in Ids /\ Shell \notin Procs /\ Procs \subseteq Ids
<1>1. \A p \in Procs : p[1] \in 1..MaxPipelines
  BY DEF Procs
<1>2. Shell[1] = 0
  BY DEF Shell
<1>3. 0 \notin 1..MaxPipelines
  BY CommandLineAssumption DEF CommandLineAssumption
<1> QED
  BY <1>1, <1>2, <1>3 DEF Ids

(***************************************************************************)
(* The ends of pipes, files, and the shell's copies of its standard        *)
(* descriptors are all different.                                          *)
(***************************************************************************)
LEMMA KindsDiffer ==
  /\ NoFd # Standard /\ NoFd \notin Backups
  /\ \A p \in Procs : ReadEnd(p) # NoFd /\ WriteEnd(p) # NoFd
  /\ NoFd \notin FileDescriptors
  /\ \A p \in Procs : WriteEnd(p) \notin ReadEnds \cup FileDescriptors
<1>1. NoFd[1] = "closed" /\ Standard[1] = "standard"
  BY DEF NoFd, Standard
<1>2. \A fd \in Backups : fd[1] = "backup"
  BY DEF Backups
<1>3. \A p : ReadEnd(p)[1] = "r" /\ WriteEnd(p)[1] = "w"
  BY DEF ReadEnd, WriteEnd
<1>4. \A fd \in FileDescriptors : fd[1] \in {"file", "append", "write"}
  BY DEF FileDescriptors
<1>5. \A fd \in ReadEnds : fd[1] = "r"
  BY <1>3 DEF ReadEnds
<1> QED
  BY <1>1, <1>2, <1>3, <1>4, <1>5

LEMMA AllAreDescriptors ==
  /\ NoFd \in Descriptors /\ Standard \in Descriptors
  /\ Backups \subseteq Descriptors
  /\ \A p \in Procs : ReadEnd(p) \in Descriptors /\ WriteEnd(p) \in Descriptors
  /\ FileDescriptors \subseteq Descriptors
BY DEF Descriptors, FileDescriptors

LEMMA Places ==
  ASSUME PlanInv, NEW p, InPlan(p), p \in Procs
  PROVE  /\ p[1] \in Nat /\ p[2] \in 1..MaxCommands
         /\ p[2] # 1 => Previous(p) \in Procs
         /\ ~IsLast(p) => p[2] + 1 \in 1..Len(plan[p[1]].commands)
<1>1. p[1] \in 1..MaxPipelines /\ p[2] \in 1..MaxCommands
  BY DEF Procs
<1>2. MaxCommands \in Nat /\ MaxPipelines \in Nat
  BY CommandLineAssumption DEF CommandLineAssumption
<1>3. p[2] # 1 => p[2] - 1 \in 1..MaxCommands
  BY <1>1, <1>2
<1>4. Len(plan[p[1]].commands) \in 1..MaxCommands
  BY DEF PlanInv, FitsTheBounds, InPlan
<1>5. p[2] \in 1..Len(plan[p[1]].commands)
  BY DEF InPlan
<1>6. p[2] # 1 => Previous(p) \in Procs
  BY <1>1, <1>3 DEF Previous, Procs
<1>7. ~IsLast(p) => p[2] + 1 \in 1..Len(plan[p[1]].commands)
  <2> DEFINE l == Len(plan[p[1]].commands)
             n == p[2]
  <2>1. l \in 1..MaxCommands /\ n \in 1..l
    BY <1>4, <1>5
  <2>2. SUFFICES n # l => n + 1 \in 1..l
    BY DEF IsLast
  <2> HIDE DEF l, n
  <2> QED
    BY <2>1, <1>2
<1> QED
  BY <1>1, <1>2, <1>6, <1>7

LEMMA PlacesFit ==
  ASSUME FitsTheBounds(plan), NEW p \in Nat \X Nat, InPlan(p)
  PROVE  p \in Procs
<1> DEFINE n == Len(plan)
           l == Len(plan[p[1]].commands)
<1>1. n \in 0..MaxPipelines /\ l \in 1..MaxCommands
  BY DEF FitsTheBounds, InPlan
<1>2. p[1] \in 1..n /\ p[2] \in 1..l
  BY DEF InPlan
<1>3. MaxCommands \in Nat /\ MaxPipelines \in Nat
  BY CommandLineAssumption DEF CommandLineAssumption
<1>4. p = <<p[1], p[2]>>
  OBVIOUS
<1> HIDE DEF n, l
<1>5. p[1] \in 1..MaxPipelines /\ p[2] \in 1..MaxCommands
  BY <1>1, <1>2, <1>3
<1> QED
  BY <1>4, <1>5 DEF Procs

(***************************************************************************)
(* What the record of a command in the plan names.                         *)
(***************************************************************************)
LEMMA PipeEnds ==
  ASSUME PlanInv, NEW p \in Procs, InPlan(p)
  PROVE  /\ PipeIn(p) \in {NoFd} \cup ReadEnds
         /\ PipeOut(p) \in {NoFd, WriteEnd(p)}
         /\ PipeNext(p) \in {NoFd} \cup ReadEnds
         /\ {PipeIn(p), PipeOut(p), PipeNext(p)} \subseteq Descriptors
BY Places, AllAreDescriptors DEF PipeIn, PipeOut, PipeNext, ReadEnds

-----------------------------------------------------------------------------
(* What a step leaves alone.                                               *)

LEMMA ChildKeeps ==
  ASSUME NEW p \in Procs, ChildInv(p), plan' = plan, lost \subseteq lost',
         pc'[p] = pc[p], fds'[p] = fds[p], process'[p] = process[p]
  PROVE  ChildInv(p)'
<1>1. p # Shell
  BY ShellIsNoCommand
<1>2. /\ CommandOf(p)' = CommandOf(p) /\ IsLast(p)' = IsLast(p)
      /\ InFile(p)' = InFile(p) /\ OutFile(p)' = OutFile(p)
  BY <1>1 DEF CommandOf, IsLast, InFile, OutFile, Command
<1>3. /\ PipeIn(p)' = PipeIn(p) /\ PipeOut(p)' = PipeOut(p)
      /\ PipeNext(p)' = PipeNext(p)
      /\ RedirectedIn(p)' = RedirectedIn(p) /\ RedirectedOut(p)' = RedirectedOut(p)
      /\ MeantInput(p)' = MeantInput(p) /\ MeantOutput(p)' = MeantOutput(p)
  BY <1>2 DEF PipeIn, PipeOut, PipeNext, RedirectedIn, RedirectedOut, MeantInput,
              MeantOutput
<1>4. ChildProcess(p)'
  BY <1>3 DEF ChildInv, ChildProcess
<1>5. ChildDescriptors(p)'
  BY <1>3 DEF ChildInv, ChildDescriptors
<1> QED
  BY <1>4, <1>5 DEF ChildInv

LEMMA ShellKeeps ==
  ASSUME ShellInv, plan' = plan, at' = at, lost' = lost, pc'[Shell] = pc[Shell],
         fds'[Shell] = fds[Shell], process'[Shell] = process[Shell]
  PROVE  ShellInv'
<1>1. /\ PipeIn(at)' = PipeIn(at) /\ PipeOut(at)' = PipeOut(at)
      /\ PipeNext(at)' = PipeNext(at)
  BY DEF PipeIn, PipeOut, PipeNext, IsLast
<1>2. ShellProcess'
  BY <1>1 DEF ShellInv, ShellProcess
<1>3. ShellDescriptors'
  BY DEF ShellInv, ShellDescriptors
<1> QED
  BY <1>2, <1>3 DEF ShellInv

(***************************************************************************)
(* The processes go on, or end, at the same places of the same plan.       *)
(***************************************************************************)
LEMMA PlanKeeps ==
  ASSUME PlanInv, plan' = plan, at' = at, pc'[Shell] = pc[Shell],
         pc[Shell] # "prompt",
         \A p \in Procs : pc'[p] \in {"none", pc[p]} \/ (pc[p] # "none" /\ pc'[p] \in Stages)
  PROVE  PlanInv'
BY DEF PlanInv, InPlan, FitsTheBounds

LEMMA CarriedKeeps ==
  ASSUME CarriedInv, plan' = plan, carried' = carried
  PROVE  CarriedInv'
BY DEF CarriedInv, Reads, Name, Args, CommandOf

(***************************************************************************)
(* A step of a command, or of its redirections, concerns itself only.      *)
(***************************************************************************)
Private(p) ==
  /\ UNCHANGED <<line, plan, at, lost>>
  /\ pc' = [pc EXCEPT ![p] = pc'[p]]
  /\ fds' = [fds EXCEPT ![p] = fds'[p]]
  /\ process' = [process EXCEPT ![p] = process'[p]]

LEMMA PrivateStep ==
  ASSUME PlumbingInv, NEW p \in Procs, Private(p), pc[p] # "none",
         pc'[p] \in {"none"} \cup Stages, TypeOK', ChildInv(p)', CarriedInv'
  PROVE  PlumbingInv'
<1>1. p # Shell /\ Shell \in Ids /\ Procs \subseteq Ids
  BY ShellIsNoCommand
<1>2. /\ pc'[Shell] = pc[Shell] /\ fds'[Shell] = fds[Shell]
      /\ process'[Shell] = process[Shell]
  BY <1>1 DEF Private, PlumbingInv, TypeOK
<1>3. \A q \in Procs \ {p} :
        pc'[q] = pc[q] /\ fds'[q] = fds[q] /\ process'[q] = process[q]
  BY <1>1 DEF Private, PlumbingInv, TypeOK
<1>4. pc[Shell] # "prompt"
  BY DEF PlumbingInv, PlanInv
<1>5. PlanInv'
  BY <1>2, <1>3, <1>4, PlanKeeps DEF PlumbingInv, Private
<1>6. ShellInv'
  BY <1>2, ShellKeeps DEF PlumbingInv, Private
<1>7. ASSUME NEW q \in Procs
      PROVE  ChildInv(q)'
  <2>1. CASE q = p
    BY <2>1
  <2>2. CASE q # p
    <3>1. plan' = plan /\ lost \subseteq lost'
      BY DEF Private
    <3> QED
      BY <2>2, <1>3, <3>1, ChildKeeps DEF PlumbingInv
  <2> QED
    BY <2>1, <2>2
<1>8. LostInv'
  BY DEF PlumbingInv, LostInv, Private, FileDescriptors
<1> QED
  BY <1>5, <1>6, <1>7, <1>8 DEF PlumbingInv

-----------------------------------------------------------------------------
(* The commands and their redirections.                                    *)

(***************************************************************************)
(* A file that is opened is a descriptor of its own.                       *)
(***************************************************************************)
LEMMA FilesAreDescriptors ==
  ASSUME NEW p \in Ids, p = Shell => at \in Procs
  PROVE  /\ Command(p).in \in Openable => InFile(p) \in FileDescriptors
         /\ Command(p).out \in Openable => OutFile(p) \in FileDescriptors
<1>1. (IF p = Shell THEN at ELSE p) \in Procs
  BY DEF Ids
<1> QED
  BY <1>1 DEF InFile, OutFile, FileDescriptors

LEMMA RedirectionTypes ==
  ASSUME TypeOK, NEW p \in Ids, p = Shell => at \in Procs, Redirect(p)
  PROVE  TypeOK'
<1>1. /\ Command(p).in \in Openable => InFile(p) \in Descriptors
      /\ Command(p).out \in Openable => OutFile(p) \in Descriptors
      /\ NoFd \in Descriptors
  BY FilesAreDescriptors, AllAreDescriptors
<1>2. UNCHANGED <<at, io, lost>>
  BY DEF Redirect, OpenStdin, OpenStdout, Dup2, Replace, RedirectionFails, Exit
<1>3. /\ level' \in [Procs -> 0..PipeCapacity] /\ left' \in [Procs -> 0..Amount]
      /\ carried' \in [Procs -> BOOLEAN] /\ at' \in Ids /\ lost' \subseteq Descriptors
  BY <1>2 DEF TypeOK, io
<1>4. pc' \in [Ids -> ShellLabels \cup RedirectLabels \cup {"none", "detach", "run"}]
  BY DEF Redirect, OpenStdin, OpenStdout, Dup2, RedirectionFails, Exit, Goto, TypeOK,
         ShellLabels, RedirectLabels
<1>5. fds' \in [Ids -> [in : Descriptors, out : Descriptors,
                        others : SUBSET Descriptors]]
  <2>1. CASE fds' = fds
    BY <2>1 DEF TypeOK
  <2>2. CASE \E old, new : /\ new \in Descriptors
                           /\ fds' = [fds EXCEPT ![p].others = (@ \ {old}) \cup {new}]
    <3>1. PICK old, new : /\ new \in Descriptors
                          /\ fds' = [fds EXCEPT ![p].others = (@ \ {old}) \cup {new}]
      BY <2>2
    <3> QED
      BY <3>1 DEF TypeOK
  <2>3. CASE fds' = [fds EXCEPT ![p] = NoDescriptors]
    BY <1>1, <2>3 DEF TypeOK, NoDescriptors
  <2>4. CASE Dup2(p)
    BY <2>4 DEF Dup2, Moved, TypeOK
  <2>5. OpenStdin(p) \/ OpenStdout(p) => <2>1!1 \/ <2>2!1 \/ <2>3!1
    BY <1>1 DEF OpenStdin, OpenStdout, RedirectionFails, Exit, Replace
  <2> QED
    BY <2>1, <2>2, <2>3, <2>4, <2>5 DEF Redirect
<1>6. process' \in [Ids -> [in : Descriptors, out : Descriptors, next : Descriptors]]
  <2>1. CASE OpenStdin(p)
    BY <1>1, <2>1, SMTT(40) DEF OpenStdin, Replace, RedirectionFails, Exit, TypeOK
  <2>2. CASE OpenStdout(p)
    BY <1>1, <2>2, SMTT(40) DEF OpenStdout, Replace, RedirectionFails, Exit, TypeOK
  <2>3. CASE Dup2(p)
    BY <1>1, <2>3 DEF Dup2, TypeOK
  <2> QED
    BY <2>1, <2>2, <2>3 DEF Redirect
<1> QED
  BY <1>3, <1>4, <1>5, <1>6 DEF TypeOK

LEMMA ExitStep ==
  ASSUME PlumbingInv, NEW p \in Procs, pc[p] # "none", Exit(p)
  PROVE  PlumbingInv'
<1>1. p \in Ids
  BY ShellIsNoCommand
<1>2. /\ UNCHANGED <<line, plan, at, process, level, left, carried, lost>>
      /\ pc' = [pc EXCEPT ![p] = "none"]
      /\ fds' = [fds EXCEPT ![p] = NoDescriptors]
  BY DEF Exit, io
<1>3. pc'[p] = "none" /\ fds'[p] = NoDescriptors
  BY <1>1, <1>2 DEF PlumbingInv, TypeOK
<1>4. TypeOK'
  BY <1>1, <1>2, AllAreDescriptors DEF PlumbingInv, TypeOK, NoDescriptors
<1>5. ChildInv(p)'
  BY <1>3 DEF ChildInv, ChildProcess, ChildDescriptors, NoDescriptors
<1>6. process' = [process EXCEPT ![p] = process'[p]]
  BY <1>1, <1>2 DEF PlumbingInv, TypeOK
<1>7. Private(p)
  BY <1>2, <1>3, <1>6 DEF Private
<1>8. CarriedInv'
  BY <1>2, CarriedKeeps DEF PlumbingInv
<1> QED
  BY <1>3, <1>4, <1>5, <1>7, <1>8, PrivateStep

LEMMA DetachStep ==
  ASSUME PlumbingInv, NEW p \in Procs, Detach(p)
  PROVE  PlumbingInv'
<1>1. p \in Ids
  BY ShellIsNoCommand
<1>2. /\ UNCHANGED <<line, plan, at, process, level, left, carried, lost>>
      /\ pc[p] = "detach"
      /\ pc' = [pc EXCEPT ![p] = "stdin"]
      /\ fds' = [fds EXCEPT ![p].others = @ \ {process[p].next}]
  BY DEF Detach, io, Goto, Unneeded
<1>3. /\ pc'[p] = "stdin" /\ process'[p] = process[p]
      /\ fds'[p] = [fds[p] EXCEPT !.others = @ \ {process[p].next}]
  BY <1>1, <1>2 DEF PlumbingInv, TypeOK
<1>4. TypeOK'
  BY <1>1, <1>2 DEF PlumbingInv, TypeOK, RedirectLabels
<1>5. fds[p] \in [in : Descriptors, out : Descriptors, others : SUBSET Descriptors]
  BY <1>1 DEF PlumbingInv, TypeOK
<1>6. /\ fds'[p].in = fds[p].in /\ fds'[p].out = fds[p].out
      /\ fds'[p].others = fds[p].others \ {process[p].next}
  BY <1>3, <1>5
<1>7. process[p] = [in |-> PipeIn(p), out |-> PipeOut(p), next |-> PipeNext(p)]
  BY <1>2 DEF PlumbingInv, ChildInv, ChildProcess
<1>8. PipeIn(p)' = PipeIn(p) /\ PipeOut(p)' = PipeOut(p)
  BY <1>2 DEF PipeIn, PipeOut, IsLast
<1>9. ChildProcess(p)'
  BY <1>3, <1>7, <1>8 DEF ChildProcess
<1>10. ChildDescriptors(p)'
  BY <1>2, <1>3, <1>6 DEF PlumbingInv, ChildInv, ChildDescriptors
<1>11. Private(p)
  BY <1>1, <1>2, <1>3 DEF Private, PlumbingInv, TypeOK
<1>12. CarriedInv'
  BY <1>2, CarriedKeeps DEF PlumbingInv
<1> QED
  BY <1>2, <1>3, <1>4, <1>9, <1>10, <1>11, <1>12, PrivateStep DEF ChildInv, Stages

(***************************************************************************)
(* A child is not the shell: what it is to redirect is its own.            *)
(***************************************************************************)
LEMMA ChildFacts ==
  ASSUME PlumbingInv, NEW p \in Procs, pc[p] # "none", plan' = plan
  PROVE  /\ p # Shell /\ p \in Ids
         /\ Command(p) = CommandOf(p) /\ InPlan(p)
         /\ PipeIn(p)' = PipeIn(p) /\ PipeOut(p)' = PipeOut(p)
         /\ RedirectedIn(p)' = RedirectedIn(p)
         /\ RedirectedOut(p)' = RedirectedOut(p)
         /\ MeantInput(p)' = MeantInput(p) /\ MeantOutput(p)' = MeantOutput(p)
         /\ fds[p] \in [in : Descriptors, out : Descriptors, others : SUBSET Descriptors]
         /\ process[p] \in [in : Descriptors, out : Descriptors, next : Descriptors]
<1>1. p # Shell /\ p \in Ids
  BY ShellIsNoCommand
<1>2. Command(p) = CommandOf(p) /\ InPlan(p)
  BY <1>1 DEF Command, PlumbingInv, PlanInv
<1>3. PipeIn(p)' = PipeIn(p) /\ PipeOut(p)' = PipeOut(p)
  BY DEF PipeIn, PipeOut, IsLast
<1>4. /\ RedirectedIn(p)' = RedirectedIn(p)
      /\ RedirectedOut(p)' = RedirectedOut(p)
      /\ MeantInput(p)' = MeantInput(p) /\ MeantOutput(p)' = MeantOutput(p)
  BY <1>1, <1>3 DEF RedirectedIn, RedirectedOut, MeantInput, MeantOutput, InFile, OutFile,
                    Command, CommandOf, IsLast
<1> QED
  BY <1>1, <1>2, <1>3, <1>4 DEF PlumbingInv, TypeOK

LEMMA OpenStdinStep ==
  ASSUME PlumbingInv, NEW p \in Procs, OpenStdin(p)
  PROVE  PlumbingInv'
<1>1. CASE RedirectionFails(p)
  <2>1. Exit(p) /\ pc[p] # "none"
    BY <1>1, ShellIsNoCommand DEF RedirectionFails, OpenStdin
  <2> QED
    BY <2>1, ExitStep
<1>2. CASE ~RedirectionFails(p)
  <2>1. UNCHANGED <<line, plan, at, level, left, carried, lost>>
    BY <1>2 DEF OpenStdin, Replace, io
  <2>2. pc[p] = "stdin" /\ pc' = [pc EXCEPT ![p] = "stdout"]
    BY <1>2 DEF OpenStdin, Goto
  <2>3. /\ p # Shell /\ p \in Ids /\ Command(p) = CommandOf(p) /\ InPlan(p)
        /\ PipeOut(p)' = PipeOut(p) /\ RedirectedIn(p)' = RedirectedIn(p)
        /\ fds[p] \in [in : Descriptors, out : Descriptors, others : SUBSET Descriptors]
        /\ process[p] \in [in : Descriptors, out : Descriptors, next : Descriptors]
    BY <2>1, <2>2, ChildFacts
  <2>4. pc'[p] = "stdout"
    BY <2>2, <2>3 DEF PlumbingInv, TypeOK
  <2>5. /\ process[p].in = PipeIn(p) /\ process[p].out = PipeOut(p)
        /\ NoFd \notin fds[p].others
        /\ fds[p].in = Standard /\ fds[p].out = Standard
        /\ fds[p].others \subseteq lost \cup {process[p].in, process[p].out}
    BY <2>2 DEF PlumbingInv, ChildInv, ChildProcess, ChildDescriptors
  <2>6. /\ fds'[p].in = Standard /\ fds'[p].out = Standard
        /\ NoFd \notin fds'[p].others
        /\ fds'[p].others \subseteq lost \cup {process'[p].in, process'[p].out}
        /\ process'[p].in = RedirectedIn(p) /\ process'[p].out = PipeOut(p)
        /\ fds' = [fds EXCEPT ![p] = fds'[p]]
        /\ process' = [process EXCEPT ![p] = process'[p]]
    <3>1. CASE Command(p).in = NoFile
      <4>1. fds' = fds /\ process' = process
        BY <1>2, <3>1, CommandLineAssumption DEF OpenStdin, CommandLineAssumption
      <4>2. RedirectedIn(p) = PipeIn(p)
        BY <2>3, <3>1 DEF RedirectedIn
      <4> QED
        BY <2>3, <2>5, <4>1, <4>2 DEF PlumbingInv, TypeOK
    <3>2. CASE Command(p).in # NoFile
      <4>1. /\ Command(p).in \in Openable
            /\ fds' = [fds EXCEPT ![p].others = (@ \ {process[p].in}) \cup {InFile(p)}]
            /\ process' = [process EXCEPT ![p] = [@ EXCEPT !["in"] = InFile(p)]]
        BY <1>2, <3>2 DEF OpenStdin, Replace
      <4>2. RedirectedIn(p) = InFile(p)
        BY <2>3, <3>2 DEF RedirectedIn
      <4>3. InFile(p) # NoFd
        BY <2>3, <4>1, FilesAreDescriptors, KindsDiffer
      <4>4. /\ fds'[p] = [fds[p] EXCEPT !.others = (@ \ {process[p].in}) \cup {InFile(p)}]
            /\ process'[p] = [process[p] EXCEPT !.in = InFile(p)]
            /\ fds' = [fds EXCEPT ![p] = fds'[p]]
            /\ process' = [process EXCEPT ![p] = process'[p]]
        BY <2>3, <4>1 DEF PlumbingInv, TypeOK
      <4>5. /\ fds'[p].in = fds[p].in /\ fds'[p].out = fds[p].out
            /\ fds'[p].others = (fds[p].others \ {process[p].in}) \cup {InFile(p)}
            /\ process'[p].in = InFile(p) /\ process'[p].out = process[p].out
        BY <2>3, <4>4
      <4> QED
        BY <2>5, <4>2, <4>3, <4>4, <4>5
    <3> QED
      BY <3>1, <3>2
  <2>7. ChildInv(p)'
    BY <2>1, <2>3, <2>4, <2>6 DEF ChildInv, ChildProcess, ChildDescriptors
  <2>8. TypeOK'
    BY <2>3, RedirectionTypes DEF Redirect, PlumbingInv
  <2>9. Private(p)
    BY <2>1, <2>2, <2>4, <2>6 DEF Private
  <2>10. CarriedInv'
    BY <2>1, CarriedKeeps DEF PlumbingInv
  <2> QED
    BY <2>2, <2>4, <2>7, <2>8, <2>9, <2>10, PrivateStep DEF Stages
<1> QED
  BY <1>1, <1>2

LEMMA OpenStdoutStep ==
  ASSUME PlumbingInv, NEW p \in Procs, OpenStdout(p)
  PROVE  PlumbingInv'
<1>1. CASE RedirectionFails(p)
  <2>1. Exit(p) /\ pc[p] # "none"
    BY <1>1, ShellIsNoCommand DEF RedirectionFails, OpenStdout
  <2> QED
    BY <2>1, ExitStep
<1>2. CASE ~RedirectionFails(p)
  <2>1. UNCHANGED <<line, plan, at, level, left, carried, lost>>
    BY <1>2 DEF OpenStdout, Replace, io
  <2>2. pc[p] = "stdout" /\ pc' = [pc EXCEPT ![p] = "dup2"]
    BY <1>2 DEF OpenStdout, Goto
  <2>3. /\ p # Shell /\ p \in Ids /\ Command(p) = CommandOf(p) /\ InPlan(p)
        /\ RedirectedIn(p)' = RedirectedIn(p) /\ RedirectedOut(p)' = RedirectedOut(p)
        /\ fds[p] \in [in : Descriptors, out : Descriptors, others : SUBSET Descriptors]
        /\ process[p] \in [in : Descriptors, out : Descriptors, next : Descriptors]
    BY <2>1, <2>2, ChildFacts
  <2>4. pc'[p] = "dup2"
    BY <2>2, <2>3 DEF PlumbingInv, TypeOK
  <2>5. /\ process[p].in = RedirectedIn(p) /\ process[p].out = PipeOut(p)
        /\ NoFd \notin fds[p].others
        /\ fds[p].in = Standard /\ fds[p].out = Standard
        /\ fds[p].others \subseteq lost \cup {process[p].in, process[p].out}
    BY <2>2 DEF PlumbingInv, ChildInv, ChildProcess, ChildDescriptors
  <2>6. /\ fds'[p].in = Standard /\ fds'[p].out = Standard
        /\ NoFd \notin fds'[p].others
        /\ fds'[p].others \subseteq lost \cup {process'[p].in, process'[p].out}
        /\ process'[p].in = RedirectedIn(p) /\ process'[p].out = RedirectedOut(p)
        /\ fds' = [fds EXCEPT ![p] = fds'[p]]
        /\ process' = [process EXCEPT ![p] = process'[p]]
    <3>1. CASE Command(p).out = NoFile
      <4>1. fds' = fds /\ process' = process
        BY <1>2, <3>1, CommandLineAssumption DEF OpenStdout, CommandLineAssumption
      <4>2. RedirectedOut(p) = PipeOut(p)
        BY <2>3, <3>1 DEF RedirectedOut
      <4> QED
        BY <2>3, <2>5, <4>1, <4>2 DEF PlumbingInv, TypeOK
    <3>2. CASE Command(p).out # NoFile
      <4>1. /\ Command(p).out \in Openable
            /\ fds' = [fds EXCEPT ![p].others = (@ \ {process[p].out}) \cup {OutFile(p)}]
            /\ process' = [process EXCEPT ![p] = [@ EXCEPT !["out"] = OutFile(p)]]
        BY <1>2, <3>2 DEF OpenStdout, Replace
      <4>2. RedirectedOut(p) = OutFile(p)
        BY <2>3, <3>2 DEF RedirectedOut
      <4>3. OutFile(p) # NoFd
        BY <2>3, <4>1, FilesAreDescriptors, KindsDiffer
      <4>4. /\ fds'[p] = [fds[p] EXCEPT !.others = (@ \ {process[p].out}) \cup {OutFile(p)}]
            /\ process'[p] = [process[p] EXCEPT !.out = OutFile(p)]
            /\ fds' = [fds EXCEPT ![p] = fds'[p]]
            /\ process' = [process EXCEPT ![p] = process'[p]]
        BY <2>3, <4>1 DEF PlumbingInv, TypeOK
      <4>5. /\ fds'[p].in = fds[p].in /\ fds'[p].out = fds[p].out
            /\ fds'[p].others = (fds[p].others \ {process[p].out}) \cup {OutFile(p)}
            /\ process'[p].out = OutFile(p) /\ process'[p].in = process[p].in
        BY <2>3, <4>4
      <4> QED
        BY <2>5, <4>2, <4>3, <4>4, <4>5
    <3> QED
      BY <3>1, <3>2
  <2>7. ChildInv(p)'
    BY <2>1, <2>3, <2>4, <2>6 DEF ChildInv, ChildProcess, ChildDescriptors
  <2>8. TypeOK'
    BY <2>3, RedirectionTypes DEF Redirect, PlumbingInv
  <2>9. Private(p)
    BY <2>1, <2>2, <2>4, <2>6 DEF Private
  <2>10. CarriedInv'
    BY <2>1, CarriedKeeps DEF PlumbingInv
  <2> QED
    BY <2>2, <2>4, <2>7, <2>8, <2>9, <2>10, PrivateStep DEF Stages
<1> QED
  BY <1>1, <1>2

(***************************************************************************)
(* dup2_stdio brings a command to what its line means.                     *)
(***************************************************************************)
LEMMA MovedIsMeant ==
  ASSUME PlanInv, NEW p \in Procs, InPlan(p)
  PROVE  /\ Moved(RedirectedIn(p), Standard) = MeantInput(p)
         /\ Moved(RedirectedOut(p), Standard) = MeantOutput(p)
<1>1. InFile(p)[1] = "file" /\ OutFile(p)[1] \in {"append", "write"} /\ NoFd[1] = "closed"
  BY DEF InFile, OutFile, NoFd
<1>2. InFile(p) # NoFd /\ OutFile(p) # NoFd
  BY <1>1
<1>3. p[2] \in 1..MaxCommands /\ (p[2] # 1 => Previous(p) \in Procs)
  BY Places
<1>4. p[2] > 1 <=> p[2] # 1
  BY <1>3, CommandLineAssumption DEF CommandLineAssumption
<1>5. Moved(RedirectedIn(p), Standard) = MeantInput(p)
  BY <1>2, <1>3, <1>4, KindsDiffer DEF RedirectedIn, PipeIn, MeantInput, Moved
<1>6. Moved(RedirectedOut(p), Standard) = MeantOutput(p)
  BY <1>2, KindsDiffer DEF RedirectedOut, PipeOut, MeantOutput, Moved
<1> QED
  BY <1>5, <1>6

LEMMA Dup2Step ==
  ASSUME PlumbingInv, NEW p \in Procs, Dup2(p)
  PROVE  PlumbingInv'
<1>1. p # Shell /\ p \in Ids
  BY ShellIsNoCommand
<1>2. /\ UNCHANGED <<line, plan, at, level, left, carried, lost>>
      /\ pc[p] = "dup2" /\ pc' = [pc EXCEPT ![p] = "run"]
      /\ fds' = [fds EXCEPT ![p] =
                   [in |-> Moved(process[p].in, @.in),
                    out |-> Moved(process[p].out, @.out),
                    others |-> @.others \ {process[p].in, process[p].out}]]
      /\ process' = [process EXCEPT ![p].in = NoFd, ![p].out = NoFd]
  BY <1>1 DEF Dup2, Goto, io
<1>3. InPlan(p) /\ MeantInput(p)' = MeantInput(p) /\ MeantOutput(p)' = MeantOutput(p)
  BY <1>2, ChildFacts
<1>4. /\ pc'[p] = "run"
      /\ fds'[p] = [in |-> Moved(process[p].in, fds[p].in),
                    out |-> Moved(process[p].out, fds[p].out),
                    others |-> fds[p].others \ {process[p].in, process[p].out}]
      /\ process' = [process EXCEPT ![p] = process'[p]]
  BY <1>1, <1>2 DEF PlumbingInv, TypeOK
<1>5. /\ fds[p].in = Standard /\ fds[p].out = Standard
      /\ NoFd \notin fds[p].others
      /\ fds[p].others \subseteq lost \cup {process[p].in, process[p].out}
      /\ process[p].in = RedirectedIn(p) /\ process[p].out = RedirectedOut(p)
  BY <1>2 DEF PlumbingInv, ChildInv, ChildProcess, ChildDescriptors
<1>6. fds'[p].in = MeantInput(p) /\ fds'[p].out = MeantOutput(p)
  BY <1>3, <1>4, <1>5, MovedIsMeant DEF PlumbingInv
<1>7. fds'[p].others \subseteq lost' /\ NoFd \notin fds'[p].others
  BY <1>2, <1>4, <1>5
<1>8. ChildInv(p)'
  BY <1>3, <1>4, <1>6, <1>7 DEF ChildInv, ChildProcess, ChildDescriptors
<1>9. TypeOK'
  BY <1>1, RedirectionTypes DEF Redirect, PlumbingInv
<1>10. Private(p)
  BY <1>2, <1>4 DEF Private
<1>11. CarriedInv'
  BY <1>2, CarriedKeeps DEF PlumbingInv
<1> QED
  BY <1>2, <1>4, <1>8, <1>9, <1>10, <1>11, PrivateStep DEF Stages

(***************************************************************************)
(* Reading and writing leave all descriptors where they are.               *)
(***************************************************************************)
LEMMA CopyStep ==
  ASSUME PlumbingInv, NEW p \in Procs, pc[p] = "run",
         UNCHANGED <<line, plan, at, pc, fds, process, lost>>,
         level' \in [Procs -> 0..PipeCapacity], left' \in [Procs -> 0..Amount],
         carried' \in [Procs -> BOOLEAN], CarriedInv'
  PROVE  PlumbingInv'
<1>1. p \in Ids
  BY ShellIsNoCommand
<1>2. TypeOK'
  BY DEF PlumbingInv, TypeOK
<1>3. ChildInv(p)'
  BY ChildKeeps DEF PlumbingInv
<1>4. Private(p)
  BY <1>1 DEF Private, PlumbingInv, TypeOK
<1> QED
  BY <1>2, <1>3, <1>4, PrivateStep DEF Stages

LEMMA ReadStep ==
  ASSUME PlumbingInv, NEW p \in Procs, Read(p)
  PROVE  PlumbingInv'
<1>1. /\ pc[p] = "run" /\ Reads(p)
      /\ carried' = [carried EXCEPT ![p] = TRUE]
      /\ UNCHANGED <<line, plan, at, pc, fds, process, lost>>
  BY DEF Read
<1>2. /\ level \in [Procs -> 0..PipeCapacity] /\ left \in [Procs -> 0..Amount]
      /\ carried \in [Procs -> BOOLEAN]
  BY DEF PlumbingInv, TypeOK
<1>3. level' \in [Procs -> 0..PipeCapacity] /\ left' \in [Procs -> 0..Amount]
  <2>1. CASE FromFile(p) /\ left' = [left EXCEPT ![p] = @ - 1] /\ UNCHANGED level
    <3>1. left[p] > 0 /\ left[p] \in 0..Amount
      BY <1>2, <2>1 DEF FromFile
    <3>2. left[p] - 1 \in 0..Amount
      BY <3>1, CommandLineAssumption DEF CommandLineAssumption
    <3> QED
      BY <1>2, <2>1, <3>2
  <2>2. CASE \E q \in Procs : /\ FromPipe(p, q)
                              /\ level[q] > 0
                              /\ level' = [level EXCEPT ![q] = @ - 1]
                              /\ UNCHANGED left
    <3>1. PICK q \in Procs : /\ level[q] > 0
                             /\ level' = [level EXCEPT ![q] = @ - 1]
                             /\ UNCHANGED left
      BY <2>2
    <3>2. level[q] - 1 \in 0..PipeCapacity
      BY <1>2, <3>1, CommandLineAssumption DEF CommandLineAssumption
    <3> QED
      BY <1>2, <3>1, <3>2
  <2> QED
    BY <2>1, <2>2 DEF Read
<1>4. carried' \in [Procs -> BOOLEAN]
  BY <1>1, <1>2
<1>5. CarriedInv'
  <2>1. \A q \in Procs : Reads(q)' = Reads(q)
    BY <1>1 DEF Reads, Name, Args, CommandOf
  <2> QED
    BY <1>1, <1>2, <2>1 DEF PlumbingInv, CarriedInv
<1> QED
  BY <1>1, <1>3, <1>4, <1>5, CopyStep

(***************************************************************************)
(* A command that copies its input has nothing else to give.               *)
(***************************************************************************)
LEMMA ReadersGiveNothing ==
  ASSUME NEW p, Reads(p), Name(p) \notin Heads
  PROVE  ~Gives(p)
<1>1. Name(p) \in Copiers /\ Len(Args(p)) = 1
  BY DEF Reads
<1>2. Name(p) \notin Sources
  BY <1>1, CommandLineAssumption DEF CommandLineAssumption
<1>3. ~\E n \in 2..Len(Args(p)) : Args(p)[n] \in Openable
  BY <1>1
<1> QED
  BY <1>2, <1>3 DEF Gives

LEMMA WriteStep ==
  ASSUME PlumbingInv, NEW p \in Procs, Write(p)
  PROVE  PlumbingInv'
<1>1. /\ pc[p] = "run" /\ HasOutput(p)
      /\ carried' = [carried EXCEPT ![p] = FALSE]
      /\ left' = IF Name(p) \in Heads THEN [left EXCEPT ![p] = 0]
                 ELSE IF Gives(p) THEN [left EXCEPT ![p] = @ - 1]
                 ELSE left
      /\ UNCHANGED <<line, plan, at, pc, fds, process, lost>>
  BY DEF Write
<1>2. /\ level \in [Procs -> 0..PipeCapacity] /\ left \in [Procs -> 0..Amount]
      /\ carried \in [Procs -> BOOLEAN]
  BY DEF PlumbingInv, TypeOK
<1>3. level' \in [Procs -> 0..PipeCapacity]
  <2>1. CASE UNCHANGED level
    BY <1>2, <2>1
  <2>2. CASE \E q \in Procs : /\ ToPipe(p, q)
                              /\ IsHeld(ReadEnd(q))
                              /\ level[q] < PipeCapacity
                              /\ level' = [level EXCEPT ![q] = @ + 1]
    <3>1. PICK q \in Procs : /\ level[q] < PipeCapacity
                             /\ level' = [level EXCEPT ![q] = @ + 1]
      BY <2>2
    <3>2. level[q] + 1 \in 0..PipeCapacity
      BY <1>2, <3>1, CommandLineAssumption DEF CommandLineAssumption
    <3> QED
      BY <1>2, <3>1, <3>2
  <2> QED
    BY <2>1, <2>2 DEF Write
<1>4. left' \in [Procs -> 0..Amount]
  <2>1. CASE Name(p) \in Heads
    <3>1. 0 \in 0..Amount
      BY CommandLineAssumption DEF CommandLineAssumption
    <3> QED
      BY <1>1, <1>2, <2>1, <3>1
  <2>2. CASE Name(p) \notin Heads /\ ~Gives(p)
    BY <1>1, <1>2, <2>2
  <2>3. CASE Name(p) \notin Heads /\ Gives(p)
    <3>1. ~carried[p]
      BY <2>3, ReadersGiveNothing DEF PlumbingInv, CarriedInv
    <3>2. left[p] > 0 /\ left[p] \in 0..Amount
      BY <1>1, <1>2, <3>1 DEF HasOutput
    <3>3. left[p] - 1 \in 0..Amount
      BY <3>2, CommandLineAssumption DEF CommandLineAssumption
    <3> QED
      BY <1>1, <1>2, <2>3, <3>3
  <2> QED
    BY <2>1, <2>2, <2>3
<1>5. carried' \in [Procs -> BOOLEAN]
  BY <1>1, <1>2
<1>6. CarriedInv'
  <2>1. \A q \in Procs : Reads(q)' = Reads(q)
    BY <1>1 DEF Reads, Name, Args, CommandOf
  <2> QED
    BY <1>1, <1>2, <2>1 DEF PlumbingInv, CarriedInv
<1> QED
  BY <1>1, <1>3, <1>4, <1>5, <1>6, CopyStep

LEMMA ChildStep ==
  ASSUME PlumbingInv, NEW p \in Procs, Child(p)
  PROVE  PlumbingInv'
<1>1. CASE BrokenPipe(p) \/ Finish(p)
  <2>1. pc[p] # "none" /\ Exit(p)
    BY <1>1 DEF BrokenPipe, Finish
  <2> QED
    BY <2>1, ExitStep
<1> QED
  BY <1>1, DetachStep, OpenStdinStep, OpenStdoutStep, Dup2Step, ReadStep, WriteStep
     DEF Child, Redirect

-----------------------------------------------------------------------------
(* The shell.                                                              *)

(***************************************************************************)
(* The shell's own steps leave the commands where they are.                *)
(***************************************************************************)
Alone ==
  /\ plan' = plan
  /\ carried' = carried
  /\ lost \subseteq lost'
  /\ \A p \in Procs : pc'[p] = pc[p] /\ fds'[p] = fds[p] /\ process'[p] = process[p]

Walks ==
  /\ pc'[Shell] \in (ShellLabels \ {"prompt"}) \cup RedirectLabels
  /\ at' = Shell \/ InPlan(at)'
  /\ pc'[Shell] \in AtCommand => at' # Shell

LEMMA AloneStep ==
  ASSUME PlumbingInv, Alone, Walks, TypeOK', ShellInv', LostInv'
  PROVE  PlumbingInv'
<1>1. pc'[Shell] # "prompt"
  BY DEF Walks, RedirectLabels
<1>2. \A p \in Procs : InPlan(p)' = InPlan(p)
  BY DEF Alone, InPlan
<1>3. FitsTheBounds(plan)'
  BY DEF Alone, FitsTheBounds, PlumbingInv, PlanInv
<1>4. PlanInv'
  BY <1>1, <1>2, <1>3 DEF PlumbingInv, PlanInv, Alone, Walks
<1>5. \A p \in Procs : ChildInv(p)'
  BY ChildKeeps DEF Alone, PlumbingInv
<1>6. CarriedInv'
  BY CarriedKeeps DEF Alone, PlumbingInv
<1> QED
  BY <1>4, <1>5, <1>6 DEF PlumbingInv

(***************************************************************************)
(* What the shell holds where it stands.                                   *)
(***************************************************************************)
LEMMA ShellFacts ==
  ASSUME PlumbingInv
  PROVE  /\ Shell \in Ids /\ Shell \notin Procs /\ Procs \subseteq Ids
         /\ fds[Shell] \in [in : Descriptors, out : Descriptors, others : SUBSET Descriptors]
         /\ process[Shell] \in [in : Descriptors, out : Descriptors, next : Descriptors]
         /\ pc[Shell] \in AtCommand => at \in Procs /\ InPlan(at)
<1>1. Shell \in Ids /\ Shell \notin Procs /\ Procs \subseteq Ids
  BY ShellIsNoCommand
<1>2. pc[Shell] \in AtCommand => at \in Procs /\ InPlan(at)
  BY DEF PlumbingInv, PlanInv, TypeOK, Ids
<1> QED
  BY <1>1, <1>2 DEF PlumbingInv, TypeOK

LEMMA ReadLineStep ==
  ASSUME PlumbingInv, NEW l \in Lines, ReadLine(l)
  PROVE  PlumbingInv'
<1>1. /\ pc[Shell] = "prompt" /\ plan' = Pipelines(l)
      /\ pc' = [pc EXCEPT ![Shell] = "next"]
      /\ UNCHANGED <<at, fds, process, level, left, carried, lost>>
  BY DEF ReadLine, Goto, io
<1>2. pc'[Shell] = "next" /\ \A p \in Procs : pc'[p] = pc[p]
  BY <1>1, ShellFacts DEF PlumbingInv, TypeOK
<1>3. at = Shell /\ \A p \in Procs : pc[p] = "none" /\ ~carried[p]
  BY <1>1 DEF PlumbingInv, PlanInv
<1>4. TypeOK'
  BY <1>1 DEF PlumbingInv, TypeOK, ShellLabels
<1>5. FitsTheBounds(plan)'
  <2>1. FitsTheBounds(Pipelines(l))
    BY CommandLineAssumption DEF CommandLineAssumption
  <2> QED
    BY <1>1, <2>1 DEF FitsTheBounds
<1>6. PlanInv'
  BY <1>1, <1>2, <1>3, <1>5 DEF PlanInv, AtCommand, ShellLabels, RedirectLabels
<1>7. ShellInv'
  BY <1>1, <1>2 DEF PlumbingInv, ShellInv, ShellProcess, ShellDescriptors, RedirectLabels
<1>8. \A p \in Procs : ChildInv(p)'
  BY <1>1, <1>2, <1>3 DEF PlumbingInv, ChildInv, ChildProcess, ChildDescriptors
<1>9. LostInv' /\ CarriedInv'
  BY <1>1, <1>3 DEF PlumbingInv, LostInv, CarriedInv, FileDescriptors
<1> QED
  BY <1>4, <1>6, <1>7, <1>8, <1>9 DEF PlumbingInv

LEMMA NextPipelineStep ==
  ASSUME PlumbingInv, NextPipeline
  PROVE  PlumbingInv'
<1>1. /\ pc[Shell] = "next"
      /\ process' = [process EXCEPT ![Shell] = NoProcess]
      /\ UNCHANGED <<line, plan, fds, level, left, carried, lost>>
  BY DEF NextPipeline, io
<1>2. fds[Shell].in = Standard /\ fds[Shell].out = Standard
  BY <1>1 DEF PlumbingInv, ShellInv
<1>3. NoFd \notin fds[Shell].others /\ fds[Shell].others \subseteq lost
  BY <1>1 DEF PlumbingInv, ShellInv, ShellDescriptors, RedirectLabels
<1>4. process'[Shell] = NoProcess /\ \A p \in Procs : process'[p] = process[p]
  BY <1>1, ShellFacts DEF PlumbingInv, TypeOK
<1>5. /\ process' \in [Ids -> [in : Descriptors, out : Descriptors, next : Descriptors]]
      /\ LostInv'
  <2>1. NoProcess \in [in : Descriptors, out : Descriptors, next : Descriptors]
    BY AllAreDescriptors DEF NoProcess
  <2> QED
    BY <1>1, <2>1 DEF PlumbingInv, TypeOK, LostInv, FileDescriptors
<1>6. CASE at[1] < Len(plan)
  <2> DEFINE label == IF IsSingleBuiltin(plan[at[1] + 1]) THEN "backup" ELSE "setup"
  <2>1. at' = <<at[1] + 1, 1>> /\ pc' = [pc EXCEPT ![Shell] = label]
    BY <1>6 DEF NextPipeline, Goto
  <2>2. label \in {"backup", "setup"}
    OBVIOUS
  <2> HIDE DEF label
  <2>3. pc'[Shell] = label /\ \A p \in Procs : pc'[p] = pc[p]
    BY <2>1, ShellFacts DEF PlumbingInv, TypeOK
  <2>4. at[1] \in 0..MaxPipelines
    <3>1. Shell[1] = 0 /\ \A p \in Procs : p[1] \in 1..MaxPipelines
      BY DEF Shell, Procs
    <3>2. at = Shell \/ at \in Procs
      BY DEF PlumbingInv, TypeOK, Ids
    <3> QED
      BY <3>1, <3>2, CommandLineAssumption DEF CommandLineAssumption
  <2>5. at'[1] \in 1..Len(plan) /\ at'[2] = 1
    <3> DEFINE n == Len(plan)
    <3>1. n \in 0..MaxPipelines /\ MaxPipelines \in Nat
      BY CommandLineAssumption
         DEF PlumbingInv, PlanInv, FitsTheBounds, CommandLineAssumption
    <3>2. at[1] < n
      BY <1>6
    <3> HIDE DEF n
    <3>3. at[1] + 1 \in 1..n
      BY <2>4, <3>1, <3>2
    <3> QED
      BY <2>1, <3>3 DEF n
  <2>6. InPlan(at)'
    <3>1. Len(plan[at'[1]].commands) \in 1..MaxCommands
      BY <2>5 DEF PlumbingInv, PlanInv, FitsTheBounds
    <3>2. at'[2] \in 1..Len(plan[at'[1]].commands)
      BY <2>5, <3>1, CommandLineAssumption DEF CommandLineAssumption
    <3> QED
      BY <1>1, <2>5, <3>2 DEF InPlan
  <2>7. at' \in Procs
    <3>1. FitsTheBounds(plan) /\ at' \in Nat \X Nat
      BY <2>1, <2>4 DEF PlumbingInv, PlanInv
    <3>2. at'[1] \in 1..Len(plan) /\ at'[2] \in 1..Len(plan[at'[1]].commands)
      BY <1>1, <2>6 DEF InPlan
    <3> QED
      BY <3>1, <3>2, PlacesFit DEF InPlan
  <2>8. Walks
    BY <2>2, <2>3, <2>6, <2>7, ShellFacts DEF Walks, ShellLabels
  <2>9. Alone
    BY <1>1, <1>4, <2>3 DEF Alone
  <2>10. PipeIn(at)' = NoFd
    BY <2>5 DEF PipeIn
  <2>11. ShellInv'
    BY <1>1, <1>2, <1>3, <1>4, <2>2, <2>3, <2>10
       DEF ShellInv, ShellProcess, ShellDescriptors, NoProcess, RedirectLabels
  <2>12. TypeOK'
    BY <1>1, <1>5, <2>1, <2>2, <2>7, ShellFacts DEF PlumbingInv, TypeOK, ShellLabels
  <2> QED
    BY <1>5, <2>8, <2>9, <2>11, <2>12, AloneStep
<1>7. CASE ~(at[1] < Len(plan))
  <2>1. at' = at /\ pc' = [pc EXCEPT ![Shell] = "done"]
    BY <1>7 DEF NextPipeline, Goto
  <2>2. pc'[Shell] = "done" /\ \A p \in Procs : pc'[p] = pc[p]
    BY <2>1, ShellFacts DEF PlumbingInv, TypeOK
  <2>3. Walks
    BY <1>1, <2>1, <2>2
       DEF Walks, ShellLabels, PlumbingInv, PlanInv, InPlan, AtCommand, RedirectLabels
  <2>4. Alone
    BY <1>1, <1>4, <2>2 DEF Alone
  <2>5. ShellInv'
    BY <1>1, <1>2, <1>3, <1>4, <2>2
       DEF ShellInv, ShellProcess, ShellDescriptors, RedirectLabels
  <2>6. TypeOK'
    BY <1>1, <1>5, <2>1, ShellFacts DEF PlumbingInv, TypeOK, ShellLabels
  <2> QED
    BY <1>5, <2>3, <2>4, <2>5, <2>6, AloneStep
<1> QED
  BY <1>6, <1>7

LEMMA SetupPipeStep ==
  ASSUME PlumbingInv, SetupPipe
  PROVE  PlumbingInv'
<1>1. /\ pc[Shell] = "setup" /\ pc' = [pc EXCEPT ![Shell] = "fork"]
      /\ UNCHANGED <<line, plan, at, level, left, carried, lost>>
  BY DEF SetupPipe, Goto, io
<1>2. at \in Procs /\ InPlan(at)
  BY <1>1, ShellFacts DEF AtCommand
<1>3. pc'[Shell] = "fork" /\ \A p \in Procs : pc'[p] = pc[p]
  BY <1>1, ShellFacts DEF PlumbingInv, TypeOK
<1>4. process[Shell] = [in |-> PipeIn(at), out |-> NoFd, next |-> NoFd]
  BY <1>1 DEF PlumbingInv, ShellInv, ShellProcess, NoProcess
<1>5. /\ fds[Shell].in = Standard /\ fds[Shell].out = Standard
      /\ NoFd \notin fds[Shell].others
      /\ fds[Shell].others \subseteq lost \cup {PipeIn(at)}
  BY <1>1, <1>4 DEF PlumbingInv, ShellInv, ShellDescriptors
<1>6. /\ \A p \in Procs : fds'[p] = fds[p] /\ process'[p] = process[p]
      /\ fds'[Shell].in = Standard /\ fds'[Shell].out = Standard
      /\ NoFd \notin fds'[Shell].others
      /\ fds'[Shell].others \subseteq lost \cup {PipeIn(at), PipeOut(at), PipeNext(at)}
      /\ process'[Shell] = [in |-> PipeIn(at), out |-> PipeOut(at), next |-> PipeNext(at)]
      /\ fds' \in [Ids -> [in : Descriptors, out : Descriptors, others : SUBSET Descriptors]]
      /\ process' \in [Ids -> [in : Descriptors, out : Descriptors, next : Descriptors]]
  <2>1. CASE IsLast(at)
    <3>1. fds' = fds /\ process' = process
      BY <2>1 DEF SetupPipe
    <3>2. PipeOut(at) = NoFd /\ PipeNext(at) = NoFd
      BY <2>1 DEF PipeOut, PipeNext
    <3> QED
      BY <1>4, <1>5, <3>1, <3>2 DEF PlumbingInv, TypeOK
  <2>2. CASE ~IsLast(at)
    <3>1. /\ fds' = [fds EXCEPT ![Shell].others = @ \cup {ReadEnd(at), WriteEnd(at)}]
          /\ process' = [process EXCEPT ![Shell].out = WriteEnd(at),
                                        ![Shell].next = ReadEnd(at)]
      BY <2>2 DEF SetupPipe
    <3>2. PipeOut(at) = WriteEnd(at) /\ PipeNext(at) = ReadEnd(at)
      BY <2>2 DEF PipeOut, PipeNext
    <3>3. /\ ReadEnd(at) # NoFd /\ WriteEnd(at) # NoFd
          /\ ReadEnd(at) \in Descriptors /\ WriteEnd(at) \in Descriptors
      BY <1>2, KindsDiffer, AllAreDescriptors
    <3>4. /\ fds'[Shell] = [fds[Shell] EXCEPT !.others = @ \cup {ReadEnd(at), WriteEnd(at)}]
          /\ process'[Shell] = [process[Shell] EXCEPT !.out = WriteEnd(at),
                                                      !.next = ReadEnd(at)]
          /\ \A p \in Procs : fds'[p] = fds[p] /\ process'[p] = process[p]
      BY <3>1, ShellFacts DEF PlumbingInv, TypeOK
    <3>5. /\ fds'[Shell].in = fds[Shell].in /\ fds'[Shell].out = fds[Shell].out
          /\ fds'[Shell].others = fds[Shell].others \cup {ReadEnd(at), WriteEnd(at)}
      BY <3>4, ShellFacts
    <3>6. fds' \in [Ids -> [in : Descriptors, out : Descriptors,
                            others : SUBSET Descriptors]]
      BY <3>1, <3>3 DEF PlumbingInv, TypeOK
    <3>7. process' \in [Ids -> [in : Descriptors, out : Descriptors, next : Descriptors]]
      BY <3>1, <3>3 DEF PlumbingInv, TypeOK
    <3>8. process'[Shell] = [in |-> PipeIn(at), out |-> WriteEnd(at), next |-> ReadEnd(at)]
      <4>1. process'[Shell] = [process[Shell] EXCEPT !.out = WriteEnd(at),
                                                     !.next = ReadEnd(at)]
        BY <3>4
      <4>2. process[Shell] \in [in : Descriptors, out : Descriptors, next : Descriptors]
        BY ShellFacts
      <4>3. /\ process'[Shell].in = process[Shell].in
            /\ process'[Shell].out = WriteEnd(at) /\ process'[Shell].next = ReadEnd(at)
            /\ process'[Shell] \in [in : Descriptors, out : Descriptors, next : Descriptors]
        BY <3>3, <4>1, <4>2
      <4>4. process[Shell].in = PipeIn(at)
        BY <1>4
      <4> QED
        BY <4>3, <4>4
    <3> QED
      BY <1>5, <3>2, <3>3, <3>4, <3>5, <3>6, <3>7, <3>8
  <2> QED
    BY <2>1, <2>2
<1>7. Walks
  BY <1>1, <1>2, <1>3, ShellFacts DEF Walks, ShellLabels, InPlan
<1>8. Alone
  BY <1>1, <1>3, <1>6 DEF Alone
<1>9. /\ PipeIn(at)' = PipeIn(at) /\ PipeOut(at)' = PipeOut(at)
      /\ PipeNext(at)' = PipeNext(at)
  BY <1>1 DEF PipeIn, PipeOut, PipeNext, IsLast
<1>10. ShellInv'
  BY <1>1, <1>3, <1>6, <1>9
     DEF ShellInv, ShellProcess, ShellDescriptors, RedirectLabels
<1>11. TypeOK'
  BY <1>1, <1>6 DEF PlumbingInv, TypeOK, ShellLabels
<1>12. LostInv'
  BY <1>1 DEF PlumbingInv, LostInv, FileDescriptors
<1> QED
  BY <1>7, <1>8, <1>10, <1>11, <1>12, AloneStep

LEMMA PipeFailsStep ==
  ASSUME PlumbingInv, PipeFails
  PROVE  PlumbingInv'
<1>1. /\ pc[Shell] = "setup" /\ pc' = [pc EXCEPT ![Shell] = "abort"]
      /\ UNCHANGED <<line, plan, at, fds, process, level, left, carried, lost>>
  BY DEF PipeFails, Goto, io
<1>2. at \in Procs /\ InPlan(at)
  BY <1>1, ShellFacts DEF AtCommand
<1>3. pc'[Shell] = "abort" /\ \A p \in Procs : pc'[p] = pc[p]
  BY <1>1, ShellFacts DEF PlumbingInv, TypeOK
<1>4. Walks
  BY <1>1, <1>2, <1>3, ShellFacts DEF Walks, ShellLabels, InPlan
<1>5. Alone
  BY <1>1, <1>3 DEF Alone
<1>6. PipeIn(at)' = PipeIn(at)
  BY <1>1 DEF PipeIn
<1>7. ShellInv'
  BY <1>1, <1>3, <1>6 DEF PlumbingInv, ShellInv, ShellProcess, ShellDescriptors
<1>8. TypeOK' /\ LostInv'
  BY <1>1 DEF PlumbingInv, TypeOK, ShellLabels, LostInv, FileDescriptors
<1> QED
  BY <1>4, <1>5, <1>7, <1>8, AloneStep

(***************************************************************************)
(* The end the shell loses when it gives a pipeline up is a reading end.   *)
(***************************************************************************)
LEMMA AbortStep ==
  ASSUME PlumbingInv, Abort
  PROVE  PlumbingInv'
<1>1. /\ pc[Shell] = "abort"
      /\ pc' = [p \in Ids |-> IF p = Shell THEN "next"
                              ELSE IF InPipeline(p) THEN "none" ELSE pc[p]]
      /\ fds' = [p \in Ids |-> IF p # Shell /\ InPipeline(p) THEN NoDescriptors ELSE fds[p]]
      /\ lost' = lost \cup ({process[Shell].in} \ {NoFd})
      /\ UNCHANGED <<line, plan, at, process, level, left, carried>>
  BY DEF Abort, io
<1>2. at \in Procs /\ InPlan(at)
  BY <1>1, ShellFacts DEF AtCommand
<1>3. process[Shell] = [in |-> PipeIn(at), out |-> NoFd, next |-> NoFd]
  BY <1>1 DEF PlumbingInv, ShellInv, ShellProcess, NoProcess
<1>4. PipeIn(at) \in {NoFd} \cup ReadEnds /\ PipeIn(at) \in Descriptors
  BY <1>2, PipeEnds DEF PlumbingInv
<1>5. /\ fds'[Shell] = fds[Shell] /\ pc'[Shell] = "next"
      /\ \A p \in Procs : \/ pc'[p] = pc[p] /\ fds'[p] = fds[p]
                          \/ pc'[p] = "none" /\ fds'[p] = NoDescriptors
  BY <1>1, ShellFacts
<1>6. /\ fds[Shell].in = Standard /\ fds[Shell].out = Standard
      /\ NoFd \notin fds[Shell].others
      /\ fds[Shell].others \subseteq lost \cup {process[Shell].in}
  BY <1>1 DEF PlumbingInv, ShellInv, ShellDescriptors
<1>7. PlanInv'
  <2>1. \A p \in Procs : pc'[p] # "none" => pc'[p] = pc[p]
    BY <1>5
  <2>2. \A p \in Procs : InPlan(p)' = InPlan(p)
    BY <1>1 DEF InPlan
  <2>3. FitsTheBounds(plan)' /\ (at = Shell \/ InPlan(at))'
    BY <1>1, <1>2 DEF PlumbingInv, PlanInv, FitsTheBounds, InPlan
  <2> QED
    BY <1>5, <2>1, <2>2, <2>3
       DEF PlumbingInv, PlanInv, ShellLabels, AtCommand, RedirectLabels
<1>8. fds'[Shell].others \subseteq lost'
  BY <1>1, <1>5, <1>6
<1>9. ShellInv'
  BY <1>5, <1>6, <1>8 DEF ShellInv, ShellProcess, ShellDescriptors, RedirectLabels
<1>10. ASSUME NEW p \in Procs
       PROVE  ChildInv(p)'
  <2>1. CASE pc'[p] = pc[p] /\ fds'[p] = fds[p]
    BY <1>1, <2>1, ChildKeeps DEF PlumbingInv
  <2>2. CASE pc'[p] = "none" /\ fds'[p] = NoDescriptors
    BY <2>2 DEF ChildInv, ChildProcess, ChildDescriptors, NoDescriptors
  <2> QED
    BY <1>5, <2>1, <2>2
<1>11. LostInv'
  BY <1>1, <1>3, <1>4 DEF PlumbingInv, LostInv, FileDescriptors
<1>12. CarriedInv'
  BY <1>1, CarriedKeeps DEF PlumbingInv
<1>13. TypeOK'
  <2>1. pc' \in [Ids -> ShellLabels \cup RedirectLabels \cup {"none", "detach", "run"}]
    BY <1>1 DEF PlumbingInv, TypeOK, ShellLabels
  <2>2. fds' \in [Ids -> [in : Descriptors, out : Descriptors, others : SUBSET Descriptors]]
    BY <1>1, AllAreDescriptors DEF PlumbingInv, TypeOK, NoDescriptors
  <2>3. lost' \subseteq Descriptors
    BY <1>1, <1>3, <1>4 DEF PlumbingInv, TypeOK
  <2> QED
    BY <1>1, <2>1, <2>2, <2>3 DEF PlumbingInv, TypeOK
<1> QED
  BY <1>7, <1>9, <1>10, <1>11, <1>12, <1>13 DEF PlumbingInv

(***************************************************************************)
(* A child starts with what the shell has open and with its Process.       *)
(***************************************************************************)
LEMMA ForkStep ==
  ASSUME PlumbingInv, Fork
  PROVE  PlumbingInv'
<1>1. /\ pc[Shell] = "fork" /\ pc' = [pc EXCEPT ![Shell] = "close", ![at] = "detach"]
      /\ fds' = [fds EXCEPT ![at] = fds[Shell]]
      /\ process' = [process EXCEPT ![at] = process[Shell]]
      /\ UNCHANGED <<line, plan, at, level, left, carried, lost>>
  BY DEF Fork, io
<1>2. at \in Procs /\ InPlan(at) /\ at # Shell /\ at \in Ids
  BY <1>1, ShellFacts DEF AtCommand
<1>3. /\ pc'[Shell] = "close" /\ fds'[Shell] = fds[Shell]
      /\ process'[Shell] = process[Shell]
      /\ pc'[at] = "detach" /\ fds'[at] = fds[Shell] /\ process'[at] = process[Shell]
      /\ \A p \in Procs \ {at} :
           pc'[p] = pc[p] /\ fds'[p] = fds[p] /\ process'[p] = process[p]
  BY <1>1, <1>2, ShellFacts DEF PlumbingInv, TypeOK
<1>4. /\ process[Shell] =
           [in |-> PipeIn(at), out |-> PipeOut(at), next |-> PipeNext(at)]
      /\ fds[Shell].in = Standard /\ fds[Shell].out = Standard
      /\ NoFd \notin fds[Shell].others
      /\ fds[Shell].others \subseteq
           lost \cup {process[Shell].in, process[Shell].out, process[Shell].next}
  BY <1>1 DEF PlumbingInv, ShellInv, ShellProcess, ShellDescriptors
<1>5. /\ PipeIn(at)' = PipeIn(at) /\ PipeOut(at)' = PipeOut(at)
      /\ PipeNext(at)' = PipeNext(at)
  BY <1>1 DEF PipeIn, PipeOut, PipeNext, IsLast
<1>6. PlanInv'
  <2>1. \A p \in Procs : InPlan(p)' = InPlan(p)
    BY <1>1 DEF InPlan
  <2>2. FitsTheBounds(plan)'
    BY <1>1 DEF PlumbingInv, PlanInv, FitsTheBounds
  <2> QED
    BY <1>1, <1>2, <1>3, <2>1, <2>2
       DEF PlumbingInv, PlanInv, ShellLabels, Stages
<1>7. ShellInv'
  BY <1>1, <1>3, <1>4, <1>5 DEF ShellInv, ShellProcess, ShellDescriptors, RedirectLabels
<1>8. ASSUME NEW p \in Procs
      PROVE  ChildInv(p)'
  <2>1. CASE p # at
    BY <1>1, <1>3, <2>1, ChildKeeps DEF PlumbingInv
  <2>2. CASE p = at
    <3>1. /\ PipeIn(p)' = PipeIn(at) /\ PipeOut(p)' = PipeOut(at)
          /\ PipeNext(p)' = PipeNext(at)
      BY <1>1, <2>2 DEF PipeIn, PipeOut, PipeNext, IsLast
    <3> QED
      BY <1>1, <1>3, <1>4, <2>2, <3>1 DEF ChildInv, ChildProcess, ChildDescriptors
  <2> QED
    BY <2>1, <2>2
<1>9. TypeOK'
  BY <1>1, <1>2, ShellFacts DEF PlumbingInv, TypeOK, ShellLabels
<1>10. LostInv' /\ CarriedInv'
  BY <1>1, CarriedKeeps DEF PlumbingInv, LostInv, FileDescriptors
<1> QED
  BY <1>6, <1>7, <1>8, <1>9, <1>10 DEF PlumbingInv

(***************************************************************************)
(* After a command the shell keeps the read end for the next one, and      *)
(* after the last one nothing.                                             *)
(***************************************************************************)
LEMMA CloseEndsStep ==
  ASSUME PlumbingInv, CloseEnds
  PROVE  PlumbingInv'
<1>1. /\ pc[Shell] = "close"
      /\ fds' = [fds EXCEPT ![Shell].others =
                   @ \ ({process[Shell].in, process[Shell].out} \ {process[Shell].next})]
      /\ process' = [process EXCEPT
                       ![Shell] = [NoProcess EXCEPT !.in = process[Shell].next]]
      /\ UNCHANGED <<line, plan, level, left, carried, lost>>
  BY DEF CloseEnds, io, ParentKeeps
<1>2. at \in Procs /\ InPlan(at)
  BY <1>1, ShellFacts DEF AtCommand
<1>3. process[Shell] = [in |-> PipeIn(at), out |-> PipeOut(at), next |-> PipeNext(at)]
  BY <1>1 DEF PlumbingInv, ShellInv, ShellProcess
<1>4. /\ fds[Shell].in = Standard /\ fds[Shell].out = Standard
      /\ NoFd \notin fds[Shell].others
      /\ fds[Shell].others \subseteq
           lost \cup {process[Shell].in, process[Shell].out, process[Shell].next}
  BY <1>1 DEF PlumbingInv, ShellInv, ShellDescriptors
<1>5. /\ fds'[Shell] = [fds[Shell] EXCEPT !.others =
            @ \ ({process[Shell].in, process[Shell].out} \ {process[Shell].next})]
      /\ process'[Shell] = [NoProcess EXCEPT !.in = process[Shell].next]
      /\ \A p \in Procs : fds'[p] = fds[p] /\ process'[p] = process[p]
  BY <1>1, ShellFacts DEF PlumbingInv, TypeOK
<1>6. /\ fds'[Shell].in = fds[Shell].in /\ fds'[Shell].out = fds[Shell].out
      /\ fds'[Shell].others = fds[Shell].others
            \ ({process[Shell].in, process[Shell].out} \ {process[Shell].next})
  BY <1>5, ShellFacts
<1>7. process[Shell].next = PipeNext(at)
  BY <1>3
<1>8. process'[Shell] = [in |-> PipeNext(at), out |-> NoFd, next |-> NoFd]
  BY <1>5, <1>7 DEF NoProcess
<1>9. fds'[Shell].others \subseteq lost \cup {PipeNext(at)}
  BY <1>4, <1>6, <1>7
<1>10. /\ fds' \in [Ids -> [in : Descriptors, out : Descriptors,
                            others : SUBSET Descriptors]]
       /\ process' \in [Ids -> [in : Descriptors, out : Descriptors, next : Descriptors]]
  <2>1. [in |-> PipeNext(at), out |-> NoFd, next |-> NoFd]
          \in [in : Descriptors, out : Descriptors, next : Descriptors]
    BY <1>2, PipeEnds, AllAreDescriptors DEF PlumbingInv
  <2>2. process' = [process EXCEPT ![Shell] = process'[Shell]]
    BY <1>1, <1>5
  <2>3. process' \in [Ids -> [in : Descriptors, out : Descriptors, next : Descriptors]]
    BY <1>8, <2>1, <2>2 DEF PlumbingInv, TypeOK
  <2> QED
    BY <1>1, <2>3 DEF PlumbingInv, TypeOK
<1>11. LostInv'
  BY <1>1 DEF PlumbingInv, LostInv, FileDescriptors
<1>12. CASE IsLast(at)
  <2> DEFINE label == IF Pipeline.background THEN "next" ELSE "wait"
  <2>1. at' = at /\ pc' = [pc EXCEPT ![Shell] = label]
    BY <1>12 DEF CloseEnds, Goto
  <2>2. label \in {"next", "wait"}
    OBVIOUS
  <2> HIDE DEF label
  <2>3. pc'[Shell] = label /\ \A p \in Procs : pc'[p] = pc[p]
    BY <2>1, ShellFacts DEF PlumbingInv, TypeOK
  <2>4. Walks
    BY <1>1, <1>2, <2>1, <2>2, <2>3, ShellFacts DEF Walks, ShellLabels, InPlan
  <2>5. Alone
    BY <1>1, <1>5, <2>3 DEF Alone
  <2>6. PipeNext(at) = NoFd
    BY <1>12 DEF PipeNext
  <2>7. ShellInv'
    BY <1>1, <1>4, <1>6, <1>9, <2>2, <2>3, <2>6
       DEF ShellInv, ShellProcess, ShellDescriptors, RedirectLabels
  <2>8. TypeOK'
    BY <1>1, <1>10, <2>1, <2>2 DEF PlumbingInv, TypeOK, ShellLabels
  <2> QED
    BY <1>11, <2>4, <2>5, <2>7, <2>8, AloneStep
<1>13. CASE ~IsLast(at)
  <2>1. at' = <<at[1], at[2] + 1>> /\ pc' = [pc EXCEPT ![Shell] = "setup"]
    BY <1>13 DEF CloseEnds, Goto
  <2>2. pc'[Shell] = "setup" /\ \A p \in Procs : pc'[p] = pc[p]
    BY <2>1, ShellFacts DEF PlumbingInv, TypeOK
  <2>3. at[1] \in Nat /\ at[2] \in Nat /\ at[2] > 0
    BY <1>2, CommandLineAssumption DEF Procs, CommandLineAssumption
  <2>4. at'[1] = at[1] /\ at'[2] = at[2] + 1 /\ at'[2] # 1
    BY <2>1, <2>3
  <2>5. at'[2] \in 1..Len(plan[at'[1]].commands)
    BY <1>2, <1>13, <2>4, Places DEF PlumbingInv
  <2>6. InPlan(at)'
    BY <1>1, <1>2, <2>4, <2>5 DEF InPlan
  <2>7. at' \in Procs
    <3>1. FitsTheBounds(plan) /\ at' \in Nat \X Nat
      BY <2>1, <2>3 DEF PlumbingInv, PlanInv
    <3>2. at'[1] \in 1..Len(plan) /\ at'[2] \in 1..Len(plan[at'[1]].commands)
      BY <1>1, <2>6 DEF InPlan
    <3> QED
      BY <3>1, <3>2, PlacesFit DEF InPlan
  <2>8. Walks
    BY <2>2, <2>6, <2>7, ShellFacts DEF Walks, ShellLabels
  <2>9. Alone
    BY <1>1, <1>5, <2>2 DEF Alone
  <2>10. PipeIn(at)' = PipeNext(at)
    <3>1. PipeIn(at)' = ReadEnd(Previous(at))'
      BY <2>4 DEF PipeIn
    <3>2. Previous(at)' = <<at[1], at[2]>>
      BY <2>3, <2>4 DEF Previous
    <3>3. PipeNext(at) = ReadEnd(at)
      BY <1>13 DEF PipeNext
    <3> QED
      BY <3>1, <3>2, <3>3 DEF ReadEnd
  <2>11. ShellInv'
    BY <1>1, <1>4, <1>6, <1>8, <1>9, <2>2, <2>10
       DEF ShellInv, ShellProcess, ShellDescriptors, RedirectLabels, NoProcess
  <2>12. TypeOK'
    BY <1>1, <1>10, <2>1, <2>7, ShellFacts DEF PlumbingInv, TypeOK, ShellLabels
  <2> QED
    BY <1>11, <2>8, <2>9, <2>11, <2>12, AloneStep
<1> QED
  BY <1>12, <1>13

LEMMA WaitOverStep ==
  ASSUME PlumbingInv, WaitOver
  PROVE  PlumbingInv'
<1>1. /\ pc[Shell] = "wait" /\ pc' = [pc EXCEPT ![Shell] = "next"]
      /\ UNCHANGED <<line, plan, at, fds, process, level, left, carried, lost>>
  BY DEF WaitOver, Goto, io
<1>2. pc'[Shell] = "next" /\ \A p \in Procs : pc'[p] = pc[p]
  BY <1>1, ShellFacts DEF PlumbingInv, TypeOK
<1>3. Walks
  BY <1>1, <1>2, ShellFacts DEF Walks, ShellLabels, InPlan, AtCommand, RedirectLabels
<1>4. Alone
  BY <1>1, <1>2 DEF Alone
<1>5. ShellInv'
  BY <1>1, <1>2
     DEF PlumbingInv, ShellInv, ShellProcess, ShellDescriptors, RedirectLabels
<1>6. TypeOK' /\ LostInv'
  BY <1>1 DEF PlumbingInv, TypeOK, ShellLabels, LostInv, FileDescriptors
<1> QED
  BY <1>3, <1>4, <1>5, <1>6, AloneStep

LEMMA BackupStep ==
  ASSUME PlumbingInv, Backup
  PROVE  PlumbingInv'
<1>1. /\ pc[Shell] = "backup" /\ pc' = [pc EXCEPT ![Shell] = "stdin"]
      /\ fds' = [fds EXCEPT ![Shell].others = @ \cup Backups]
      /\ UNCHANGED <<line, plan, at, process, level, left, carried, lost>>
  BY DEF Backup, Goto, io
<1>2. at \in Procs /\ InPlan(at)
  BY <1>1, ShellFacts DEF AtCommand
<1>3. pc'[Shell] = "stdin" /\ \A p \in Procs : pc'[p] = pc[p]
  BY <1>1, ShellFacts DEF PlumbingInv, TypeOK
<1>4. /\ fds'[Shell] = [fds[Shell] EXCEPT !.others = @ \cup Backups]
      /\ \A p \in Procs : fds'[p] = fds[p]
  BY <1>1, ShellFacts DEF PlumbingInv, TypeOK
<1>5. /\ fds'[Shell].in = fds[Shell].in /\ fds'[Shell].out = fds[Shell].out
      /\ fds'[Shell].others = fds[Shell].others \cup Backups
  BY <1>4, ShellFacts
<1>6. Walks
  BY <1>1, <1>2, <1>3, ShellFacts DEF Walks, RedirectLabels, InPlan
<1>7. Alone
  BY <1>1, <1>3, <1>4 DEF Alone
<1>8. /\ fds[Shell].in = Standard /\ fds[Shell].out = Standard
      /\ NoFd \notin fds[Shell].others /\ fds[Shell].others \subseteq lost
      /\ process[Shell] = NoProcess
  BY <1>1 DEF PlumbingInv, ShellInv, ShellProcess, ShellDescriptors
<1>9. ShellInv'
  BY <1>1, <1>3, <1>5, <1>8, KindsDiffer
     DEF ShellInv, ShellProcess, ShellDescriptors, RedirectLabels
<1>10. TypeOK' /\ LostInv'
  BY <1>1, AllAreDescriptors, ZenonT(60)
     DEF PlumbingInv, TypeOK, RedirectLabels, LostInv, FileDescriptors
<1> QED
  BY <1>6, <1>7, <1>9, <1>10, AloneStep

LEMMA RestoreStep ==
  ASSUME PlumbingInv, Restore
  PROVE  PlumbingInv'
<1>1. /\ pc[Shell] = "restore" /\ pc' = [pc EXCEPT ![Shell] = "next"]
      /\ fds' = [fds EXCEPT ![Shell] =
                   [OnlyStandard EXCEPT !.others = fds[Shell].others \ Backups]]
      /\ lost' = lost \cup ({process[Shell].in, process[Shell].out} \ {NoFd})
      /\ UNCHANGED <<line, plan, at, process, level, left, carried>>
  BY DEF Restore, Goto, io
<1>2. at \in Procs /\ InPlan(at)
  BY <1>1, ShellFacts DEF AtCommand
<1>3. pc'[Shell] = "next" /\ \A p \in Procs : pc'[p] = pc[p]
  BY <1>1, ShellFacts DEF PlumbingInv, TypeOK
<1>4. /\ fds'[Shell] = [in |-> Standard, out |-> Standard,
                        others |-> fds[Shell].others \ Backups]
      /\ \A p \in Procs : fds'[p] = fds[p]
  BY <1>1, ShellFacts DEF PlumbingInv, TypeOK, OnlyStandard
<1>5. /\ process[Shell].in \in {NoFd} \cup FileDescriptors
      /\ process[Shell].out \in {NoFd} \cup FileDescriptors
      /\ NoFd \notin fds[Shell].others
      /\ fds[Shell].others \subseteq
           lost \cup Backups \cup {process[Shell].in, process[Shell].out}
  BY <1>1 DEF PlumbingInv, ShellInv, ShellProcess, ShellDescriptors
<1>6. Walks
  BY <1>1, <1>2, <1>3, ShellFacts DEF Walks, ShellLabels, InPlan
<1>7. Alone
  BY <1>1, <1>3, <1>4 DEF Alone
<1>8. fds'[Shell].others \subseteq lost' /\ NoFd \notin fds'[Shell].others
  BY <1>1, <1>4, <1>5
<1>9. ShellInv'
  BY <1>3, <1>4, <1>8 DEF ShellInv, ShellProcess, ShellDescriptors, RedirectLabels
<1>10. LostInv'
  BY <1>1, <1>5 DEF PlumbingInv, LostInv, FileDescriptors
<1>11. TypeOK'
  <2>1. fds' \in [Ids -> [in : Descriptors, out : Descriptors, others : SUBSET Descriptors]]
    BY <1>1, AllAreDescriptors DEF PlumbingInv, TypeOK, OnlyStandard
  <2>2. lost' \subseteq Descriptors
    BY <1>1, ShellFacts DEF PlumbingInv, TypeOK
  <2> QED
    BY <1>1, <2>1, <2>2 DEF PlumbingInv, TypeOK, ShellLabels
<1> QED
  BY <1>6, <1>7, <1>9, <1>10, <1>11, AloneStep

(***************************************************************************)
(* The shell redirects itself for a command of its own.                    *)
(***************************************************************************)
LEMMA ShellRedirects ==
  ASSUME PlumbingInv, Redirect(Shell)
  PROVE  PlumbingInv'
<1>1. /\ pc[Shell] \in RedirectLabels
      /\ UNCHANGED <<line, plan, at, level, left, carried, lost>>
  BY DEF Redirect, OpenStdin, OpenStdout, Dup2, Replace, RedirectionFails, io,
         RedirectLabels
<1>2. at \in Procs /\ InPlan(at)
  BY <1>1, ShellFacts DEF AtCommand
<1>3. TypeOK'
  BY <1>2, ShellFacts, RedirectionTypes DEF PlumbingInv
<1>4. LostInv'
  BY <1>1 DEF PlumbingInv, LostInv, FileDescriptors
<1>5. \A new :
        /\ pc' = [pc EXCEPT ![Shell] = new]
        /\ \A p \in Procs : fds'[p] = fds[p] /\ process'[p] = process[p]
        /\ new \in {"stdout", "dup2", "restore"}
        => pc'[Shell] = new /\ Walks /\ Alone
  <2>1. SUFFICES ASSUME NEW new \in {"stdout", "dup2", "restore"},
                        pc' = [pc EXCEPT ![Shell] = new],
                        \A p \in Procs : fds'[p] = fds[p] /\ process'[p] = process[p]
                 PROVE  pc'[Shell] = new /\ Walks /\ Alone
    OBVIOUS
  <2>2. pc'[Shell] = new /\ \A p \in Procs : pc'[p] = pc[p]
    BY <2>1, ShellFacts DEF PlumbingInv, TypeOK
  <2>3. Walks
    BY <1>1, <1>2, <2>2, ShellFacts DEF Walks, ShellLabels, RedirectLabels, InPlan
  <2>4. Alone
    BY <1>1, <2>1, <2>2 DEF Alone
  <2> QED
    BY <2>2, <2>3, <2>4
<1>6. /\ fds[Shell].in = Standard /\ fds[Shell].out = Standard
      /\ NoFd \notin fds[Shell].others
      /\ fds[Shell].others \subseteq
           lost \cup Backups \cup {process[Shell].in, process[Shell].out}
      /\ process[Shell].in \in {NoFd} \cup FileDescriptors
      /\ process[Shell].out \in {NoFd} \cup FileDescriptors
  <2>1. pc[Shell] = "stdin" => process[Shell] = NoProcess
    BY DEF PlumbingInv, ShellInv, ShellProcess
  <2> QED
    BY <1>1, <2>1
       DEF PlumbingInv, ShellInv, ShellProcess, ShellDescriptors, RedirectLabels, NoProcess
<1>7. CASE fds' = fds /\ process' = process
  <2>1. PICK new \in {"stdout", "dup2", "restore"} : pc' = [pc EXCEPT ![Shell] = new]
    <3>1. ~Dup2(Shell) => \E new \in {"stdout", "dup2", "restore"} :
                            pc' = [pc EXCEPT ![Shell] = new]
      BY DEF Redirect, OpenStdin, OpenStdout, RedirectionFails, Goto
    <3>2. Dup2(Shell) => pc' = [pc EXCEPT ![Shell] = "restore"]
      BY DEF Dup2, Goto
    <3> QED
      BY <3>1, <3>2
  <2>2. pc'[Shell] = new /\ Walks /\ Alone
    BY <1>5, <1>7, <2>1
  <2>3. ShellInv'
    BY <1>1, <1>6, <1>7, <2>2
       DEF ShellInv, ShellProcess, ShellDescriptors, RedirectLabels
  <2> QED
    BY <1>3, <1>4, <2>2, <2>3, AloneStep
<1>8. ASSUME NEW new \in {InFile(Shell), OutFile(Shell)}, new \in FileDescriptors,
             NEW field \in {"in", "out"}, NEW label \in {"stdout", "dup2"},
             Replace(Shell, field, process[Shell][field], new),
             pc' = [pc EXCEPT ![Shell] = label]
      PROVE  PlumbingInv'
  <2>1. /\ fds' = [fds EXCEPT ![Shell].others = (@ \ {process[Shell][field]}) \cup {new}]
        /\ process' = [process EXCEPT ![Shell] = [@ EXCEPT ![field] = new]]
    BY <1>8 DEF Replace
  <2>2. /\ fds'[Shell] = [fds[Shell] EXCEPT
                            !.others = (@ \ {process[Shell][field]}) \cup {new}]
        /\ process'[Shell] = [process[Shell] EXCEPT ![field] = new]
        /\ \A p \in Procs : fds'[p] = fds[p] /\ process'[p] = process[p]
    BY <2>1, ShellFacts DEF PlumbingInv, TypeOK
  <2>3. /\ fds'[Shell].in = Standard /\ fds'[Shell].out = Standard
        /\ fds'[Shell].others = (fds[Shell].others \ {process[Shell][field]}) \cup {new}
    BY <1>6, <2>2, ShellFacts
  <2>4. new # NoFd
    BY <1>8, KindsDiffer
  <2>5. /\ process'[Shell].in \in {NoFd} \cup FileDescriptors
        /\ process'[Shell].out \in {NoFd} \cup FileDescriptors
        /\ fds'[Shell].others \subseteq
             lost \cup Backups \cup {process'[Shell].in, process'[Shell].out}
    <3>1. CASE field = "in"
      <4>1. process'[Shell].in = new /\ process'[Shell].out = process[Shell].out
        BY <2>2, <3>1, ShellFacts
      <4>2. process[Shell][field] = process[Shell].in
        BY <3>1
      <4> QED
        BY <1>6, <1>8, <2>3, <4>1, <4>2
    <3>2. CASE field = "out"
      <4>1. process'[Shell].out = new /\ process'[Shell].in = process[Shell].in
        BY <2>2, <3>2, ShellFacts
      <4>2. process[Shell][field] = process[Shell].out
        BY <3>2
      <4> QED
        BY <1>6, <1>8, <2>3, <4>1, <4>2
    <3> QED
      BY <1>8, <3>1, <3>2
  <2>6. pc'[Shell] = label /\ Walks /\ Alone
    BY <1>5, <1>8, <2>2
  <2>7. NoFd \notin fds'[Shell].others
    BY <1>6, <2>3, <2>4
  <2>8. ShellInv'
    BY <1>1, <1>8, <2>3, <2>5, <2>6, <2>7
       DEF ShellInv, ShellProcess, ShellDescriptors, RedirectLabels
  <2> QED
    BY <1>3, <1>4, <2>6, <2>8, AloneStep
<1>9. CASE Dup2(Shell)
  <2>1. /\ pc' = [pc EXCEPT ![Shell] = "restore"]
        /\ fds' = [fds EXCEPT ![Shell] =
                     [in |-> Moved(process[Shell].in, @.in),
                      out |-> Moved(process[Shell].out, @.out),
                      others |-> @.others \ {process[Shell].in, process[Shell].out}]]
        /\ process' = [process EXCEPT ![Shell].in = NoFd, ![Shell].out = NoFd]
    BY <1>9 DEF Dup2, Goto
  <2>2. /\ fds'[Shell].others = fds[Shell].others \ {process[Shell].in, process[Shell].out}
        /\ \A p \in Procs : fds'[p] = fds[p] /\ process'[p] = process[p]
    BY <2>1, ShellFacts DEF PlumbingInv, TypeOK
  <2>3. process'[Shell].in = NoFd /\ process'[Shell].out = NoFd
    <3>1. process'[Shell] = [process[Shell] EXCEPT !.in = NoFd, !.out = NoFd]
      BY <2>1, ShellFacts DEF PlumbingInv, TypeOK
    <3> QED
      BY <3>1, ShellFacts, AllAreDescriptors
  <2>4. pc'[Shell] = "restore" /\ Walks /\ Alone
    BY <1>5, <2>1, <2>2
  <2>5. NoFd \notin fds'[Shell].others /\ fds'[Shell].others \subseteq lost' \cup Backups
    BY <1>1, <1>6, <2>2
  <2>6. {fds'[Shell].in, fds'[Shell].out} \subseteq {Standard} \cup FileDescriptors
    <3>1. fds'[Shell] = [in |-> Moved(process[Shell].in, fds[Shell].in),
                         out |-> Moved(process[Shell].out, fds[Shell].out),
                         others |-> fds[Shell].others
                                      \ {process[Shell].in, process[Shell].out}]
      BY <2>1, ShellFacts DEF PlumbingInv, TypeOK
    <3> QED
      BY <1>6, <3>1 DEF Moved
  <2>7. ShellInv'
    BY <2>3, <2>4, <2>5, <2>6
       DEF ShellInv, ShellProcess, ShellDescriptors, RedirectLabels, FileDescriptors
  <2> QED
    BY <1>3, <1>4, <2>4, <2>7, AloneStep
<1>10. CASE OpenStdin(Shell)
  <2>1. CASE Command(Shell).in \in Openable /\ pc' = [pc EXCEPT ![Shell] = "stdout"]
             /\ Replace(Shell, "in", process[Shell]["in"], InFile(Shell))
    <3>1. InFile(Shell) \in FileDescriptors
      BY <1>2, <2>1, ShellFacts, FilesAreDescriptors
    <3> QED
      BY <1>8, <2>1, <3>1
  <2>2. CASE fds' = fds /\ process' = process
    BY <1>7, <2>2
  <2> QED
    BY <1>10, <2>1, <2>2 DEF OpenStdin, RedirectionFails, Goto
<1>11. CASE OpenStdout(Shell)
  <2>1. CASE Command(Shell).out \in Openable /\ pc' = [pc EXCEPT ![Shell] = "dup2"]
             /\ Replace(Shell, "out", process[Shell]["out"], OutFile(Shell))
    <3>1. OutFile(Shell) \in FileDescriptors
      BY <1>2, <2>1, ShellFacts, FilesAreDescriptors
    <3> QED
      BY <1>8, <2>1, <3>1
  <2>2. CASE fds' = fds /\ process' = process
    BY <1>7, <2>2
  <2> QED
    BY <1>11, <2>1, <2>2 DEF OpenStdout, RedirectionFails, Goto
<1> QED
  BY <1>9, <1>10, <1>11 DEF Redirect

-----------------------------------------------------------------------------

LEMMA PlumbingInvInit == Init => PlumbingInv
<1> SUFFICES ASSUME Init
             PROVE  PlumbingInv
  OBVIOUS
<1>1. Shell \in Ids /\ Shell \notin Procs /\ Procs \subseteq Ids
  BY ShellIsNoCommand
<1>2. /\ pc[Shell] = "prompt" /\ fds[Shell] = OnlyStandard /\ process[Shell] = NoProcess
      /\ \A p \in Procs : pc[p] = "none" /\ fds[p] = NoDescriptors /\ ~carried[p]
      /\ at = Shell /\ plan = <<>> /\ lost = {}
  BY <1>1 DEF Init
<1>3. TypeOK
  <2>1. pc \in [Ids -> ShellLabels \cup RedirectLabels \cup {"none", "detach", "run"}]
    BY DEF Init, ShellLabels
  <2>2. fds \in [Ids -> [in : Descriptors, out : Descriptors, others : SUBSET Descriptors]]
    BY AllAreDescriptors DEF Init, OnlyStandard, NoDescriptors
  <2>3. process \in [Ids -> [in : Descriptors, out : Descriptors, next : Descriptors]]
    BY AllAreDescriptors DEF Init, NoProcess
  <2>4. /\ level \in [Procs -> 0..PipeCapacity] /\ left \in [Procs -> 0..Amount]
        /\ carried \in [Procs -> BOOLEAN]
    BY CommandLineAssumption DEF Init, CommandLineAssumption
  <2> QED
    BY <1>1, <1>2, <2>1, <2>2, <2>3, <2>4 DEF TypeOK
<1>4. FitsTheBounds(plan)
  <2>1. Len(plan) = 0
    BY <1>2
  <2>2. 0 \in 0..MaxPipelines /\ 1..0 = {}
    BY CommandLineAssumption DEF CommandLineAssumption
  <2> QED
    BY <2>1, <2>2 DEF FitsTheBounds
<1>5. PlanInv
  BY <1>2, <1>4 DEF PlanInv, ShellLabels, AtCommand, RedirectLabels
<1>6. ShellInv
  BY <1>2 DEF ShellInv, ShellProcess, ShellDescriptors, OnlyStandard, RedirectLabels
<1>7. \A p \in Procs : ChildInv(p)
  <2>1. NoDescriptors.others = {}
    BY DEF NoDescriptors
  <2> QED
    BY <1>2, <2>1 DEF ChildInv, ChildProcess, ChildDescriptors
<1>8. LostInv /\ CarriedInv
  BY <1>2 DEF LostInv, CarriedInv
<1> QED
  BY <1>3, <1>5, <1>6, <1>7, <1>8 DEF PlumbingInv

LEMMA PlumbingInvStep == PlumbingInv /\ [Next]_vars => PlumbingInv'
<1> SUFFICES ASSUME PlumbingInv, [Next]_vars
             PROVE  PlumbingInv'
  OBVIOUS
<1>1. CASE \E l \in Lines : ReadLine(l)
  BY <1>1, ReadLineStep
<1>2. CASE ShellStep
  BY <1>2, NextPipelineStep, SetupPipeStep, PipeFailsStep, AbortStep, ForkStep,
     CloseEndsStep, WaitOverStep, BackupStep, RestoreStep DEF ShellStep
<1>3. CASE Redirect(Shell)
  BY <1>3, ShellRedirects
<1>4. CASE \E p \in Procs : Child(p)
  BY <1>4, ChildStep
<1>5. CASE UNCHANGED vars
  <2>1. UNCHANGED <<plan, at, pc, fds, process, level, left, carried, lost>>
    BY <1>5 DEF vars
  <2>2. PlanInv'
    BY <2>1 DEF PlumbingInv, PlanInv, FitsTheBounds, InPlan
  <2>3. ShellInv'
    BY <2>1, ShellKeeps DEF PlumbingInv
  <2>4. \A p \in Procs : ChildInv(p)'
    BY <2>1, ChildKeeps DEF PlumbingInv
  <2>5. TypeOK' /\ LostInv' /\ CarriedInv'
    BY <2>1, CarriedKeeps DEF PlumbingInv, TypeOK, LostInv, FileDescriptors
  <2> QED
    BY <2>2, <2>3, <2>4, <2>5 DEF PlumbingInv
<1> QED
  BY <1>1, <1>2, <1>3, <1>4, <1>5 DEF Next, Over

(***************************************************************************)
(* The records and the descriptors of the shell and of its children agree  *)
(* with the place each has reached in run_pipeline, setup_redirection and  *)
(* dup2_stdio.                                                             *)
(***************************************************************************)
THEOREM PlumbingIsInvariant == Spec => []PlumbingInv
BY PlumbingInvInit, PlumbingInvStep, PTL DEF Spec

(***************************************************************************)
(* Every command of every line starts with the descriptors its line gives  *)
(* it and no others but those the shell has lost, which are never writing  *)
(* ends, and the shell gets its own back: after any number of pipes,       *)
(* files, failed redirections and failed pipes (run_pipeline,              *)
(* setup_redirection, dup2_stdio).                                         *)
(***************************************************************************)
THEOREM Plumbing == Spec => []PlumbingIsRight
<1>1. PlumbingInv => PlumbingIsRight
  <2> SUFFICES ASSUME PlumbingInv
               PROVE  PlumbingIsRight
    OBVIOUS
  <2>1. \A p \in Procs :
          pc[p] = "run" => /\ fds[p].in = MeantInput(p)
                           /\ fds[p].out = MeantOutput(p)
                           /\ fds[p].others \subseteq lost
    BY DEF PlumbingInv, ChildInv, ChildDescriptors
  <2>2. pc[Shell] \in {"next", "wait", "done"} =>
          /\ fds[Shell].in = Standard
          /\ fds[Shell].out = Standard
          /\ fds[Shell].others \subseteq lost
    BY DEF PlumbingInv, ShellInv, ShellDescriptors
  <2>3. \A p \in Procs : WriteEnd(p) \notin lost
    BY KindsDiffer DEF PlumbingInv, LostInv
  <2> QED
    BY <2>1, <2>2, <2>3 DEF PlumbingInv, PlumbingIsRight
<1> QED
  BY <1>1, PlumbingIsInvariant, PTL

(***************************************************************************)
(* Nobody but a command itself keeps the writing end of its pipe, but for  *)
(* the moment the shell starts it: so the reader gets the end of its input *)
(* as soon as that command is over (close in run_pipeline and in           *)
(* execute_child_process).                                                 *)
(***************************************************************************)
THEOREM Writers == Spec => []WritersAreAlone
<1>1. ASSUME PlumbingInv, NEW q \in Procs, NEW p \in Procs, Holds(p, WriteEnd(q))
      PROVE  p = q
  <2> DEFINE fd == WriteEnd(q)
  <2>1. fd[1] = "w" /\ fd = <<"w", q[1], q[2]>>
    BY DEF WriteEnd
  <2>2. /\ fd # NoFd /\ fd # Standard /\ fd \notin ReadEnds
        /\ InFile(p) # fd /\ OutFile(p) # fd
    <3>1. /\ NoFd[1] = "closed" /\ Standard[1] = "standard"
          /\ InFile(p)[1] = "file" /\ OutFile(p)[1] \in {"append", "write"}
      BY DEF NoFd, Standard, InFile, OutFile
    <3> QED
      BY <2>1, <3>1, KindsDiffer
  <2>3. fd \notin lost
    BY <1>1, KindsDiffer DEF PlumbingInv, LostInv
  <2>4. WriteEnd(p) = fd => p = q
    <3>1. p = <<p[1], p[2]>> /\ q = <<q[1], q[2]>>
      BY DEF Procs
    <3> QED
      BY <3>1 DEF WriteEnd
  <2> HIDE DEF fd
  <2>5. pc[p] # "none"
    <3>1. ~(fds[p] = NoDescriptors)
      BY <1>1, <2>2 DEF Holds, NoDescriptors, fd
    <3> QED
      BY <1>1, <3>1 DEF PlumbingInv, ChildInv, ChildDescriptors
  <2>6. /\ PipeIn(p) # fd /\ PipeNext(p) # fd
        /\ PipeOut(p) = fd => p = q
    <3>1. InPlan(p)
      BY <1>1, <2>5 DEF PlumbingInv, PlanInv
    <3> QED
      BY <1>1, <2>2, <2>4, <3>1, PipeEnds DEF PlumbingInv
  <2>7. CASE pc[p] = "run"
    <3>1. MeantInput(p) # fd
      <4>1. p[2] \in 1..MaxCommands
        BY DEF Procs
      <4>2. p[2] > 1 => p[2] # 1
        BY <4>1, CommandLineAssumption DEF CommandLineAssumption
      <4>3. MeantInput(p) \in {InFile(p), Standard, PipeIn(p)}
        BY <4>2 DEF MeantInput, PipeIn
      <4> QED
        BY <2>2, <2>6, <4>3
    <3>2. MeantOutput(p) = fd => p = q
      BY <2>2, <2>4 DEF MeantOutput
    <3> QED
      BY <1>1, <2>3, <2>7, <3>1, <3>2
         DEF PlumbingInv, ChildInv, ChildDescriptors, Holds, fd
  <2>8. CASE pc[p] = "detach"
    <3>1. process[p] = [in |-> PipeIn(p), out |-> PipeOut(p), next |-> PipeNext(p)]
      BY <1>1, <2>8 DEF PlumbingInv, ChildInv, ChildProcess
    <3>2. /\ fds[p].in = Standard /\ fds[p].out = Standard
          /\ fds[p].others \subseteq
               lost \cup {process[p].in, process[p].out, process[p].next}
      BY <1>1, <2>8 DEF PlumbingInv, ChildInv, ChildDescriptors
    <3>3. fds[p].others \subseteq lost \cup {PipeIn(p), PipeOut(p), PipeNext(p)}
      BY <3>1, <3>2
    <3>4. fd \in fds[p].others
      BY <1>1, <2>2, <3>2 DEF Holds, fd
    <3> QED
      BY <2>3, <2>6, <3>3, <3>4
  <2>9. CASE pc[p] \in {"stdin", "stdout", "dup2"}
    <3>1. /\ process[p].in \in {PipeIn(p), InFile(p)}
          /\ process[p].out \in {PipeOut(p), OutFile(p)}
      BY <1>1, <2>9 DEF PlumbingInv, ChildInv, ChildProcess, RedirectedIn, RedirectedOut
    <3>2. /\ fds[p].in = Standard /\ fds[p].out = Standard
          /\ fds[p].others \subseteq lost \cup {process[p].in, process[p].out}
      BY <1>1, <2>9 DEF PlumbingInv, ChildInv, ChildDescriptors
    <3> QED
      BY <1>1, <2>2, <2>3, <2>6, <3>1, <3>2 DEF Holds, fd
  <2> QED
    BY <1>1, <2>5, <2>7, <2>8, <2>9 DEF PlumbingInv, PlanInv, Stages
<1>2. ASSUME PlumbingInv, NEW q \in Procs, Holds(Shell, WriteEnd(q))
      PROVE  pc[Shell] \in {"fork", "close"} /\ at = q
  <2> DEFINE fd == WriteEnd(q)
  <2>1. fd[1] = "w"
    BY DEF WriteEnd
  <2>2. /\ fd # NoFd /\ fd # Standard /\ fd \notin Backups
        /\ fd \notin ReadEnds \cup FileDescriptors
    <3>1. NoFd[1] = "closed" /\ Standard[1] = "standard"
      BY DEF NoFd, Standard
    <3>2. \A b \in Backups : b[1] = "backup"
      BY DEF Backups
    <3> QED
      BY <2>1, <3>1, <3>2, KindsDiffer
  <2>3. fd \notin lost
    BY <1>2, KindsDiffer DEF PlumbingInv, LostInv
  <2> HIDE DEF fd
  <2>4. fd \in fds[Shell].others
    BY <1>2, <2>2 DEF Holds, PlumbingInv, ShellInv, fd
  <2>5. pc[Shell] \in AtCommand =>
          /\ PipeIn(at) # fd /\ PipeNext(at) # fd
          /\ PipeOut(at) = fd => at = q
    <3>1. SUFFICES ASSUME pc[Shell] \in AtCommand
                   PROVE  /\ PipeIn(at) # fd /\ PipeNext(at) # fd
                          /\ PipeOut(at) = fd => at = q
      OBVIOUS
    <3>2. at \in Procs /\ InPlan(at)
      BY <1>2, <3>1, ShellFacts
    <3>3. WriteEnd(at) = fd => at = q
      <4>1. at = <<at[1], at[2]>> /\ q = <<q[1], q[2]>>
        BY <3>2 DEF Procs
      <4> QED
        BY <4>1 DEF WriteEnd, fd
    <3> QED
      BY <1>2, <2>2, <3>2, <3>3, PipeEnds DEF PlumbingInv
  <2>6. CASE pc[Shell] \in {"fork", "close"}
    <3>1. /\ process[Shell] =
               [in |-> PipeIn(at), out |-> PipeOut(at), next |-> PipeNext(at)]
          /\ fds[Shell].others \subseteq
               lost \cup {process[Shell].in, process[Shell].out, process[Shell].next}
      BY <1>2, <2>6 DEF PlumbingInv, ShellInv, ShellProcess, ShellDescriptors
    <3>2. fds[Shell].others \subseteq lost \cup {PipeIn(at), PipeOut(at), PipeNext(at)}
      BY <3>1
    <3> QED
      <4>1. pc[Shell] \in AtCommand
        BY <2>6 DEF AtCommand
      <4>2. fd \in lost \cup {PipeIn(at), PipeOut(at), PipeNext(at)}
        BY <2>4, <3>2
      <4> QED
        BY <2>3, <2>5, <2>6, <4>1, <4>2
  <2>7. CASE pc[Shell] \in {"setup", "abort"}
    <3>1. /\ process[Shell] = [in |-> PipeIn(at), out |-> NoFd, next |-> NoFd]
          /\ fds[Shell].others \subseteq lost \cup {process[Shell].in}
      BY <1>2, <2>7
         DEF PlumbingInv, ShellInv, ShellProcess, ShellDescriptors, NoProcess
    <3>2. fds[Shell].others \subseteq lost \cup {PipeIn(at)}
      BY <3>1
    <3> QED
      <4>1. pc[Shell] \in AtCommand
        BY <2>7 DEF AtCommand
      <4>2. fd \in lost \cup {PipeIn(at)}
        BY <2>4, <3>2
      <4> QED
        BY <2>3, <2>5, <2>7, <4>1, <4>2
  <2>8. CASE pc[Shell] \in RedirectLabels \cup {"restore"}
    <3>1. process[Shell].in # fd /\ process[Shell].out # fd
      BY <1>2, <2>2, <2>8
         DEF PlumbingInv, ShellInv, ShellProcess, RedirectLabels, NoProcess
    <3> QED
      BY <1>2, <2>2, <2>3, <2>4, <2>8, <3>1 DEF PlumbingInv, ShellInv, ShellDescriptors
  <2>9. CASE pc[Shell] \in {"prompt", "next", "backup", "wait", "done"}
    BY <1>2, <2>3, <2>4, <2>9 DEF PlumbingInv, ShellInv, ShellDescriptors
  <2> QED
    BY <1>2, <2>6, <2>7, <2>8, <2>9 DEF PlumbingInv, PlanInv, ShellLabels
<1>3. PlumbingInv => WritersAreAlone
  BY <1>1, <1>2 DEF WritersAreAlone, IsHeld, Ids
<1> QED
  BY <1>3, PlumbingIsInvariant, PTL

-----------------------------------------------------------------------------
(* The parser: numbers of a finite set, and what a recursion computes.     *)

LEMMA LeastExists ==
  ASSUME NEW S \in SUBSET Nat, S # {}
  PROVE  \E x \in S : \A y \in S : x <= y
<1> DEFINE Below == OpToRel(<, Nat)
<1>1. PICK x \in S : \A y \in S : ~(<<y, x>> \in Below)
  BY NatLessThanWellFounded, WFMin
<1>2. ASSUME NEW y \in S
      PROVE  x <= y
  <2>1. ~(y < x)
    BY <1>1 DEF OpToRel
  <2> QED BY <2>1
<1> QED BY <1>2

LEMMA BoundedIsFinite ==
  ASSUME NEW n \in Nat, NEW S, S \subseteq 0..n
  PROVE  IsFiniteSet(S) /\ Cardinality(S) \in Nat /\ (Cardinality(S) = 0 <=> S = {})
<1>1. IsFiniteSet(0..n)
  BY FS_Interval
<1>2. IsFiniteSet(S)
  BY <1>1, FS_Subset
<1> QED BY <1>2, FS_CardinalityType, FS_EmptySet

LEMMA RankIs ==
  ASSUME NEW n \in Nat, NEW S, S \subseteq 0..n, NEW x \in Nat
  PROVE  /\ Rank(x, S) \in 0..Cardinality(S)
         /\ x \in S => Rank(x, S) \in 1..Cardinality(S)
<1> DEFINE B == {y \in S : y <= x}
<1>1. IsFiniteSet(S) /\ Cardinality(S) \in Nat
  BY BoundedIsFinite
<1>2. B \subseteq 0..n /\ B \in SUBSET S
  OBVIOUS
<1>3. IsFiniteSet(B) /\ Cardinality(B) \in Nat /\ (Cardinality(B) = 0 <=> B = {})
  <2> HIDE DEF B
  <2> QED BY <1>2, BoundedIsFinite
<1>4. Cardinality(B) <= Cardinality(S)
  <2> HIDE DEF B
  <2> QED BY <1>1, <1>2, FS_Subset
<1>5. x \in S => B # {}
  OBVIOUS
<1>6. Rank(x, S) = Cardinality(B)
  BY DEF Rank
<1> HIDE DEF B
<1> QED BY <1>1, <1>3, <1>4, <1>5, <1>6

(***************************************************************************)
(* A greatest number joins a set: it comes last, and the others stay where *)
(* they are.                                                               *)
(***************************************************************************)
LEMMA GreatestIsLast ==
  ASSUME NEW n \in Nat, NEW S, S \subseteq 0..n, NEW x \in Nat, \A y \in S : y < x
  PROVE  /\ Cardinality(S \cup {x}) = Cardinality(S) + 1
         /\ Rank(x, S \cup {x}) = Cardinality(S) + 1
         /\ \A y \in S : Rank(y, S \cup {x}) = Rank(y, S)
<1>1. IsFiniteSet(S) /\ Cardinality(S) \in Nat
  BY BoundedIsFinite
<1>2. x \notin S
  OBVIOUS
<1>3. Cardinality(S \cup {x}) = Cardinality(S) + 1
  BY <1>1, <1>2, FS_AddElement
<1>4. {y \in S \cup {x} : y <= x} = S \cup {x}
  <2>1. \A y \in S \cup {x} : y <= x
    OBVIOUS
  <2> QED BY <2>1
<1>5. ASSUME NEW y \in S
      PROVE  Rank(y, S \cup {x}) = Rank(y, S)
  <2>1. {z \in S \cup {x} : z <= y} = {z \in S : z <= y}
    OBVIOUS
  <2> QED BY <2>1 DEF Rank
<1> QED BY <1>3, <1>4, <1>5 DEF Rank

LEMMA RankInInterval ==
  ASSUME NEW n \in Nat, NEW x \in 1..n
  PROVE  Rank(x, 1..n) = x /\ Cardinality(1..n) = n
<1>1. {y \in 1..n : y <= x} = 1..x
  OBVIOUS
<1>2. Cardinality(1..x) = x /\ Cardinality(1..n) = n
  BY FS_Interval
<1> QED BY <1>1, <1>2 DEF Rank

(***************************************************************************)
(* Ranks grow with the number, and stay the same where nothing is passed.  *)
(***************************************************************************)
LEMMA RanksGrow ==
  ASSUME NEW n \in Nat, NEW S, S \subseteq 0..n, NEW x \in Nat, NEW y \in Nat, x <= y
  PROVE  /\ Rank(x, S) \in Nat /\ Rank(y, S) \in Nat
         /\ Rank(x, S) <= Rank(y, S)
         /\ y \in S /\ x < y => Rank(x, S) < Rank(y, S)
         /\ (\A z \in S : z <= x \/ y < z) => Rank(x, S) = Rank(y, S)
         /\ y \in S /\ (\A z \in S : z <= x \/ y <= z) /\ x < y => Rank(y, S) = Rank(x, S) + 1
<1> DEFINE B(a) == {z \in S : z <= a}
<1>1. ASSUME NEW a \in Nat
      PROVE  IsFiniteSet(B(a)) /\ Cardinality(B(a)) \in Nat /\ Rank(a, S) = Cardinality(B(a))
  <2>1. B(a) \subseteq 0..n
    OBVIOUS
  <2>2. Rank(a, S) = Cardinality(B(a))
    BY DEF Rank
  <2> HIDE DEF B
  <2> QED BY <2>1, <2>2, BoundedIsFinite
<1>2. B(x) \in SUBSET B(y)
  <2>1. \A z \in S : z <= x => z <= y
    OBVIOUS
  <2> QED BY <2>1
<1>3. Cardinality(B(x)) <= Cardinality(B(y)) /\ (Cardinality(B(y)) = Cardinality(B(x)) => B(x) = B(y))
  <2> HIDE DEF B
  <2> QED BY <1>1, <1>2, FS_Subset
<1>4. y \in S /\ x < y => B(x) # B(y)
  <2>1. ASSUME y \in S, x < y
        PROVE  y \in B(y) /\ y \notin B(x)
    BY <2>1
  <2> HIDE DEF B
  <2> QED BY <2>1
<1>5. ASSUME \A z \in S : z <= x \/ y < z
      PROVE  B(x) = B(y)
  <2>1. \A z \in S : z <= x <=> z <= y
    BY <1>5
  <2> QED BY <2>1
<1>6. ASSUME y \in S, \A z \in S : z <= x \/ y <= z, x < y
      PROVE  Cardinality(B(y)) = Cardinality(B(x)) + 1
  <2>1. \A z \in S : z <= y <=> (z <= x \/ z = y)
    BY <1>6
  <2>2. B(y) = B(x) \cup {y}
    BY <1>6, <2>1
  <2>3. y \notin B(x)
    BY <1>6
  <2> HIDE DEF B
  <2> QED BY <2>2, <2>3, <1>1, FS_AddElement
<1> HIDE DEF B
<1>7. Rank(x, S) = Cardinality(B(x)) /\ Rank(y, S) = Cardinality(B(y))
      /\ Cardinality(B(x)) \in Nat /\ Cardinality(B(y)) \in Nat
  BY <1>1
<1> QED BY <1>3, <1>4, <1>5, <1>6, <1>7

(***************************************************************************)
(* The states that Parsed chooses exist: the parser goes from one token to *)
(* the next.                                                               *)
(***************************************************************************)
LEMMA ParsedIs ==
  ASSUME NEW l \in Seq(STRING)
  PROVE  /\ Parsed(l)[0] = Start
         /\ \A n \in 1..Len(l) : Parsed(l)[n] = ParseToken(l, Parsed(l)[n - 1], n)
<1> DEFINE IsRun(f, m) == f = [n \in 0..m |-> IF n = 0 THEN Start ELSE ParseToken(l, f[n - 1], n)]
           Runs == {m \in Nat : \E f : IsRun(f, m)}
<1>1. 0 \in Runs
  <2> DEFINE f == [n \in 0..0 |-> Start]
  <2>1. IsRun(f, 0)
    OBVIOUS
  <2> HIDE DEF f
  <2> QED BY <2>1
<1>2. ASSUME NEW m \in Runs
      PROVE  m + 1 \in Runs
  <2>1. PICK f : IsRun(f, m)
    OBVIOUS
  <2> DEFINE g == [n \in 0..m + 1 |-> IF n = m + 1 THEN ParseToken(l, f[m], m + 1) ELSE f[n]]
  <2>2. ASSUME NEW n \in 0..m + 1
        PROVE  g[n] = IF n = 0 THEN Start ELSE ParseToken(l, g[n - 1], n)
    <3>1. CASE n = 0
      <4>1. g[0] = f[0]
        OBVIOUS
      <4>2. f[0] = Start
        BY <2>1
      <4> QED BY <3>1, <4>1, <4>2
    <3>2. CASE n \in 1..m
      <4>1. g[n] = f[n] /\ g[n - 1] = f[n - 1]
        BY <3>2
      <4>2. f[n] = ParseToken(l, f[n - 1], n)
        <5>1. n \in 0..m /\ n # 0
          BY <3>2
        <5> QED BY <2>1, <5>1
      <4> QED BY <3>2, <4>1, <4>2
    <3>3. CASE n = m + 1
      <4>1. g[n] = ParseToken(l, f[m], m + 1) /\ g[m] = f[m]
        BY <3>3
      <4>2. n # 0 /\ n - 1 = m
        BY <3>3
      <4> QED BY <3>3, <4>1, <4>2
    <3> QED BY <3>1, <3>2, <3>3
  <2>3. IsRun(g, m + 1)
    <3>1. g = [n \in 0..m + 1 |-> g[n]]
      OBVIOUS
    <3> HIDE DEF g
    <3> QED BY <2>2, <3>1
  <2> HIDE DEF g
  <2> QED BY <2>3
<1>3. Len(l) \in Runs
  <2> DEFINE Rest == Nat \ Runs
  <2>1. SUFFICES ASSUME Rest # {}
                 PROVE  FALSE
    BY LenProperties
  <2>2. PICK m \in Rest : \A y \in Rest : m <= y
    BY <2>1, LeastExists
  <2>3. m # 0 /\ m \in Nat
    BY <1>1, <2>2
  <2>4. m - 1 \in Runs
    <3> HIDE DEF Runs
    <3>1. m - 1 \in Nat /\ ~(m <= m - 1)
      BY <2>3
    <3> QED BY <2>2, <3>1
  <2>5. (m - 1) + 1 = m
    BY <2>3
  <2> HIDE DEF Runs
  <2> QED BY <1>2, <2>2, <2>4, <2>5
<1>4. IsRun(Parsed(l), Len(l))
  <2>1. \E f : IsRun(f, Len(l))
    BY <1>3
  <2> QED BY <2>1 DEF Parsed
<1>5. Len(l) \in Nat
  OBVIOUS
<1>6. Parsed(l)[0] = Start
  BY <1>4, <1>5
<1>7. ASSUME NEW n \in 1..Len(l)
      PROVE  Parsed(l)[n] = ParseToken(l, Parsed(l)[n - 1], n)
  <2>1. n \in 0..Len(l) /\ n # 0
    BY <1>5
  <2> HIDE DEF Runs
  <2> QED BY <1>4, <2>1
<1> QED BY <1>6, <1>7

-----------------------------------------------------------------------------
(* What the parser has read so far.                                        *)

CommandRecords == [args : Seq(STRING), in : STRING \cup {NoFile},
                   out : STRING \cup {NoFile}, append : BOOLEAN]
PipelineRecords == [background : BOOLEAN, commands : Seq(CommandRecords) \ {<<>>}]
ParserStates == [pipelines : Seq(PipelineRecords) \ {<<>>}, skip : BOOLEAN, ok : BOOLEAN]

Redirections == {"<"} \cup RedirectOut

(***************************************************************************)
(* The words and operators of part c among the first m items, and what a   *)
(* command says of them.                                                   *)
(***************************************************************************)
WordsTo(l, c, m) == {n \in WordsOf(l, c) : n <= m}
OperatorsTo(l, c, ops, m) == {n \in OperatorsOf(l, c, ops) : n <= m}

SaysTo(command, l, c, m) ==
  /\ Len(command.args) = Cardinality(WordsTo(l, c, m))
  /\ \A n \in WordsTo(l, c, m) : command.args[Rank(n, WordsTo(l, c, m))] = l[n]
  /\ LeadsTo(command.in, l, OperatorsTo(l, c, {"<"}, m))
  /\ LeadsTo(command.out, l, OperatorsTo(l, c, RedirectOut, m))
  /\ command.append <=> OperatorsTo(l, c, {">>"}, m) # {}

(***************************************************************************)
(* The parts of the k-th pipeline that come before part c.                 *)
(***************************************************************************)
Complete(l, k, c) == {d \in PartsOf(l, k) : d < c}

(***************************************************************************)
(* c is the part the parser is in after m items.                           *)
(***************************************************************************)
IsPart(l, c, m) == c \in Cuts(l) /\ c <= m /\ \A x \in Cuts(l) : x <= c \/ m < x

(***************************************************************************)
(* A pipeline that the parser has: what is complete of it is as it is      *)
(* written, and the last one has one more command, which is being read.    *)
(***************************************************************************)
HasAmpersand(l, k, c) == \E d \in Complete(l, k, c) : OperatorsOf(l, d, {"&"}) # {}

PipelineSays(pipeline, l, k, c) ==
  /\ \A d \in Complete(l, k, c) :
       StandsIn(pipeline.commands[Rank(d, Complete(l, k, c))], l, d)
  /\ \A i \in 1..Cardinality(Complete(l, k, c)) : pipeline.commands[i].args # <<>>

FinishedSays(pipeline, l, k, c) ==
  /\ PipelineSays(pipeline, l, k, c)
  /\ Len(pipeline.commands) = Cardinality(Complete(l, k, c))
  /\ pipeline.background <=> HasAmpersand(l, k, c)

LastSays(pipeline, l, k, c, m) ==
  /\ PipelineSays(pipeline, l, k, c)
  /\ Len(pipeline.commands) = Cardinality(Complete(l, k, c)) + 1
  /\ SaysTo(Last(pipeline.commands), l, c, m)
  /\ pipeline.background <=>
       HasAmpersand(l, k, c) \/ OperatorsTo(l, c, {"&"}, m) # {}

(***************************************************************************)
(* After a pipe there is a word; after a separator, or at the beginning,   *)
(* there is no command yet.                                                *)
(***************************************************************************)
AfterCut(l, c, m) ==
  IF c # 0 /\ l[c] = "|"
  THEN IF m = c THEN m < Len(l) /\ IsWord(l[m + 1]) ELSE WordsTo(l, c, m) # {}
  ELSE Complete(l, PipelineOf(l, c), c) = {}

Skips(l, m) == m # 0 /\ l[m] \in Redirections

HasRead(p, l, c, m) ==
  /\ IsPart(l, c, m)
  /\ p.skip <=> Skips(l, m)
  /\ p.skip => m < Len(l) /\ IsWord(l[m + 1])
  /\ AfterCut(l, c, m)
  /\ Len(p.pipelines) = PipelineOf(l, c)
  /\ LastSays(Last(p.pipelines), l, Len(p.pipelines), c, m)
  /\ \A k \in 1..Len(p.pipelines) - 1 : FinishedSays(p.pipelines[k], l, k, c)

LEMMA ReplaceLast ==
  ASSUME NEW T, NEW s \in Seq(T), s # <<>>, NEW x \in T
  PROVE  LET r == Front(s) \o <<x>> IN
         /\ r \in Seq(T) \ {<<>>}
         /\ Len(r) = Len(s)
         /\ \A i \in 1..Len(s) - 1 : r[i] = s[i]
         /\ Last(r) = x /\ r[Len(s)] = x
         /\ Len(s) \in Nat \ {0}
<1> DEFINE f == Front(s)
           n == Len(s)
<1>1. n \in Nat \ {0} /\ \A i \in 1..n : s[i] \in T
  BY EmptySeq, ElementOfSeq
<1>2. f \in Seq(T) /\ Len(f) = n - 1 /\ \A i \in 1..n - 1 : f[i] = s[i]
  <2>1. \A i \in 1..n - 1 : s[i] \in T
    BY <1>1
  <2>2. n - 1 \in Int
    BY <1>1
  <2>3. /\ SubSeq(s, 1, n - 1) \in Seq(T)
        /\ Len(SubSeq(s, 1, n - 1)) = IF 1 <= n - 1 THEN (n - 1) - 1 + 1 ELSE 0
        /\ \A i \in 1..(n - 1) - 1 + 1 : SubSeq(s, 1, n - 1)[i] = s[1 + i - 1]
    <3> HIDE DEF n
    <3> QED BY <2>1, <2>2, SubSeqProperties
  <2>4. f = SubSeq(s, 1, n - 1)
    BY DEF Front
  <2> HIDE DEF f, n
  <2>5. \A i \in 1..n - 1 : i \in 1..(n - 1) - 1 + 1 /\ 1 + i - 1 = i
    BY <1>1
  <2>6. (IF 1 <= n - 1 THEN (n - 1) - 1 + 1 ELSE 0) = n - 1
    BY <1>1
  <2> QED BY <2>3, <2>4, <2>5, <2>6
<1> DEFINE r == f \o <<x>>
<1>3. r \in Seq(T) /\ Len(r) = n /\ r[n] = x /\ \A i \in 1..n - 1 : r[i] = f[i]
  <2> HIDE DEF f, n
  <2> QED BY <1>1, <1>2
<1>4. r # <<>>
  <2> HIDE DEF f, n, r
  <2> QED BY <1>1, <1>3
<1>5. Last(r) = x
  <2> HIDE DEF f, n, r
  <2> QED BY <1>3 DEF Last
<1> HIDE DEF f, r
<1> QED BY <1>1, <1>2, <1>3, <1>4, <1>5 DEF f, r

LEMMA LastIs ==
  ASSUME NEW p \in ParserStates
  PROVE  /\ Len(p.pipelines) \in Nat \ {0}
         /\ Last(p.pipelines) \in PipelineRecords
         /\ \A k \in 1..Len(p.pipelines) : p.pipelines[k] \in PipelineRecords
         /\ Last(p.pipelines).commands \in Seq(CommandRecords) \ {<<>>}
         /\ Len(Last(p.pipelines).commands) \in Nat \ {0}
         /\ Current(p) \in CommandRecords
         /\ Current(p) = Last(p.pipelines).commands[Len(Last(p.pipelines).commands)]
<1> DEFINE s == p.pipelines
<1>1. s \in Seq(PipelineRecords) \ {<<>>}
  BY DEF ParserStates
<1> HIDE DEF s
<1>2. Len(s) \in Nat \ {0} /\ \A k \in 1..Len(s) : s[k] \in PipelineRecords
  BY <1>1, EmptySeq, ElementOfSeq
<1>3. Last(s) \in PipelineRecords
  BY <1>2 DEF Last
<1> DEFINE t == Last(s).commands
<1>4. t \in Seq(CommandRecords) \ {<<>>}
  BY <1>3 DEF PipelineRecords
<1> HIDE DEF t
<1>5. Len(t) \in Nat \ {0} /\ \A k \in 1..Len(t) : t[k] \in CommandRecords
  BY <1>4, EmptySeq, ElementOfSeq
<1>6. Last(t) \in CommandRecords /\ Last(t) = t[Len(t)]
  BY <1>5 DEF Last
<1>7. Current(p) = Last(t)
  BY DEF Current, t, s
<1> QED BY <1>2, <1>3, <1>4, <1>5, <1>6, <1>7 DEF s, t

LEMMA OnPipelineIs ==
  ASSUME NEW p \in ParserStates, NEW x \in PipelineRecords
  PROVE  LET q == OnPipeline(p, x) IN
         /\ q \in ParserStates
         /\ q.skip = p.skip /\ q.ok = p.ok
         /\ Len(q.pipelines) = Len(p.pipelines)
         /\ \A k \in 1..Len(p.pipelines) - 1 : q.pipelines[k] = p.pipelines[k]
         /\ Last(q.pipelines) = x
<1> DEFINE s == p.pipelines
           r == Front(s) \o <<x>>
           q == OnPipeline(p, x)
<1>1. s \in Seq(PipelineRecords) \ {<<>>} /\ p.skip \in BOOLEAN /\ p.ok \in BOOLEAN
  BY DEF ParserStates
<1>2. q = [p EXCEPT !.pipelines = r]
  BY DEF OnPipeline
<1> HIDE DEF s, r
<1>3. /\ r \in Seq(PipelineRecords) \ {<<>>}
      /\ Len(r) = Len(s)
      /\ \A k \in 1..Len(s) - 1 : r[k] = s[k]
      /\ Last(r) = x
  BY <1>1, ReplaceLast DEF r
<1>4. q = [pipelines |-> r, skip |-> p.skip, ok |-> p.ok]
  <2>1. p = [pipelines |-> p.pipelines, skip |-> p.skip, ok |-> p.ok]
    BY DEF ParserStates
  <2> QED BY <1>2, <2>1
<1> HIDE DEF q
<1>5. q \in ParserStates
  BY <1>1, <1>3, <1>4 DEF ParserStates
<1>6. q.pipelines = r /\ q.skip = p.skip /\ q.ok = p.ok
  BY <1>4
<1> QED BY <1>3, <1>5, <1>6 DEF s, q

LEMMA OnCommandIs ==
  ASSUME NEW p \in ParserStates, NEW x \in CommandRecords
  PROVE  LET q == OnCommand(p, x)
             b == Last(p.pipelines)
             e == Last(q.pipelines) IN
         /\ q \in ParserStates
         /\ q.skip = p.skip /\ q.ok = p.ok
         /\ Len(q.pipelines) = Len(p.pipelines)
         /\ \A k \in 1..Len(p.pipelines) - 1 : q.pipelines[k] = p.pipelines[k]
         /\ e.background = b.background
         /\ Len(e.commands) = Len(b.commands)
         /\ \A i \in 1..Len(b.commands) - 1 : e.commands[i] = b.commands[i]
         /\ Last(e.commands) = x
<1> DEFINE b == Last(p.pipelines)
           t == b.commands
           r == Front(t) \o <<x>>
           y == [b EXCEPT !.commands = r]
<1>1. b \in PipelineRecords /\ t \in Seq(CommandRecords) \ {<<>>}
  BY LastIs
<1>2. OnCommand(p, x) = OnPipeline(p, y)
  BY DEF OnCommand
<1> HIDE DEF t, r, b
<1>3. /\ r \in Seq(CommandRecords) \ {<<>>}
      /\ Len(r) = Len(t)
      /\ \A k \in 1..Len(t) - 1 : r[k] = t[k]
      /\ Last(r) = x
  BY <1>1, ReplaceLast DEF r
<1>4. y = [background |-> b.background, commands |-> r] /\ b.background \in BOOLEAN
  <2>1. b = [background |-> b.background, commands |-> b.commands] /\ b.background \in BOOLEAN
    BY <1>1 DEF PipelineRecords
  <2> QED BY <2>1
<1> HIDE DEF y
<1>5. y \in PipelineRecords
  BY <1>3, <1>4 DEF PipelineRecords
<1>6. y.background = b.background /\ y.commands = r
  BY <1>4
<1> DEFINE q == OnPipeline(p, y)
<1>7. /\ q \in ParserStates
      /\ q.skip = p.skip /\ q.ok = p.ok
      /\ Len(q.pipelines) = Len(p.pipelines)
      /\ \A k \in 1..Len(p.pipelines) - 1 : q.pipelines[k] = p.pipelines[k]
      /\ Last(q.pipelines) = y
  BY <1>5, OnPipelineIs
<1> HIDE DEF q
<1> QED BY <1>2, <1>3, <1>6, <1>7 DEF q, b, t

LEMMA RecordsHold ==
  /\ NoCommand \in CommandRecords
  /\ NoPipeline \in PipelineRecords
  /\ Start \in ParserStates
  /\ \A p \in ParserStates : Fail(p) \in ParserStates /\ ~Fail(p).ok
  /\ \A p \in ParserStates : /\ Used(p) \in ParserStates /\ Used(p).skip
                             /\ Used(p).pipelines = p.pipelines /\ Used(p).ok = p.ok
<1>1. NoCommand \in CommandRecords
  <2>1. <<>> \in Seq(STRING)
    OBVIOUS
  <2>2. NoFile \in STRING \cup {NoFile}
    OBVIOUS
  <2> QED BY <2>1, <2>2, Zenon DEF NoCommand, CommandRecords
<1>2. NoPipeline \in PipelineRecords
  <2>1. <<NoCommand>> \in Seq(CommandRecords) /\ <<NoCommand>> # <<>>
    BY <1>1
  <2> QED BY <2>1 DEF NoPipeline, PipelineRecords
<1>3. Start \in ParserStates
  <2>1. <<NoPipeline>> \in Seq(PipelineRecords) /\ <<NoPipeline>> # <<>>
    BY <1>2
  <2> QED BY <2>1 DEF Start, ParserStates
<1>4. ASSUME NEW p \in ParserStates
      PROVE  /\ Fail(p) \in ParserStates /\ ~Fail(p).ok
             /\ Used(p) \in ParserStates /\ Used(p).skip
             /\ Used(p).pipelines = p.pipelines /\ Used(p).ok = p.ok
  BY DEF ParserStates, Fail, Used
<1> QED BY <1>1, <1>2, <1>3, <1>4

-----------------------------------------------------------------------------
(* Parts and what stands in them.                                          *)

LEMMA CutsAre ==
  ASSUME NEW l \in Seq(STRING)
  PROVE  /\ Len(l) \in Nat /\ DOMAIN l = 1..Len(l)
         /\ \A i \in 1..Len(l) : l[i] \in STRING
         /\ Cuts(l) \subseteq 0..Len(l)
         /\ \A c : Inside(l, c) \subseteq 1..Len(l) /\ WordsOf(l, c) \subseteq Inside(l, c)
         /\ \A c \in Nat : \A n \in Inside(l, c) : l[n] \notin {"|", ";"}
<1>1. Len(l) \in Nat /\ DOMAIN l = 1..Len(l) /\ \A i \in 1..Len(l) : l[i] \in STRING
  BY ElementOfSeq, LenProperties
<1>2. Cuts(l) \subseteq 0..Len(l)
  <2>1. 0 \in 0..Len(l) /\ DOMAIN l \subseteq 0..Len(l)
    BY <1>1
  <2> QED BY <2>1 DEF Cuts
<1>3. ASSUME NEW c
      PROVE  Inside(l, c) \subseteq 1..Len(l) /\ WordsOf(l, c) \subseteq Inside(l, c)
  BY <1>1 DEF Inside, WordsOf
<1>4. ASSUME NEW c \in Nat, NEW n \in Inside(l, c)
      PROVE  l[n] \notin {"|", ";"}
  <2>1. SUFFICES ASSUME l[n] \in {"|", ";"}
                 PROVE  FALSE
    OBVIOUS
  <2>2. n \in DOMAIN l /\ c < n /\ \A x \in Cuts(l) : x <= c \/ n < x
    BY DEF Inside
  <2>3. n \in Cuts(l)
    BY <2>1, <2>2 DEF Cuts
  <2>4. n \in Nat
    BY <1>1, <2>2
  <2>5. n <= c
    BY <2>2, <2>3, <2>4
  <2> QED BY <2>2, <2>4, <2>5
<1> QED BY <1>1, <1>2, <1>3, <1>4

LEMMA PartIs ==
  ASSUME NEW l \in Seq(STRING), NEW m \in Nat, m < Len(l), NEW c, IsPart(l, c, m)
  PROVE  /\ c \in Nat /\ c <= m /\ m + 1 \in 1..Len(l)
         /\ l[m + 1] \notin {"|", ";"} => IsPart(l, c, m + 1) /\ m + 1 \in Inside(l, c)
         /\ l[m + 1] \in {"|", ";"} =>
              /\ IsPart(l, m + 1, m + 1) /\ m + 1 \in Cuts(l)
              /\ \A n \in Inside(l, c) : n <= m
<1>1. /\ Len(l) \in Nat /\ DOMAIN l = 1..Len(l) /\ Cuts(l) \subseteq 0..Len(l)
      /\ Inside(l, c) \subseteq 1..Len(l)
  BY CutsAre
<1>2. c \in Cuts(l) /\ c <= m /\ \A x \in Cuts(l) : x <= c \/ m < x
  BY DEF IsPart
<1>3. c \in Nat /\ m + 1 \in 1..Len(l) /\ m + 1 \in DOMAIN l
  BY <1>1, <1>2
<1>4. ASSUME l[m + 1] \notin {"|", ";"}
      PROVE  IsPart(l, c, m + 1) /\ m + 1 \in Inside(l, c)
  <2>1. m + 1 \notin Cuts(l)
    <3>1. m + 1 # 0
      OBVIOUS
    <3> QED BY <1>4, <3>1 DEF Cuts
  <2>2. \A x \in Cuts(l) : x <= c \/ m + 1 < x
    <3>1. ASSUME NEW x \in Cuts(l)
          PROVE  x <= c \/ m + 1 < x
      <4>1. x \in Nat /\ x # m + 1
        BY <1>1, <2>1
      <4> QED BY <1>2, <1>3, <4>1
    <3> QED BY <3>1
  <2>3. c < m + 1 /\ c <= m + 1
    BY <1>2, <1>3
  <2> QED BY <1>2, <1>3, <2>2, <2>3 DEF IsPart, Inside
<1>5. ASSUME l[m + 1] \in {"|", ";"}
      PROVE  /\ IsPart(l, m + 1, m + 1) /\ m + 1 \in Cuts(l)
             /\ \A n \in Inside(l, c) : n <= m
  <2>1. m + 1 \in Cuts(l)
    BY <1>3, <1>5 DEF Cuts
  <2>2. \A x \in Cuts(l) : x <= m + 1 \/ m + 1 < x
    BY <1>1
  <2>3. ASSUME NEW n \in Inside(l, c)
        PROVE  n <= m
    <3>1. m + 1 <= c \/ n < m + 1
      BY <2>1 DEF Inside
    <3>2. n \in Nat
      BY <1>1
    <3> QED BY <1>2, <1>3, <3>1, <3>2
  <2> QED BY <2>1, <2>2, <2>3 DEF IsPart
<1> QED BY <1>2, <1>3, <1>4, <1>5

LEMMA WordsGrow ==
  ASSUME NEW l \in Seq(STRING), NEW m \in Nat, m < Len(l), NEW c, IsPart(l, c, m)
  PROVE  /\ WordsTo(l, c, m) \subseteq 0..m
         /\ m + 1 \in WordsOf(l, c) => WordsTo(l, c, m + 1) = WordsTo(l, c, m) \cup {m + 1}
         /\ m + 1 \notin WordsOf(l, c) => WordsTo(l, c, m + 1) = WordsTo(l, c, m)
         /\ l[m + 1] \in {"|", ";"} => WordsTo(l, c, m) = WordsOf(l, c)
<1>1. WordsOf(l, c) \subseteq Nat
  <2>1. WordsOf(l, c) \subseteq Inside(l, c) /\ Inside(l, c) \subseteq 1..Len(l)
    BY CutsAre
  <2> QED BY <2>1
<1>2. \A n \in WordsOf(l, c) : n <= m + 1 <=> n <= m \/ n = m + 1
  BY <1>1
<1>3. ASSUME l[m + 1] \in {"|", ";"}
      PROVE  \A n \in WordsOf(l, c) : n <= m
  <2>1. WordsOf(l, c) \subseteq Inside(l, c)
    BY CutsAre
  <2> QED BY <1>3, <2>1, PartIs
<1>4. WordsTo(l, c, m) \subseteq 0..m
  BY <1>1 DEF WordsTo
<1> QED BY <1>2, <1>3, <1>4 DEF WordsTo

LEMMA OperatorsGrow ==
  ASSUME NEW l \in Seq(STRING), NEW m \in Nat, m < Len(l), NEW c, IsPart(l, c, m), NEW ops
  PROVE  /\ OperatorsTo(l, c, ops, m) \subseteq 0..m
         /\ l[m + 1] \notin {"|", ";"} /\ l[m + 1] \in ops =>
              OperatorsTo(l, c, ops, m + 1) = OperatorsTo(l, c, ops, m) \cup {m + 1}
         /\ l[m + 1] \notin ops => OperatorsTo(l, c, ops, m + 1) = OperatorsTo(l, c, ops, m)
         /\ l[m + 1] \in {"|", ";"} => OperatorsTo(l, c, ops, m) = OperatorsOf(l, c, ops)
<1> DEFINE O == OperatorsOf(l, c, ops)
<1>1. O \subseteq Nat
  <2>1. O \subseteq Inside(l, c) /\ Inside(l, c) \subseteq 1..Len(l)
    BY CutsAre DEF OperatorsOf
  <2> HIDE DEF O
  <2> QED BY <2>1
<1>2. \A n \in O : n <= m + 1 <=> n <= m \/ n = m + 1
  BY <1>1
<1>3. l[m + 1] \notin {"|", ";"} /\ l[m + 1] \in ops => m + 1 \in O
  BY PartIs DEF OperatorsOf
<1>4. l[m + 1] \notin ops => m + 1 \notin O
  BY DEF OperatorsOf
<1>5. l[m + 1] \in {"|", ";"} => \A n \in O : n <= m
  BY PartIs DEF OperatorsOf
<1> HIDE DEF O
<1>6. {n \in O : n <= m} \subseteq 0..m
  <2>1. \A n \in O : n <= m => n \in 0..m
    BY <1>1
  <2> QED BY <2>1
<1>7. \A k : OperatorsTo(l, c, ops, k) = {n \in O : n <= k}
  BY DEF OperatorsTo, O
<1>8. l[m + 1] \notin {"|", ";"} /\ l[m + 1] \in ops =>
        {n \in O : n <= m + 1} = {n \in O : n <= m} \cup {m + 1}
  BY <1>2, <1>3
<1>9. l[m + 1] \notin ops => {n \in O : n <= m + 1} = {n \in O : n <= m}
  BY <1>2, <1>4
<1>10. l[m + 1] \in {"|", ";"} => {n \in O : n <= m} = O
  BY <1>5
<1> QED BY <1>6, <1>7, <1>8, <1>9, <1>10 DEF O

LEMMA NothingYet ==
  ASSUME NEW l \in Seq(STRING), NEW c \in Nat
  PROVE  /\ WordsTo(l, c, c) = {}
         /\ \A ops : OperatorsTo(l, c, ops, c) = {}
         /\ SaysTo(NoCommand, l, c, c)
<1>1. \A n \in Inside(l, c) : n \in Nat /\ c < n
  <2>1. Inside(l, c) \subseteq 1..Len(l)
    BY CutsAre
  <2>2. \A n \in Inside(l, c) : c < n
    BY DEF Inside
  <2> QED BY <2>1, <2>2
<1>2. \A n \in Inside(l, c) : ~(n <= c)
  BY <1>1
<1>3. WordsTo(l, c, c) = {}
  BY <1>2 DEF WordsTo, WordsOf
<1>4. ASSUME NEW ops
      PROVE  OperatorsTo(l, c, ops, c) = {}
  BY <1>2 DEF OperatorsTo, OperatorsOf
<1>5. Cardinality({}) = 0 /\ Len(<<>>) = 0
  BY FS_EmptySet
<1>6. /\ NoCommand.args = <<>> /\ NoCommand.in = NoFile /\ NoCommand.out = NoFile
      /\ NoCommand.append = FALSE
  BY DEF NoCommand
<1> QED BY <1>3, <1>4, <1>5, <1>6 DEF SaysTo, LeadsTo

(***************************************************************************)
(* The next item of a part, as the command that is being read has it: an   *)
(* argument, a redirection, or nothing it is concerned with.               *)
(***************************************************************************)
LEMMA ArgumentIsRead ==
  ASSUME NEW l \in Seq(STRING), NEW m \in Nat, m < Len(l), NEW c, IsPart(l, c, m),
         NEW x \in CommandRecords, SaysTo(x, l, c, m), m + 1 \in WordsOf(l, c)
  PROVE  LET y == [x EXCEPT !.args = Append(@, l[m + 1])] IN
         /\ y \in CommandRecords
         /\ SaysTo(y, l, c, m + 1)
<1> DEFINE y == [x EXCEPT !.args = Append(@, l[m + 1])]
           W == WordsTo(l, c, m)
           V == WordsTo(l, c, m + 1)
           a == Append(x.args, l[m + 1])
<1>1. l[m + 1] \in STRING /\ IsWord(l[m + 1])
  BY PartIs, CutsAre DEF WordsOf
<1>2. /\ x = [args |-> x.args, in |-> x.in, out |-> x.out, append |-> x.append]
      /\ x.args \in Seq(STRING) /\ x.in \in STRING \cup {NoFile}
      /\ x.out \in STRING \cup {NoFile} /\ x.append \in BOOLEAN
  BY DEF CommandRecords
<1>3. y = [args |-> a, in |-> x.in, out |-> x.out, append |-> x.append]
  <2>1. y = [x EXCEPT !.args = a]
    OBVIOUS
  <2> HIDE DEF a, y
  <2> QED BY <2>1, <1>2
<1> HIDE DEF y
<1>4. a \in Seq(STRING) /\ Len(x.args) \in Nat /\ Len(a) = Len(x.args) + 1
      /\ a[Len(x.args) + 1] = l[m + 1] /\ \A i \in 1..Len(x.args) : a[i] = x.args[i]
  BY <1>1, <1>2
<1> HIDE DEF a
<1>5. y \in CommandRecords
  BY <1>2, <1>3, <1>4, Zenon DEF CommandRecords
<1>6. y.args = a /\ y.in = x.in /\ y.out = x.out /\ y.append = x.append
  BY <1>3
<1>7. V = W \cup {m + 1} /\ W \subseteq 0..m
  BY WordsGrow
<1> HIDE DEF V, W
<1>8. \A n \in W : n < m + 1
  BY <1>7
<1>9. /\ Cardinality(V) = Cardinality(W) + 1
      /\ Rank(m + 1, V) = Cardinality(W) + 1
      /\ \A n \in W : Rank(n, V) = Rank(n, W)
  <2>1. m + 1 \in Nat
    OBVIOUS
  <2> QED BY <2>1, <1>7, <1>8, GreatestIsLast
<1>10. Len(x.args) = Cardinality(W) /\ \A n \in W : x.args[Rank(n, W)] = l[n]
  BY DEF SaysTo, W
<1>11. \A n \in W : Rank(n, W) \in 1..Cardinality(W)
  <2>1. \A n \in W : n \in Nat
    BY <1>7
  <2> QED BY <2>1, <1>7, RankIs
<1>12. Len(a) = Cardinality(V)
  BY <1>4, <1>9, <1>10
<1>13. ASSUME NEW n \in V
       PROVE  a[Rank(n, V)] = l[n]
  <2>1. CASE n = m + 1
    BY <2>1, <1>4, <1>9, <1>10
  <2>2. CASE n \in W
    <3>1. Rank(n, V) \in 1..Len(x.args) /\ Rank(n, V) = Rank(n, W)
      BY <2>2, <1>9, <1>10, <1>11
    <3> QED BY <2>2, <3>1, <1>4, <1>10
  <2> QED BY <1>7, <2>1, <2>2
<1>14. \A ops \in {{"<"}, RedirectOut, {">>"}} : OperatorsTo(l, c, ops, m + 1) = OperatorsTo(l, c, ops, m)
  <2>1. \A ops \in {{"<"}, RedirectOut, {">>"}} : l[m + 1] \notin ops
    BY <1>1 DEF IsWord, Operators, RedirectOut
  <2>2. ASSUME NEW ops, l[m + 1] \notin ops
        PROVE  OperatorsTo(l, c, ops, m + 1) = OperatorsTo(l, c, ops, m)
    BY <2>2, OperatorsGrow
  <2> QED BY <2>1, <2>2
<1>15. SaysTo(y, l, c, m + 1)
  BY <1>6, <1>12, <1>13, <1>14 DEF SaysTo, V
<1> QED BY <1>5, <1>15 DEF y

LEMMA RedirectionIsRead ==
  ASSUME NEW l \in Seq(STRING), NEW m \in Nat, m + 1 < Len(l), NEW c, IsPart(l, c, m),
         NEW x \in CommandRecords, SaysTo(x, l, c, m), l[m + 1] \in Redirections
  PROVE  LET y == IF l[m + 1] = "<" THEN [x EXCEPT !.in = l[m + 2]]
                  ELSE [x EXCEPT !.out = l[m + 2], !.append = @ \/ l[m + 1] = ">>"] IN
         /\ y \in CommandRecords
         /\ SaysTo(y, l, c, m + 1)
<1> DEFINE y == IF l[m + 1] = "<" THEN [x EXCEPT !.in = l[m + 2]]
                ELSE [x EXCEPT !.out = l[m + 2], !.append = @ \/ l[m + 1] = ">>"]
<1>0. m < Len(l) /\ m + 2 \in 1..Len(l) /\ (m + 1) + 1 = m + 2
  BY LenProperties
<1>1. l[m + 2] \in STRING
  BY <1>0, CutsAre
<1>2. /\ x = [args |-> x.args, in |-> x.in, out |-> x.out, append |-> x.append]
      /\ x.args \in Seq(STRING) /\ x.in \in STRING \cup {NoFile}
      /\ x.out \in STRING \cup {NoFile} /\ x.append \in BOOLEAN
  BY DEF CommandRecords
<1>3. y = [args |-> x.args,
           in |-> IF l[m + 1] = "<" THEN l[m + 2] ELSE x.in,
           out |-> IF l[m + 1] = "<" THEN x.out ELSE l[m + 2],
           append |-> IF l[m + 1] = "<" THEN x.append ELSE x.append \/ l[m + 1] = ">>"]
  BY <1>2
<1> HIDE DEF y
<1>4. /\ y.args = x.args
      /\ y.in = IF l[m + 1] = "<" THEN l[m + 2] ELSE x.in
      /\ y.out = IF l[m + 1] = "<" THEN x.out ELSE l[m + 2]
      /\ y.append = IF l[m + 1] = "<" THEN x.append ELSE x.append \/ l[m + 1] = ">>"
  BY <1>3
<1>5. y \in CommandRecords
  <2> DEFINE i == IF l[m + 1] = "<" THEN l[m + 2] ELSE x.in
             o == IF l[m + 1] = "<" THEN x.out ELSE l[m + 2]
             b == IF l[m + 1] = "<" THEN x.append ELSE x.append \/ l[m + 1] = ">>"
  <2>1. i \in STRING \cup {NoFile} /\ o \in STRING \cup {NoFile} /\ b \in BOOLEAN
    BY <1>1, <1>2
  <2>2. y = [args |-> x.args, in |-> i, out |-> o, append |-> b]
    BY <1>3, Zenon
  <2> HIDE DEF i, o, b
  <2> QED BY <1>2, <2>1, <2>2, Zenon DEF CommandRecords
<1>6. /\ l[m + 1] \notin {"|", ";"} /\ l[m + 1] \in {"<", ">", ">>"}
      /\ ~IsWord(l[m + 1])
  BY DEF Redirections, RedirectOut, IsWord, Operators
<1>7. WordsTo(l, c, m + 1) = WordsTo(l, c, m)
  BY <1>0, <1>6, WordsGrow DEF WordsOf
<1> DEFINE O(ops) == OperatorsTo(l, c, ops, m)
           P(ops) == OperatorsTo(l, c, ops, m + 1)
<1>8. ASSUME NEW ops
      PROVE  /\ O(ops) \subseteq 0..m
             /\ l[m + 1] \in ops => P(ops) = O(ops) \cup {m + 1}
             /\ l[m + 1] \notin ops => P(ops) = O(ops)
  BY <1>0, <1>6, OperatorsGrow, ZenonT(60)
<1>9. ASSUME NEW ops, l[m + 1] \in ops
      PROVE  LeadsTo(l[m + 2], l, P(ops))
  <2>1. P(ops) = O(ops) \cup {m + 1} /\ O(ops) \subseteq 0..m
    BY <1>8, <1>9
  <2> HIDE DEF O, P
  <2>2. m + 1 \in P(ops) /\ \A n \in P(ops) : n <= m + 1
    BY <2>1
  <2> QED BY <1>0, <2>2 DEF LeadsTo
<1>10. /\ LeadsTo(x.in, l, O({"<"})) /\ LeadsTo(x.out, l, O(RedirectOut))
       /\ x.append <=> O({">>"}) # {}
  BY DEF SaysTo
<1> HIDE DEF O, P
<1>11. LeadsTo(y.in, l, P({"<"}))
  <2>1. CASE l[m + 1] = "<"
    <3>1. y.in = l[m + 2] /\ l[m + 1] \in {"<"}
      BY <2>1, <1>4
    <3> QED BY <3>1, <1>9
  <2>2. CASE l[m + 1] # "<"
    <3>1. y.in = x.in /\ P({"<"}) = O({"<"})
      BY <2>2, <1>4, <1>8
    <3> QED BY <3>1, <1>10
  <2> QED BY <2>1, <2>2
<1>12. LeadsTo(y.out, l, P(RedirectOut))
  <2>1. CASE l[m + 1] # "<"
    <3>1. y.out = l[m + 2] /\ l[m + 1] \in RedirectOut
      BY <2>1, <1>4, <1>6 DEF RedirectOut
    <3> QED BY <3>1, <1>9
  <2>2. CASE l[m + 1] = "<"
    <3>1. y.out = x.out /\ l[m + 1] \notin RedirectOut
      BY <2>2, <1>4 DEF RedirectOut
    <3> QED BY <3>1, <1>8, <1>10
  <2> QED BY <2>1, <2>2
<1>13. y.append <=> P({">>"}) # {}
  <2>1. CASE l[m + 1] = ">>"
    <3>1. y.append /\ P({">>"}) = O({">>"}) \cup {m + 1}
      BY <2>1, <1>4, <1>8
    <3> QED BY <3>1
  <2>2. CASE l[m + 1] # ">>"
    <3>1. P({">>"}) = O({">>"})
      BY <2>2, <1>8
    <3>2. y.append <=> x.append
      BY <2>2, <1>4
    <3> QED BY <3>1, <3>2, <1>10
  <2> QED BY <2>1, <2>2
<1>14. SaysTo(y, l, c, m + 1)
  <2>1. /\ Len(x.args) = Cardinality(WordsTo(l, c, m))
        /\ \A n \in WordsTo(l, c, m) : x.args[Rank(n, WordsTo(l, c, m))] = l[n]
    BY DEF SaysTo
  <2> QED BY <2>1, <1>4, <1>7, <1>11, <1>12, <1>13, Zenon DEF SaysTo, P
<1> QED BY <1>5, <1>14 DEF y

LEMMA NothingIsRead ==
  ASSUME NEW l \in Seq(STRING), NEW m \in Nat, m < Len(l), NEW c, IsPart(l, c, m),
         NEW x, SaysTo(x, l, c, m), l[m + 1] \notin Redirections, m + 1 \notin WordsOf(l, c)
  PROVE  SaysTo(x, l, c, m + 1)
<1>1. WordsTo(l, c, m + 1) = WordsTo(l, c, m)
  BY WordsGrow
<1>2. \A ops \in {{"<"}, RedirectOut, {">>"}} : OperatorsTo(l, c, ops, m + 1) = OperatorsTo(l, c, ops, m)
  <2>1. \A ops \in {{"<"}, RedirectOut, {">>"}} : l[m + 1] \notin ops
    BY DEF Redirections, RedirectOut
  <2> QED BY <2>1, OperatorsGrow, ZenonT(60)
<1> QED BY <1>1, <1>2 DEF SaysTo

-----------------------------------------------------------------------------
(* One token.                                                              *)

AtCut(l, n) == l[n] \in {"|", ";"}

LEMMA CompleteIs ==
  ASSUME NEW l \in Seq(STRING), NEW k, NEW c
  PROVE  /\ Complete(l, k, c) \subseteq 0..Len(l)
         /\ IsFiniteSet(Complete(l, k, c)) /\ Cardinality(Complete(l, k, c)) \in Nat
         /\ Cardinality(Complete(l, k, c)) = 0 <=> Complete(l, k, c) = {}
         /\ \A d \in Complete(l, k, c) :
              Rank(d, Complete(l, k, c)) \in 1..Cardinality(Complete(l, k, c))
<1> DEFINE C == Complete(l, k, c)
<1>1. C \subseteq 0..Len(l) /\ Len(l) \in Nat
  BY CutsAre DEF Complete, PartsOf, CommandParts
<1> HIDE DEF C
<1>2. IsFiniteSet(C) /\ Cardinality(C) \in Nat /\ (Cardinality(C) = 0 <=> C = {})
  BY <1>1, BoundedIsFinite
<1>3. \A d \in C : d \in Nat
  BY <1>1
<1>4. \A d \in C : Rank(d, C) \in 1..Cardinality(C)
  BY <1>1, <1>3, RankIs
<1> QED BY <1>1, <1>2, <1>4 DEF C

(***************************************************************************)
(* q has the pipelines and commands of p, but for the command being read.  *)
(***************************************************************************)
OthersStay(p, q) ==
  /\ Len(q.pipelines) = Len(p.pipelines)
  /\ \A k \in 1..Len(p.pipelines) - 1 : q.pipelines[k] = p.pipelines[k]
  /\ Len(Last(q.pipelines).commands) = Len(Last(p.pipelines).commands)
  /\ \A i \in 1..Len(Last(p.pipelines).commands) - 1 :
       Last(q.pipelines).commands[i] = Last(p.pipelines).commands[i]

CommandFollows(q, l, c, m) == SaysTo(Last(Last(q.pipelines).commands), l, c, m + 1)
FlagsFollow(p, q, l, m) ==
  /\ Last(q.pipelines).background <=> Last(p.pipelines).background \/ l[m + 1] = "&"
  /\ q.skip <=> l[m + 1] \in Redirections
  /\ q.skip => m + 1 < Len(l) /\ IsWord(l[m + 2])

(***************************************************************************)
(* A token inside a part changes the command that is being read, and the   *)
(* background of its pipeline, and nothing else.                           *)
(***************************************************************************)
LEMMA StaysInPart ==
  ASSUME NEW l \in Seq(STRING), NEW m \in Nat, m < Len(l), NEW c,
         NEW p \in ParserStates, HasRead(p, l, c, m), ~AtCut(l, m + 1),
         NEW q \in ParserStates,
         OthersStay(p, q),
         CommandFollows(q, l, c, m), FlagsFollow(p, q, l, m)
  PROVE  HasRead(q, l, c, m + 1)
<1> DEFINE b == Last(p.pipelines)
           e == Last(q.pipelines)
           k == Len(p.pipelines)
           C == Complete(l, k, c)
<1>1. /\ IsPart(l, c, m) /\ AfterCut(l, c, m) /\ k = PipelineOf(l, c)
      /\ LastSays(b, l, k, c, m)
      /\ \A j \in 1..k - 1 : FinishedSays(p.pipelines[j], l, j, c)
  BY DEF HasRead
<1>2. IsPart(l, c, m + 1) /\ m + 1 \in Inside(l, c) /\ c \in Nat /\ c <= m
  BY <1>1, PartIs DEF AtCut
<1>3. (m + 1) + 1 = m + 2 /\ m + 1 # 0
  OBVIOUS
<1>4. q.skip <=> Skips(l, m + 1)
  BY <1>3 DEF Skips, FlagsFollow
<1>5. q.skip => m + 1 < Len(l) /\ IsWord(l[(m + 1) + 1])
  BY <1>3 DEF FlagsFollow
<1>6. AfterCut(l, c, m + 1)
  <2>1. CASE c # 0 /\ l[c] = "|"
    <3>1. WordsTo(l, c, m + 1) # {}
      <4>1. CASE m = c
        <5>1. IsWord(l[m + 1])
          BY <1>1, <2>1, <4>1 DEF AfterCut
        <5>2. ~IsTarget(l, m + 1)
          <6>1. l[(m + 1) - 1] = "|"
            BY <2>1, <4>1
          <6> QED BY <6>1 DEF IsTarget, RedirectOut
        <5>3. m + 1 \in WordsOf(l, c)
          BY <1>2, <5>1, <5>2 DEF WordsOf
        <5>4. m + 1 <= m + 1
          OBVIOUS
        <5> QED BY <5>3, <5>4 DEF WordsTo
      <4>2. CASE m # c
        <5>1. WordsTo(l, c, m) # {}
          BY <1>1, <2>1, <4>2 DEF AfterCut
        <5>2. WordsTo(l, c, m) \subseteq WordsTo(l, c, m + 1)
          <6>1. m + 1 \in WordsOf(l, c) \/ m + 1 \notin WordsOf(l, c)
            OBVIOUS
          <6>2. m + 1 \in WordsOf(l, c) => WordsTo(l, c, m + 1) = WordsTo(l, c, m) \cup {m + 1}
            BY <1>1, WordsGrow
          <6>3. m + 1 \notin WordsOf(l, c) => WordsTo(l, c, m + 1) = WordsTo(l, c, m)
            BY <1>1, WordsGrow
          <6> HIDE DEF k, b, e, C
          <6> QED BY <6>1, <6>2, <6>3
        <5> QED BY <5>1, <5>2
      <4> QED BY <4>1, <4>2
    <3>2. m + 1 # c
      BY <1>2
    <3> QED BY <2>1, <3>1, <3>2 DEF AfterCut
  <2>2. CASE ~(c # 0 /\ l[c] = "|")
    BY <1>1, <2>2 DEF AfterCut
  <2> QED BY <2>1, <2>2
<1>7. LastSays(e, l, k, c, m + 1)
  <2>1. /\ PipelineSays(b, l, k, c)
        /\ Len(b.commands) = Cardinality(C) + 1
        /\ b.background <=> HasAmpersand(l, k, c) \/ OperatorsTo(l, c, {"&"}, m) # {}
    BY <1>1 DEF LastSays
  <2>2. /\ Cardinality(C) \in Nat
        /\ \A d \in C : Rank(d, C) \in 1..Cardinality(C)
    BY CompleteIs
  <2>3. \A i \in 1..Cardinality(C) : e.commands[i] = b.commands[i]
    BY <2>1, <2>2 DEF OthersStay
  <2>4. PipelineSays(e, l, k, c)
    BY <2>1, <2>2, <2>3 DEF PipelineSays
  <2>5. OperatorsTo(l, c, {"&"}, m + 1) # {} <=>
          (OperatorsTo(l, c, {"&"}, m) # {} \/ l[m + 1] = "&")
    <3>1. CASE l[m + 1] = "&"
      <4>1. OperatorsTo(l, c, {"&"}, m + 1) = OperatorsTo(l, c, {"&"}, m) \cup {m + 1}
        BY <1>1, <3>1, OperatorsGrow DEF AtCut
      <4> QED BY <3>1, <4>1
    <3>2. CASE l[m + 1] # "&"
      <4>1. OperatorsTo(l, c, {"&"}, m + 1) = OperatorsTo(l, c, {"&"}, m)
        BY <1>1, <3>2, OperatorsGrow
      <4> QED BY <3>2, <4>1
    <3> QED BY <3>1, <3>2
  <2> HIDE DEF b, e, k, C
  <2>6. e.background <=> HasAmpersand(l, k, c) \/ OperatorsTo(l, c, {"&"}, m + 1) # {}
    BY <2>1, <2>5 DEF b, e, FlagsFollow
  <2>7. Len(e.commands) = Cardinality(C) + 1
    BY <2>1 DEF b, e, OthersStay
  <2>8. SaysTo(Last(e.commands), l, c, m + 1)
    BY DEF e, CommandFollows
  <2> QED BY <2>4, <2>6, <2>7, <2>8 DEF LastSays, C
<1>8. Len(q.pipelines) = k /\ \A j \in 1..k - 1 : FinishedSays(q.pipelines[j], l, j, c)
  BY <1>1 DEF OthersStay
<1> QED BY <1>1, <1>2, <1>4, <1>5, <1>6, <1>7, <1>8 DEF HasRead

(***************************************************************************)
(* What the parser does with an item, by what the item is.                 *)
(***************************************************************************)
Following(l, n) == IF n = Len(l) THEN "end" ELSE TokenType(l, n + 1)

LEMMA FollowingIs ==
  ASSUME NEW l \in Seq(STRING), NEW n \in 1..Len(l),
         Following(l, n) \in {"command", "argument"}
  PROVE  n < Len(l) /\ IsWord(l[n + 1])
<1>1. n # Len(l)
  BY DEF Following
<1>2. TokenType(l, n + 1) \in {"command", "argument"}
  BY <1>1 DEF Following
<1>3. IsWord(l[n + 1])
  BY <1>2 DEF TokenType, IsWord, Operators, RedirectOut
<1>4. Len(l) \in Nat
  BY LenProperties
<1> QED BY <1>1, <1>3, <1>4

IsReadSo(l, p, n, q) ==
  /\ p.skip => q = [p EXCEPT !.skip = FALSE]
  /\ ~p.skip /\ l[n] = ";" => q = ParseSeparator(p)
  /\ ~p.skip /\ l[n] = "|" => q = ParsePipe(p, Following(l, n))
  /\ ~p.skip /\ l[n] = "&" => q = ParseBackground(p)
  /\ ~p.skip /\ l[n] \in Redirections =>
       q = ParseRedirection(p, l[n], l[n + 1], Following(l, n))
  /\ ~p.skip /\ IsWord(l[n]) => q = ParseWord(p, l[n], TokenType(l, n))

LEMMA TokenIs ==
  ASSUME NEW l, NEW n, NEW p, p.ok
  PROVE  IsReadSo(l, p, n, ParseToken(l, p, n))
<1> DEFINE type == TokenType(l, n)
           next == IF n = Len(l) THEN "end" ELSE TokenType(l, n + 1)
           chosen == CASE type = ";" -> ParseSeparator(p)
                       [] type = "|" -> ParsePipe(p, next)
                       [] type = "&" -> ParseBackground(p)
                       [] type \in {"<"} \cup RedirectOut ->
                            ParseRedirection(p, type, l[n + 1], next)
                       [] OTHER -> ParseWord(p, l[n], type)
<1>1. ParseToken(l, p, n) = IF ~p.ok THEN p
                            ELSE IF p.skip THEN [p EXCEPT !.skip = FALSE]
                            ELSE chosen
  BY DEF ParseToken
<1>2. next = Following(l, n)
  BY DEF Following
<1>3. ~IsWord(l[n]) => type = l[n]
  BY DEF TokenType
<1>4. IsWord(l[n]) => type \in {"command", "argument"}
  BY DEF TokenType
<1>5. \A o \in Operators : ~IsWord(o)
  BY DEF IsWord
<1> HIDE DEF type, next
<1>6. l[n] = ";" => chosen = ParseSeparator(p)
  <2>1. l[n] = ";" => type = ";"
    BY <1>3, <1>5 DEF Operators
  <2>2. ";" # "|" /\ ";" # "&" /\ ";" \notin {"<"} \cup RedirectOut
    BY DEF RedirectOut
  <2> QED BY <2>1, <2>2, Zenon
<1>7. l[n] = "|" => chosen = ParsePipe(p, next)
  <2>1. l[n] = "|" => type = "|"
    BY <1>3, <1>5 DEF Operators
  <2>2. "|" # ";" /\ "|" # "&" /\ "|" \notin {"<"} \cup RedirectOut
    BY DEF RedirectOut
  <2> QED BY <2>1, <2>2, Zenon
<1>8. l[n] = "&" => chosen = ParseBackground(p)
  <2>1. l[n] = "&" => type = "&"
    BY <1>3, <1>5 DEF Operators
  <2>2. "&" # ";" /\ "&" # "|" /\ "&" \notin {"<"} \cup RedirectOut
    BY DEF RedirectOut
  <2> QED BY <2>1, <2>2, Zenon
<1>9. l[n] \in Redirections => chosen = ParseRedirection(p, l[n], l[n + 1], next)
  <2>1. l[n] \in Redirections => type = l[n]
    BY <1>3, <1>5 DEF Operators, Redirections
  <2>2. l[n] \in Redirections => l[n] # ";" /\ l[n] # "|" /\ l[n] # "&"
    BY DEF Redirections, RedirectOut
  <2> QED BY <2>1, <2>2, Zenon DEF Redirections
<1>10. IsWord(l[n]) => chosen = ParseWord(p, l[n], type)
  <2>1. IsWord(l[n]) => /\ type # ";" /\ type # "|" /\ type # "&"
                        /\ type \notin {"<"} \cup RedirectOut
    BY <1>4 DEF RedirectOut
  <2> QED BY <2>1, Zenon
<1> HIDE DEF chosen
<1> QED BY <1>1, <1>2, <1>6, <1>7, <1>8, <1>9, <1>10 DEF type, IsReadSo

(***************************************************************************)
(* An item inside a part.                                                  *)
(***************************************************************************)
IsInside(l, p, c, m) ==
  /\ l \in Seq(STRING) /\ m \in Nat /\ m < Len(l)
  /\ p \in ParserStates /\ p.ok /\ HasRead(p, l, c, m)
  /\ ~AtCut(l, m + 1)

IsGood(q, l, c, m) == q \in ParserStates /\ (q.ok => HasRead(q, l, c, m + 1))

LEMMA InsideIs ==
  ASSUME NEW l, NEW p, NEW c, NEW m, IsInside(l, p, c, m)
  PROVE  /\ m + 1 \in 1..Len(l) /\ m + 1 \in Inside(l, c) /\ m < m + 1 /\ c \in Nat
         /\ IsPart(l, c, m)
         /\ p.skip => IsWord(l[m + 1]) /\ IsTarget(l, m + 1)
         /\ ~p.skip => ~IsTarget(l, m + 1)
         /\ Current(p) \in CommandRecords /\ SaysTo(Current(p), l, c, m)
         /\ \/ IsWord(l[m + 1]) \/ l[m + 1] = "&" \/ l[m + 1] \in Redirections
<1>1. l \in Seq(STRING) /\ m \in Nat /\ m < Len(l)
  BY DEF IsInside
<1>2. IsPart(l, c, m)
  BY DEF IsInside, HasRead
<1>3. m + 1 \in 1..Len(l) /\ m + 1 \in Inside(l, c) /\ c \in Nat
  BY <1>1, <1>2, PartIs DEF IsInside, AtCut
<1>4. (m + 1) - 1 = m /\ (m + 1 > 1 <=> m # 0)
  BY <1>1
<1>5. IsTarget(l, m + 1) <=> Skips(l, m)
  BY <1>4 DEF IsTarget, Skips, Redirections
<1>6. (p.skip <=> Skips(l, m)) /\ (p.skip => IsWord(l[m + 1]))
  BY DEF IsInside, HasRead
<1>7. Current(p) \in CommandRecords
  BY LastIs DEF IsInside
<1>8. SaysTo(Current(p), l, c, m)
  BY DEF IsInside, HasRead, LastSays, Current
<1>9. IsWord(l[m + 1]) \/ l[m + 1] = "&" \/ l[m + 1] \in Redirections
  BY DEF IsInside, AtCut, IsWord, Operators, Redirections
<1>10. m < m + 1
  BY <1>1
<1> QED BY <1>2, <1>3, <1>5, <1>6, <1>7, <1>8, <1>9, <1>10

LEMMA TargetIsSkipped ==
  ASSUME NEW l, NEW p, NEW c, NEW m, IsInside(l, p, c, m), p.skip
  PROVE  IsGood(ParseToken(l, p, m + 1), l, c, m)
<1> DEFINE q == ParseToken(l, p, m + 1)
<1>1. /\ l \in Seq(STRING) /\ m \in Nat /\ m < Len(l)
      /\ p \in ParserStates /\ p.ok /\ HasRead(p, l, c, m) /\ ~AtCut(l, m + 1)
  BY DEF IsInside
<1>2. q = [p EXCEPT !.skip = FALSE]
  <2>1. IsReadSo(l, p, m + 1, q)
    BY <1>1, TokenIs
  <2> HIDE DEF q
  <2> QED BY <2>1 DEF IsReadSo
<1> HIDE DEF q
<1>3. q \in ParserStates /\ q.pipelines = p.pipelines /\ q.skip = FALSE
  BY <1>1, <1>2 DEF ParserStates
<1>4. IsWord(l[m + 1]) /\ IsTarget(l, m + 1) /\ IsPart(l, c, m)
  BY InsideIs
<1>5. l[m + 1] # "&" /\ l[m + 1] \notin Redirections
  BY <1>4 DEF IsWord, Operators, Redirections
<1>6. OthersStay(p, q)
  BY <1>3 DEF OthersStay
<1>7. FlagsFollow(p, q, l, m)
  BY <1>3, <1>5 DEF FlagsFollow
<1>8. SaysTo(Current(p), l, c, m + 1)
  <2>1. SaysTo(Current(p), l, c, m)
    BY InsideIs
  <2>2. m + 1 \notin WordsOf(l, c)
    BY <1>4 DEF WordsOf
  <2> QED BY <1>1, <1>4, <1>5, <2>1, <2>2, NothingIsRead
<1>9. CommandFollows(q, l, c, m)
  BY <1>3, <1>8 DEF CommandFollows, Current
<1>10. HasRead(q, l, c, m + 1)
  BY <1>1, <1>3, <1>6, <1>7, <1>9, StaysInPart
<1> QED BY <1>3, <1>10 DEF IsGood, q

LEMMA AmpersandIsRead ==
  ASSUME NEW l, NEW p, NEW c, NEW m, IsInside(l, p, c, m), ~p.skip, l[m + 1] = "&"
  PROVE  IsGood(ParseToken(l, p, m + 1), l, c, m)
<1> DEFINE q == ParseToken(l, p, m + 1)
           b == Last(p.pipelines)
           x == [b EXCEPT !.background = TRUE]
<1>1. /\ l \in Seq(STRING) /\ m \in Nat /\ m < Len(l)
      /\ p \in ParserStates /\ p.ok /\ HasRead(p, l, c, m) /\ ~AtCut(l, m + 1)
  BY DEF IsInside
<1>2. q = OnPipeline(p, x)
  <2>1. IsReadSo(l, p, m + 1, q)
    BY <1>1, TokenIs
  <2> HIDE DEF q
  <2> QED BY <2>1 DEF IsReadSo, ParseBackground
<1>3. b \in PipelineRecords
  BY <1>1, LastIs
<1> HIDE DEF q, b
<1>4. x \in PipelineRecords /\ x.background = TRUE /\ x.commands = b.commands
  BY <1>3 DEF PipelineRecords
<1> HIDE DEF x
<1>5. /\ q \in ParserStates
      /\ q.skip = p.skip /\ q.ok = p.ok
      /\ Len(q.pipelines) = Len(p.pipelines)
      /\ \A k \in 1..Len(p.pipelines) - 1 : q.pipelines[k] = p.pipelines[k]
      /\ Last(q.pipelines) = x
  BY <1>1, <1>2, <1>4, OnPipelineIs
<1>6. OthersStay(p, q)
  BY <1>4, <1>5 DEF OthersStay, b
<1>7. ~IsWord(l[m + 1]) /\ l[m + 1] \notin Redirections
  BY DEF IsWord, Operators, Redirections, RedirectOut
<1>8. FlagsFollow(p, q, l, m)
  BY <1>4, <1>5, <1>7 DEF FlagsFollow
<1>9. SaysTo(Current(p), l, c, m + 1)
  <2>1. SaysTo(Current(p), l, c, m) /\ IsPart(l, c, m)
    BY InsideIs
  <2>2. m + 1 \notin WordsOf(l, c)
    BY <1>7 DEF WordsOf
  <2> QED BY <1>1, <1>7, <2>1, <2>2, NothingIsRead
<1>10. CommandFollows(q, l, c, m)
  BY <1>4, <1>5, <1>9 DEF CommandFollows, Current, b
<1>11. HasRead(q, l, c, m + 1)
  BY <1>1, <1>5, <1>6, <1>8, <1>10, StaysInPart
<1> QED BY <1>5, <1>11 DEF IsGood, q

LEMMA WordIsRead ==
  ASSUME NEW l, NEW p, NEW c, NEW m, IsInside(l, p, c, m), ~p.skip, IsWord(l[m + 1])
  PROVE  IsGood(ParseToken(l, p, m + 1), l, c, m)
<1> DEFINE q == ParseToken(l, p, m + 1)
           x == [Current(p) EXCEPT !.args = Append(@, l[m + 1])]
<1>1. /\ l \in Seq(STRING) /\ m \in Nat /\ m < Len(l)
      /\ p \in ParserStates /\ p.ok /\ HasRead(p, l, c, m) /\ ~AtCut(l, m + 1)
  BY DEF IsInside
<1>2. q = Fail(p) \/ q = OnCommand(p, x)
  <2>1. q = ParseWord(p, l[m + 1], TokenType(l, m + 1))
    BY <1>1, TokenIs DEF IsReadSo
  <2> HIDE DEF q
  <2> QED BY <2>1 DEF ParseWord
<1>3. /\ IsPart(l, c, m) /\ Current(p) \in CommandRecords /\ SaysTo(Current(p), l, c, m)
      /\ m + 1 \in WordsOf(l, c)
  BY InsideIs DEF WordsOf
<1>4. x \in CommandRecords /\ SaysTo(x, l, c, m + 1)
  BY <1>1, <1>3, ArgumentIsRead
<1> HIDE DEF x, q
<1>5. CASE q = Fail(p)
  BY <1>1, <1>5, RecordsHold DEF IsGood, q
<1>6. CASE q = OnCommand(p, x)
  <2>1. /\ q \in ParserStates
        /\ q.skip = p.skip /\ q.ok = p.ok
        /\ Len(q.pipelines) = Len(p.pipelines)
        /\ \A k \in 1..Len(p.pipelines) - 1 : q.pipelines[k] = p.pipelines[k]
        /\ Last(q.pipelines).background = Last(p.pipelines).background
        /\ Len(Last(q.pipelines).commands) = Len(Last(p.pipelines).commands)
        /\ \A i \in 1..Len(Last(p.pipelines).commands) - 1 :
             Last(q.pipelines).commands[i] = Last(p.pipelines).commands[i]
        /\ Last(Last(q.pipelines).commands) = x
    BY <1>1, <1>4, <1>6, OnCommandIs
  <2>2. OthersStay(p, q)
    BY <2>1 DEF OthersStay
  <2>3. l[m + 1] # "&" /\ l[m + 1] \notin Redirections
    BY DEF IsWord, Operators, Redirections
  <2>4. FlagsFollow(p, q, l, m)
    BY <2>1, <2>3 DEF FlagsFollow
  <2>5. CommandFollows(q, l, c, m)
    BY <1>4, <2>1 DEF CommandFollows
  <2>6. HasRead(q, l, c, m + 1)
    BY <1>1, <2>1, <2>2, <2>4, <2>5, StaysInPart
  <2> QED BY <2>1, <2>6 DEF IsGood, q
<1> QED BY <1>2, <1>5, <1>6

LEMMA TargetIsRead ==
  ASSUME NEW l, NEW p, NEW c, NEW m, IsInside(l, p, c, m), ~p.skip,
         l[m + 1] \in Redirections
  PROVE  IsGood(ParseToken(l, p, m + 1), l, c, m)
<1> DEFINE q == ParseToken(l, p, m + 1)
           x == IF l[m + 1] = "<" THEN [Current(p) EXCEPT !.in = l[m + 2]]
                ELSE [Current(p) EXCEPT !.out = l[m + 2],
                                        !.append = @ \/ l[m + 1] = ">>"]
           o == OnCommand(p, x)
<1>1. /\ l \in Seq(STRING) /\ m \in Nat /\ m < Len(l)
      /\ p \in ParserStates /\ p.ok /\ HasRead(p, l, c, m) /\ ~AtCut(l, m + 1)
  BY DEF IsInside
<1>2. (m + 1) + 1 = m + 2
  BY <1>1
<1>3. \/ q = Fail(p)
      \/ q = Used(o) /\ Following(l, m + 1) = "argument"
  <2>1. q = ParseRedirection(p, l[m + 1], l[m + 2], Following(l, m + 1))
    <3>1. IsReadSo(l, p, m + 1, q)
      BY <1>1, TokenIs
    <3> HIDE DEF q
    <3> QED BY <3>1, <1>2 DEF IsReadSo
  <2> HIDE DEF q
  <2> QED BY <2>1 DEF ParseRedirection
<1>4. IsPart(l, c, m) /\ Current(p) \in CommandRecords /\ SaysTo(Current(p), l, c, m)
      /\ m + 1 \in 1..Len(l)
  BY InsideIs
<1> HIDE DEF q, x, o
<1>5. CASE q = Fail(p)
  BY <1>1, <1>5, RecordsHold DEF IsGood, q
<1>6. CASE q = Used(o) /\ Following(l, m + 1) = "argument"
  <2>1. m + 1 < Len(l) /\ IsWord(l[m + 2])
    BY <1>1, <1>2, <1>4, <1>6, FollowingIs
  <2>2. x \in CommandRecords /\ SaysTo(x, l, c, m + 1)
    BY <1>1, <1>4, <2>1, RedirectionIsRead DEF x
  <2>3. /\ o \in ParserStates
        /\ o.skip = p.skip /\ o.ok = p.ok
        /\ Len(o.pipelines) = Len(p.pipelines)
        /\ \A k \in 1..Len(p.pipelines) - 1 : o.pipelines[k] = p.pipelines[k]
        /\ Last(o.pipelines).background = Last(p.pipelines).background
        /\ Len(Last(o.pipelines).commands) = Len(Last(p.pipelines).commands)
        /\ \A i \in 1..Len(Last(p.pipelines).commands) - 1 :
             Last(o.pipelines).commands[i] = Last(p.pipelines).commands[i]
        /\ Last(Last(o.pipelines).commands) = x
    BY <1>1, <2>2, OnCommandIs DEF o
  <2>4. q \in ParserStates /\ q.skip /\ q.pipelines = o.pipelines /\ q.ok = o.ok
    BY <1>6, <2>3, RecordsHold
  <2>5. OthersStay(p, q)
    BY <2>3, <2>4 DEF OthersStay
  <2>6. l[m + 1] # "&"
    BY DEF Redirections, RedirectOut
  <2>7. FlagsFollow(p, q, l, m)
    BY <2>1, <2>3, <2>4, <2>6 DEF FlagsFollow
  <2>8. CommandFollows(q, l, c, m)
    BY <2>2, <2>3, <2>4 DEF CommandFollows
  <2>9. HasRead(q, l, c, m + 1)
    BY <1>1, <2>4, <2>5, <2>7, <2>8, StaysInPart
  <2> QED BY <2>4, <2>9 DEF IsGood, q
<1> QED BY <1>3, <1>5, <1>6

LEMMA InsideStep ==
  ASSUME NEW l, NEW p, NEW c, NEW m, IsInside(l, p, c, m)
  PROVE  IsGood(ParseToken(l, p, m + 1), l, c, m)
<1>1. IsWord(l[m + 1]) \/ l[m + 1] = "&" \/ l[m + 1] \in Redirections
  BY InsideIs
<1> QED BY <1>1, TargetIsSkipped, AmpersandIsRead, WordIsRead, TargetIsRead

-----------------------------------------------------------------------------
(* A pipe or a separator ends a part.                                      *)

IsAtCut(l, p, c, m) ==
  /\ l \in Seq(STRING) /\ m \in Nat /\ m < Len(l)
  /\ p \in ParserStates /\ p.ok /\ HasRead(p, l, c, m)
  /\ AtCut(l, m + 1)

LEMMA CutIs ==
  ASSUME NEW l, NEW p, NEW c, NEW m, IsAtCut(l, p, c, m)
  PROVE  /\ c \in Nat /\ c <= m /\ c < m + 1 /\ m + 1 \in Nat /\ m + 1 \in 1..Len(l)
         /\ c \in Cuts(l) /\ m + 1 \in Cuts(l)
         /\ \A x \in Cuts(l) : x \in Nat /\ (x <= c \/ m < x) /\ (x <= c \/ m + 1 <= x)
         /\ IsPart(l, c, m) /\ IsPart(l, m + 1, m + 1)
         /\ ~p.skip /\ ~Skips(l, m + 1)
         /\ Ends(l) \subseteq 0..Len(l) /\ Len(l) \in Nat
<1>1. l \in Seq(STRING) /\ m \in Nat /\ m < Len(l)
  BY DEF IsAtCut
<1>2. IsPart(l, c, m)
  BY DEF IsAtCut, HasRead
<1>3. c \in Nat /\ c <= m /\ m + 1 \in 1..Len(l)
  BY <1>1, <1>2, PartIs
<1>4. IsPart(l, m + 1, m + 1) /\ m + 1 \in Cuts(l)
  BY <1>1, <1>2, PartIs DEF IsAtCut, AtCut
<1>5. c \in Cuts(l) /\ \A x \in Cuts(l) : x <= c \/ m < x
  BY <1>2 DEF IsPart
<1>6. Len(l) \in Nat /\ Cuts(l) \subseteq 0..Len(l)
  BY <1>1, CutsAre
<1>7. \A x \in Cuts(l) : x \in Nat
  BY <1>6
<1>8. \A x \in Cuts(l) : x <= c \/ m + 1 <= x
  BY <1>1, <1>5, <1>7
<1>9. ~p.skip
  BY DEF IsAtCut, HasRead, AtCut, IsWord, Operators
<1>10. ~Skips(l, m + 1)
  BY DEF IsAtCut, AtCut, Skips, Redirections, RedirectOut
<1>11. Ends(l) \subseteq 0..Len(l)
  BY <1>6 DEF Ends
<1>12. c < m + 1 /\ m + 1 \in Nat
  BY <1>1, <1>3
<1> QED BY <1>2, <1>3, <1>4, <1>5, <1>6, <1>7, <1>8, <1>9, <1>10, <1>11, <1>12

(***************************************************************************)
(* Part c ends after m items: with a pipe, a separator or the line.        *)
(***************************************************************************)
IsOver(l, p, c, m) ==
  /\ l \in Seq(STRING) /\ m \in Nat
  /\ p \in ParserStates /\ HasRead(p, l, c, m)
  /\ \A x \in Cuts(l) : x <= c \/ m + 1 <= x
  /\ \A n \in Inside(l, c) : n <= m

LEMMA CutIsOver ==
  ASSUME NEW l, NEW p, NEW c, NEW m, IsAtCut(l, p, c, m)
  PROVE  IsOver(l, p, c, m)
<1>1. \A x \in Cuts(l) : x <= c \/ m + 1 <= x
  BY CutIs
<1>2. \A n \in Inside(l, c) : n <= m
  <2>1. l \in Seq(STRING) /\ m \in Nat /\ m < Len(l) /\ IsPart(l, c, m)
    BY CutIs DEF IsAtCut
  <2> QED BY <2>1, PartIs DEF IsAtCut, AtCut
<1> QED BY <1>1, <1>2 DEF IsAtCut, IsOver

LEMMA OverIs ==
  ASSUME NEW l, NEW p, NEW c, NEW m, IsOver(l, p, c, m)
  PROVE  /\ c \in Nat /\ c <= m /\ c < m + 1 /\ m + 1 \in Nat /\ c \in Cuts(l)
         /\ \A x \in Cuts(l) : x \in Nat /\ (x <= c \/ m + 1 <= x)
         /\ WordsTo(l, c, m) = WordsOf(l, c) /\ WordsOf(l, c) \subseteq 0..m
         /\ \A ops : OperatorsTo(l, c, ops, m) = OperatorsOf(l, c, ops)
<1>1. l \in Seq(STRING) /\ m \in Nat /\ p \in ParserStates
  BY DEF IsOver
<1>2. c \in Cuts(l) /\ c <= m
  BY DEF IsOver, HasRead, IsPart
<1>3. \A x \in Cuts(l) : x \in Nat
  <2>1. Cuts(l) \subseteq 0..Len(l)
    BY <1>1, CutsAre
  <2> QED BY <2>1
<1>4. \A n \in Inside(l, c) : n <= m /\ n \in 0..m
  <2>1. Inside(l, c) \subseteq 1..Len(l) /\ Len(l) \in Nat
    BY <1>1, CutsAre
  <2>2. \A n \in Inside(l, c) : n <= m
    BY DEF IsOver
  <2> QED BY <1>1, <2>1, <2>2
<1>5. c \in Nat /\ c < m + 1 /\ m + 1 \in Nat
  BY <1>1, <1>2, <1>3
<1>6. \A x \in Cuts(l) : x <= c \/ m + 1 <= x
  BY DEF IsOver
<1>7. WordsTo(l, c, m) = WordsOf(l, c) /\ WordsOf(l, c) \subseteq 0..m
  BY <1>4 DEF WordsTo, WordsOf
<1>8. \A ops : OperatorsTo(l, c, ops, m) = OperatorsOf(l, c, ops)
  BY <1>4 DEF OperatorsTo, OperatorsOf
<1> QED BY <1>2, <1>3, <1>5, <1>6, <1>7, <1>8

(***************************************************************************)
(* The part that ends is complete now, if it has a command.                *)
(***************************************************************************)
LEMMA PartEnds ==
  ASSUME NEW l, NEW p, NEW c, NEW m, IsOver(l, p, c, m), NEW k
  PROVE  /\ c \in PartsOf(l, k) => Complete(l, k, m + 1) = Complete(l, k, c) \cup {c}
         /\ c \notin PartsOf(l, k) => Complete(l, k, m + 1) = Complete(l, k, c)
<1>1. \A d \in PartsOf(l, k) : d \in Cuts(l)
  BY DEF PartsOf, CommandParts
<1>2. c \in Nat /\ m \in Nat /\ c < m + 1 /\ \A x \in Cuts(l) : x \in Nat /\ (x <= c \/ m + 1 <= x)
  BY OverIs DEF IsOver
<1>3. \A d \in PartsOf(l, k) : d < m + 1 <=> d < c \/ d = c
  BY <1>1, <1>2
<1> QED BY <1>3 DEF Complete

LEMMA CommandEnds ==
  ASSUME NEW l, NEW p, NEW c, NEW m, IsOver(l, p, c, m)
  PROVE  /\ StandsIn(Current(p), l, c)
         /\ Current(p).args # <<>> <=> WordsOf(l, c) # {}
         /\ Current(p).args # <<>> <=> c \in CommandParts(l)
         /\ OperatorsTo(l, c, {"&"}, m) = OperatorsOf(l, c, {"&"})
<1>1. l \in Seq(STRING) /\ m \in Nat /\ p \in ParserStates
  BY DEF IsOver
<1>2. c \in Cuts(l)
  BY OverIs
<1>3. WordsTo(l, c, m) = WordsOf(l, c) /\ WordsOf(l, c) \subseteq 0..m
  BY OverIs
<1>4. \A ops : OperatorsTo(l, c, ops, m) = OperatorsOf(l, c, ops)
  BY OverIs
<1>5. SaysTo(Current(p), l, c, m)
  BY DEF IsOver, HasRead, LastSays, Current
<1>6. StandsIn(Current(p), l, c)
  BY <1>3, <1>4, <1>5 DEF SaysTo, StandsIn
<1>7. Current(p).args \in Seq(STRING)
  BY <1>1, LastIs DEF CommandRecords
<1>8. Len(Current(p).args) = Cardinality(WordsOf(l, c))
  BY <1>6 DEF StandsIn
<1>9. Cardinality(WordsOf(l, c)) = 0 <=> WordsOf(l, c) = {}
  BY <1>1, <1>3, BoundedIsFinite
<1>10. Current(p).args # <<>> <=> WordsOf(l, c) # {}
  BY <1>7, <1>8, <1>9, EmptySeq
<1>11. c \in CommandParts(l) <=> WordsOf(l, c) # {}
  BY <1>2 DEF CommandParts
<1> QED BY <1>4, <1>6, <1>10, <1>11

LEMMA LastIsFinished ==
  ASSUME NEW l, NEW p, NEW c, NEW m, IsOver(l, p, c, m), Current(p).args # <<>>
  PROVE  FinishedSays(Last(p.pipelines), l, Len(p.pipelines), m + 1)
<1> DEFINE b == Last(p.pipelines)
           k == Len(p.pipelines)
           C == Complete(l, k, c)
           D == Complete(l, k, m + 1)
<1>1. l \in Seq(STRING) /\ m \in Nat /\ p \in ParserStates
  BY DEF IsOver
<1>2. k = PipelineOf(l, c) /\ LastSays(b, l, k, c, m)
  BY DEF IsOver, HasRead
<1>3. c \in PartsOf(l, k)
  BY <1>2, CommandEnds DEF PartsOf
<1>4. D = C \cup {c}
  BY <1>3, PartEnds
<1>5. C \subseteq 0..Len(l) /\ Cardinality(C) \in Nat
      /\ \A d \in C : Rank(d, C) \in 1..Cardinality(C)
  BY <1>1, CompleteIs
<1>6. \A d \in C : d < c
  BY DEF Complete
<1>7. /\ Cardinality(D) = Cardinality(C) + 1
      /\ Rank(c, D) = Cardinality(C) + 1
      /\ \A d \in C : Rank(d, D) = Rank(d, C)
  <2>1. c \in Nat /\ Len(l) \in Nat
    BY <1>1, OverIs, CutsAre
  <2> HIDE DEF C, D
  <2> QED BY <1>4, <1>5, <1>6, <2>1, GreatestIsLast
<1>8. /\ \A d \in C : StandsIn(b.commands[Rank(d, C)], l, d)
      /\ \A i \in 1..Cardinality(C) : b.commands[i].args # <<>>
      /\ Len(b.commands) = Cardinality(C) + 1
      /\ b.background <=> HasAmpersand(l, k, c) \/ OperatorsOf(l, c, {"&"}) # {}
  <2>1. OperatorsTo(l, c, {"&"}, m) = OperatorsOf(l, c, {"&"})
    BY CommandEnds
  <2> QED BY <1>2, <2>1 DEF LastSays, PipelineSays
<1>9. Current(p) = b.commands[Cardinality(C) + 1]
  BY <1>1, <1>8, LastIs
<1>10. StandsIn(b.commands[Cardinality(C) + 1], l, c)
  BY <1>9, CommandEnds
<1>11. b.background <=> HasAmpersand(l, k, m + 1)
  BY <1>4, <1>8 DEF HasAmpersand
<1> HIDE DEF b, C, D, k
<1>12. \A d \in D : StandsIn(b.commands[Rank(d, D)], l, d)
  BY <1>4, <1>7, <1>8, <1>10
<1>13. \A i \in 1..Cardinality(D) : b.commands[i].args # <<>>
  BY <1>5, <1>7, <1>8, <1>9
<1>14. Len(b.commands) = Cardinality(D)
  BY <1>7, <1>8
<1> QED BY <1>11, <1>12, <1>13, <1>14 DEF FinishedSays, PipelineSays, b, D, k

(***************************************************************************)
(* The pipelines before the one the part belongs to do not change.         *)
(***************************************************************************)
LEMMA FinishedStay ==
  ASSUME NEW l, NEW p, NEW c, NEW m, IsOver(l, p, c, m)
  PROVE  \A j \in 1..Len(p.pipelines) - 1 : FinishedSays(p.pipelines[j], l, j, m + 1)
<1> DEFINE k == Len(p.pipelines)
<1>1. k \in Nat /\ k = PipelineOf(l, c)
      /\ \A j \in 1..k - 1 : FinishedSays(p.pipelines[j], l, j, c)
  BY LastIs DEF IsOver, HasRead
<1>2. ASSUME NEW j \in 1..k - 1
      PROVE  FinishedSays(p.pipelines[j], l, j, m + 1)
  <2>1. j # k
    BY <1>1
  <2>2. c \notin PartsOf(l, j)
    BY <1>1, <2>1 DEF PartsOf
  <2>3. Complete(l, j, m + 1) = Complete(l, j, c)
    BY <2>2, PartEnds
  <2>4. FinishedSays(p.pipelines[j], l, j, c)
    BY <1>1
  <2> QED BY <2>3, <2>4 DEF FinishedSays, PipelineSays, HasAmpersand
<1> QED BY <1>2

(***************************************************************************)
(* The command that is being read there is the first one of its pipeline   *)
(* if that one has no argument yet.                                        *)
(***************************************************************************)
LEMMA FirstCommand ==
  ASSUME NEW l, NEW p, NEW c, NEW m, IsOver(l, p, c, m),
         ~(m < Len(l) /\ IsWord(l[m + 1]))
  PROVE  /\ HasNoCommand(Last(p.pipelines)) <=> Current(p).args = <<>>
         /\ HasNoCommand(Last(p.pipelines)) => Complete(l, Len(p.pipelines), c) = {}
<1> DEFINE b == Last(p.pipelines)
           k == Len(p.pipelines)
           C == Complete(l, k, c)
<1>1. l \in Seq(STRING) /\ m \in Nat /\ p \in ParserStates
  BY DEF IsOver
<1>2. /\ k = PipelineOf(l, c) /\ LastSays(b, l, k, c, m)
      /\ AfterCut(l, c, m)
  BY DEF IsOver, HasRead
<1>3. /\ Cardinality(C) \in Nat /\ (Cardinality(C) = 0 <=> C = {})
  BY <1>1, CompleteIs
<1>4. /\ \A i \in 1..Cardinality(C) : b.commands[i].args # <<>>
      /\ Len(b.commands) = Cardinality(C) + 1
  BY <1>2 DEF LastSays, PipelineSays
<1>5. b.commands \in Seq(CommandRecords) /\ Current(p) = b.commands[Len(b.commands)]
  BY <1>1, LastIs
<1>6. HasNoCommand(b) <=> b.commands[1].args = <<>>
  <2>1. b.commands # <<>>
    BY <1>1, LastIs
  <2>2. Head(b.commands) = b.commands[1]
    <3> HIDE DEF b
    <3> QED BY <1>5, <2>1
  <2> QED BY <2>2 DEF HasNoCommand
<1> HIDE DEF b, C, k
<1>7. CASE C = {}
  <2>1. Current(p) = b.commands[1]
    BY <1>3, <1>4, <1>5, <1>7
  <2> QED BY <1>6, <1>7, <2>1 DEF b, C, k
<1>8. CASE C # {}
  <2>1. ~HasNoCommand(b)
    <3>1. 1 \in 1..Cardinality(C)
      BY <1>3, <1>8
    <3> QED BY <1>4, <1>6, <3>1
  <2>2. c # 0 /\ l[c] = "|"
    BY <1>2, <1>8 DEF AfterCut, C
  <2>3. m # c
    BY <1>2, <2>2 DEF AfterCut
  <2>4. WordsTo(l, c, m) # {}
    BY <1>2, <2>2, <2>3 DEF AfterCut
  <2>5. WordsOf(l, c) # {}
    BY <2>4 DEF WordsTo
  <2> QED BY <2>1, <2>5, CommandEnds DEF b
<1> QED BY <1>7, <1>8

LEMMA PipeIsRead ==
  ASSUME NEW l, NEW p, NEW c, NEW m, IsAtCut(l, p, c, m), l[m + 1] = "|"
  PROVE  IsGood(ParseToken(l, p, m + 1), l, m + 1, m)
<1> DEFINE q == ParseToken(l, p, m + 1)
           b == Last(p.pipelines)
           k == Len(p.pipelines)
           x == [b EXCEPT !.commands = Append(@, NoCommand)]
           D == Complete(l, k, m + 1)
<1>1. l \in Seq(STRING) /\ m \in Nat /\ m < Len(l) /\ p \in ParserStates /\ p.ok
  BY DEF IsAtCut
<1>2. \/ q = Fail(p)
      \/ /\ q = OnPipeline(p, x) /\ Current(p).args # <<>>
         /\ Following(l, m + 1) = "command"
  <2>1. q = ParsePipe(p, Following(l, m + 1))
    <3>1. IsReadSo(l, p, m + 1, q) /\ ~p.skip
      BY <1>1, TokenIs, CutIs
    <3> HIDE DEF q
    <3> QED BY <3>1 DEF IsReadSo
  <2> HIDE DEF q
  <2> QED BY <2>1 DEF ParsePipe
<1>3. /\ b \in PipelineRecords /\ k \in Nat \ {0} /\ p.pipelines[k] = b
  BY <1>1, LastIs DEF Last
<1> HIDE DEF q
<1>4. CASE q = Fail(p)
  BY <1>1, <1>4, RecordsHold DEF IsGood, q
<1>5. CASE /\ q = OnPipeline(p, x) /\ Current(p).args # <<>>
           /\ Following(l, m + 1) = "command"
  <2>1. m + 1 < Len(l) /\ IsWord(l[(m + 1) + 1])
    BY <1>1, <1>5, CutIs, FollowingIs
  <2>2. FinishedSays(b, l, k, m + 1)
    BY <1>5, CutIsOver, LastIsFinished
  <2>3. /\ x \in PipelineRecords /\ x.background = b.background
        /\ Len(x.commands) = Len(b.commands) + 1 /\ Len(b.commands) \in Nat
        /\ \A i \in 1..Len(b.commands) : x.commands[i] = b.commands[i]
        /\ Last(x.commands) = NoCommand
    <3> DEFINE t == Append(b.commands, NoCommand)
    <3>1. b.commands \in Seq(CommandRecords) /\ b.background \in BOOLEAN
          /\ b = [background |-> b.background, commands |-> b.commands]
      BY <1>3 DEF PipelineRecords
    <3>2. t \in Seq(CommandRecords) /\ Len(t) = Len(b.commands) + 1 /\ Len(b.commands) \in Nat
          /\ t[Len(b.commands) + 1] = NoCommand
          /\ \A i \in 1..Len(b.commands) : t[i] = b.commands[i]
      <4>1. NoCommand \in CommandRecords
        BY RecordsHold
      <4> HIDE DEF b
      <4> QED BY <3>1, <4>1
    <3>3. t # <<>> /\ Last(t) = NoCommand
      <4> HIDE DEF t, b
      <4>1. Len(t) # 0
        BY <3>2
      <4> QED BY <3>2, <4>1, EmptySeq DEF Last
    <3>4. x = [background |-> b.background, commands |-> t]
      <4> HIDE DEF b
      <4>1. x = [b EXCEPT !.commands = t]
        OBVIOUS
      <4> HIDE DEF t, x
      <4> QED BY <3>1, <4>1
    <3> HIDE DEF t, x, b
    <3>5. x \in PipelineRecords
      BY <3>1, <3>2, <3>3, <3>4, Zenon DEF PipelineRecords
    <3> QED BY <3>2, <3>3, <3>4, <3>5
  <2> HIDE DEF x, b
  <2>4. /\ q \in ParserStates
        /\ q.skip = p.skip /\ q.ok = p.ok
        /\ Len(q.pipelines) = k
        /\ \A j \in 1..k - 1 : q.pipelines[j] = p.pipelines[j]
        /\ Last(q.pipelines) = x
    BY <1>1, <1>5, <2>3, OnPipelineIs
  <2>5. LastSays(x, l, k, m + 1, m + 1)
    <3>1. Cardinality(D) \in Nat /\ \A d \in D : Rank(d, D) \in 1..Cardinality(D)
      BY <1>1, CompleteIs
    <3>2. /\ \A d \in D : StandsIn(b.commands[Rank(d, D)], l, d)
          /\ \A i \in 1..Cardinality(D) : b.commands[i].args # <<>>
          /\ Len(b.commands) = Cardinality(D)
          /\ b.background <=> HasAmpersand(l, k, m + 1)
      BY <2>2 DEF FinishedSays, PipelineSays
    <3>3. SaysTo(NoCommand, l, m + 1, m + 1) /\ OperatorsTo(l, m + 1, {"&"}, m + 1) = {}
      BY <1>1, CutIs, NothingYet
    <3> HIDE DEF D
    <3>4. \A d \in D : StandsIn(x.commands[Rank(d, D)], l, d)
      BY <2>3, <3>1, <3>2
    <3>5. \A i \in 1..Cardinality(D) : x.commands[i].args # <<>>
      BY <2>3, <3>2
    <3> HIDE DEF k
    <3> QED BY <2>3, <3>2, <3>3, <3>4, <3>5 DEF LastSays, PipelineSays, D
  <2>6. PipelineOf(l, m + 1) = PipelineOf(l, c)
    <3>1. ASSUME NEW z \in Ends(l)
          PROVE  z <= c \/ m + 1 < z
      <4>1. z \in Cuts(l) /\ l[z] = ";"
        BY DEF Ends
      <4>2. z # m + 1 /\ z \in Nat /\ (z <= c \/ m + 1 <= z)
        BY <4>1, CutIs
      <4>3. c \in Nat /\ m \in Nat
        BY <1>1, CutIs
      <4> QED BY <4>2, <4>3
    <3>2. c \in Nat /\ m + 1 \in Nat /\ c <= m + 1 /\ Ends(l) \subseteq 0..Len(l) /\ Len(l) \in Nat
      BY <1>1, CutIs
    <3>3. Rank(c, Ends(l)) = Rank(m + 1, Ends(l))
      BY <3>1, <3>2, RanksGrow
    <3> QED BY <3>3 DEF PipelineOf
  <2>7. k = PipelineOf(l, c)
    BY DEF IsAtCut, HasRead
  <2>8. \A j \in 1..k - 1 : FinishedSays(q.pipelines[j], l, j, m + 1)
    BY <2>4, CutIsOver, FinishedStay
  <2>9. AfterCut(l, m + 1, m + 1)
    BY <1>1, <2>1 DEF AfterCut
  <2>10. IsPart(l, m + 1, m + 1) /\ ~Skips(l, m + 1) /\ ~q.skip
    BY <2>4, CutIs
  <2>11. HasRead(q, l, m + 1, m + 1)
    BY <2>4, <2>5, <2>6, <2>7, <2>8, <2>9, <2>10 DEF HasRead
  <2> QED BY <2>4, <2>11 DEF IsGood, q
<1> QED BY <1>2, <1>4, <1>5

LEMMA NewPipeline ==
  ASSUME NEW l \in Seq(STRING), NEW c \in Nat, NEW k, Complete(l, k, c) = {}
  PROVE  LastSays(NoPipeline, l, k, c, c)
<1> DEFINE D == Complete(l, k, c)
<1>1. SaysTo(NoCommand, l, c, c) /\ OperatorsTo(l, c, {"&"}, c) = {}
  BY NothingYet
<1>2. NoPipeline.background = FALSE /\ NoPipeline.commands = <<NoCommand>>
  BY DEF NoPipeline
<1>3. Len(<<NoCommand>>) = 1 /\ Last(<<NoCommand>>) = NoCommand
  BY DEF Last
<1>4. D = {}
  OBVIOUS
<1> HIDE DEF D
<1>5. Cardinality(D) = 0
  BY <1>4, FS_EmptySet
<1>6. 1..Cardinality(D) = {} /\ Len(NoPipeline.commands) = Cardinality(D) + 1
  <2>1. Len(NoPipeline.commands) = 1
    BY <1>2, <1>3
  <2> QED BY <1>5, <2>1
<1>7. PipelineSays(NoPipeline, l, k, c) /\ ~HasAmpersand(l, k, c)
  BY <1>4, <1>6, Zenon DEF PipelineSays, HasAmpersand, D
<1>8. SaysTo(Last(NoPipeline.commands), l, c, c)
  BY <1>1, <1>2, <1>3
<1> QED BY <1>1, <1>2, <1>6, <1>7, <1>8, Zenon DEF LastSays, D

AtSeparator(l, n) == l[n] = ";"

LEMMA SeparatorEnds ==
  ASSUME NEW l, NEW p, NEW c, NEW m, IsAtCut(l, p, c, m), AtSeparator(l, m + 1),
         Current(p).args # <<>>
  PROVE  IsGood(ParseToken(l, p, m + 1), l, m + 1, m)
<1>0. /\ IsOver(l, p, c, m)
      /\ HasNoCommand(Last(p.pipelines)) <=> Current(p).args = <<>>
      /\ HasNoCommand(Last(p.pipelines)) => Complete(l, Len(p.pipelines), c) = {}
  <2>1. ~(m < Len(l) /\ IsWord(l[m + 1]))
    BY DEF IsWord, Operators, AtSeparator
  <2> QED BY <2>1, CutIsOver, FirstCommand
<1> DEFINE q == ParseToken(l, p, m + 1)
           b == Last(p.pipelines)
           k == Len(p.pipelines)
           s == Append(p.pipelines, NoPipeline)
<1>1. l \in Seq(STRING) /\ m \in Nat /\ m < Len(l) /\ p \in ParserStates /\ p.ok
  BY DEF IsAtCut
<1>2. q = [p EXCEPT !.pipelines = s]
  <2>1. q = ParseSeparator(p)
    <3>1. IsReadSo(l, p, m + 1, q) /\ ~p.skip
      BY <1>1, TokenIs, CutIs
    <3> HIDE DEF q
    <3> QED BY <3>1 DEF IsReadSo, AtSeparator
  <2>2. ~HasNoCommand(b)
    BY <1>0
  <2> HIDE DEF q
  <2> QED BY <2>1, <2>2 DEF ParseSeparator
<1> HIDE DEF q
<1>3. /\ p.pipelines \in Seq(PipelineRecords) /\ k \in Nat \ {0} /\ p.pipelines[k] = b
      /\ NoPipeline \in PipelineRecords
  BY <1>1, LastIs, RecordsHold DEF Last, ParserStates
<1>4. /\ s \in Seq(PipelineRecords) /\ Len(s) = k + 1 /\ s[k + 1] = NoPipeline
      /\ \A j \in 1..k : s[j] = p.pipelines[j]
  <2> HIDE DEF b
  <2> QED BY <1>3
<1>5. s # <<>> /\ Last(s) = NoPipeline
  <2> HIDE DEF s, k
  <2>1. Len(s) # 0
    BY <1>3, <1>4
  <2> QED BY <1>4, <2>1, EmptySeq DEF Last
<1> HIDE DEF s
<1>6. q \in ParserStates /\ q.pipelines = s /\ q.skip = p.skip
  <2>1. p = [pipelines |-> p.pipelines, skip |-> p.skip, ok |-> p.ok]
        /\ p.skip \in BOOLEAN /\ p.ok \in BOOLEAN
    BY <1>1 DEF ParserStates
  <2>2. q = [pipelines |-> s, skip |-> p.skip, ok |-> p.ok]
    BY <1>2, <2>1
  <2>3. q \in ParserStates
    BY <1>4, <1>5, <2>1, <2>2 DEF ParserStates
  <2> QED BY <2>2, <2>3
<1>7. k = PipelineOf(l, c) /\ c \in CommandParts(l)
  BY <1>0, CommandEnds DEF IsAtCut, HasRead
<1>8. /\ c \in Nat /\ m + 1 \in Nat /\ c < m + 1 /\ c <= m + 1
      /\ c \in Cuts(l) /\ m + 1 \in Cuts(l) /\ m + 1 # 0
      /\ \A x \in Cuts(l) : x \in Nat /\ (x <= c \/ m + 1 <= x)
      /\ Ends(l) \subseteq 0..Len(l) /\ Len(l) \in Nat
  BY <1>1, CutIs
<1>9. PipelineOf(l, m + 1) = k + 1
  <2>1. m + 1 \in Ends(l)
    BY <1>7, <1>8 DEF Ends, AtSeparator
  <2>2. \A z \in Ends(l) : z <= c \/ m + 1 <= z
    BY <1>8 DEF Ends
  <2>3. Rank(m + 1, Ends(l)) = Rank(c, Ends(l)) + 1
    BY <1>8, <2>1, <2>2, RanksGrow
  <2>4. Rank(c, Ends(l)) \in Nat
    BY <1>8, RanksGrow
  <2> QED BY <1>7, <2>3, <2>4 DEF PipelineOf
<1>10. Complete(l, k + 1, m + 1) = {}
  <2>1. ASSUME NEW d \in PartsOf(l, k + 1), d < m + 1
        PROVE  FALSE
    <3>1. d \in Cuts(l) /\ PipelineOf(l, d) = k + 1
      BY DEF PartsOf, CommandParts
    <3>2. d \in Nat /\ d <= c
      <4>1. d \in Nat /\ (d <= c \/ m + 1 <= d)
        BY <1>8, <3>1
      <4>2. d < m + 1 /\ m + 1 \in Nat /\ c \in Nat
        BY <1>8, <2>1
      <4> HIDE DEF k
      <4> QED BY <4>1, <4>2
    <3>3. Rank(d, Ends(l)) \in Nat /\ Rank(c, Ends(l)) \in Nat
          /\ Rank(d, Ends(l)) <= Rank(c, Ends(l))
      BY <1>8, <3>2, RanksGrow
    <3> QED BY <1>7, <3>1, <3>3 DEF PipelineOf
  <2> QED BY <2>1 DEF Complete
<1>11. LastSays(NoPipeline, l, k + 1, m + 1, m + 1)
  BY <1>1, <1>8, <1>10, NewPipeline
<1>12. \A j \in 1..k : FinishedSays(s[j], l, j, m + 1)
  <2>1. \A j \in 1..k - 1 : FinishedSays(p.pipelines[j], l, j, m + 1)
    BY <1>0, FinishedStay
  <2>2. FinishedSays(p.pipelines[k], l, k, m + 1)
    BY <1>0, <1>3, LastIsFinished
  <2>3. \A j \in 1..k : j \in 1..k - 1 \/ j = k
    BY <1>3
  <2> HIDE DEF k
  <2> QED BY <1>4, <2>1, <2>2, <2>3
<1>13. AfterCut(l, m + 1, m + 1)
  BY <1>9, <1>10 DEF AfterCut, AtSeparator
<1>14. IsPart(l, m + 1, m + 1) /\ ~Skips(l, m + 1) /\ ~q.skip
  BY <1>6, CutIs
<1>15. Len(s) - 1 = k
  <2> HIDE DEF k
  <2> QED BY <1>3, <1>4
<1>16. HasRead(q, l, m + 1, m + 1)
  BY <1>4, <1>5, <1>6, <1>9, <1>11, <1>12, <1>13, <1>14, <1>15 DEF HasRead
<1> QED BY <1>6, <1>16 DEF IsGood, q

LEMMA SeparatorIsIdle ==
  ASSUME NEW l, NEW p, NEW c, NEW m, IsAtCut(l, p, c, m), AtSeparator(l, m + 1),
         Current(p).args = <<>>, IsOrderly(l)
  PROVE  IsGood(ParseToken(l, p, m + 1), l, m + 1, m)
<1>0. /\ IsOver(l, p, c, m)
      /\ HasNoCommand(Last(p.pipelines)) <=> Current(p).args = <<>>
      /\ HasNoCommand(Last(p.pipelines)) => Complete(l, Len(p.pipelines), c) = {}
  <2>1. ~(m < Len(l) /\ IsWord(l[m + 1]))
    BY DEF IsWord, Operators, AtSeparator
  <2> QED BY <2>1, CutIsOver, FirstCommand
<1> DEFINE q == ParseToken(l, p, m + 1)
           b == Last(p.pipelines)
           k == Len(p.pipelines)
<1>1. l \in Seq(STRING) /\ m \in Nat /\ m < Len(l) /\ p \in ParserStates /\ p.ok
  BY DEF IsAtCut
<1>2. q = p
  <2>1. q = ParseSeparator(p)
    <3>1. IsReadSo(l, p, m + 1, q) /\ ~p.skip
      BY <1>1, TokenIs, CutIs
    <3> HIDE DEF q
    <3> QED BY <3>1 DEF IsReadSo, AtSeparator
  <2>2. HasNoCommand(b)
    BY <1>0
  <2> HIDE DEF q
  <2> QED BY <2>1, <2>2 DEF ParseSeparator
<1> HIDE DEF q
<1>3. /\ k = PipelineOf(l, c) /\ LastSays(b, l, k, c, m)
      /\ SaysTo(Current(p), l, c, m)
  BY DEF IsAtCut, HasRead, LastSays, Current
<1>4. Complete(l, k, c) = {}
  BY <1>0
<1>5. /\ c \in Nat /\ m + 1 \in Nat /\ c < m + 1 /\ c <= m + 1 /\ c <= m
      /\ c \in Cuts(l) /\ m + 1 \in Cuts(l) /\ m + 1 # 0
      /\ \A x \in Cuts(l) : x \in Nat /\ (x <= c \/ m < x) /\ (x <= c \/ m + 1 <= x)
      /\ Ends(l) \subseteq 0..Len(l) /\ Len(l) \in Nat
  BY <1>1, CutIs
<1>6. WordsOf(l, c) = {} /\ c \notin CommandParts(l)
  BY <1>0, CommandEnds
<1>7. m = c
  <2>1. Inside(l, c) = {}
    BY <1>5, <1>6 DEF IsOrderly
  <2>2. SUFFICES ASSUME c < m
                 PROVE  FALSE
    BY <1>1, <1>5
  <2>3. m \in DOMAIN l
    <3>1. DOMAIN l = 1..Len(l)
      BY <1>1, CutsAre
    <3>2. m \in Nat /\ m < Len(l) /\ c \in Nat /\ Len(l) \in Nat
      BY <1>1, <1>5
    <3> QED BY <2>2, <3>1, <3>2
  <2> QED BY <1>5, <2>1, <2>2, <2>3 DEF Inside
<1>8. /\ WordsTo(l, c, m) = {} /\ \A ops : OperatorsTo(l, c, ops, m) = {}
      /\ WordsTo(l, m + 1, m + 1) = {} /\ \A ops : OperatorsTo(l, m + 1, ops, m + 1) = {}
  BY <1>1, <1>5, <1>7, NothingYet
<1>9. SaysTo(Current(p), l, m + 1, m + 1)
  BY <1>3, <1>8 DEF SaysTo
<1>10. PipelineOf(l, m + 1) = k
  <2>1. m + 1 \notin Ends(l)
    <3>1. SUFFICES ASSUME NEW d \in CommandParts(l), d < m + 1,
                          \A x \in Cuts(l) : x <= d \/ m + 1 <= x
                   PROVE  FALSE
      BY DEF Ends
    <3>2. d \in Cuts(l)
      BY DEF CommandParts
    <3>3. d = c
      BY <1>1, <1>5, <3>1, <3>2
    <3> QED BY <1>6, <3>3
  <2>2. \A z \in Ends(l) : z <= c \/ m + 1 < z
    <3>1. \A z \in Ends(l) : z \in Cuts(l) /\ z # m + 1
      BY <2>1 DEF Ends
    <3> QED BY <1>5, <3>1
  <2>3. Rank(m + 1, Ends(l)) = Rank(c, Ends(l))
    BY <1>5, <2>2, RanksGrow
  <2> QED BY <1>3, <2>3 DEF PipelineOf
<1>11. Complete(l, k, m + 1) = {}
  <2>1. c \notin PartsOf(l, k)
    BY <1>6 DEF PartsOf
  <2> QED BY <1>0, <1>4, <2>1, PartEnds
<1>12. LastSays(b, l, k, m + 1, m + 1)
  BY <1>3, <1>4, <1>8, <1>9, <1>11
     DEF LastSays, PipelineSays, HasAmpersand, Current
<1>13. \A j \in 1..k - 1 : FinishedSays(p.pipelines[j], l, j, m + 1)
  BY <1>0, FinishedStay
<1>14. AfterCut(l, m + 1, m + 1)
  BY <1>10, <1>11 DEF AfterCut, AtSeparator
<1>15. IsPart(l, m + 1, m + 1) /\ ~Skips(l, m + 1) /\ ~p.skip
  BY CutIs
<1>16. HasRead(q, l, m + 1, m + 1)
  BY <1>2, <1>10, <1>12, <1>13, <1>14, <1>15 DEF HasRead
<1> QED BY <1>1, <1>2, <1>16 DEF IsGood, q

(***************************************************************************)
(* One token: what the parser has read grows by it, or there is an error.  *)
(***************************************************************************)
LEMMA TokenIsRead ==
  ASSUME NEW l \in Seq(STRING), IsOrderly(l), NEW m \in Nat, m < Len(l),
         NEW p \in ParserStates, NEW c, p.ok => HasRead(p, l, c, m)
  PROVE  /\ ParseToken(l, p, m + 1) \in ParserStates
         /\ ParseToken(l, p, m + 1).ok => \E d : HasRead(ParseToken(l, p, m + 1), l, d, m + 1)
<1> DEFINE q == ParseToken(l, p, m + 1)
<1>1. CASE ~p.ok
  <2>1. q = p
    BY <1>1 DEF ParseToken
  <2> QED BY <1>1, <2>1
<1>2. CASE p.ok /\ AtCut(l, m + 1)
  <2>1. IsAtCut(l, p, c, m)
    BY <1>2 DEF IsAtCut
  <2>2. IsGood(q, l, m + 1, m)
    <3>1. l[m + 1] = "|" \/ l[m + 1] = ";"
      BY <1>2 DEF AtCut
    <3> HIDE DEF q
    <3>2. CASE l[m + 1] = "|"
      BY <2>1, <3>2, PipeIsRead DEF q
    <3>3. CASE l[m + 1] = ";" /\ Current(p).args # <<>>
      BY <2>1, <3>3, SeparatorEnds DEF q, AtSeparator
    <3>4. CASE l[m + 1] = ";" /\ Current(p).args = <<>>
      BY <2>1, <3>4, SeparatorIsIdle DEF q, AtSeparator
    <3> QED BY <3>1, <3>2, <3>3, <3>4
  <2> QED BY <2>2 DEF IsGood
<1>3. CASE p.ok /\ ~AtCut(l, m + 1)
  <2>1. IsInside(l, p, c, m)
    BY <1>3 DEF IsInside
  <2>2. IsGood(q, l, c, m)
    BY <2>1, InsideStep
  <2> QED BY <2>2 DEF IsGood
<1> QED BY <1>1, <1>2, <1>3

-----------------------------------------------------------------------------
(* The whole line.                                                         *)

LEMMA StartHasRead ==
  ASSUME NEW l \in Seq(STRING)
  PROVE  HasRead(Start, l, 0, 0)
<1>1. Cuts(l) \subseteq 0..Len(l) /\ Len(l) \in Nat
  BY CutsAre
<1>2. \A x \in Cuts(l) : x \in Nat
  BY <1>1
<1>3. IsPart(l, 0, 0)
  <2>1. \A x \in Cuts(l) : x <= 0 \/ 0 < x
    BY <1>2
  <2>2. 0 \in Cuts(l) /\ 0 <= 0
    BY DEF Cuts
  <2> QED BY <2>1, <2>2 DEF IsPart
<1>4. \A k : Complete(l, k, 0) = {}
  <2>1. ASSUME NEW k, NEW d \in PartsOf(l, k)
        PROVE  ~(d < 0)
    BY <1>2 DEF PartsOf, CommandParts
  <2> QED BY <2>1 DEF Complete
<1>5. PipelineOf(l, 0) = 1
  <2>1. \A y \in Ends(l) : ~(y <= 0)
    <3>1. \A y \in Ends(l) : y \in Cuts(l) /\ y # 0
      BY DEF Ends
    <3> QED BY <1>2, <3>1
  <2>2. {y \in Ends(l) : y <= 0} = {}
    BY <2>1
  <2>3. Cardinality({}) = 0
    BY FS_EmptySet
  <2>4. Rank(0, Ends(l)) = 0
    BY <2>2, <2>3 DEF Rank
  <2> QED BY <2>4 DEF PipelineOf
<1>6. LastSays(NoPipeline, l, 1, 0, 0)
  BY <1>4, NewPipeline
<1>7. /\ Start.pipelines = <<NoPipeline>> /\ Start.skip = FALSE
      /\ Len(<<NoPipeline>>) = 1 /\ Last(<<NoPipeline>>) = NoPipeline
  BY DEF Start, Last
<1>8. AfterCut(l, 0, 0)
  BY <1>4 DEF AfterCut
<1>9. ~Skips(l, 0)
  BY DEF Skips
<1>10. \A k \in 1..1 - 1 : FALSE
  OBVIOUS
<1>11. LastSays(Last(Start.pipelines), l, Len(Start.pipelines), 0, 0)
  BY <1>6, <1>7
<1>12. \A k \in 1..Len(Start.pipelines) - 1 : FinishedSays(Start.pipelines[k], l, k, 0)
  BY <1>7, <1>10
<1> QED BY <1>3, <1>5, <1>7, <1>8, <1>9, <1>11, <1>12 DEF HasRead

ReadsTo(l, n) ==
  /\ Parsed(l)[n] \in ParserStates
  /\ Parsed(l)[n].ok => \E c : HasRead(Parsed(l)[n], l, c, n)

LEMMA EveryTokenIsRead ==
  ASSUME NEW l \in Seq(STRING), IsOrderly(l)
  PROVE  \A n \in 0..Len(l) : ReadsTo(l, n)
<1>0. Len(l) \in Nat
  BY LenProperties
<1>1. ReadsTo(l, 0)
  BY ParsedIs, RecordsHold, StartHasRead DEF ReadsTo
<1>2. ASSUME NEW m \in Nat, m < Len(l), ReadsTo(l, m)
      PROVE  ReadsTo(l, m + 1)
  <2> DEFINE p == Parsed(l)[m]
             q == Parsed(l)[m + 1]
  <2>1. q = ParseToken(l, p, m + 1)
    <3>1. m + 1 \in 1..Len(l) /\ (m + 1) - 1 = m
      BY <1>0, <1>2
    <3>2. \A n \in 1..Len(l) : Parsed(l)[n] = ParseToken(l, Parsed(l)[n - 1], n)
      BY ParsedIs
    <3> QED BY <3>1, <3>2
  <2>2. p \in ParserStates /\ (p.ok => \E c : HasRead(p, l, c, m))
    BY <1>2 DEF ReadsTo
  <2> HIDE DEF p, q
  <2>3. PICK c : p.ok => HasRead(p, l, c, m)
    BY <2>2
  <2>4. q \in ParserStates /\ (q.ok => \E d : HasRead(q, l, d, m + 1))
    BY <1>2, <2>1, <2>2, <2>3, TokenIsRead
  <2> QED BY <2>4 DEF ReadsTo, q
<1> DEFINE Rest == {n \in 0..Len(l) : ~ReadsTo(l, n)}
<1>3. SUFFICES ASSUME Rest # {}
               PROVE  FALSE
  OBVIOUS
<1>4. Rest \in SUBSET Nat
  BY <1>0
<1>5. PICK n \in Rest : \A y \in Rest : n <= y
  <2> HIDE DEF Rest
  <2> QED BY <1>3, <1>4, LeastExists
<1>6. n \in 0..Len(l) /\ ~ReadsTo(l, n)
  BY <1>5
<1>7. n # 0
  BY <1>1, <1>6
<1>8. n - 1 \in Nat /\ n - 1 < Len(l) /\ n - 1 \in 0..Len(l) /\ ~(n <= n - 1) /\ (n - 1) + 1 = n
  BY <1>0, <1>6, <1>7
<1>9. ReadsTo(l, n - 1)
  BY <1>5, <1>8
<1> HIDE DEF Rest
<1> QED BY <1>2, <1>6, <1>8, <1>9

(***************************************************************************)
(* At the end of the line its last part is over, and no part is left out.  *)
(***************************************************************************)
HasReadAll(l, p, c) == p \in ParserStates /\ p.ok /\ HasRead(p, l, c, Len(l))

LEMMA EndIs ==
  ASSUME NEW l \in Seq(STRING), NEW p, NEW c, HasReadAll(l, p, c)
  PROVE  /\ IsOver(l, p, c, Len(l))
         /\ \A k : Complete(l, k, Len(l) + 1) = PartsOf(l, k)
         /\ \A d \in CommandParts(l) : d \in Nat /\ d <= c
         /\ Ends(l) \subseteq 0..Len(l) /\ Len(l) \in Nat /\ c \in Nat
<1>1. Len(l) \in Nat /\ Cuts(l) \subseteq 0..Len(l) /\ Inside(l, c) \subseteq 1..Len(l)
  BY CutsAre
<1>2. IsPart(l, c, Len(l))
  BY DEF HasReadAll, HasRead
<1>3. \A x \in Cuts(l) : x \in Nat /\ x <= Len(l)
  BY <1>1
<1>4. c \in Nat /\ c \in Cuts(l) /\ \A x \in Cuts(l) : x <= c \/ Len(l) < x
  BY <1>2, <1>3 DEF IsPart
<1>5. \A x \in Cuts(l) : x \in Nat /\ x <= c /\ x < Len(l) + 1
  BY <1>1, <1>3, <1>4
<1>6. \A n \in Inside(l, c) : n <= Len(l)
  BY <1>1
<1>7. IsOver(l, p, c, Len(l))
  BY <1>1, <1>5, <1>6 DEF IsOver, HasReadAll
<1>8. ASSUME NEW k
      PROVE  Complete(l, k, Len(l) + 1) = PartsOf(l, k)
  <2>1. \A d \in PartsOf(l, k) : d < Len(l) + 1
    BY <1>5 DEF PartsOf, CommandParts
  <2> QED BY <2>1 DEF Complete
<1>9. \A d \in CommandParts(l) : d \in Nat /\ d <= c
  BY <1>5 DEF CommandParts
<1>10. Ends(l) \subseteq 0..Len(l)
  BY <1>1 DEF Ends
<1> QED BY <1>1, <1>4, <1>7, <1>8, <1>9, <1>10

(***************************************************************************)
(* pipeline is what stands in the parts of the k-th one.                   *)
(***************************************************************************)
IsPipeline(pipeline, l, k) ==
  /\ Len(pipeline.commands) = Cardinality(PartsOf(l, k))
  /\ \A c \in PartsOf(l, k) :
       StandsIn(pipeline.commands[Rank(c, PartsOf(l, k))], l, c)
  /\ pipeline.background <=> \E c \in PartsOf(l, k) : OperatorsOf(l, c, {"&"}) # {}

LEMMA FinishedIsRead ==
  ASSUME NEW l \in Seq(STRING), NEW p, NEW c, HasReadAll(l, p, c),
         NEW k, NEW x \in PipelineRecords, FinishedSays(x, l, k, Len(l) + 1)
  PROVE  IsPipeline(x, l, k) /\ ~HasNoCommand(x)
<1> DEFINE D == Complete(l, k, Len(l) + 1)
<1>1. D = PartsOf(l, k)
  BY EndIs
<1>2. /\ \A d \in D : StandsIn(x.commands[Rank(d, D)], l, d)
      /\ \A i \in 1..Cardinality(D) : x.commands[i].args # <<>>
      /\ Len(x.commands) = Cardinality(D)
      /\ x.background <=> \E d \in D : OperatorsOf(l, d, {"&"}) # {}
  BY DEF FinishedSays, PipelineSays, HasAmpersand
<1> HIDE DEF D
<1>3. x.commands \in Seq(CommandRecords) /\ x.commands # <<>>
  BY DEF PipelineRecords
<1> DEFINE t == x.commands
<1>4. Head(t) = t[1] /\ Len(t) \in Nat /\ Len(t) # 0
  <2> HIDE DEF t
  <2>1. t \in Seq(CommandRecords) /\ t # <<>>
    BY <1>3 DEF t
  <2> QED BY <2>1, EmptySeq
<1>5. ~HasNoCommand(x)
  <2>1. 1 \in 1..Cardinality(D)
    BY <1>2, <1>4
  <2> QED BY <1>2, <1>4, <2>1 DEF HasNoCommand
<1> QED BY <1>1, <1>2, <1>5 DEF IsPipeline

(***************************************************************************)
(* The pipelines that have a command are the first ones.                   *)
(***************************************************************************)
LEMMA RunsAre ==
  ASSUME NEW l \in Seq(STRING), NEW p, NEW c, HasReadAll(l, p, c)
  PROVE  \E K \in Nat :
           /\ {k \in DOMAIN p.pipelines : ~HasNoCommand(p.pipelines[k])} = 1..K
           /\ \A k \in 1..K : IsPipeline(p.pipelines[k], l, k)
           /\ \A d \in CommandParts(l) : PipelineOf(l, d) \in 1..K
<1> DEFINE all == p.pipelines
           n == Len(all)
           b == Last(all)
<1>1. IsOver(l, p, c, Len(l)) /\ p \in ParserStates
  BY EndIs DEF HasReadAll
<1>2. /\ n \in Nat \ {0} /\ all[n] = b /\ DOMAIN all = 1..n
      /\ \A k \in 1..n : all[k] \in PipelineRecords
  <2>1. all \in Seq(PipelineRecords)
    BY <1>1 DEF ParserStates
  <2>2. DOMAIN all = 1..n
    <3> HIDE DEF all
    <3> QED BY <2>1
  <2> QED BY <1>1, <2>2, LastIs DEF Last
<1>3. n = PipelineOf(l, c)
  BY DEF HasReadAll, HasRead
<1>4. \A k \in 1..n - 1 : IsPipeline(all[k], l, k) /\ ~HasNoCommand(all[k])
  <2>1. \A k \in 1..n - 1 : FinishedSays(all[k], l, k, Len(l) + 1)
    BY <1>1, FinishedStay
  <2>2. \A k \in 1..n - 1 : all[k] \in PipelineRecords
    BY <1>2
  <2> QED BY <2>1, <2>2, FinishedIsRead
<1>5. \A d \in CommandParts(l) : PipelineOf(l, d) \in 1..n
  <2>1. ASSUME NEW d \in CommandParts(l)
        PROVE  PipelineOf(l, d) \in 1..n
    <3>1. /\ d \in Nat /\ d <= c /\ c \in Nat
          /\ Ends(l) \subseteq 0..Len(l) /\ Len(l) \in Nat
      BY EndIs
    <3>2. /\ Rank(d, Ends(l)) \in Nat /\ Rank(c, Ends(l)) \in Nat
          /\ Rank(d, Ends(l)) <= Rank(c, Ends(l))
      BY <3>1, RanksGrow
    <3> QED BY <1>3, <3>2 DEF PipelineOf
  <2> QED BY <2>1
<1>6. CASE Current(p).args # <<>>
  <2>1. FinishedSays(b, l, n, Len(l) + 1)
    BY <1>1, <1>6, LastIsFinished
  <2>2. IsPipeline(b, l, n) /\ ~HasNoCommand(b)
    BY <1>2, <2>1, FinishedIsRead
  <2> HIDE DEF n, b, all
  <2>3. \A k \in 1..n : IsPipeline(all[k], l, k) /\ ~HasNoCommand(all[k])
    <3>1. \A k \in 1..n : k \in 1..n - 1 \/ k = n
      BY <1>2
    <3> QED BY <1>2, <1>4, <2>2, <3>1
  <2>4. {k \in DOMAIN all : ~HasNoCommand(all[k])} = 1..n
    BY <1>2, <2>3
  <2> QED BY <1>2, <1>5, <2>3, <2>4 DEF all
<1>7. CASE Current(p).args = <<>>
  <2>1. HasNoCommand(b) /\ Complete(l, n, c) = {}
    <3>1. ~(Len(l) < Len(l))
      <4>1. Len(l) \in Nat
        BY EndIs
      <4> QED BY <4>1
    <3> QED BY <1>1, <1>7, <3>1, FirstCommand
  <2>2. PartsOf(l, n) = {}
    <3>1. c \notin PartsOf(l, n)
      BY <1>1, <1>7, CommandEnds DEF PartsOf
    <3>2. Complete(l, n, Len(l) + 1) = Complete(l, n, c)
      BY <1>1, <3>1, PartEnds
    <3> QED BY <2>1, <3>2, EndIs
  <2>3. \A d \in CommandParts(l) : PipelineOf(l, d) # n
    BY <2>2 DEF PartsOf
  <2> HIDE DEF n, b, all
  <2>4. {k \in DOMAIN all : ~HasNoCommand(all[k])} = 1..n - 1
    <3>1. \A k \in 1..n : k \in 1..n - 1 \/ k = n
      BY <1>2
    <3>2. \A k \in 1..n - 1 : k \in 1..n /\ ~HasNoCommand(all[k])
      BY <1>2, <1>4
    <3>3. n \notin 1..n - 1
      BY <1>2
    <3> QED BY <1>2, <2>1, <3>1, <3>2, <3>3
  <2>5. \A d \in CommandParts(l) : PipelineOf(l, d) \in 1..n - 1
    BY <1>2, <1>5, <2>3
  <2>6. n - 1 \in Nat
    BY <1>2
  <2> QED BY <1>4, <2>4, <2>5, <2>6 DEF all
<1> QED BY <1>6, <1>7

(***************************************************************************)
(* parse makes of every accepted line, of whatever items and however long, *)
(* what its parts say: no word, redirection, pipe or ampersand is lost or  *)
(* goes to another command, and evaluate runs all of its pipelines.        *)
(***************************************************************************)
THEOREM LineIsRead ==
  ASSUME NEW l \in Seq(STRING), Accepted(l), IsOrderly(l)
  PROVE  IsReadAs(l, Pipelines(l))
<1> DEFINE p == Parse(l)
           all == p.pipelines
           runs == {k \in DOMAIN all : ~HasNoCommand(all[k])}
           Run(n) == CHOOSE k \in runs : Rank(k, runs) = n
<1>1. Len(l) \in Nat
  BY LenProperties
<1>2. PICK c : HasReadAll(l, p, c)
  <2>1. ReadsTo(l, Len(l))
    BY <1>1, EveryTokenIsRead
  <2>2. p.ok /\ p = Parsed(l)[Len(l)]
    BY DEF Accepted, Parse
  <2> HIDE DEF p
  <2> QED BY <2>1, <2>2 DEF ReadsTo, HasReadAll
<1>3. Pipelines(l) = [n \in 1..Cardinality(runs) |-> all[Run(n)]]
  BY DEF Pipelines
<1> HIDE DEF p
<1>4. PICK K \in Nat :
        /\ runs = 1..K
        /\ \A k \in 1..K : IsPipeline(all[k], l, k)
        /\ \A d \in CommandParts(l) : PipelineOf(l, d) \in 1..K
  BY <1>2, RunsAre
<1> HIDE DEF runs, all
<1>5. Cardinality(runs) = K
  BY <1>4, FS_Interval
<1>6. ASSUME NEW n \in 1..K
      PROVE  Run(n) = n
  <2>1. \A k \in 1..K : Rank(k, 1..K) = k
    BY RankInInterval
  <2>2. \A k \in runs : Rank(k, runs) = n <=> k = n
    BY <1>4, <2>1
  <2>3. n \in runs
    BY <1>4
  <2> QED BY <2>2, <2>3
<1> HIDE DEF Run
<1>7. Pipelines(l) = [n \in 1..K |-> all[n]]
  BY <1>3, <1>5, <1>6
<1>8. DOMAIN Pipelines(l) = 1..K /\ \A k \in 1..K : Pipelines(l)[k] = all[k]
  BY <1>7
<1>9. \A k \in DOMAIN Pipelines(l) : IsPipeline(Pipelines(l)[k], l, k)
  BY <1>4, <1>8
<1>10. \A d \in CommandParts(l) : PipelineOf(l, d) \in DOMAIN Pipelines(l)
  BY <1>4, <1>8
<1> QED BY <1>9, <1>10 DEF IsReadAs, IsPipeline

(***************************************************************************)
(* The plan is made when the line is read, and does not change.            *)
(***************************************************************************)
PlanIsOfLine == line # <<>> => line \in Lines /\ plan = Pipelines(line)

LEMMA PlanStays ==
  ASSUME Next
  PROVE  (\E l \in Lines : line' = l /\ plan' = Pipelines(l)) \/ UNCHANGED <<line, plan>>
<1>1. CASE \E l \in Lines : ReadLine(l)
  BY <1>1 DEF ReadLine
<1>2. CASE ShellStep
  BY <1>2 DEF ShellStep, NextPipeline, SetupPipe, PipeFails, Abort, Fork, CloseEnds, WaitOver,
              Backup, Restore
<1>3. ASSUME NEW p \in Ids, Redirect(p)
      PROVE  UNCHANGED <<line, plan>>
  <2>1. CASE OpenStdin(p)
    BY <2>1 DEF OpenStdin, RedirectionFails, Replace, Exit
  <2>2. CASE OpenStdout(p)
    BY <2>2 DEF OpenStdout, RedirectionFails, Replace, Exit
  <2>3. CASE Dup2(p)
    BY <2>3 DEF Dup2
  <2> QED BY <1>3, <2>1, <2>2, <2>3 DEF Redirect
<1>4. ASSUME NEW p \in Procs, Child(p)
      PROVE  UNCHANGED <<line, plan>>
  <2>1. CASE Redirect(p)
    BY <1>3, <2>1 DEF Ids
  <2> QED BY <1>4, <2>1 DEF Child, Detach, Read, Write, BrokenPipe, Finish, Exit
<1>5. CASE Over
  BY <1>5 DEF Over, vars
<1> QED BY <1>1, <1>2, <1>3, <1>4, <1>5 DEF Next, Ids

(***************************************************************************)
(* So what the shell evaluates is what is written in the line that it has  *)
(* read (parse and evaluate).                                              *)
(***************************************************************************)
THEOREM LinesAreReadAsWritten == Spec => []ParsedAsWritten
<1>1. Init => PlanIsOfLine
  BY DEF Init, PlanIsOfLine
<1>2. PlanIsOfLine /\ [Next]_vars => PlanIsOfLine'
  <2> SUFFICES ASSUME PlanIsOfLine, [Next]_vars
               PROVE  PlanIsOfLine'
    OBVIOUS
  <2>1. CASE Next
    BY <2>1, PlanStays DEF PlanIsOfLine
  <2>2. CASE UNCHANGED vars
    BY <2>2 DEF PlanIsOfLine, vars
  <2> QED BY <2>1, <2>2
<1>3. PlanIsOfLine => ParsedAsWritten
  <2>1. Lines \subseteq Seq(STRING)
    BY CommandLineAssumption
  <2> QED BY <2>1, LineIsRead DEF PlanIsOfLine, ParsedAsWritten
<1> QED BY <1>1, <1>2, <1>3, PTL DEF Spec
=============================================================================
