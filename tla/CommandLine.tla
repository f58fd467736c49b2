---------------------------- MODULE CommandLine ----------------------------
(***************************************************************************)
(* How the PA2 shell evaluates a line (src/PA2/shell_src): lex and parse   *)
(* turn it into pipelines of commands, and each of these is run with the   *)
(* descriptors the line asks for.  The shell, and the processes it forks,  *)
(* run concurrently and share the pipes; who still holds an end of a pipe  *)
(* decides whether a reader sees the end of its input and whether a writer *)
(* whose reader is gone ends.                                              *)
(*                                                                         *)
(* Jobs and signals are the subject of JobControl.  Standard input of the  *)
(* shell is empty, as in script mode.                                      *)
(***************************************************************************)
EXTENDS Naturals, Sequences, SequencesExt

CONSTANTS Lines,         \* the lines that are read, as sequences of items
          Quoted,        \* items that are words in quotes, or variables
          Builtins,      \* the shell's own commands
          Sources,       \* commands that only write: pa2_echo
          Copiers,       \* commands that copy all their input: pa2_cat
          Heads,         \* commands that copy some of it: pa2_head
          Openable,      \* the files that can be opened
          MaxTokens,     \* MAX_TOKENS
          PipeCapacity,  \* what fits into a pipe
          Amount,        \* what a source, or a file, has to give
          MaxPipelines,  \* bound: pipelines of a line
          MaxCommands    \* bound: commands of a pipeline

NoFile == "none"
RedirectOut == {">", ">>"}
Operators == {"|", "<", "&", ";"} \cup RedirectOut

IsWord(item) == item \notin Operators

-----------------------------------------------------------------------------
(* lex and parse.                                                          *)

(***************************************************************************)
(* The type lex gives an item: a word is a command at the start of the     *)
(* line and after a pipe or a separator, an argument elsewhere.            *)
(***************************************************************************)
TokenType(line, n) ==
  IF ~IsWord(line[n]) THEN line[n]
  ELSE IF line[n] \notin Quoted /\ (n = 1 \/ line[n - 1] \in {"|", ";"})
       THEN "command" ELSE "argument"

LexRefuses(line) ==
  Len(line) >= MaxTokens \/ Last(line) \in {"|", "<"} \cup RedirectOut

NoCommand == [args |-> <<>>, in |-> NoFile, out |-> NoFile, append |-> FALSE]
NoPipeline == [background |-> FALSE, commands |-> <<NoCommand>>]

(***************************************************************************)
(* The parser: the pipelines so far, the last one unfinished, whether the  *)
(* next token has been used already, and whether there was an error.       *)
(***************************************************************************)
Start == [pipelines |-> <<NoPipeline>>, skip |-> FALSE, ok |-> TRUE]

Current(p) == Last(Last(p.pipelines).commands)

OnPipeline(p, pipeline) == [p EXCEPT !.pipelines = Front(@) \o <<pipeline>>]

OnCommand(p, command) ==
  OnPipeline(p, [Last(p.pipelines) EXCEPT !.commands = Front(@) \o <<command>>])

Fail(p) == [p EXCEPT !.ok = FALSE]
Used(p) == [p EXCEPT !.skip = TRUE]

(***************************************************************************)
(* num_commands = 0: there is no word yet.                                 *)
(***************************************************************************)
HasNoCommand(pipeline) == Head(pipeline.commands).args = <<>>

ParseSeparator(p) ==
  IF HasNoCommand(Last(p.pipelines)) THEN p
  ELSE [p EXCEPT !.pipelines = Append(@, NoPipeline)]

ParsePipe(p, next) ==
  IF Current(p).args = <<>> \/ next # "command" THEN Fail(p)
  ELSE OnPipeline(p, [Last(p.pipelines) EXCEPT !.commands = Append(@, NoCommand)])

ParseBackground(p) ==
  OnPipeline(p, [Last(p.pipelines) EXCEPT !.background = TRUE])

ParseWord(p, item, type) ==
  IF Current(p).args = <<>> /\ type # "command" THEN Fail(p)
  ELSE OnCommand(p, [Current(p) EXCEPT !.args = Append(@, item)])

RedirectionUsesNothing(p, operator, target, next) ==
  IF next # "argument" THEN Fail(p)
  ELSE OnCommand(p, IF operator = "<" THEN [Current(p) EXCEPT !.in = target]
                    ELSE [Current(p) EXCEPT !.out = target])

ParseRedirection(p, operator, target, next) ==
  IF next # "argument" THEN Fail(p)
  ELSE Used(OnCommand(p, IF operator = "<"
                         THEN [Current(p) EXCEPT !.in = target]
                         ELSE [Current(p) EXCEPT !.out = target,
                                                 !.append = @ \/ operator = ">>"]))

ParseToken(line, p, n) ==
  LET type == TokenType(line, n)
      next == IF n = Len(line) THEN "end" ELSE TokenType(line, n + 1) IN
  IF ~p.ok THEN p
  ELSE IF p.skip THEN [p EXCEPT !.skip = FALSE]
  ELSE CASE type = ";" -> ParseSeparator(p)
         [] type = "|" -> ParsePipe(p, next)
         [] type = "&" -> ParseBackground(p)
         [] type \in {"<"} \cup RedirectOut ->
              ParseRedirection(p, type, line[n + 1], next)
         [] OTHER -> ParseWord(p, line[n], type)

(***************************************************************************)
(* The state of the parser after each token, before the first one at 0.    *)
(***************************************************************************)
Parsed(line) ==
  LET parsed[n \in 0..Len(line)] ==
        IF n = 0 THEN Start ELSE ParseToken(line, parsed[n - 1], n)
  IN parsed
Parse(line) == Parsed(line)[Len(line)]

Accepted(line) == ~LexRefuses(line) /\ Parse(line).ok

(***************************************************************************)
(* How many of the numbers in S come before x, or are x.                   *)
(***************************************************************************)
Rank(x, S) == Cardinality({y \in S : y <= x})

(***************************************************************************)
(* What evaluate runs, pipeline after pipeline: nothing if the line is     *)
(* refused, and no pipeline without commands.                              *)
(***************************************************************************)
Pipelines(line) ==
  LET all == Parse(line).pipelines
      runs == {k \in DOMAIN all : ~HasNoCommand(all[k])}
      Run(n) == CHOOSE k \in runs : Rank(k, runs) = n
  IN IF Accepted(line) THEN [n \in 1..Cardinality(runs) |-> all[Run(n)]] ELSE <<>>

(***************************************************************************)
(* The bounds are wide enough for the lines that are read.                 *)
(***************************************************************************)
FitsTheBounds(pipelines) ==
  /\ Len(pipelines) \in 0..MaxPipelines
  /\ \A k \in 1..Len(pipelines) : Len(pipelines[k].commands) \in 1..MaxCommands

ASSUME CommandLineAssumption ==
  /\ Lines \subseteq Seq(STRING)
  /\ MaxPipelines \in Nat
  /\ MaxCommands \in Nat
  /\ PipeCapacity \in Nat
  /\ Amount \in Nat
  /\ NoFile \notin Openable
  /\ Sources \cap Copiers = {}
  /\ \A l \in Lines : FitsTheBounds(Pipelines(l))

IsSingleBuiltin(pipeline) ==
  Len(pipeline.commands) = 1 /\ pipeline.commands[1].args[1] \in Builtins

-----------------------------------------------------------------------------
(* Processes and descriptors.                                              *)

Shell == <<0, 0>>
Procs == (1 .. MaxPipelines) \X (1 .. MaxCommands)
Ids == Procs \cup {Shell}

Standard == <<"standard">>
Backups == {<<"backup", 0>>, <<"backup", 1>>}
ReadEnd(p) == <<"r", p[1], p[2]>>
WriteEnd(p) == <<"w", p[1], p[2]>>
NoFd == <<"closed">>

VARIABLES
  line,     \* the line being evaluated, << >> before it is read
  plan,     \* its pipelines
  at,       \* the command the shell is at: pipeline, place
  pc,       \* where each process is; "none": not there
  fds,      \* its open descriptors: 0, 1 and the set of the others
  process,  \* its Process record: stdin_fd, stdout_fd, next->stdin_fd
  level,    \* how much each pipe contains
  left,     \* what a source or a file has still to give
  carried,  \* has a command read something it has not written yet?
  lost      \* descriptors of the shell that no variable names any more

vars == <<line, plan, at, pc, fds, process, level, left, carried, lost>>
io == <<level, left, carried>>

NoProcess == [in |-> NoFd, out |-> NoFd, next |-> NoFd]
NoDescriptors == [in |-> NoFd, out |-> NoFd, others |-> {}]
OnlyStandard == [in |-> Standard, out |-> Standard, others |-> {}]

Descriptors ==
  {Standard, NoFd} \cup Backups \cup {ReadEnd(p) : p \in Procs}
    \cup {WriteEnd(p) : p \in Procs}
    \cup {"file", "append", "write"} \X Openable \X Procs

ShellLabels == {"prompt", "next", "backup", "setup", "fork", "close", "wait",
                "abort", "restore", "done"}
RedirectLabels == {"stdin", "stdout", "dup2"}

TypeOK ==
  /\ at \in Ids
  /\ pc \in [Ids -> ShellLabels \cup RedirectLabels \cup {"none", "detach", "run"}]
  /\ fds \in [Ids -> [in : Descriptors, out : Descriptors,
                      others : SUBSET Descriptors]]
  /\ process \in [Ids -> [in : Descriptors, out : Descriptors, next : Descriptors]]
  /\ level \in [Procs -> 0..PipeCapacity]
  /\ left \in [Procs -> 0..Amount]
  /\ carried \in [Procs -> BOOLEAN]
  /\ lost \subseteq Descriptors

Init ==
  /\ line = <<>>
  /\ plan = <<>>
  /\ at = Shell
  /\ pc = [p \in Ids |-> IF p = Shell THEN "prompt" ELSE "none"]
  /\ fds = [p \in Ids |-> IF p = Shell THEN OnlyStandard ELSE NoDescriptors]
  /\ process = [p \in Ids |-> NoProcess]
  /\ level = [p \in Procs |-> 0]
  /\ left = [p \in Procs |-> Amount]
  /\ carried = [p \in Procs |-> FALSE]
  /\ lost = {}

Goto(p, label) == pc' = [pc EXCEPT ![p] = label]

Pipeline == plan[at[1]]
CommandOf(p) == plan[p[1]].commands[p[2]]
Command(p) == IF p = Shell THEN CommandOf(at) ELSE CommandOf(p)
InFile(p) == <<"file", Command(p).in, IF p = Shell THEN at ELSE p>>
OutFile(p) == <<IF Command(p).append THEN "append" ELSE "write", Command(p).out,
                IF p = Shell THEN at ELSE p>>
IsLast(p) == p[2] = Len(plan[p[1]].commands)
Previous(p) == <<p[1], p[2] - 1>>

-----------------------------------------------------------------------------
(* The shell: evaluate, interpret and run_pipeline.                        *)

ReadLine(l) ==
  /\ pc[Shell] = "prompt"
  /\ line' = l
  /\ plan' = Pipelines(l)
  /\ Goto(Shell, "next")
  /\ UNCHANGED <<at, fds, process, io, lost>>

(***************************************************************************)
(* The next pipeline of the line.  Bound: one line.                        *)
(***************************************************************************)
NextPipeline ==
  /\ pc[Shell] = "next"
  /\ IF at[1] < Len(plan)
     THEN /\ at' = <<at[1] + 1, 1>>
          /\ Goto(Shell, IF IsSingleBuiltin(plan[at[1] + 1]) THEN "backup" ELSE "setup")
     ELSE /\ Goto(Shell, "done")
          /\ UNCHANGED at
  /\ process' = [process EXCEPT ![Shell] = NoProcess]
  /\ UNCHANGED <<line, plan, fds, io, lost>>

SetupPipe ==
  /\ pc[Shell] = "setup"
  /\ Goto(Shell, "fork")
  /\ IF IsLast(at)
     THEN UNCHANGED <<fds, process>>
     ELSE /\ fds' = [fds EXCEPT ![Shell].others = @ \cup {ReadEnd(at), WriteEnd(at)}]
          /\ process' = [process EXCEPT ![Shell].out = WriteEnd(at),
                                        ![Shell].next = ReadEnd(at)]
  /\ UNCHANGED <<line, plan, at, io, lost>>

(***************************************************************************)
(* pipe() fails: run_pipeline ends what it has started, waits for it and   *)
(* returns; the read end of the pipe before is not closed.                 *)
(***************************************************************************)
PipeFails ==
  /\ pc[Shell] = "setup"
  /\ ~IsLast(at)
  /\ Goto(Shell, "abort")
  /\ UNCHANGED <<line, plan, at, fds, process, io, lost>>

InPipeline(p) == p[1] = at[1]

Abort ==
  /\ pc[Shell] = "abort"
  /\ pc' = [p \in Ids |-> IF p = Shell THEN "next"
                          ELSE IF InPipeline(p) THEN "none" ELSE pc[p]]
  /\ fds' = [p \in Ids |-> IF p # Shell /\ InPipeline(p) THEN NoDescriptors ELSE fds[p]]
  /\ lost' = lost \cup ({process[Shell].in} \ {NoFd})
  /\ UNCHANGED <<line, plan, at, process, io>>

Fork ==
  /\ pc[Shell] = "fork"
  /\ pc' = [pc EXCEPT ![Shell] = "close", ![at] = "detach"]
  /\ fds' = [fds EXCEPT ![at] = fds[Shell]]
  /\ process' = [process EXCEPT ![at] = process[Shell]]
  /\ UNCHANGED <<line, plan, at, io, lost>>

(***************************************************************************)
(* The parent keeps the read end of the new pipe for the next command.     *)
(***************************************************************************)
ParentKeepsBoth == {process[Shell].next, process[Shell].out}
ParentKeeps == {process[Shell].next}

CloseEnds ==
  /\ pc[Shell] = "close"
  /\ fds' = [fds EXCEPT ![Shell].others =
               @ \ ({process[Shell].in, process[Shell].out} \ ParentKeeps)]
  /\ process' = [process EXCEPT ![Shell] = [NoProcess EXCEPT !.in = process[Shell].next]]
  /\ IF IsLast(at)
     THEN /\ Goto(Shell, IF Pipeline.background THEN "next" ELSE "wait")
          /\ UNCHANGED at
     ELSE /\ Goto(Shell, "setup")
          /\ at' = <<at[1], at[2] + 1>>
  /\ UNCHANGED <<line, plan, io, lost>>

(***************************************************************************)
(* handle_job waits for all commands of a foreground pipeline.             *)
(***************************************************************************)
WaitOver ==
  /\ pc[Shell] = "wait"
  /\ \A p \in Procs : InPipeline(p) => pc[p] = "none"
  /\ Goto(Shell, "next")
  /\ UNCHANGED <<line, plan, at, fds, process, io, lost>>

(***************************************************************************)
(* run_single_builtin_command: the shell redirects itself, with copies of  *)
(* its standard descriptors to come back to.                               *)
(***************************************************************************)
Backup ==
  /\ pc[Shell] = "backup"
  /\ fds' = [fds EXCEPT ![Shell].others = @ \cup Backups]
  /\ Goto(Shell, "stdin")
  /\ UNCHANGED <<line, plan, at, process, io, lost>>

(***************************************************************************)
(* What setup_redirection opened before it failed stays open.              *)
(***************************************************************************)
Restore ==
  /\ pc[Shell] = "restore"
  /\ fds' = [fds EXCEPT ![Shell] =
               [OnlyStandard EXCEPT !.others = fds[Shell].others \ Backups]]
  /\ lost' = lost \cup ({process[Shell].in, process[Shell].out} \ {NoFd})
  /\ Goto(Shell, "next")
  /\ UNCHANGED <<line, plan, at, process, io>>

-----------------------------------------------------------------------------
(* Redirection, in a child or in the shell itself.                         *)

(***************************************************************************)
(* A process ends; its descriptors are closed.                             *)
(***************************************************************************)
Exit(p) ==
  /\ pc' = [pc EXCEPT ![p] = "none"]
  /\ fds' = [fds EXCEPT ![p] = NoDescriptors]
  /\ UNCHANGED <<line, plan, at, process, io, lost>>

(***************************************************************************)
(* A child closes the end of the pipe that is for the next command.        *)
(***************************************************************************)
UnneededFirst(p) == IF p[2] = 1 THEN {process[p].next} ELSE {}
Unneeded(p) == {process[p].next}

Detach(p) ==
  /\ pc[p] = "detach"
  /\ fds' = [fds EXCEPT ![p].others = @ \ Unneeded(p)]
  /\ Goto(p, "stdin")
  /\ UNCHANGED <<line, plan, at, process, io, lost>>

(***************************************************************************)
(* setup_redirection: a file takes the place of the end of a pipe.         *)
(***************************************************************************)
RedirectionFails(p) ==
  IF p = Shell
  THEN Goto(p, "restore") /\ UNCHANGED <<line, plan, at, fds, process, io, lost>>
  ELSE Exit(p)

Replace(p, field, old, new) ==
  /\ fds' = [fds EXCEPT ![p].others = (@ \ {old}) \cup {new}]
  /\ process' = [process EXCEPT ![p] = [@ EXCEPT ![field] = new]]
  /\ UNCHANGED <<line, plan, at, io, lost>>

OpenStdin(p) ==
  /\ pc[p] = "stdin"
  /\ \/ /\ Command(p).in = NoFile
        /\ Goto(p, "stdout")
        /\ UNCHANGED <<line, plan, at, fds, process, io, lost>>
     \/ /\ Command(p).in \in Openable
        /\ Replace(p, "in", process[p].in, InFile(p))
        /\ Goto(p, "stdout")
     \/ /\ Command(p).in \notin Openable \cup {NoFile}
        /\ RedirectionFails(p)

OpenStdout(p) ==
  /\ pc[p] = "stdout"
  /\ \/ /\ Command(p).out = NoFile
        /\ Goto(p, "dup2")
        /\ UNCHANGED <<line, plan, at, fds, process, io, lost>>
     \/ /\ Command(p).out \in Openable
        /\ Replace(p, "out", process[p].out, OutFile(p))
        /\ Goto(p, "dup2")
     \/ /\ Command(p).out \notin Openable \cup {NoFile}
        /\ RedirectionFails(p)

(***************************************************************************)
(* dup2_stdio moves both to their places.                                  *)
(***************************************************************************)
Moved(new, old) == IF new = NoFd THEN old ELSE new

Dup2(p) ==
  /\ pc[p] = "dup2"
  /\ fds' = [fds EXCEPT ![p] =
               [in |-> Moved(process[p].in, @.in), out |-> Moved(process[p].out, @.out),
                others |-> @.others \ {process[p].in, process[p].out}]]
  /\ process' = [process EXCEPT ![p].in = NoFd, ![p].out = NoFd]
  /\ Goto(p, IF p = Shell THEN "restore" ELSE "run")
  /\ UNCHANGED <<line, plan, at, io, lost>>

-----------------------------------------------------------------------------
(* The commands: pa2_echo, pa2_cat and pa2_head.                           *)

Holds(p, fd) == fds[p].in = fd \/ fds[p].out = fd \/ fd \in fds[p].others
IsHeld(fd) == \E p \in Ids : Holds(p, fd)

(***************************************************************************)
(* pa2_cat and pa2_head copy the files they are given, or their input if   *)
(* they are given none; a file that cannot be opened is passed over.       *)
(***************************************************************************)
Args(p) == CommandOf(p).args
Name(p) == Args(p)[1]
Reads(p) == Name(p) \in Copiers \cup Heads /\ Len(Args(p)) = 1

Gives(p) ==
  \/ Name(p) \in Sources
  \/ Name(p) \in Copiers /\ \E n \in 2..Len(Args(p)) : Args(p)[n] \in Openable
  \/ Name(p) \in Heads /\ Len(Args(p)) > 1 /\ Args(p)[2] \in Openable

(***************************************************************************)
(* A read from a pipe waits while it is empty and somebody could write.    *)
(***************************************************************************)
Input(p) == fds[p].in
FromPipe(p, q) == Input(p) = ReadEnd(q)
FromFile(p) == Input(p)[1] = "file" /\ left[p] > 0

AtEnd(p) ==
  /\ ~FromFile(p)
  /\ \A q \in Procs : FromPipe(p, q) => level[q] = 0 /\ ~IsHeld(WriteEnd(q))

Read(p) ==
  /\ pc[p] = "run"
  /\ Reads(p)
  /\ ~carried[p]
  /\ \/ /\ FromFile(p)
        /\ left' = [left EXCEPT ![p] = @ - 1]
        /\ UNCHANGED level
     \/ \E q \in Procs : /\ FromPipe(p, q)
                         /\ level[q] > 0
                         /\ level' = [level EXCEPT ![q] = @ - 1]
                         /\ UNCHANGED left
  /\ carried' = [carried EXCEPT ![p] = TRUE]
  /\ UNCHANGED <<line, plan, at, pc, fds, process, lost>>

(***************************************************************************)
(* A write to a pipe waits while it is full; without a reader it raises    *)
(* SIGPIPE, which ends the command.                                        *)
(***************************************************************************)
HasOutput(p) == carried[p] \/ (Gives(p) /\ left[p] > 0)
ToPipe(p, q) == fds[p].out = WriteEnd(q)

Write(p) ==
  /\ pc[p] = "run"
  /\ HasOutput(p)
  /\ \/ /\ \A q \in Procs : ~ToPipe(p, q)
        /\ UNCHANGED level
     \/ \E q \in Procs : /\ ToPipe(p, q)
                         /\ IsHeld(ReadEnd(q))
                         /\ level[q] < PipeCapacity
                         /\ level' = [level EXCEPT ![q] = @ + 1]
  /\ carried' = [carried EXCEPT ![p] = FALSE]
  /\ left' = IF Name(p) \in Heads THEN [left EXCEPT ![p] = 0]
             ELSE IF Gives(p) THEN [left EXCEPT ![p] = @ - 1]
             ELSE left
  /\ UNCHANGED <<line, plan, at, pc, fds, process, lost>>

BrokenPipe(p) ==
  /\ pc[p] = "run"
  /\ HasOutput(p)
  /\ \E q \in Procs : ToPipe(p, q) /\ ~IsHeld(ReadEnd(q))
  /\ Exit(p)

(***************************************************************************)
(* A command ends when it has written all it had to, when its input is at  *)
(* its end, and pa2_head when it has written enough.  A command that does  *)
(* not exist, or is one of the shell's own, ends at once.                  *)
(***************************************************************************)
Finish(p) ==
  /\ pc[p] = "run"
  /\ ~HasOutput(p)
  /\ Reads(p) => AtEnd(p) \/ (Name(p) \in Heads /\ left[p] = 0)
  /\ Exit(p)

-----------------------------------------------------------------------------

ShellStep ==
  \/ NextPipeline \/ SetupPipe \/ PipeFails \/ Abort \/ Fork \/ CloseEnds
  \/ WaitOver \/ Backup \/ Restore

Redirect(p) == OpenStdin(p) \/ OpenStdout(p) \/ Dup2(p)

Child(p) ==
  Detach(p) \/ Redirect(p) \/ Read(p) \/ Write(p) \/ BrokenPipe(p) \/ Finish(p)

AllOver == pc[Shell] = "done" /\ \A p \in Procs : pc[p] = "none"

Over == AllOver /\ UNCHANGED vars

Next ==
  \/ \E l \in Lines : ReadLine(l)
  \/ ShellStep \/ Redirect(Shell)
  \/ \E p \in Procs : Child(p)
  \/ Over

Spec == Init /\ [][Next]_vars

(***************************************************************************)
(* Every process that can go on does.  Nobody has to type a line.          *)
(***************************************************************************)
FairSpec ==
  /\ Spec
  /\ WF_vars(ShellStep \/ Redirect(Shell))
  /\ \A p \in Procs : WF_vars(Child(p))

-----------------------------------------------------------------------------
(* Correctness.                                                            *)

(***************************************************************************)
(* What a line says, read off the line.  Pipes and separators cut it into  *)
(* parts; a part is named by the cut it comes after, the first one by 0.   *)
(***************************************************************************)
Cuts(l) == {0} \cup {n \in DOMAIN l : l[n] \in {"|", ";"}}
Inside(l, c) == {n \in DOMAIN l : c < n /\ \A x \in Cuts(l) : x <= c \/ n < x}

(***************************************************************************)
(* The words of a part that are no file names, and its operators.          *)
(***************************************************************************)
IsTarget(l, n) == n > 1 /\ l[n - 1] \in {"<"} \cup RedirectOut
WordsOf(l, c) == {n \in Inside(l, c) : IsWord(l[n]) /\ ~IsTarget(l, n)}
OperatorsOf(l, c, ops) == {n \in Inside(l, c) : l[n] \in ops}

(***************************************************************************)
(* Each part has a command or nothing at all.  (What stands in a part that *)
(* has no command is kept for the next one.)                               *)
(***************************************************************************)
IsOrderly(l) == \A c \in Cuts(l) : WordsOf(l, c) # {} \/ Inside(l, c) = {}

(***************************************************************************)
(* The file a redirection leads to: the item after the last of operators.  *)
(***************************************************************************)
LeadsTo(file, l, operators) ==
  \/ operators = {} /\ file = NoFile
  \/ \E n \in operators : (\A x \in operators : x <= n) /\ file = l[n + 1]

(***************************************************************************)
(* command is what stands in part c.                                       *)
(***************************************************************************)
StandsIn(command, l, c) ==
  /\ Len(command.args) = Cardinality(WordsOf(l, c))
  /\ \A n \in WordsOf(l, c) : command.args[Rank(n, WordsOf(l, c))] = l[n]
  /\ LeadsTo(command.in, l, OperatorsOf(l, c, {"<"}))
  /\ LeadsTo(command.out, l, OperatorsOf(l, c, RedirectOut))
  /\ command.append <=> OperatorsOf(l, c, {">>"}) # {}

(***************************************************************************)
(* The parts with a command; the separators that end such a part, which    *)
(* end a pipeline; and the parts of the k-th pipeline.                     *)
(***************************************************************************)
CommandParts(l) == {c \in Cuts(l) : WordsOf(l, c) # {}}
Ends(l) == {s \in Cuts(l) \ {0} :
              /\ l[s] = ";"
              /\ \E c \in CommandParts(l) : c < s /\ \A x \in Cuts(l) : x <= c \/ s <= x}
PipelineOf(l, c) == 1 + Rank(c, Ends(l))
PartsOf(l, k) == {c \in CommandParts(l) : PipelineOf(l, c) = k}

(***************************************************************************)
(* Every command of an accepted line is run with the arguments and the     *)
(* redirections that stand in its part of the line, in the order of the    *)
(* line; a separator starts a new pipeline and nothing else does; and the  *)
(* pipelines an ampersand stands in, and no others, run in the background. *)
(***************************************************************************)
IsReadAs(l, pipelines) ==
  /\ \A c \in CommandParts(l) : PipelineOf(l, c) \in DOMAIN pipelines
  /\ \A k \in DOMAIN pipelines :
       /\ Len(pipelines[k].commands) = Cardinality(PartsOf(l, k))
       /\ \A c \in PartsOf(l, k) :
            StandsIn(pipelines[k].commands[Rank(c, PartsOf(l, k))], l, c)
       /\ pipelines[k].background <=>
            \E c \in PartsOf(l, k) : OperatorsOf(l, c, {"&"}) # {}
ParsedAsWritten ==
  line # <<>> /\ at = Shell /\ Accepted(line) /\ IsOrderly(line) => IsReadAs(line, plan)

(***************************************************************************)
(* A command runs with the descriptors the line gives it, a file before    *)
(* the pipe, and with no others but those the shell has lost, among which  *)
(* there is never the end of a pipe that is written to: an end held by     *)
(* anybody else would keep a reader waiting.  The shell itself has its own *)
(* standard descriptors back whenever it goes on to another pipeline.      *)
(***************************************************************************)
MeantInput(p) ==
  IF CommandOf(p).in # NoFile THEN InFile(p)
  ELSE IF p[2] > 1 THEN ReadEnd(Previous(p)) ELSE Standard

MeantOutput(p) ==
  IF CommandOf(p).out # NoFile THEN OutFile(p)
  ELSE IF IsLast(p) THEN Standard ELSE WriteEnd(p)

PlumbingIsRight ==
  /\ TypeOK
  /\ \A p \in Procs :
       pc[p] = "run" => /\ fds[p].in = MeantInput(p)
                        /\ fds[p].out = MeantOutput(p)
                        /\ fds[p].others \subseteq lost
  /\ pc[Shell] \in {"next", "wait", "done"} =>
       /\ fds[Shell].in = Standard
       /\ fds[Shell].out = Standard
       /\ fds[Shell].others \subseteq lost
  /\ \A p \in Procs : WriteEnd(p) \notin lost

(***************************************************************************)
(* Every line comes to its end: each reader gets the end of its input once *)
(* its writers are done, and each writer ends when nobody reads any more,  *)
(* whichever files the line puts in between and whichever fail to open.    *)
(***************************************************************************)
LinesEnd == line # <<>> ~> AllOver
=============================================================================
