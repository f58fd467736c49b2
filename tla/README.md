# TLA+ models of SPL_ws

The repository is the course work of a systems programming class: a dozen
independent C programs. The three assignments (PA1 to PA3) are the large ones,
the weekly exercises are small, and several of them are concurrent. This
directory holds TLA+ specifications of the assignments and of the weekly
programs that have state of their own, the TLC configurations that check them,
and TLAPS proofs.

## 1. The system

| Part | State | Operations | Hard behaviour |
|---|---|---|---|
| PA3 server, handlers (`PA3/server/handle_request.c`, `helper.c`) | user array with a mutex of its own and one per user, 100 seats with one mutex each, the active user of each connection | login (registers an unknown user), logout, book, confirm-booking, cancel-booking, query; logout of a connection that ends | worker threads interleave between mutexes; two windows in which `logged_in` and the connection's active user disagree; a scan over seats that is not atomic; lock order |
| PA3 server, event loops (`pa3_server.c`, `helper.c`) | per worker: poll set, active users, self-pipe; the main thread's poll set; `sigint_received` | accept and place a connection, poll, receive, respond, remove, shut down | copies of poll sets that grow stale, swap on removal, descriptors used again, SIGINT and SIGPIPE, joining threads |
| PA3 client (`PA3/client`) | its own copy of the active user, one connection | parse a line, send, receive, handle the response, terminate | the copy against the server's sessions; being killed, or losing the server, at any point |
| PA2 shell, job control (`jobs.c`, `job.c`, `builtin_commands.c`, `pa2.c`) | job table, slot 0 the foreground job; each job's processes; `pending_sigchld` | launch a pipeline, fg, bg, exit, reap, wait, clean up | SIGCHLD and `waitid` against `sigsuspend`; processes that stop, continue and end at any moment |
| PA2 parser, pipes, redirections (`parser.c`, `pa2.c`) | the pipelines of a line, the descriptors of each process | lex, parse, evaluate; `setup_pipe`, `setup_redirection`, `dup2_stdio`, `run_single_builtin_command` | who still holds which end of which pipe; a redirection or `pipe()` that fails half-way |
| PA2 utilities | none | cat, cp, echo, head, mv, rm, tail | SIGPIPE, end of input; a sequence of system calls that fails half-way |
| PA1 search engine | lexicon, bucket files, per-word caches | index; word, phrase, pattern and multi-word queries | shared buckets, caches, intersection of sorted streams |
| Week 6 | counters of signals and acknowledgements | send, acknowledge, retry on SIGALRM | signals that coalesce, retries that race answers |
| Week 9 | one System V queue of two users, two processes each | send, acknowledge, quit | first to quit removes the queue |
| Week 10 | a TCP connection, the copies on the server's disk | file name, acknowledgement, data blocks, end of file | two limits that must agree, interrupts on either side in the middle of a message |
| Week 11 | disjoint rows | threads in batches | none: no two threads write the same data |
| Week 12 | one poll set | join, broadcast, leave | editing the set while walking over it |
| Week 13 | a circular buffer, one mutex, two condition variables | put, get | lost and spurious wake-ups, indices that start over |
| Week 14 | PID file, listening socket, a pipe to the launcher | daemonize, test and write the PID file, accept, echo, stop | two instances and one PID file, crashes, process ids used again, a stop signal at any moment |
| Weeks 1 to 5, 7 | | exercises and two small shells | contained in the above |

How the parts interact. Inside the PA3 server the main thread hands a
connection to one worker through that worker's poll set (under its mutex) and a
byte in its pipe; from then on the worker alone serves it. Workers meet in the
user array and in the seats. Client and server exchange one request and one
response at a time over a stream. In the PA2 shell, the shell and its children
meet in the kernel: wait statuses, SIGCHLD, SIGCONT, and the pipes whose ends
they hold. Instances of the week 14 daemon meet in the PID file and at the
port. The programs of different weeks do not interact.

What makes each part correct:

* handlers: a user has one session, `logged_in` says exactly who has one, a
  seat has one holder and its statistics agree with it, answers are true when
  they are sent, lists are exact, nobody waits for ever, and all of it looks as
  if each request had been handled in one step;
* clients: between two requests, a client and the server agree on who is logged
  in; whoever waits gets an answer or learns that there is none; the session of
  a client that ends, however it ends, is given up;
* event loops: every open connection is in one place, next to its own user;
  every request that arrived is read, every client that left is removed, and
  the shutdown ends;
* job control: the table, ids and counters agree; every child belongs to a job;
  no change of a child is slept through; no child is left behind;
* command lines: what is run is what the line says, each process holds exactly
  the descriptors it should, and the line ends;
* search engine: an answer is what the text calls for, whatever was asked
  before;
* bounded queue: first in, first out, no lost wake-up, everything arrives;
* file transfer: a copy is the beginning of one file, and all of it if both
  sides say so; both sides have the same limit; a transfer ends;
* echo daemon: the PID file names the daemon that runs, the launcher is told
  the truth, and a stop signal stops it.

## 2. Modules

| Module | Models |
|---|---|
| `Booking` | what the PA3 server promises: a service that answers each request in one step |
| `SeatServer`, `MCSeatServer` | the handlers, lock by lock |
| `SeatClients`, `MCSeatClients` | client processes composed with `SeatServer` |
| `SeatServerProofs` | theorems about `SeatServer` and, in its last part, about the composition |
| `PollServer`, `MCPollServer`, `PollServerProofs` | event loops, placement of connections, shutdown |
| `CommandLine`, `MCCommandLine`, `CommandLineProofs` | the PA2 shell's parser, pipes and redirections |
| `JobControl`, `MCJobControl`, `JobControlProofs` | the PA2 shell's jobs and its children |
| `SearchEngine`, `MCSearchEngine`, `SearchEngineProofs` | PA1: index, caches, queries |
| `BoundedQueue`, `BoundedQueueProofs` | the week 13 queue |
| `FileTransfer`, `MCFileTransfer`, `FileTransferProofs` | the week 10 clients and server |
| `EchoDaemon`, `MCEchoDaemon`, `EchoDaemonProofs` | instances of the week 14 daemon |

`map` in `PROJECT.json` gives, for each definition, the lines it stands for.
The MC modules define sets of model values and the requests that clients send.
A few definitions in the specifications (`NeverBlocked`, `NoByte`,
`RewindEarly` and so on) are deliberately wrong variants of the definition next
to them; `mutants` lists them, and each of them makes the property named there
fail.

### SeatServer

One action is one stretch of code between two points where another thread can
get in the way. A worker's `pc` names the point it is at: `array`, `user`,
`seat` wait for a mutex; `find`, `register`, `enroll`, `checking`, `grant`,
`seatHeld`, `take`, `release` and `copy` are inside one; `save` and `clear` are
the two windows in which a handler has given up the user's mutex and has not
yet changed the connection's active user (`handle_request.c:125-126` and
`311-313`); `reply` is before `send_response`. `password[u]` stands for an
entry of `users.array`; its value `NoData` means that there is none, so that
`find_user` is `password[u] # NoData`. `Register` ends the process when the
array is full, as `add_user` does, with the mutex held. `slot[c]` is the
active-user entry of a connection, `owner[c]` the worker whose poll set holds
it. The test and the assignment of a booking or a cancellation are separate
steps, and query copies the two counters in two steps, so that a missing lock
would show. A connection that ends runs `deactivate_user` with the same locks
as a handler (`DROP`), whether it was found by `receive_request`, by `POLLHUP`
or by a failed send. Password hashes are compared as passwords; a request's
data is a seat, a keyword, garbage or absent.

`Booking` is the abstract specification. Its state is what clients can tell:
passwords, the session of each connection, the holder and the statistics of
each seat. Each of its actions is one request. `SeatServer` implements it under
the mapping `session[c] <- Session(c)`, which reads the slot except in the two
windows, where the outcome is decided already, and `holder <- bookedBy`.

### SeatClients

The client processes, one for each connection that is made, next to all of
`SeatServer`. `activeUser[c]` is the client's own copy of the user it is logged
in as; `ParseRequest` fills it into every request, and `RefuseInput` is what
the client decides by itself from it (`parse_request`). `wire[c]` is what the
connection carries: a request, nothing while the server has it in hand
(`taken`), or the code of an answer; one message at a time, as neither side
writes before it has read. `Exit` is `quit`, the end of the input or SIGINT at
the prompt: `terminate` logs out and waits for the answer. `Kill` is any other
end of the process, at any point, also in the middle of a message or of a wait.
The server's half is the actions of `SeatServer`, with what the wire adds: a
request is taken from it, an answer is put on it, an answer to a client that is
gone disappears, fails or ends the server by SIGPIPE (`serverUp`). Whoever
reads from a server that has ended notices (`ServerGone`).

### PollServer

A worker walks over a copy of its poll set (`todo`, `local`), finds the index
of a descriptor again under the mutex (`locate`, then `at`), uses it after the
mutex was released, and removes entries by moving the last one into the place.
A descriptor is open or not (`sock`), can be read or not (`inbox`: nothing,
part of a request, a request), and its client is there, gone or has reset the
connection (`peer`). `accept` hands out any free number, those just closed
included. The removal is split where the descriptor is closed and the entry is
still there (`unlink`). `send_response` to a client that has gone kills the
process (the second write raises SIGPIPE) or fails. A worker's handler is one
step here; `SeatServer` has its inside. The main thread's `poll`, `accept`, the
scan over the poll sets, the addition and the notification are separate steps;
so are waking and joining each worker. `SIGINT` arrives at any moment; it
interrupts `poll` only if the main thread is inside, and a `write` only if the
pipe is full. `todo` is the set of entries with events that a sweep has not
come to; the pipe's, at index 0, comes first, and one read takes `ReadSize`
bytes of it at most.

### CommandLine

A line is a sequence of items, each of which is a word, an operator or a
separator, with the type that `lex` gives it. `Parsed` is the state of
`parse`'s loop after each token, as a recursive function; `skip` is its `i++`
after a redirection. What is odd in the parser is odd in the model: after `&` a
word is an argument of the command before it (`a & b` runs `a b`), redirections
in front of the first command of a pipeline are kept for the command that
comes, and `>> f > g` still appends. Only `|`, `;`, `&` and the redirections
exist; there is no `&&` and no `||`. `ParsedAsWritten` says what a line means
without the parser: pipes and separators cut it into parts, each named by the
cut it comes after; `StandsIn` compares a command with the words and the
operators inside its part, `PipelineOf` counts the separators that end a part
with a command. It is about lines of which each part has a command or nothing
at all (`IsOrderly`), because what stands in a part without a command goes to
the next one.

The second half runs what was parsed. `fds[p]` are the descriptors a process
has open: 0, 1 and the rest. Processes are forked with a copy of the shell's
descriptors and of its `Process` record, close the end that is for the next
command (`detach`), open their files (`stdin`, `stdout`), move them to 0 and 1
(`dup2`) and run. A pipe has a `level`; a read waits while it is empty and some
process holds its write end; a write waits while it is full and raises SIGPIPE
when no process holds its read end. `pipe()` and the opening of a file may
fail. A single built-in command redirects the shell itself and restores it from
copies. `lost` are descriptors of the shell that no variable names any more:
`run_single_builtin_command` leaves the first file open when the second cannot
be opened, and `run_pipeline` leaves the read end of the pipe before open when
`pipe()` fails (`pa2.c:395`). The report (`PA2/2021312344_pa2_report.md:198`)
says that descriptors are closed after use. `PlumbingIsRight` therefore allows
`lost` ones in later processes, but none that would keep a reader waiting.

### JobControl

A child runs, is stopped or is dead; `event` is the one wait status the kernel
keeps for it, and a later change replaces an earlier one. SIGCHLD is one bit.
The shell is a sequence of steps between which children change: the loop of
`main`, `handle_pending_sigchld` (reset the flag, then `waitid` until nothing
is left), `run_pipeline` process by process, `wait_for_processes` with SIGCHLD
blocked except inside `sigsuspend`, fg, bg, exit, and the clean-up at the end.
Jobs are memory: a job that is freed may be handed out again. The job table
with its slot 0, `num_jobs` and `highest_job_id` are as in `jobs.c`.
`BgCrashes` is the dereference of an empty slot in
`get_highest_stopped_job_id`; the model ends there. A stopped foreground job
goes through `add_job_to_table` with a new id.

The loop of `run_pipeline` can end half-way. `ForkFails` is its `exit(1)`,
which leaves the children of the shell behind (`NoChildIsLeft` is about the two
orderly ends). `PipeFails` and `AbortJob` are the failing `setup_pipe`:
SIGTERM, `waitpid` until there is no process of the job left, and `free_job`.
Nothing empties slot 0, so for a foreground job it goes on naming freed memory
until the next command that has the slot. The history variable `stale` says
that this is so. Meanwhile `find_job_by_pid` and the clean-up read it
(`UseAfterFree`): they may come through, find the next job that got the same
memory, or break the program, in which case the model ends as well.
`JobsAreSound` states the rest: slot 0 outlives its job in this way only, no
other slot names a job that has been freed, and table, ids, counters and
children agree in spite of it.

### SearchEngine

A text is a sequence of characters with newlines. `IndexLine` is one turn of
the loop of `index_build` with all of `process_line`: the reader's position,
the table of offsets, the lexicon and the bucket files change together. Word
ids count from 1 here, from 0 in the code. A bucket is shared by every word
whose hash falls into it, so `Postings` has to filter. What the code selects
from a file or a line is written as a set of positions, and `ElementsAt` lists
the elements that stand at them in their order. `cache` has an entry for each
word that has been asked for. Queries for one word and phrases are answered in
one step; phrases read the text again through the table of offsets
(`StoredLine`). An intersection is a step per turn of its loop, with what both
streams still have to deliver as state, and a step from stage to stage; so is a
pattern. A reader over a cache file is the sequence of the records to come, so
chunks of a file are not visible. `printed` is what a query has printed, a
token per number or pair, and `BlankLine` for the newline.

What answers should be (`RightAnswer`) is defined from the text alone, by its
positions: a word or phrase stands where no letter touches it; such a position
has a line and a place in it, and the answer lists them in order, each of them
once.

### BoundedQueue

One producer and one consumer. `put_data` and `get_data` are split into
acquiring the mutex, the test, the copy of the value and the update of the
indices. `pthread_cond_wait` may return without a signal (`WakeUp`). A signal
wakes a thread that waits, and is lost otherwise.

### FileTransfer

`size[c]` are the lengths of the files of a client, which may grow while they
are sent; bytes of different clients differ. A client's steps are `open` and
`fstat`, the name, the acknowledgement, `read` and a block at a time, and
EndOfFile. A message may be cut by the end of its sender. The server opens the
copy (emptying it), receives blocks up to its limit (`server.c:183`), and gives
up when the disk is full, when the limit is passed or when the stream ends.
Copies survive a server that is interrupted and started again. The invariants
compare a copy with the file of some client, byte by byte.

### EchoDaemon

An instance is a process id, and process ids are used again, also by processes
that are no daemon (`stranger`). The PID file is a name (`file`) for an inode,
and an inode has a `content`, so that a process which has opened the file keeps
what it opened after the name was removed or given away. The steps of `Window`
are the calls from the test of the file to the end of the write, one by one;
`overlapped` notes that two instances have been in it at once. Nothing in the
code prevents that, and `RunningDaemonIsNamed` is stated for the runs in which
it has not happened: without this premise it is false, and two daemons can end
up with one file, or none. The parent waits at the pipe for a report and reads
the end of the pipe if the daemon dies first. `StopSignal` is
`handle_stop_signal`, which closes the listening socket; that is what ends an
`accept` begun after the flag was tested. Crashes happen anywhere and leave the
file behind.

Connections wait in `queue`, the backlog, oldest first. `accept` may fail for
want of a descriptor (`AcceptFails`, `Warn`: the client stays where it is and
the daemon calls again), and a client that was accepted may get no thread and
is closed. Threads of clients are steps of their own; a `write` completes at
once if there is room, and otherwise waits (`blocked`) until the client has
read (`ReadEcho`), which nothing obliges it to do. `SendersAreServed` therefore
says what becomes of a client with two exceptions, each about this client
alone: it waits for ever only if it stays blocked without reading
(`NeverReads`), or if `accept` fails again and again while it is in the backlog
(`Refused`).

## 3. Runs

| Run | What it asks | Instance |
|---|---|---|
| `SeatServer` | sessions, truth and exactness of answers, ledger, lock order, and that the server implements `Booking` | 2 workers, 2 connections, 3 users but room for 2, 2 seats, each booked at most once |
| `SeatClients` | client against server: who is logged in, answers arrive, sessions end with their clients | 2 clients, 2 workers, room for 1 user, 1 seat, 6 different lines |
| `PollPlaces` | a connection has one place, next to its user | 2 workers with room for 2 clients each, 3 descriptors, 1 user |
| `PollLiveness` | requests read, gone clients closed, placement, shutdown; what was checked still holds | 1 worker with room for 1 client, 2 descriptors, a pipe of one byte, anything on standard input, SIGINT |
| `PollSigint` | a statement of the report that the code does not meet | 1 worker, 2 descriptors |
| `CommandLine` | lines run as written, descriptors, termination | all 4680 lines of up to 4 of 8 items, and 18 longer ones |
| `Jobs` | table, children, signals, clean-up | a single command, a pipeline of two or three commands of which two can be forked, slots 1 to 3 |
| `JobForeground` | a statement of the report that the code does not meet | one pipeline of two commands |
| `SearchEngine` | answers against the text, caches, offsets, intersections, termination | 154 texts of up to five lines, 18 queries in any order, 2 buckets |
| `BoundedQueue` | order, wake-ups, termination | 3 slots, 8 values |
| `FileTransfer` | whole and unmixed copies, limits, termination | 2 clients and one file name, files of 0, 3 and 4 units with a limit of 4, blocks of 2 |
| `EchoDaemon` | PID file, reports, stop, echo | 2 process ids, 2 clients, 3 inodes |

Some properties are conjunctions of the module's named parts: `AnswersAreExact`
is `RepliesAreTrue`, `BookedListIsExact` and `QueryIsConsistent`;
`JobsAreSound` is the types, the agreement of table, ids and counters, that
only slot 0 can name a freed job, and only after a `pipe()` that failed, that
each child belongs to a job, that a job of one command says what its process
does, and that the shell waits for the living only; `StoresAreExact` is
postings, caches and stored lines; `ChecksStillHold` is that an index found
under a poll set's mutex and the room seen in it are still right when they are
used, and that a worker whose copy is out of date has a byte in its pipe or is
about to get one. Where the type invariant is proved (`SeatServer`,
`BoundedQueue`) it is not run again.

Why these bounds are enough to be of interest. Two workers are what it takes
for the interleavings of mutexes (a third can only repeat what the second one
does to the first, and the theorems remove the bound). Two seats let a scan be
overtaken; a third user finds the array full and ends the process. In
`PollPlaces` three descriptors and two entries let a removal move an entry
while the number of a removed one returns in the other place or in the other
worker's poll set. The constraint `FewAtATime` keeps that run within reach: one
connection at a time has a request under way or a client that has left and
whose descriptor is still open; meanwhile the workers may serve requests they
have read, and remove entries whose descriptors they have closed, which is
where a number returns too early. `PollLiveness` has no such constraint, and
the theorems about the places and the users (section 4) need no bound. The job
instance has a pipeline next to a single job, so that ids leave holes. Eight
values go around a queue of three slots more than twice and the queue can run
empty at every index. The texts have lines that repeat a word, begin and end
with spaces, are empty, or lack a last newline; the queries have up to four
words, so that an intersection has a first, a middle and a last stage and can
run empty at each. Lines of four items contain each operator next to each other
one; the longer ones have three commands, so that there is a process between
two pipes, a built-in command and a failing file at each place, and a
background pipeline still running while the next one starts. A pipe of one unit
and sources of two make writers wait. In `FileTransfer` sizes reach the limit
exactly, pass it by growing, and take two blocks. Two process ids in
`EchoDaemon` are used again by daemons, by strangers and by the test of the
file; three inodes suffice, as one has a name and each process holds one at
most; two clients let one wait in the backlog while the other one has a thread
that is blocked.

Named bounds: `MaxBookings` (a seat booked that often gets no further BOOK
request; it restricts the requests, not the handler), `MaxBacklog` (connections
waiting for accept), `Lengths` (commands of a pipeline), `MaxProcs` (processes
of a job: a longer pipeline is one whose `pipe()` or `fork` fails), `MaxJobs`
with the guard `Room` (a job id stays below the last slot: what happens when
the table of 8192 slots ends is not modelled), `MaxPipelines` and `MaxCommands`
(a line's), `MaxTokens` (the code's limit, reached by one of the lines),
`PipeCapacity`, `Amount` (what a source gives), `MaxLine`, `MaxSize` (how far a
file grows), `TotalIterations`, `Texts`, `Queries`, `Lines` and `Requests` (the
inputs that are tried), `Extra` (the clients of the echo daemon that come only
while a single instance runs; the other one comes at any time).

The pipe of `PollLiveness` holds one byte: a full pipe, which the server only
meets after many connections have changed hands, is then an ordinary state.

Fairness, and why the code gives it:

* `SeatClients`: weak fairness of a worker's steps, of accepting, and of a
  client that reads the answer it waits for; strong fairness of acquiring a
  mutex and of a worker's turning to a connection that has something to read.
  Threads are scheduled, handlers hold mutexes for bounded stretches, and a
  mutex which is released again and again is obtained in the end by a thread
  that keeps asking; a worker's sweep looks at each entry of its poll set.
  Nobody has to type.
* `PollServer`: the same for the workers and the main thread; and a client that
  has sent part of a request sends the rest. The last one is an assumption
  about clients that the code does not enforce: `receive_request` blocks, so a
  client that stops half-way stops its worker. SIGINT is delivered to the main
  thread.
* `CommandLine`: the shell and each of its children run. Nobody has to type a
  line.
* `JobControl`: the shell runs and signals are delivered. Nothing is assumed of
  the user or the children, nor that `pipe()` or `fork` ever fails or the
  program breaks.
* `BoundedQueue`: as for the server; spurious wake-ups get no fairness.
* `SearchEngine`: the program runs; queries need not come.
* `FileTransfer`: the server and the clients run; nobody has to name another
  file, and a server that has ended need not be started again.
* `EchoDaemon`: daemons, the launchers that wait for them, and the threads of
  clients run. Clients need not read what they are sent, and `accept` need
  neither fail nor, once it fails, ever succeed.

Deadlock is checked in every run. A specification that may end says so with an
explicit last step (`Exited`, `Ended`, `Finished`, `Over`).

### Findings

* `PollSigint`: the main thread tests `sigint_received` and then calls `poll`
  without a timeout; a SIGINT between the two is not noticed until something
  else happens (`pa3_server.c:322-323`), although the report says the flag ends
  the main thread and the workers.
* `JobForeground`: fg marks processes that have ended as running; the shell
  then waits for ever (`jobs.c:20`), although the report says it waits until
  all children have ended or stopped.

Four more facts came up. The pipe of a worker can fill: the worker reads at
most 64 bytes of it in a sweep (`pa3_server.c:219`), while up to 999 places may
change hands in the same sweep, each new connection with a byte of its own. The
main thread then waits in `write` for the next sweep. If SIGINT comes first,
the worker sees the flag and ends without reading, and the main thread never
returns from the `write` in `terminate_after_cleanup` (`helper.c:192`), unless
a second SIGINT interrupts it. This is the state `StuckOnPipe`, which
`CleanupEnds` excepts; with 3 places for 2 clients, reads of one byte and pipes
of 4, TLC reaches it in 66 steps. A client that closes while its answer is on
the way can end the server by SIGPIPE (`pa3_server.c:109`); `SeatClients` has
this step, and its liveness properties hold "unless the server has ended". And
bg dereferences empty slots below `highest_job_id` (`jobs.c:54`); `JobControl`
has this step too (`BgCrashes`). And a foreground pipeline that is given up
because `pipe()` failed is freed while slot 0 still names it (`pa2.c:409`); the
next change of a child, or the clean-up, then reads freed memory
(`UseAfterFree`).

## 4. Proofs

All theorems hold for every value of the constants that meets the assumptions
named `...Assumption` in the modules.

**SeatServer.** `SessionsHold` is the inductive invariant of
`SeatServerProofs`: `TypeOK`; `FrameInv`, which ties a worker's `pc` to its
request, connection and scan index (a worker that waits for a seat has a seat
request, and so on); `LockInv`, which says who holds which mutex by `pc` alone;
`AccountInv`, what a worker inside a user's mutex knows about the account; and
`SessionInv`, the two properties themselves. `TypeOK` is not inductive without
`FrameInv`, as an index is only in range for certain requests. The session
properties need `LockInv`: that a login found `logged_in` false is still true
when it sets it, because it holds the user's mutex in between. Results:

* `TypeCorrect`, `DeadlockFree` (from `FrameInv` and `LockInv`: whoever holds a
  mutex that is waited for is further along), `SessionsAreUnique`,
  `LoggedInIsExact`;
* the second part of the module adds `LedgerInv`: the balance of the
  statistics, and `Knows(w)`, what a worker has established at each point of
  its handler about the seat whose mutex it holds, the list it is building and
  its answer. The key step is `OneWorkerPerUser`: two workers that act for the
  same user's seats would need two sessions, so another worker cannot change
  the seats of the user whose list is being built or whose booking is being
  answered. Results: `StatisticsBalance`, `BookedListsAreExact`,
  `QueriesAreConsistent`, `AnswersAreTrue`, and their conjunction
  `EveryAnswerIsExact`;
* it also has `ServerImplementsBooking`, `Spec => Service!Spec`. Each step is a
  step of `Booking` or a stutter: `SaveActiveUser` and `ClearActiveUser` change
  nothing in `Session`, `Grant` and the logout step do.

**SeatClients.** `SystemImplementsServer`: the composition implements the
specification of the server alone, whose environment may send any request at
any time; so all of the above holds of the system, and its step lemmas are used
again in the last part of `SeatServerProofs`. `SystemInv` adds to
`SessionsHold` for each connection what is true at each place its request can
be: on the wire and unserved (both copies agree), in a worker's hands (`Taken`:
they agree up to what this handler has decided), on the way back as a code
(`Answered`: the server's side has changed as the code says, the client's has
not). That a client at its prompt knows its session
(`ClientsKnowTheirSessions`) is not inductive without these, and without
`OneServes`: one worker at a time serves a connection. `NobodyIsAStranger` and
`OrderlyExitsLogOut` follow from the same invariant.

**BoundedQueue.** `QueueInv` adds to the properties the owner of the mutex by
`pc`, the progress of both loops, and `IndicesAgree`: `put_index` is `length`
slots after `get_index`, which is what makes starting over at 0 correct.
Results: `QueueTypeCorrect`, `DeliveredInOrder`, `NoLostWakeup`.

**JobControl.** `ReapInv`: whenever a change waits to be collected, SIGCHLD is
pending in the kernel, or the flag is set, or the reap loop is running; and the
flag is down in the last test before `sigsuspend`. Result: `NoLostSigchld`.

`JobInv` is the invariant of the table. A process that has been forked is gone
exactly when its end is stored in `info`, and one that has not been forked has
left no trace (`ProcessesAgree`); memory that is not free is in the table or is
the job the shell works with (`JobsAgree`); the table and the ids are inverse
to each other and nothing is beyond `highest_job_id`, which stays below the
last slot (`SlotsAgree`): `find_job_by_pid` does not look at that one. The job
that a `stale` slot 0 names may be free, a new background job being launched,
or in the table again. `ForegroundAgrees` says by `pc` alone (`Launching`,
`Waiting`) which job is in slot 0, unless it is `stale`, and that there is
still room to put it back, as `highest_job_id` only falls while the shell
waits. `DoneIsDone` and `WaitAgrees` are what makes `SingleJobsAreAccurate`
hold in `sigsuspend`: a job is not slept for once `wait_for_processes` has
found it stopped or completed. `CleanupAgrees` follows `slot` through the end
of the input. `TableAgrees` is not inductive by itself: it says nothing of a
job outside the table that still has an id, with which `set_foreground_job`
would empty another job's slot. That `update_highest_job_id` returns the last
listed slot is a lemma (`UpdateHighestIs`); that a bounded set of numbers has a
greatest element follows from the well-founded order of the library. What
happens to the table when a job leaves it and when it enters it is stated once
each (`RemoveJob`, `AddJob`), and so is what `free_job` does (`FreeKeeps`), and
giving up the shell's own job, in mid-launch or after the wait (`DropKeeps`).
Results: `TheJobTableIsSound`, `TheShellLeavesNoChild`, for any number of jobs,
any pipeline lengths and any size of the table (`JobAssumption`; the guard
`Room` is part of the model). TLC found `JobInv` to hold in the 4.3 million
states of the instance of `Jobs`.

**PollServer.** `IInv` of `PollServerProofs` is about `Holding`, the set of
(worker, index, descriptor) of the entries that are not on their way out. A
descriptor is in one of them at most (`OnePlace`), which makes the index that
`find_fd_in_pollset` returns unique and lets `CloseFd` be described as taking
one element out of the set, `AddToPollset` as adding one, and the swap of
`Unlink` as a renaming; until the workers are joined they are, with the
accepted connection, exactly the open descriptors. `UsersMatch` adds that a
user is logged in on one connection and that this connection has a place; the
property alone is not inductive, since a new entry could have a descriptor on
which somebody is still logged in. `MainKnows` says what the main thread has
accepted and chosen. The mutexes are not needed for any of it: only its own
worker removes entries of a poll set and uses an index it found, the main
thread adds entries behind that index, and takes up the room it saw itself.
Results, for any number of workers, descriptors, users and places:
`LoopsKeepOrder` (the invariant), `OpenConnectionsHaveOnePlace`,
`UsersFollowConnections`, `FoundUnderMutexStillHolds`; they do not need
`FewAtATime`, the constraint of `PollPlaces`.

`ToldInv` is about a worker that sleeps in `poll` on a copy which is no longer
the poll set: its pipe has a byte or the main thread is about to write one. It
is kept because the worker copies after it has read the pipe and changes its
poll set only outside `poll`, and because a write that SIGINT interrupts was
one to a full pipe. With the types this gives `NoConnectionWaitsUnseen`.
`RestInv` is the rest of the types: the events of a sweep, the counts of bytes
in the pipes, and the variables of the main thread. That a pipe has room is no
theorem: with the 64 bytes and 999 places of the code it may fill (see the
findings).

**FileTransfer.** `IInv` of `FileTransferProofs` goes through a transfer from
its beginning: a connection is in the queue once, or served, or its server end
is closed and nothing is on its way (`ConnectionsInv`); a client has sent no
more than its file has (`ClientsInv`); before a name is read, nothing but that
name or a torn message is on its way (`NamesInv`); when the server
acknowledges, the copy is empty (`AckInv`). While data comes in (`DataInv`),
the copy is the first `received` units of the peer's file, and what is on its
way is a stream (`IsStream`) that goes on from there: each block begins where
the one before it ends (`Position`), `EndOfFile` follows blocks only, the next
name follows `EndOfFile` only, and a message that was cut comes last;
`StreamEnds` ties the end of the stream to the place the client is at. The
properties say nothing of what is on its way and are not inductive without
this. `CopiesInv` adds that the server gives a transfer up only if the file has
reached the limit meanwhile. Results, for any number of clients and names (at
least one client, `TransferAssumption`), any limit, block and buffer:
`TransferInvariant`, `NoCopyIsMixed`, `NoByteIsLost`, `NoFileIsRefusedLate`.

**EchoDaemon.** `StartInv` says what an instance has at each point of its
start: which descriptor is open, that the process id it read is one, that
`remove_pid_file` is registered once the file is written. `FileInv` is about
the runs in which no two instances have overlapped: one instance at most is in
the window, an installed daemon's file is its own, whoever reads the file
meanwhile finds that daemon and does not go on (`FindsIt`), and an instance
that writes has the named inode open. The property alone is not inductive,
since an instance that has read the file earlier acts on it later. Most steps
are `Quiet`, they leave the window alone; seven are not. `InodeIsFree` counts
inodes: there is always one for a new file. Results, for any number of
processes and clients: `DaemonTypeCorrect`, `OneDaemonIsNamed`,
`ParentsAreHonest`.

**CommandLine, the parser.** `LineIsRead`: for every sequence of items, of any
length, an accepted line becomes the pipelines that its parts call for. The
prover has no induction over data, so the recursion is unfolded by hand:
`ParsedIs` shows that the function that `Parsed` chooses exists for every line
(the set of lengths for which it does has no least counterexample), and
`EveryTokenIsRead` goes from token to token in the same way, with `HasRead(p,
l, c, m)`: after `m` items the parser is in part `c`, each earlier pipeline is
as it is written, the last one is so far and has one more command, and that
command says what the part has said up to `m` (`SaysTo`). Two more facts have
to be kept, or a separator could cut off an empty command: there is a word
after each pipe, and after a separator nothing is complete (`AfterCut`). What a
token does is one lemma for each kind (`WordIsRead`, `AmpersandIsRead`,
`TargetIsRead`, `TargetIsSkipped`, `PipeIsRead`, `SeparatorEnds`,
`SeparatorIsIdle`); that the n-th argument is the n-th word is an argument
about `Rank`, which stays the same for all but a greatest element
(`GreatestIsLast`). At the end only the last pipeline can be without a command
(`RunsAre`). `LinesAreReadAsWritten` follows, as the plan is made once.

**CommandLine, the descriptors.** `PlumbingInv` says by the `pc` of the shell
and of each child what its Process record holds, which of the files and pipe
ends have been put into it, and that its open descriptors are among those the
record names, the backups, and the `lost` ones; these are reading ends and
files only. `PlumbingIsRight` speaks of commands that run and of a shell
between pipelines, and is not inductive: what a command starts with is decided
while the shell has the ends of two pipes open and a child still has to close
one. Results, for any lines, files, commands and capacity:
`PlumbingIsInvariant`, `Plumbing`, and `Writers`, that nobody but a command
itself has the writing end of its pipe, but for the moment the shell starts it.
`CommandLineAssumption` asks that `MaxPipelines` and `MaxCommands` be wide
enough for the lines that are read, that no command be both a source and a
copier, and that no file have the name that stands for none.

**SearchEngine.** `EngineInv` of `SearchEngineProofs` is about the stores
first: each line read is a stretch of the text between two newlines, and the
stretches cover it up to `input_pos` (`OffsetsInv`); the lexicon has each word
of these lines once, in lower case (`LexiconInv`); each bucket file has one
record for each occurrence of its words, in their order (`OccInv`); a cache is
the postings of its word (`CacheInv`). While an intersection runs (`MergeInv`),
what has been written and what both streams still have in common are the lines
on which all words of the stage stand; while a pattern runs (`PatternInv`), the
same with the records to come. The answer in `printed` is right when the query
is over. The properties about intersections are not inductive without the
stores, nor is the table of offsets without the number of lines that begin up
to a position. Lemmas that carry the rest: `AscendingIs` and `ElementsAtIs`
(what a list of positions contains and in which order), `WordStands`,
`PlacesAre` and `RefsAreListed` (a word found by scanning a line stands in the
text, and the answers are listed in the order of the text), `SortKeepsIds`,
`GroupIs`. `EngineAssumption` asks that separators, newline, quote and star be
different characters which lower case leaves alone, and that a hash be a
number. Results, for every text, every sequence of queries and any hash:
`EngineIsInvariant`, `StoresStayExact`, `MergesLoseNothing`,
`AnswersAreAlwaysRight`.

Every invariant and every action property that a run checks is a theorem for
all values of the constants. Only model-checked: everything temporal under
fairness, which is out of the prover's reach (`WaitsEnd`,
`EndedClientsAreForgotten`, the four of `PollLiveness` other than
`ChecksStillHold`, `EverythingIsConsumed`, `QueriesAreAnswered`,
`ParentIsTold`, `StopEnds`, `SendersAreServed`, `TransfersEnd`, `LinesEnd`),
and the two findings.

## 5. Not modelled

* Memory: `malloc` failures, leaks, lifetimes other than those of jobs.
* PA3: the bytes of the protocol and the order of bytes in them, Argon2, the
  texts of requests and responses, failures at start-up, an `accept` that
  fails.
* PA2, parser: characters, quoting and variables (items stand for what `lex`
  makes of them); a line of nothing but a comment, for which `parse` looks at
  `tokens[-1]`.
* PA2, processes: failures of `dup` and `dup2`; exit statuses; the terminal's
  foreground group; script mode's loop, which makes the same calls as the
  interactive one; what a program does once it has read freed memory and gone
  wrong. `CommandLine` has no jobs and no failing `fork`, `JobControl` no
  descriptors.
* PA2 utilities: `cp`, `mv`, `rm` make one system call after another on files
  nobody else uses; `tail` reads as `cat` does.
* PA1: failing system calls, records cut by the end of a chunk, the growth of
  the hash table. A file that is read is the sequence of its records.
* A client of the PA3 server that never finishes a request, lines on standard
  input without end.
* Week 6: the handlers only count, both sides sleep in `sigsuspend` with the
  signals blocked, and the counts are inexact by design (pending signals
  coalesce, a retry looks like a new signal): there is no property to state
  that the code means to have.
* Week 9: no state but the kernel's queue; the messages lost when the first
  user removes it are in the list of hazards.
* Week 11: threads write disjoint rows.
* Week 12: one thread; the event loops of PA3 are the elaborate form of it.
* Weeks 1 to 5 and 7: exercises, and shells whose behaviour PA2's contains.
* Week 10: failures at start-up and invalid names. Week 14: environment,
  descriptors and log of the start-up.

## 6. What could follow

A composition of `CommandLine` with `JobControl`, in which descriptors, jobs
and a failing `pipe()` or `fork` meet.
