# A TLA+ development for PACT

PACT (Portable Application Code Toolkit) is a family of C libraries and tools
for portable simulation codes: SCORE (system services), PSH (shell-level tools
and their library), PDB (portable binary files), PML (mathematics), PGS
(graphics), a Scheme interpreter, SX and ULTRA (its applications), PANACEA (a
simulation framework) and bindings for Python and Fortran.

Most of it is sequential: numerics, parsing, format conversion, which tests
compare with known results.  What tests reach badly are the places where
threads, processes, signals or files opened and closed again meet.  This
directory models those.  It holds TLA+ modules translated from the source, TLC
configurations that check them on small instances, and TLAPS proofs of the
main results for every value of the constants.

    cd tla
    tlc -workers 2 -config MCPerdb_store.cfg MCPerdb     # one run
    tlapm Perdb_proofs.tla                                # one proof module

`PROJECT.json` lists, for each definition of a model, the lines of `src/` it
stands for, the runs, the findings, the hazards and the theorems.  A
definition named `X_Something` next to `X` is a mutant: a plausible bug in
`X`, kept to show that the property it is listed with can fail.

A few configurations are not among the runs of `PROJECT.json`; section 3 names
them.  Their counterexamples can be looked at with the same command.

Contents: 1 inventory, 2 modules and code, 3 runs, 4 bounds, 5 fairness,
6 environment assumptions, 7 proofs, 8 disagreements found, 9 what is not
modelled, 10 plan.

## 1. Inventory

### Components that are modelled

**Re-entrant locks** (`score/scthe.c`, `scthp.c`, `scope_thread.h`).
State: the ownership record `active`, `ref_count` of each `SC_thread_lock`, the
system mutex inside it, and the number of threads the process has been told
about.  Operations: `SC_LOCKON`, `SC_LOCKOFF`, the start of the thread system.
Nearly every library takes these locks, the memory manager inside other locked
regions, so they nest.  Hard: the owner test reads the record without holding
the mutex.  Correct when: one thread inside at a time, a nested entry never
waits, the count is the nesting, nothing is leaked, and the race does not matter.

**The perdb database server** (`psh/perdb.c`, `libdb.c`, `libsrv.c`,
`libsock.c`).  A server process keeps a small database in memory, loaded from
and saved to a file `$PERDB.db`, and publishes its host, port and process id in
a connection file `$PERDB.conn`.  Commands (`perdb x`, `perdb x=1`) look for
the connection file, launch a server if there is none, connect, send one
request and read one answer.  State: the two files, the server's memory,
socket, idle time and failed-read counter, the connections.  Operations: the
requests, loading, saving, publishing, idle exit, quit, SIGTERM, SIGHUP.  Hard:
processes that race to launch, servers that replace each other, signals in the
middle of an exit, files that outlive the process they describe.  Correct
when: there is one server, a connection file leads to it, what it answered is
saved when it ends, and successive servers look like one store.

**Thread work distribution** (`score/scpar.c`).  State: `SC_n_threads`, the
shared chunk state `_SC_tc` (`wid`, the array of limits), the shared queue
`_SC_tq`, the `thread_work` array with the threads' return values.
Operations: `SC_init_threads`, `SC_do_threads`, `SC_chunk_loop` with
`SC_chunk_split`, `SC_queue_work` with `SC_queue_next_item`.  Hard: counters
shared by threads that start in any order while the caller still creates
others; the number of threads may change between calls.  Correct when every
iteration is done exactly once before the call returns.  It uses the locks
above.

**The ring buffer** (`psh/libio.c`, `io_ring`).  State: an array, its size, an
input and an output position.  Operations: init, push (which grows the ring),
pop (up to a size or a delimiter), ready, clear.  One operation at a time; hard
are wrap-around, growth while wrapped, and the last byte.  Correct when it is
a FIFO.  `libsrv.c`, `schp.c` and `scpman.c` receive messages through it.

**PDB files shared by threads** (`pdb/pdpar.c`, with `pdb.c`, `pdser.c`,
`pdfmtb.c`, `pdrdwr.c`).  State: the file manager's next free address, a disk
address of each thread, the position of the single stream, the symbol table,
the `flushed` flag, the file and its header and tables.  Operations: write,
define and read entries, flush, close, open.  Hard: several threads reserve
space and share the stream; the tables at the end of the file lie where the
next entry will go.  Correct when entries never share bytes, the file behaves
like one variable per name, and closing saves the tables.

**The pool of remote servers** (`score/scsysd.c`, `scsysa.c`).
`SC_exec_async` runs a script of commands on several hosts: a client starts a
server on each through a connection, sends it jobs and reads its messages.
State: the connections with their counts of running, launched and complete
jobs, the tasks of each, the hosts not yet given up.  Operations: open, choose
a connection, send, take an answer, try again, wait at a barrier, recover a
connection by starting its server again, move it to a spare host or retire it.
Hard: a server may end, start over or fall silent at any instant, and all its
jobs are then given to somebody again, in the middle of a loop that launches
others.  Correct when no command is lost or stands for two, the counts on which
launches and barriers decide are true, a barrier holds, the session ends, and
the status returned is that of the commands.

**Running jobs, and the server that does** (`score/scsysc.c`, `scsysb.c`,
`scsysa.c`).  A job is a list of subtasks, done one after the other by the
program itself (`echo`, `sleep`, `cd`) or by a process, each tried again when
it fails.  State: the task and job records of each job, the list of jobs, the
one working directory of the program.  Operations: accept a job, run its next
subtask, notice the end of a process, complete the job, exit, start over after
a signal.  Hard: one working directory is shared by all jobs, and a chain of
callbacks re-enters the list it walks over.  Correct when subtasks keep their
order and their number of attempts, the status reported is what happened, and
jobs do not get in each other's directories.

**Buffered files** (`score/scbio.c`).  Every file of the libraries is read and
written through a stack of frames, each a stretch of the file.  State: the
position of the descriptor, that of the caller, the frames and which of them
are not yet written, the known size.  Operations: open, read, write, seek,
`fgets`, `ungetc`, flush, close.  Hard: three positions that must agree, frames
that overlap what is written.  Correct when it gives and takes the bytes a
plain file would.

### Components that are not modelled

`PROJECT.json` lists them all with the reason.  In short:

| component | state | why not |
|---|---|---|
| condition variables, thread keys, once-sections (`scthe.c`, `scstd.h` 280) | emulated condition variables, first-time flags | the emulated condition variables are reached only from the thread pool (`scpar.c` 833, 895, 937), which no build of the repository switches on; a once-section is four lines |
| psh hash table (`libhash.c`), score containers | chains and a count | sequential, nothing that runs concurrently is kept in them unlocked |
| psh asynchronous jobs (`libasync.c`) | job table, retries | the older twin of score's, which JobServer and ConnPool model |
| process management (`schp.c`, `scpman.c`) | process records | JobServer models what runs on top; the rest is terminals, ptys and polling |
| parallel files on MPI (`pdparmp.c`) | master's file managers, messages | the division of the file is ParFile's; MPI's rules for messages would have to be modelled first |
| perdb's C clients (`libdb.c`) | one connection over many requests | the server side is modelled; a client adds its own transactions |
| memory manager (`scmm.c`) | free lists per thread | pointer arithmetic on headers |
| remote files, signals, terminals (`scioctl.c`, ...) | operating system objects | wrappers |
| PDB formats and conversion (`pdlow.c`, `pdconv.c`, HDF5 ...) | in-memory tables | large sequential data transformation, out of TLC's reach |
| pml, pgs | none / devices | floating point, drawing |
| scheme, sx, ultra, panacea | an interpreter's heap | out of reach as a whole |
| build tools, bindings, scc, dox | none between steps | text in, text out |

The modelled parts are those with state that several threads, processes,
callbacks or openings of a file share.  They are a small share of the lines:
most of the repository is numerics, drawing, parsing and generated text, for
which a comparison with known results says more than a state machine would.

## 2. Modules and code

    Monitor  <-- ThreadLock                (refinement)     ThreadLock_proofs
    PerdbRequests --- PerdbStore <-- Perdb (refinement)     Perdb_proofs
    ParallelLoop <-- SmpWork               (refinement)     SmpWork_proofs
    ByteFifo <-- IoRing                    (refinement)     IoRing_proofs
    EntryStore <-- ParFile                 (refinement)     ParFile_proofs
    ConnPool                                                ConnPool_proofs
       ... JobSite <-- JobServer           (refinement)     JobServer_proofs
    FileBytes --- PlainFile <-- BufferedFile (refinement)   BufferedFile_proofs
    MCxxx: constants for TLC, one per component

**ThreadLock** — `lockon`/`lockoff` of `scthe.c` 257-317, every unlocked read
and write of the record a step: `OnTest` (owner test), `OnWait` (mutex),
`OnOwn`, `OnCount`; `OffDec`, `OffTest`, `OffClear`, `OffUnlock`.  The mutex
is skipped until `SC_init_threads` (`MultiThreaded`).  `depth[t]` counts what
thread `t`'s caller believes.  **Monitor** is what the callers assume.

**PerdbRequests** — the effect and the answer of each request
(`srv_process` and below); a request is processed without interruption.
**Perdb** — a command is `cpc`: `Look`, `Launch`, `Found`, `GiveUp`
(`_db_srv_launch`), `ReadConn`, `Dial`, `Receive`, `Fin`, `ConnLost`, and `Drop`
for a killed command.  A server is `spc`: `CheckRunning`, `Load`, `OpenConn`,
`WriteConn` (`db_srv_open`), then the loop of `async_server`: `Listen`,
`Select`/`Timeout`, `Accept`, `Process`, `Reply`, `EndConnection`,
`FailedRead`, `EndRound`, `Turn`.  The exits differ in the order in which they
close, unlink, truncate and write; each is a plan (`Leave`, `SaveLeave`,
`QuitLeave`, `SigDone`, `SigRestart`) that the server works off one system call
at a time in `todo`, so signals and other processes come in between.
A server launched by command `c` is named `c`.  **PerdbStore** is one store
in which a request takes effect at most once between call and return; a failed
one may or may not take effect, even after the command has given up.

**SmpWork** — the caller (`mpc`: `Call`, `Create`, `Join`, `OneThread`,
`Return`) and the threads (`wpc`: lock, `NextWid`, `TakeChunk` or `NextItem`,
`CountItem`, unlock, `UseChunk`/`UseItem`, `Run`).  Counting and reading back
are separate steps, as in the code, and the limits are read after the unlock.
The lock is atomic here: it is the Monitor that ThreadLock implements.
Thread 0 is the caller, which runs the function itself when there is one thread.
**ParallelLoop**: every iteration once, before the return.

**IoRing** — `ring_push` with `_ring_adjust`, `ring_pop`, `ring_clear`,
`ring_init`, `ring_ready` (`Ready`).  Memory that realloc adds holds an
arbitrary byte.  **ByteFifo** is a sequence of bytes.

**ParFile** — a call is `Begin`, `Lookup`, then for a new entry `ReadAddr`
(takes `pfmanager_lock_t`), `Reserve`, `Install`, then `Seek` (the thread's own
address), `SeekStream` (takes `PD_io_lock_t`), `Write`/`Read`/`Extend`, `Eod`,
`Return`.  `Flush`, `Close` and `Open` happen between calls.  **EntryStore** is
an atomic variable for each name; closing and opening do not change it.

**ConnPool** — the client is one thread, so one action is one callback or one
call of the main loop: `Launch`, the wait at a barrier and at the end, and
`Callback(ic)`, a message of a server, its end, or too long a silence.
The chain of functions a callback runs is a chain of operators on a record of
what they change, in the order of the calls and under the names of what
they are for: `Withdraw`, `Reissue` (the loop over the tasks of a connection
that is given up, a function of the index), `AssignOthers`, `Shift`, `Reconnect`,
`Recover`, `JobDone`, `TaskOutput` for what comes from a server;
`SendJob`, `StartAndSend`, `StartFails`, `FullySubscribed`, `TryAgain`,
`NoConnections` for launching; `ReachBarrier`, `Drained` for waiting;
`ServerOutput`, `JobOutput`, `ServerRestart`, `LoseContact`, `Rejected` for
the kinds of message.  The servers are `ServerDone`, `ServerStartsOver`,
`ServerDies`: what **JobSite** says of one is all the pool knows.

**JobServer** — one program, the server or `_SC_exec`, and its jobs.  While
`_SC_run_next_task` is at work on a job (`busy`) nothing else of the program
runs: `Echo`, `CdSucceeds`, `CdFails`, `Exec`, `Close`, `Complete`,
`OverAtLaunch` are its turns.  Between them come `Accept`, `Check` (the turn of
the event loop that finds a process ended), `AskExit`, `ServerExit`, `Signal`,
and `ProcessEnds`.  **JobSite** is the promise of a server: a job accepted is
answered once, or lost when the server starts over or ends.

**BufferedFile** — a call is one action: `Read`, `Gets`, `Ungetc`, `Write`,
`SeekTo`, `Flush`, `Reopen`.  The loops under them are functions of the number
of turns, and the record they turn over is what the loop carries: `Sweep` goes
through the stack and removes frames, `Gather` takes a request out of frames
and reads further ones (`Onward`), `Scatter` puts bytes into frames and sends
full ones to the file (`Sent`).  **PlainFile** is a sequence of bytes and a
place in it.  Its content is the disk with the unwritten frames laid over it
(`Laid`), its place `curr`.
**FileBytes** is what both share.

## 3. Runs

| run | question | result |
|---|---|---|
| `lock` | three threads nest a lock around the unlocked owner test | the record is true (exclusion, count, no leak), benign race, refinement of Monitor, re-entry returns, a waiter's lock is taken |
| `perdb_store` | two commands, one setting a value, the other setting a default, deleting, saving or quitting; idle exits and SIGTERM at any instant, also in an exit | one server, its connection file names a live server and is removed by it alone, answered values are in the database file when it ends, refinement of PerdbStore |
| `perdb_end` | one command and its server under SIGTERM, SIGHUP, SIGKILL at any instant, the command killed, no spacing assumed | the command returns, the server ends |
| `perdb_unsaved` | two servers launched together | finding |
| `smp_loops` | two calls in a row of ten kinds, the number of threads changing before each | chunks sound, every iteration once, every call returns |
| `ring_fifo` | pushes and pops that wrap and grow the ring, none filling it exactly | positions in range, a complete message is seen, refinement of ByteFifo |
| `parfile` | two threads, two entries of one and two bytes, flush, close, reopen | entries disjoint, `flushed` truthful, refinement of EntryStore, calls return |
| `parfile_define` | `PD_defent` after a flush | finding |
| `pool` | two connections and a spare host, or one connection alone: two commands, a barrier, a third, each tried twice; two crashes, restarts, silences or failed starts at any instant | books balance, a command stands for one task, the barrier holds, the status is true, without faults the session ends |
| `pool_status` | the last connection is retired | finding |
| `jobs` | two jobs of three and two subtasks on a server that is signalled or asked to exit at any instant, and each alone under `_SC_exec`, errors ignored or not | order and number of attempts, honest reports, own directories, refinement of JobSite (77 979 states) |
| `bfile` | files of up to four bytes with buffers of two, and without: reads, writes, seeks, lines, flushes, reopening | no stale frame, refinement of PlainFile (37 453 states) |

Further configurations, each of which ends in a counterexample that section 8
describes:

| configuration | property | what it shows |
|---|---|---|
| `MCPerdb_hup` | `RestartPublishes` | SIGHUP |
| `MCPerdb_stale` | `LaunchEnsuresServer` | SIGKILL |
| `MCSmpWork_results` | `ResultsReturned` | several functions in one `SC_do_threads` |
| `MCIoRing_full` | `ImplementsFifo` | a push that fills the ring exactly |
| `MCJobServer_status` | `ExitStatus` | a `cd` that fails before a subtask |
| `MCJobServer_cd` | `OwnDirectory` | `cd` with relative names |
| `MCBufferedFile_flush` | `FlushKeepsPosition` | a write right after a flush |

The non-trivial content of some properties:

* `RaceBenign` is the comment in `_SC_eth_lockon` ("the outcome of this test
  cannot be effected by any thread except the one that got through the lock")
  as an action property.
* `SavedOnExit` must survive a second exit that starts while the first has
  truncated the file and not yet written it.
* `OnlyOwnConn` holds although `close_sock` and `db_srv_close` unlink the file
  without looking whose it is; it needs the order of the steps of each exit.
* `ImplementsStore` (Perdb) relates memory, file and the answers of commands
  over a succession of servers.  Its store is the memory of the server that has
  loaded the file, or else the file.
* `ChunksSound`: chunks are within the limits, and the check `SC_chunk_loop`
  itself makes never finds one missing; it reads return values from places
  that joins filled, in creation order.
* `ImplementsStore` (ParFile) gives, for reads and writes that are several
  steps and two locks each, one instant at which they take effect.

* `Accounting` (pool): `n_running` is changed in nine places, several of them in
  loops over tasks that they change; it has to be the number of tasks that wait
  for an answer, and `n_launched - n_complete`, after any chain of faults.
* `OneTask`: when a server is replaced each of its tasks is killed and made
  again, perhaps with another connection.  A command no server has answered has
  one live task in the whole pool, an answered one none.
* `BarrierHeld` relates what the client has launched to what servers have
  answered, over any replacement of servers in between.
* `StatusTrue` compares the status that `SC_exec_async` adds up from the
  tasks of the connections left with the history of answers.  It holds while
  no connection is retired; `pool_status` shows the other case.
* `ScriptFollowed`, `HonestReport` compare the log of attempts with the order
  and number the job asked for, and with what the client is told.
* `OwnDirectory` (jobs): a process runs where its own job's `cd`s lead to
  although the server changes its one working directory for each job.
* `ImplementsSite`: no job is forgotten or answered twice, with liveness.
* `FramesCurrent` (bfile): every frame, also one read before a write that
  overlaps it, agrees with the file as it will be.

Deadlock is checked in every run but those of ParFile, ConnPool and JobServer,
whose program stops when its calls, its script or its jobs are used up.

## 4. Bounds

| bound | value | why it is enough |
|---|---|---|
| `Threads`, `MaxDepth` (lock) | 3, 2 | a holder, one in the owner test, one waiting; nesting starts at 2.  The proofs lift both |
| `Clients` (perdb) | 2, 1 in `perdb_end` | two commands are two possible servers: every race between a leaving and a coming server.  The safety proofs lift it, and with it `Asks` and `Vals` |
| `Asks` | an update against a default, a delete, a save, a quit | the requests that change the store or end the server; `get`, `defd`, `reset` change nothing new |
| `Vals` | 2 | the two commands' values |
| `Tmax`, `Interval` | 2, 1; 16 and unset in `perdb_end` | the idle limit takes more than one timeout, and the second uses the default interval `Tmax / 8` |
| `NbMax` | 2 | a failed read that counts and one that ends the server (10 in the code) |
| `MaxSignals`, one each | 2 | both servers can be signalled, in any phase |
| `MaxThreads`, `MaxCalls`, `Iterations` | 3, 2 (1 in `MCSmpWork_results`), 4 | more iterations than threads, fewer, none; a division with a remainder; a second call after any first.  The proofs lift all |
| `Nb`, `MaxNb`, `MaxDoublings` | 2, 8, 2 | a message longer than the ring makes it grow twice in one push.  The proofs lift all |
| `MaxJobs`, `MaxOpens`, `End`, `TableSize` | 2, 2, 5, 2 | each thread rewrites or reads what it wrote, before and after reopening; tables overlap the next entry.  `MaxJobs` 3 passes as well (1 157 787 states).  The proofs lift all |
| `Hosts`, `Sizes`, `Cpus` (pool) | 3, 1 or 2, 2 for one host and 1 for the others | a spare host to move to; one connection has nobody to hand jobs to; a server that takes two jobs and one that takes one.  The proofs lift all three |
| `Script`, `NA`, `Recruit` (pool) | three commands and a barrier, 2, 1 | a command behind the barrier; a failed command is tried again.  The proofs lift all three |
| `Attempts`, `MaxFaults` (pool) | 3, 2 | a fault in the recovery from another one; a server can be restarted, moved or given up.  The proofs lift both |
| `Jobs`, `Command`, `NA` (jobs) | 2, of three and two subtasks, 2 | a job behind a `cd` of another, a retry of each kind of subtask.  The proofs lift all three |
| `BufSz`, `MaxCount`, `MaxSize` (bfile) | 2, 3, 4 | a transfer that ends in, at and beyond a frame, or spans two; two full frames; `MaxSize` bounds the places sought as well.  The proofs lift all three |
| `Seeks`, `Starts` (bfile) | 0, 1, 3 from the start, 0 from the end, 1 from the current place; empty and three bytes | inside a frame, across frames, at the end and beyond it; a last frame that is not full.  The proofs lift both |

Idle commands, absent signals and calls not made are always allowed.

## 5. Fairness

* ThreadLock: weak fairness of a thread's steps inside lockon/lockoff, and of
  leaving: the operating system runs runnable threads, and every locked region
  of the code is finite.  Acquiring is only weakly fair, so no thread is
  promised the mutex, only that somebody gets it (`WaiterProgress`).
* Perdb: weak fairness of each command's steps after it was given and of each
  server's steps.  Commands need not be given, signals need not come, a command
  need not be killed.
* SmpWork: weak fairness of the caller's steps inside a call and of each
  thread's steps.  The lock is free again after four steps of its holder and a
  thread passes it a bounded number of times, so weak fairness is enough.
* ParFile: weak fairness of a thread's steps inside a call.  Threads make
  finitely many calls.
* ConnPool: weak fairness of the main loop's launches and of the servers'
  answers: a server that lives answers its jobs in the end.  The callbacks of
  a connection are strongly fair, because the main loop polls every descriptor
  between any two launches.  `Returns` is stated for sessions without faults:
  with them the last connection can be lost (section 8).
* JobServer: weak fairness of the program's own turns, of the check the event
  loop makes every few milliseconds, and of the end of each process.  Jobs need
  not arrive, signals and the request to exit need not come.
* IoRing, BufferedFile: none; all is safety.

## 6. Environment assumptions

* `Spaced` (Perdb): a server that starts finds no other one between its own
  test and its publication, and none on its way out.  Starting and ending take
  milliseconds, commands poll every 100 ms and launch only at the second poll.
  It is assumed in `perdb_store` and the safety theorems and not in
  `perdb_end`.  Without it `OneServer` fails: two commands that see no file
  both launch, and nothing makes test and publication one step
  (`_is_srv_running`, `make_server_conn`).  `perdb_unsaved` shows what that costs.
* `SafeDefine` (ParFile): an application defines an entry while no other call
  is under way and not directly after a flush.  `parfile_define` shows what
  happens after a flush.  While other threads are at work, the blank that
  extends the file (`pdpar.c` 688) is written one byte behind the new entry's
  space, which is the first byte of its neighbour: `ImplementsStore` fails.
  `TypeOK` and `Disjoint` hold with and without the assumption.
* `ExactFill = FALSE` (IoRing): no push leaves the ring full.  `Text` (in
  `MessageFound` only): the chunks pushed hold no zero byte, which is what the
  callers of `ring_push` read from terminals, pipes and sockets; `ring_ready`
  then needs no room left over.
* `CallsAssumption` (SmpWork): a loop has `mn <= mx`, a queue starts at 0, and
  `SC_do_threads` is given at least one function, as all its callers do
  (`pasmp.c` 114, `tpdsmp.c` 541, `scsig.c` 227).  Iterations and threads a
  call may need are in the range that is looked at.
* `BoundAssumption` (ParFile): the part of the file that is looked at, up to
  `End`, holds one copy of every entry and the tables behind them.
* `AnswerAssumption` (Perdb): an answer is something, not the value that stands
  for none.
* Each entry has one thread that writes it, and a thread reads an entry only
  while its owner is not writing it: the library does not order such calls
  ("of course, a risky thing to do", `doc/pdb.h` 8937-8940).  No call is under
  way during `PD_flush` and `PD_close`, which the manual asks for
  (`doc/pdb.h` 8934-8935), nor during `PD_open`.
* `Careful` (BufferedFile): between reading and writing, or the other way, and
  after any flush, the caller flushes and then seeks to some other place
  (`Discipline`); it seeks from the end only in a file with buffers, with a
  flush between this and any writing, and from where it stands only in a file
  without (`Reckoned`; section 8 says what the other seeks do).  C asks less of
  the callers of `fread` and `fwrite`: a flush or a seek.  With or without
  `Careful`, no seek before the beginning of a file is made (`Reaches`), and
  `ungetc` follows the reading of one character.
* ConnPool: a host is its place in the list of the system type, so hosts are
  all different; each server announces at least one processor
  (`PoolAssumption`); servers report success or failure.  Load figures and
  times, which only choose among connections with room, are a free choice.
* JobServer: in `jobs` every `cd` names its directory absolutely (`Absolute` in
  the theorem).  Any process may fail, and any subtask may fail to be opened.

## 7. Proofs

All constants are arbitrary within the modules' assumptions.

**ThreadLock_proofs** (any number of threads, any depth).
`Invariance` proves `IInv == TypeOK /\ MutexInv /\ ActiveInv /\ CountInv /\
DepthInv`.  `MutualExclusion` is not inductive by itself: one has to know
that the threads between `OnWait` and `OffUnlock` are exactly the holder of the
mutex (`MutexInv`), that `active` names a thread only while it is in that
section (`ActiveInv`), how `ref_count` and `depth` relate at each label, and
that only the main thread moves before the start.  From it: `TypeCorrect`,
`Exclusion`, `CountCorrect`, `Released`, their conjunction `RecordTrue`,
`RaceIsBenign`, and `Refinement`: every step is a step of Monitor or leaves its
variables alone.

**Perdb_proofs** (any commands, variables, values, timeouts, limits).
`TypeCorrect` needs no assumption beyond the modules'.  It carries `AskInv`: a
command with a message in its inbox has made a request, without which
`Process` would apply `Effect` to nothing.
`OneServerAtATime`, `ConnNames`, `OwnConn`, `Saved`, `OneStore` and
`SetSurvives` are proved under `Orderly`: `Spaced`, and SIGTERM the only event.
(SIGHUP and SIGKILL break them, see 8.)  The invariant is `IInv == TypeInv /\
OneHolder /\ ReadInv /\ \A s : ServerInv(s)`.  `OneHolder` is stronger than
`OneServer`: the place of the server is taken from the moment it passes
`CheckRunning` until its last exit step.  `ServerInv(s)` says, for each place a
server can be in, which rest of a plan it can have to do (`TodoOf`), what the
connection file then says (`ConnOf`), the state of its socket (`SocketOf`),
and, once the save is behind it, that file and memory agree (`SavedOf`).
SIGTERM starts a new plan from any of these, which is why the plans' tails must
be listed.  The step proof treats commands, other servers (`OthersSafe`: nobody
disturbs the holder), start, exits, service and signals in lemmas of their own.
`OneStore` is the refinement of PerdbStore.  It needs `Commands` besides: what
lies in a command's inbox is the request it has made until that has been
answered, and a server about to reply has the answer.  Every step then is a
call, the effect of one request on the store every earlier one left, a return,
or leaves store and calls alone.  That exits and starts leave it alone
(`StoreOK`) is where `SavedOf` is used: the store passes from a server's memory
to the file and back.  `SetSurvives` follows with `Kept`: what was answered is
in the store, as long as nobody else has meant to change it.

**SmpWork_proofs** (any number of threads, any loops, queues, functions, any
number of calls).  `IInv == Typed /\ Phase /\ Locked /\ ~missed /\ (Busy =>
InCall)`.  `InCall` says who has been given what.  `Front` is the first
iteration given to nobody, `Hand(w)` those that thread `w` has been given and
has not done; those below `Front` in no hand have been done once, all others
not at all (`Done`), and no two hands share any (`Hands`).  For chunks it has
to be known that `wid` counts the threads that have come for one (`Chunks`) and
where the limits of each lie, for a queue that a thread which has ended has seen
its end (`Items`).  From it: `TypeCorrect`, `ChunkSafety` and, because a call
returns only when every hand is empty and `Front` is at the end, `OnceEach`,
the refinement of ParallelLoop.  The number of functions of a call with several
pieces of work is a sum over them; its lemmas are proved by the least piece at
which one would fail.

**IoRing_proofs** (any bytes, chunks, sizes and number of doublings).
A ring holds `Length(r)` bytes, the `i`-th at `Place(r, i)`; `Wrap` has
the lemmas about remainders.  `DoubledSame`: doubling a ring that is wrapped
around moves the older part behind, and leaves length and bytes as they
were.  `AdjustedSame` takes this through the loop of `_ring_adjust`, and
`PushedData`, `PoppedData` say what a push and a pop do to the bytes.  The
invariant of the states is small, `IInv == TypeOK /\ Emptied`: a ring of no size
has both positions at 0.  `TypeCorrect` needs nothing else.  `QueueOfBytes`,
the refinement of ByteFifo, is under `~ExactFill`, the case of finding 7.
`MessageFound` (`CompleteIsReady`) is for text and with or without `ExactFill`:
no byte of the data is zero, so a search that goes through them does not stop
before the delimiter.

**ParFile_proofs** (any threads, names, sizes, number of calls and openings).
`IInv == Typed /\ Tables /\ \A t : Thread(t)`.  Disjointness is not inductive
by itself: between `ReadAddr` and `Install` an address is held by a thread and
is in no table, so `Thread(t)` says of a thread that holds the manager's lock
that the address it has read is the manager's (`Locked`), of one that has
reserved space that this lies below the next free address and beside all
entries and all other reservations (`Given`), and of one in a transfer that it
works at the place of its entry (`Bound`).  `Tables` says the same of the
symbol table in memory and of the one saved in the file, because a file that is
opened again starts from the latter.  From it: `OwnSpace` (`Disjoint`),
`Transfers` (the stream is where the thread that has the lock needs it), and
`NoOverwrite`: a step that writes leaves the bytes of other names alone.
`TypeCorrect` has to show that nobody gets a place beyond `End`.  An address
given out is the number of bytes of the entries placed so far (`Counted`,
`Cardinality(Content(Placed))`): no space is given twice for a name and none is
lost, also when the file is opened again.
`TablesSaved` and `OneVariableEach` assume `SafeDefine`.  Their invariant adds
`Sound`: whoever defines an entry is alone at work (`Alone`), a write behind an
entry has cleared `flushed` (`Cleared`), tables taken for saved describe the
entries (`TablesCurrent`, which is `FlushedIsSaved` strengthened to all phases
of a call), and a name without an entry has no value (`Unwritten`).  The
refinement of EntryStore maps the value of a name to the bytes at the place of
its entry; that one writes and others read in several steps under two locks
takes effect at the transfer.

**ConnPool_proofs** (any script with any barriers, any number of hosts,
processors, attempts and faults, each of the ways to recruit).  `IInv == TypeOK
/\ Books(State) /\ Len(pool) =< conns /\ Tracked(...) /\ Unasked /\ Phases /\
BarrierHeld`.  None of the properties is inductive by itself.
*Books*: that `n_running` counts the tasks that wait survives an answer only if
the answer is to a task that waits; so `Sound(c, n)` says of a connection that
its server runs or has reported each job at most once (`LinkOK`), and is silent
about every task that is over or withdrawn.
*Commands*: `Tracked` follows a command through all the tasks made for it.  A
task that is not withdrawn tells what was reported of its command (`Truthful`);
no command has two (`Alone`); one that was launched has one (`Somewhere`) while
it is unanswered, or while no connection has been retired; one not yet launched
has no answer (`Unasked`).  `OneTask` and
`StatusTrue` follow.
*Phases*: the counters of launched and complete jobs are set to 0 behind a
barrier, which keeps the books only because nothing runs there (`Idle`, in
`Phases`); and with nothing running, every command launched so far has been
answered (`IdleAnswered`), which is why a barrier may be passed.
The chain of operators of a callback is followed by lemmas of the same form.
`Changed` is what a change of one connection does to a pool, and `Handed` what
withdrawing a task here and making one there does to the commands; by the least
index at which it would fail, `ReissueGoes` takes this through the loop.
`Carries(t, s)` says that `t` has the books and the commands of `s`; it is
transitive, so recovering a connection, with its moves, restarts and
reassignments, is a chain of such steps (`ShiftMoves`, `RemoveMoves`,
`ReconnectSettles`, `RecoverSettles`).  Then each action has a lemma
(`SendJobHolds`, ..., `ServerDiesHolds`), and `StepHolds` collects them.
`TypeCorrect`, `BooksBalance`, `OneTaskEach`, `Barriers` and `StatusTold` need
no assumption beyond the module's.

**JobServer_proofs** (any jobs, directories, number of attempts).
`IInv == TypeOK /\ Histories /\ BusyInv /\ JobsInv`. `JobsInv` relates the log
of attempts to the counters that the code keeps. The code knows only `nl`, `nc`
and `ia`; that no subtask gets more than `NA` attempts, and that a failure
reported is that of all of them, needs the log to end where the counters say:
the subtask at hand follows the last attempt (`AtHand`), the attempts counted
were made of it (`Counted`), and those before it did not fail (`InHand`).
`BusyInv` says what the program may be in the middle of; `Histories` types the
logs. From it: `TypeCorrect`, `InScript`, `HonestReports`, and `Refinement`:
every step is one of JobSite's or none. `Directory` is proved with a second
invariant, `DirInv`, under `Absolute`: the target of a `cd` does not depend on
where it is given.

**BufferedFile_proofs** (any buffer size, bytes, contents, seeks, counts and
sizes of files, under `Careful`).  `IInv == Holding(State, Content, last,
buffered) /\ Ungettable`.  That frames agree with the file is not inductive by
itself.  No two frames may touch (`Spread`; a frame that was read stands for a
whole buffer, as the code takes it), or writing one would spoil another; a frame
that was read is cut off only by the end of the file (`Fresh`), or a read would
stop early; one to be written is not full (`Unsaved`).  While the caller reads
there is nothing to write, and after a write nothing that was read (`Phases`).
The descriptor need not be where the caller is: `_SC_bio_seek` leaves it alone
when a frame has the place.  `ReadPlace` and `WritePlace` say that if the two
differ, a frame holds the caller's place, so the next transfer starts in that
frame and seeks before it touches the file.  `Ungettable` is what a character
given back relies on.
`Laid` is too large to reason about, so `Shows(F, d, c)` characterises it: `c` is
what file `d` will be when the frames `F` are written.  The three loops have an
invariant each, on the number of turns: `Swept`, `Gathering`, `Scattering`.  A
write is the hard one: every turn keeps that the stack, the frame in hand and
the bytes put so far show what laying a prefix of the bytes over the old
content gives, while full frames go to the file and the position, kept as a sum
of corrections (`na`), comes out where it should.
From these `HoldRead`, `HoldWrite`, `HoldSeek`, `HoldFlush` say what a call does, and each action
has a lemma.  `TypeCorrect`, `NoStaleFrame` and `PlainBytes`, the refinement of
PlainFile, follow.

**How loops are reasoned about.**  The provers cannot instantiate an induction
theorem.  A fact about a function that is defined step by step on `0..n` (the
sums of SmpWork, the doublings of IoRing, the tasks handed on in ConnPool, the
walks over the frames of a file) is
proved by contradiction: the indices at which it fails have a least one (lemma `Least`, from
`WFMin` and the well-foundedness of the subsets of a finite set), which is not 0 and
contradicts the step from the index before it.

**Model-checked only.**  The liveness properties (TLAPS has no way to reason
about `ENABLED`), and with them the fairness part of JobSite, `Returns` and the
other progress properties.  All safety properties of the runs that pass are
proved.

## 8. Disagreements found

The first three are runs, the others are the further configurations of section 3.

1. `perdb_unsaved`, `AnsweredSurvives`: of two servers launched together, the
   one that ends first removes the other's connection file (`libsock.c` 721,
   `libdb.c` 999); the other then leaves its loop without saving.
   `perdb.1` 34-35: "the server will save the database in $PERDB.db and exit".
2. `parfile_define`, `CloseSavesTables`: only a write clears `file->flushed`;
   an entry defined after a flush or first thing after an open is not in the
   file once it is closed (`pdpar.c` 789).
3. `pool_status`, `ZeroMeansSuccess`: the status is added up over the tasks of
   the connections that are left (`scsysd.c` 2297, 2320; `scsysa.c` 474).  When
   the last one is retired there are none, and a session of which a command was
   never launched returns 0.  `scsysa.c` 371: "returns zero iff all succeed".
4. `MCPerdb_hup`, `RestartPublishes`: `db_srv_restart` closes the socket, and
   `open_server` takes "-1 and a port" for a set-up in progress
   (`libsock.c` 468).  The restarted server has no socket and ends.
5. `MCPerdb_stale`, `LaunchEnsuresServer`: `_db_srv_launch` does not use the
   result of `is_running` (`libdb.c` 104), so the file of a killed server stops
   every later command.
6. `MCSmpWork_results`, `ResultsReturned`: return values of the second and later
   functions are stored at indices of the whole call (`scpar.c` 757), and partly
   outside the array.
7. `MCIoRing_full`, `ImplementsFifo`: a ring filled to the last byte looks empty
   (`libio.c` 125).
8. `MCJobServer_status`, `ExitStatus`: a command line whose `cd` fails is over at
   its launch, before the status is taken over (`scsysc.c` 1979-1982), and
   `SC_exec` returns 0.
9. `MCJobServer_cd`, `OwnDirectory`: a relative `cd` is looked up from the
   program's working directory, which is that of the job last worked on.
10. `MCBufferedFile_flush`, `FlushKeepsPosition`: `scbio.c` 1047 says that a
    flush should not change the position; in a file with buffers what is written
    next goes elsewhere unless the caller seeks.

Observed while reading, without a run:

* `perdb.c` 273: `tmax >> 3` is 0 for timeouts below 8, so such a server is
  never idle long enough.
* `libsrv.c` 441: `quit` answers before it saves.  A command given right after
  it, as in `psh/tests/perdb8`, may launch a server that loads the old file.
  With `Spaced` this does not happen.
* `perdb.c` 373 and 410: `save:` and `load:` do other things than `perdb.1`
  180-192 says; the model follows the code.
* `libsrv.c` 442: a client that dies while waiting may kill the server by
  SIGPIPE (`ReplyPipe`).
* `libio.c` 94: `ring_ready` reads behind the data; after growth it may find old
  bytes or go round.  `CompleteIsReady` is the direction that holds.
* `scpar.c` 367-372: "any subsequent calls do nothing", but `SC_n_threads`
  changes.  The model lets it change.
* `pdrdwr.c` 895-896: the annotation of text files in threads moves data beyond
  the space that was reserved.
* PDB tables lie where the next entry goes, so a process that ends between a
  write and the next flush leaves a file that cannot be read.

Pool (`scsysd.c`, `scsysa.c`; the model does what the code does in all of these
but where section 9 says otherwise):

* The status of a task is set before it is decided whether it is tried again;
  the retry is recognised by a flag of its own, which `Pending` follows.
* The choice of a connection falls back on the limit of the last one it looked
  at when none has room.
* A connection retired while the client waits for the last answers, and no
  other is left: the client waits for ever.
* Jobs handed to a connection that has no server yet are not sent.
* The periodic check starts a server that has ended again without handing its
  jobs on.
* A server that was only silent goes on with jobs that are now given to
  another: they are run twice, and answered once for the client.

Jobs (`scsysc.c`, `scsysb.c`):

* A subtask whose pipe cannot be opened is passed over, and reported
  as unfinished only when it is the last.
* With errors ignored, the subtask behind a failed `cd` has one attempt fewer.
* The server sleeps in a retry (`scsysc.c` 585), up to 40 s, and answers nobody.
* `_SC_server_check_jobs` reads the status of a job it has just completed and
  freed (`scsysb.c` 270).
* A job directory that cannot be entered is not noticed (`scsysc.c` 1508).
* A server that starts over loses its jobs without a word; the client learns of
  it from the message that it is up again.

Buffered files (`scbio.c`):

* A read past the end of a file without buffers makes `sz` grow, so that a later
  seek from the end does nothing.
* A seek from the end leaves out frames not yet written; one from the current
  place is relative to the descriptor, which is ahead of the caller.
* A `lseek` or `write` that fails is only asserted against.

## 9. Left out of the modelled components

* Locks: the emulated lock (`_SC_use_emu_lock` is never set).
* Perdb: authentication, logging, wildcard and multi-access requests, named
  snapshots, `-c`, the C library's sessions.  SIGINT acts as SIGTERM.
* Work distribution: nested chunk loops (`scpar.c` 480), thread creation that
  fails, the pool (its code is not reached), OpenMP.
* Ring: the reading loops around it, and what they do with the part of a
  message that `ring_pop` returns when its end has not arrived (`libio.c` 213).
* Parallel files: pointers, append, attributes, text files, several files at
  once, crashes between calls, formats; bytes are looked at up to `End`.
* Pool: heartbeats (a silence is a fault that may happen at any time), the
  acknowledgement and exit messages, SIGINT, filters and logs; `--kill--`, which
  nothing sends.
* Jobs: pipes and redirection inside a subtask, output, resource statistics, the
  time limit, of which the value returned is not stored.
* Buffered files: `setvbuf` after the first transfer, `fprintf` and `fputs`
  (formatting before a write), system calls that fail.
* The emulated condition variables lose a signal that comes between unlocking
  and waiting (`scthe.c` 461), and a broadcast wakes those of all
  (`scthe.c` 489): dead code as long as the thread pool is.

## 10. Plan

What would come next, in this order:

1. **PerdbSession**: clients with several requests; `dbinitv` as two
   transactions (`libdb.c` 304), the server address a process keeps
   (`libsock.c` 551).
2. Crashes in ParFile, between a write and a flush; two files that share the
   manager.
3. SmpWork with creation that fails and nested loops; once-sections under it.
4. ParFileMpi: the master and its clients, refining the same EntryStore, with
   MPI's rules for the order of messages in a module of their own.
