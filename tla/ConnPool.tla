------------------------------ MODULE ConnPool ------------------------------
(***************************************************************************)
(* The pool of connections on which SC_exec_async runs a script of         *)
(* commands (score/scsysd.c, driven by score/scsysa.c).  A connection      *)
(* starts a server on a host, sends it jobs and reads its messages; when   *)
(* the server dies, restarts or is silent for too long the connection is   *)
(* opened again, moved to a spare host or retired, and its jobs are sent   *)
(* again.  The client is one thread: one action per callback or call, and  *)
(* the chain of functions a callback runs is a chain of operators on a     *)
(* record of what they change.  Load figures and times, which only choose  *)
(* among connections with room, are a free choice.                         *)
(***************************************************************************)
EXTENDS Integers, Sequences, FiniteSets, SequencesExt

CONSTANTS Script,     \* the commands, in order; Barrier among them
          Barrier,    \* a command IS_BARRIER recognises
          Hosts,      \* the number of hosts of the system type; a host is its place
          Sizes,      \* connections the pool may be opened with
          NA,         \* attempts to run a command
          Attempts,   \* SC_EXEC_SERVER_N_RESTART
          Cpus,       \* Cpus[h]: jobs the server on h says it can run
          Recruit,    \* SC_EXEC_CPU_RECRUIT: 1, 2 or, for any other, 0
          MaxFaults   \* bound on crashes, restarts, silences and failed starts

ASSUME PoolAssumption ==
  /\ NA \in Nat \ {0} /\ Attempts \in Nat /\ MaxFaults \in Nat
  /\ Script \in Seq(Range(Script)) /\ Hosts \in Nat /\ Recruit \in 0..2
  /\ Sizes \subseteq 1..Hosts /\ Cpus \in [1..Hosts -> Nat \ {0}]

VARIABLES
  conns,    \* the argument n: connections asked for
  phase,    \* where SC_exec_async is: "launch", "busy", "drain", "done", "exit"
  pos,      \* index in Script of the command being launched
  tries,    \* turns of the loop over hosts in _SC_launch_pool_task
  pool,     \* the array of connections
  hosts,    \* the hosts not yet given up
  njobs,    \* cp->n_jobs
  fate,     \* the argument of the LONGJMP that ended the session
  answers,  \* history: how often a server has reported a command done
  outcome,  \* history: the last status a command was reported with
  faults    \* faults so far

vars == <<conns, phase, pos, tries, pool, hosts, njobs, fate, answers, outcome, faults>>

NotFinished == -1000   \* the program's NOT_FINISHED
Ok     == 0
Failed == 1

Commands == {p \in DOMAIN Script : Script[p] # Barrier}

-----------------------------------------------------------------------------
(* Connections and tasks.                                                  *)

NoServer == [proc |-> "none", inbox |-> <<>>, jobs |-> {}]

StartedServer(h) == [proc  |-> "running",
                     inbox |-> <<[kind |-> "ncpu", n |-> Cpus[h]]>>,
                     jobs  |-> {}]

NewConnection(h) ==
  [host |-> h, running |-> 0, launched |-> 0, complete |-> 0, max |-> 1,
   lmt |-> 1, restart |-> 0, started |-> FALSE, link |-> NoServer, tasks |-> <<>>]

MakeTask(id, cmd) == [id |-> id, cmd |-> cmd, ia |-> 0, status |-> NotFinished,
                      retry |-> 0, killed |-> FALSE]

Unfinished(t) == t.status = NotFinished /\ ~t.killed

\* A job written to a server that is gone is lost in the pipe.
Send(link, id) == IF link.proc = "running"
                  THEN [link EXCEPT !.jobs = @ \cup {id}] ELSE link

\* _SC_exec_pool_job
ExecJob(s, ic, it) ==
  [s EXCEPT !.pool[ic].tasks[it].ia = @ + 1,
            !.pool[ic].running      = @ + 1,
            !.pool[ic].link         = Send(@, s.pool[ic].tasks[it].id)]

\* _SC_pool_job
PoolJob(s, ic, cmd) ==
  LET pushed == [s EXCEPT !.njobs = @ + 1,
                          !.pool[ic].tasks = Append(@, MakeTask(s.njobs, cmd))]
      sent   == ExecJob(pushed, ic, Len(pushed.pool[ic].tasks))
  IN  [sent EXCEPT !.pool[ic].launched = @ + 1]

-----------------------------------------------------------------------------
(* Giving the work of a connection away.                                   *)

Withdraw_KeepsCount(s, ic, it) ==
  [s EXCEPT !.pool[ic].tasks[it].killed = TRUE,
            !.pool[ic].complete         = @ + 1]

Withdraw_LeavesTask(s, ic, it) ==
  [s EXCEPT !.pool[ic].complete = @ + 1,
            !.pool[ic].running  = @ - 1]

Withdraw(s, ic, it) ==
  [s EXCEPT !.pool[ic].tasks[it].killed = TRUE,
            !.pool[ic].complete         = @ + 1,
            !.pool[ic].running          = @ - 1]

\* The loop over the tasks of connection ic: each that is unfinished is
\* withdrawn and given to to[it].
Reissue(s, ic, to) ==
  LET after[it \in 0..Len(s.pool[ic].tasks)] ==
        IF it = 0 THEN s
        ELSE LET t == after[it - 1].pool[ic].tasks[it]
             IN  IF Unfinished(t)
                 THEN PoolJob(Withdraw(after[it - 1], ic, it), to[it], t.cmd)
                 ELSE after[it - 1]
  IN  after[Len(s.pool[ic].tasks)]

AssignCurrent(s, ic) == Reissue(s, ic, [it \in DOMAIN s.pool[ic].tasks |-> ic])

\* The tasks go round the other connections; a connection that is alone
\* gets its own.
AssignOthers(s, ic) ==
  LET n         == Len(s.pool) - 1
      other(k)  == IF k < ic THEN k ELSE k + 1
      target(it) == IF n = 0 THEN ic ELSE other(((it - 1) % n) + 1)
  IN  Reissue(s, ic, [it \in DOMAIN s.pool[ic].tasks |-> target(it)])

RemoveConnection(s, ic) ==
  LET given == AssignOthers(s, ic)
  IN  [given EXCEPT !.pool = RemoveAt(@, ic)]

\* _SC_shift_pool_connection: the host is given up; the connection moves to
\* the first one that no connection uses, or is retired.
Spare(s) == {h \in s.hosts : \A lc \in DOMAIN s.pool : s.pool[lc].host # h}

Shift(s, ic) ==
  LET left == [s EXCEPT !.hosts = @ \ {s.pool[ic].host}]
  IN  IF Spare(s) = {} THEN RemoveConnection(left, ic)
      ELSE [left EXCEPT !.pool[ic].host = Min(Spare(s))]

-----------------------------------------------------------------------------
(* Opening a connection, and opening it again.                             *)

\* _SC_launch_pool_connection; up: SC_open_remote starts a server.
LaunchConnection(s, ic, up) ==
  IF up THEN [s EXCEPT !.pool[ic].started = TRUE,
                       !.pool[ic].link = StartedServer(s.pool[ic].host)]
  ELSE Shift([s EXCEPT !.pool[ic].started = FALSE], ic)

Close(s, ic) == [s EXCEPT !.pool[ic].link = NoServer]

\* _SC_reconnect_pool.  Every caller either asks for a new server or has
\* just closed the old one.
Reconnect(s, ic, up) ==
  LET counted == [s EXCEPT !.pool[ic].restart = @ + 1]
      opened  == LaunchConnection(Close(counted, ic), ic, up)
  IN  CASE counted.pool[ic].restart >= Attempts ->
             [counted EXCEPT !.fate = "SC_CONN_EXHAUSTED"]
        [] counted.pool[ic].restart < Attempts /\ ~up ->
             [opened EXCEPT !.fate = "SC_NO_CONN"]
        [] OTHER -> AssignCurrent(opened, ic)

\* _SC_recover_connection
Recover(s, ic, up) ==
  LET moved == Shift(Close(s, ic), ic)
  IN  IF Spare(s) = {} THEN moved ELSE Reconnect(moved, ic, up)

-----------------------------------------------------------------------------
(* The end of a job.                                                       *)

\* The limit after a job of connection ic is done; slow: it is the slowest
\* connection on average.
NewLimit(s, ic, slow) ==
  LET c     == s.pool[ic]
      alone == Len(s.pool) < 2
      lmt   == IF alone THEN c.max ELSE IF slow THEN c.lmt - 1 ELSE c.lmt
      grown == CASE Recruit = 1 -> lmt + 1
                 [] Recruit = 2 -> 2 * lmt
                 [] OTHER -> c.max
      least == IF grown < c.max THEN grown ELSE c.max
  IN  IF least > 1 THEN least ELSE 1

Retry_OneMore(t, st) == CASE st = Ok -> 0
                          [] st # Ok /\ t.ia <= NA -> 1
                          [] OTHER -> -1

\* _SC_decide_retry
Retry(t, st) == CASE st = Ok -> 0
                  [] st # Ok /\ t.ia < NA -> 1
                  [] OTHER -> -1

JobDone_RetrySticks(s, ic, it, ok, st, slow) ==
  [s EXCEPT !.pool[ic].tasks[it].status = st,
            !.pool[ic].tasks[it].retry  = IF @ = 1 THEN @ ELSE ok,
            !.pool[ic].lmt     = NewLimit(s, ic, slow),
            !.pool[ic].running = @ - 1]

JobDone_StaysRunning(s, ic, it, ok, st, slow) ==
  [s EXCEPT !.pool[ic].tasks[it].status = st,
            !.pool[ic].tasks[it].retry  = ok,
            !.pool[ic].lmt              = NewLimit(s, ic, slow)]

JobDone(s, ic, it, ok, st, slow) ==
  [s EXCEPT !.pool[ic].tasks[it].status = st,
            !.pool[ic].tasks[it].retry  = ok,
            !.pool[ic].lmt     = NewLimit(s, ic, slow),
            !.pool[ic].running = @ - 1]

TaskOutput(s, ic, it, st, slow) ==
  LET t    == s.pool[ic].tasks[it]
      ok   == Retry(t, st)
      done == JobDone(s, ic, it, ok, st, slow)
  IN  IF t.killed THEN s
      ELSE IF ok = 1 THEN ExecJob(done, ic, it)
      ELSE [done EXCEPT !.pool[ic].complete = @ + 1]

-----------------------------------------------------------------------------
State == [pool |-> pool, hosts |-> hosts, njobs |-> njobs, fate |-> fate]

SetState(s) == /\ pool'  = s.pool
               /\ hosts' = s.hosts
               /\ njobs' = s.njobs
               /\ fate'  = s.fate

\* A LONGJMP takes the client out of whatever loop it is in.
SetPhase(s, ph) == phase' = IF s.fate # "none" THEN "exit" ELSE ph

Fault == /\ faults < MaxFaults
         /\ faults' = faults + 1

Waiting == phase \in {"busy", "drain"}

\* A pool of one connection is on the local host and knows no other.
NHosts == IF conns < 2 THEN 1 ELSE Hosts

Init == /\ conns \in Sizes
        /\ phase = "launch" /\ pos = 1 /\ tries = 0
        /\ pool  = [ic \in 1..conns |-> NewConnection(ic)]
        /\ hosts = 1..NHosts
        /\ njobs = 0 /\ fate = "none" /\ faults = 0
        /\ answers = [p \in Commands |-> 0]
        /\ outcome = [p \in Commands |-> NotFinished]

-----------------------------------------------------------------------------
(* _SC_find_best_connection: the load chooses among the connections with   *)
(* room; when there is none, the first with fewer jobs than the limit of   *)
(* the last connection is taken.                                           *)

Room == {ic \in DOMAIN pool : pool[ic].running < pool[ic].lmt}

BelowLast == {ic \in DOMAIN pool : pool[ic].running < pool[Len(pool)].lmt}

BestConnections ==
  CASE Len(pool) < 2 -> {ic \in DOMAIN pool : pool[ic].running < pool[ic].max}
    [] Len(pool) >= 2 /\ Room # {} -> Room
    [] OTHER -> {ic \in BelowLast : \A jc \in BelowLast : ic <= jc}

Launched == IF pos < Len(Script) THEN "launch" ELSE "drain"

\* _SC_launch_pool_task: after a barrier the connections count anew.
Counted ==
  IF tries = 0 /\ (pos = 1 \/ Script[pos - 1] = Barrier)
  THEN [State EXCEPT !.pool = [ic \in DOMAIN @ |->
          [@[ic] EXCEPT !.launched = 0, !.complete = 0]]]
  ELSE State

\* _SC_launch_pool_task: the job goes to a connection that has a server,
\* which may have died without the client having seen it.
SendJob(ic) ==
  /\ phase = "launch" /\ pos \in Commands /\ ic \in BestConnections
  /\ pool[ic].link.proc # "none"
  /\ SetState(PoolJob(Counted, ic, pos))
  /\ phase' = Launched /\ pos' = pos + 1 /\ tries' = 0
  /\ UNCHANGED <<conns, answers, outcome, faults>>

\* _SC_check_pool_connection has to start a server first.
StartAndSend(ic) ==
  /\ phase = "launch" /\ pos \in Commands /\ ic \in BestConnections
  /\ pool[ic].link.proc \in {"none", "dead"}
  /\ SetState(PoolJob(LaunchConnection(Counted, ic, TRUE), ic, pos))
  /\ phase' = Launched /\ pos' = pos + 1 /\ tries' = 0
  /\ UNCHANGED <<conns, answers, outcome, faults>>

\* The server cannot be started: the loop turns to the next host, and after
\* the last one SC_exec_async gives up.
StartFails(ic) ==
  /\ phase = "launch" /\ pos \in Commands /\ ic \in BestConnections
  /\ pool[ic].link.proc \in {"none", "dead"}
  /\ Fault
  /\ LET s   == LaunchConnection(Close(Counted, ic), ic, FALSE)
         bad == tries + 1 >= NHosts
         t   == IF bad THEN [s EXCEPT !.fate = "SC_EXIT_BAD"] ELSE s
     IN  SetState(t) /\ SetPhase(t, "launch")
  /\ tries' = tries + 1
  /\ UNCHANGED <<conns, pos, answers, outcome>>

\* SC_launch_pool_job: every connection is fully subscribed, so wait.
FullySubscribed ==
  /\ phase = "launch" /\ pos \in Commands /\ pool # <<>> /\ BestConnections = {}
  /\ SetState(Counted)
  /\ phase' = "busy" /\ tries' = 0
  /\ UNCHANGED <<conns, pos, answers, outcome, faults>>

\* The wait in SC_launch_pool_job ends after a second, whatever happened.
TryAgain ==
  /\ phase = "busy"
  /\ phase' = "launch"
  /\ UNCHANGED <<conns, pos, tries, pool, hosts, njobs, fate, answers, outcome, faults>>

NoConnections ==
  /\ phase = "launch" /\ pos \in Commands /\ pool = <<>>
  /\ phase' = "exit" /\ fate' = "SC_EXIT_BAD"
  /\ UNCHANGED <<conns, pos, tries, pool, hosts, njobs, answers, outcome, faults>>

ReachBarrier ==
  /\ phase = "launch" /\ pos \in DOMAIN Script \ Commands
  /\ phase' = "drain"
  /\ UNCHANGED <<conns, pos, tries, pool, hosts, njobs, fate, answers, outcome, faults>>

AllIdle_Some == pool # <<>> /\ \E ic \in DOMAIN pool : pool[ic].running = 0

\* SC_wait_pool_job returns 2.
AllIdle == pool # <<>> /\ \A ic \in DOMAIN pool : pool[ic].running = 0

Drained ==
  /\ phase = "drain" /\ AllIdle
  /\ phase' = IF pos < Len(Script) THEN "launch" ELSE "done"
  /\ pos' = IF pos > Len(Script) THEN pos ELSE pos + 1
  /\ UNCHANGED <<conns, tries, pool, hosts, njobs, fate, answers, outcome, faults>>

-----------------------------------------------------------------------------
(* Callbacks of the event loop in SC_wait_pool_job.                        *)

Receive(ic, kind) ==
  /\ Waiting /\ pool[ic].link.inbox # <<>>
  /\ Head(pool[ic].link.inbox).kind = kind

Read(ic) == [State EXCEPT !.pool[ic].link.inbox = Tail(@)]

\* "Srv: --ncpu--"
ServerOutput(ic) ==
  /\ Receive(ic, "ncpu")
  /\ SetState([Read(ic) EXCEPT !.pool[ic].max = Head(pool[ic].link.inbox).n])
  /\ UNCHANGED <<conns, phase, pos, tries, answers, outcome, faults>>

\* "[Job n]: --done--"
JobOutput(ic) ==
  /\ Receive(ic, "done")
  /\ LET m == Head(pool[ic].link.inbox)
         c == pool[ic]
     IN  \E it \in DOMAIN c.tasks, slow \in BOOLEAN :
           /\ c.tasks[it].id = m.id
           /\ SetState(TaskOutput(Read(ic), ic, it, m.st, slow))
           /\ answers' = [answers EXCEPT ![c.tasks[it].cmd] = @ + 1]
           /\ outcome' = [outcome EXCEPT ![c.tasks[it].cmd] = m.st]
  /\ UNCHANGED <<conns, phase, pos, tries, faults>>

\* The server announces its restart, or has been silent for too long, and
\* gets a new process; up: one can be started.
Reopen(ic, up) ==
  LET s == Reconnect(State, ic, up)
  IN  SetState(s) /\ SetPhase(s, phase)

ServerRestart(ic, up) ==
  /\ Receive(ic, "rstrt")
  /\ IF up THEN UNCHANGED faults ELSE Fault
  /\ Reopen(ic, up)
  /\ UNCHANGED <<conns, pos, tries, answers, outcome>>

\* _SC_check_job_time
LoseContact(ic, up) ==
  /\ Waiting /\ pool[ic].started
  /\ Fault
  /\ Reopen(ic, up)
  /\ UNCHANGED <<conns, pos, tries, answers, outcome>>

\* The server is gone: a heartbeat cannot be written (_SC_pulse_servers), or
\* the descriptor is rejected or reads no bytes (_SC_pool_rejected).
Rejected(ic, up) ==
  /\ Waiting /\ pool[ic].link.proc = "dead"
  /\ IF up THEN UNCHANGED faults ELSE Fault
  /\ LET s == Recover(State, ic, up) IN SetState(s) /\ SetPhase(s, phase)
  /\ UNCHANGED <<conns, pos, tries, answers, outcome>>

-----------------------------------------------------------------------------
(* The servers, as far as the client can tell (score/scsysb.c).            *)

Running(ic) == phase \notin {"done", "exit"} /\ pool[ic].link.proc = "running"

\* _SC_server_complete
ServerDone(ic, id, st) ==
  /\ Running(ic) /\ id \in pool[ic].link.jobs
  /\ pool' = [pool EXCEPT ![ic].link.jobs  = @ \ {id},
                          ![ic].link.inbox = Append(@, [kind |-> "done", id |-> id, st |-> st])]
  /\ UNCHANGED <<conns, phase, pos, tries, hosts, njobs, fate, answers, outcome, faults>>

\* SC_exec_server starts over after a signal and forgets its jobs.
ServerStartsOver(ic) ==
  /\ Running(ic) /\ Fault
  /\ pool' = [pool EXCEPT ![ic].link.jobs  = {},
                          ![ic].link.inbox = Append(@, [kind |-> "rstrt"])]
  /\ UNCHANGED <<conns, phase, pos, tries, hosts, njobs, fate, answers, outcome>>

ServerDies(ic) ==
  /\ Running(ic) /\ Fault
  /\ pool' = [pool EXCEPT ![ic].link.jobs = {}, ![ic].link.proc = "dead"]
  /\ UNCHANGED <<conns, phase, pos, tries, hosts, njobs, fate, answers, outcome>>

-----------------------------------------------------------------------------
Callback(ic) == ServerOutput(ic) \/ JobOutput(ic)

Launch == \/ \E ic \in DOMAIN pool : SendJob(ic) \/ StartAndSend(ic) \/ StartFails(ic)
          \/ FullySubscribed \/ TryAgain \/ NoConnections \/ ReachBarrier \/ Drained

Recovery == \E ic \in DOMAIN pool, up \in BOOLEAN :
              ServerRestart(ic, up) \/ LoseContact(ic, up) \/ Rejected(ic, up)

Answer(ic) == \E id \in pool[ic].link.jobs, st \in {Ok, Failed} : ServerDone(ic, id, st)

Next == \/ Launch \/ Recovery
        \/ \E ic \in DOMAIN pool :
             Callback(ic) \/ Answer(ic) \/ ServerStartsOver(ic) \/ ServerDies(ic)

\* The client goes on; each wait polls every descriptor, so messages are
\* read however short the waits are; a server finishes what it runs.
Fairness == /\ WF_vars(Launch)
            /\ SF_vars(\E ic \in DOMAIN pool : Callback(ic))
            /\ WF_vars(\E ic \in DOMAIN pool : Answer(ic))

Spec == Init /\ [][Next]_vars /\ Fairness

-----------------------------------------------------------------------------
(* Properties.                                                             *)

Pending(t) == ~t.killed /\ (t.status = NotFinished \/ t.retry = 1)

Message == [kind : {"ncpu"}, n : Nat] \cup [kind : {"rstrt"}]
           \cup [kind : {"done"}, id : Nat, st : {Ok, Failed}]

Task == [id : Nat, cmd : Commands, ia : 0..NA, status : {NotFinished, Ok, Failed},
         retry : {-1, 0, 1}, killed : BOOLEAN]

Link == [proc : {"none", "running", "dead"}, inbox : Seq(Message), jobs : SUBSET Nat]

\* A connection counts its restarts before it looks at the limit.
RestartLimit == IF Attempts = 0 THEN 1 ELSE Attempts

Connection == [host : 1..Hosts, running : Nat, launched : Nat, complete : Nat,
               max : Nat \ {0}, lmt : Nat \ {0}, restart : 0..RestartLimit,
               started : BOOLEAN, tasks : Seq(Task), link : Link]

TypeOK == /\ conns \in Sizes
          /\ phase \in {"launch", "busy", "drain", "done", "exit"}
          /\ pos \in 1..Len(Script) + 1 /\ tries \in 0..NHosts
          /\ pool \in Seq(Connection) /\ hosts \subseteq 1..Hosts
          /\ njobs \in Nat /\ faults \in 0..MaxFaults
          /\ fate \in {"none", "SC_CONN_EXHAUSTED", "SC_NO_CONN", "SC_EXIT_BAD"}
          /\ answers \in [Commands -> Nat]
          /\ outcome \in [Commands -> {NotFinished, Ok, Failed}]

\* n_running, on which every launch and every barrier decides, is the number
\* of tasks of the connection that wait for an answer, and what was launched
\* and is not complete, through retries, reassignment and barriers.
Accounting ==
  \A ic \in DOMAIN pool :
    LET c == pool[ic] IN
      /\ c.running = c.launched - c.complete
      /\ c.running = Cardinality({it \in DOMAIN c.tasks : Pending(c.tasks[it])})

Places == UNION {{ic} \X DOMAIN pool[ic].tasks : ic \in DOMAIN pool}

TaskAt(x) == pool[x[1]].tasks[x[2]]

CurrentTasks(p) == {x \in Places : TaskAt(x).cmd = p /\ Unfinished(TaskAt(x))}

\* However often servers are replaced and jobs handed on, a command no
\* server has answered has exactly one task standing for it, and one that
\* was answered has none that would run it from the start, as long as a
\* connection is left.
OneTask == pool # <<>> =>
  \A p \in Commands : pos > p =>
    Cardinality(CurrentTasks(p)) = IF answers[p] = 0 THEN 1 ELSE 0

\* No command behind a barrier is launched while one before it has never
\* been answered, whatever happened to the servers in between.
BarrierHeld == \A b \in DOMAIN Script \ Commands :
                 pos > b => \A p \in Commands : p < b => answers[p] > 0

PoolStatus == {x \in Places : LET t == TaskAt(x)
                              IN  ~t.killed /\ t.retry # 1 /\ t.status # Ok}

Succeeded == \A p \in Commands : outcome[p] = Ok

\* With no connection retired, the status SC_exec_async returns at the end
\* says truly whether every command succeeded in its last attempt.
StatusTrue == phase = "done" /\ Len(pool) = conns => (PoolStatus = {} <=> Succeeded)

\* "returns zero iff all succeed": the claim for every session.
ZeroMeansSuccess == phase \in {"done", "exit"} /\ fate # "SC_EXIT_BAD" /\ PoolStatus = {}
                    => Succeeded

\* Without a fault, SC_exec_async returns: every barrier is passed and every
\* command answered, whatever fails and is tried again.
Returns == [](faults = 0) => <>(phase = "done")
=============================================================================
