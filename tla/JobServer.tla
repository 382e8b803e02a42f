----------------------------- MODULE JobServer -----------------------------
(***************************************************************************)
(* How score runs a job: the subtasks of a command line are done one after *)
(* the other, echo, sleep and cd by the program itself and the rest by     *)
(* processes, each tried again when it fails (score/scsysc.c).  Two        *)
(* programs drive this: the server of SC_exec_server, which has many jobs  *)
(* at a time (score/scsysb.c), and _SC_exec, which has one and is behind   *)
(* SC_exec (score/scsysa.c).  Both are one thread: while exec, _SC_run_next_task,  *)
(* is at work on a job nothing else of the program runs, and one action is *)
(* one turn of it.  Output, times and signals' numbers are left out.       *)
(***************************************************************************)
EXTENDS Integers, Sequences, FiniteSets, SequencesExt

CONSTANTS Jobs,      \* the jobs given to the program
          Command,   \* Command[j]: the subtasks of j, in order
          Dirs,      \* the directories there are
          Lookup,    \* Lookup[<<d, name>>]: where chdir(name) leads to from d
          Missing,   \* or that it leads nowhere
          Start,     \* Start[j]: the directory j is given with
          Home,      \* the directory the program is started in
          NA,        \* attempts to do a subtask, and runs of SC_exec_server
          Nobody,    \* no job
          Drivers    \* which of "server" and "SC_exec" run jobs

ASSUME JobAssumption ==
  /\ NA \in Nat \ {0} /\ Nobody \notin Jobs /\ Missing \notin Dirs
  /\ Home \in Dirs /\ Start \in [Jobs -> Dirs]
  /\ \A j \in Jobs : Len(Command[j]) \in Nat \ {0}
  /\ \A j \in Jobs : \A i \in 1..Len(Command[j]) : Command[j][i].kind = "cd" =>
       \A d \in Dirs : Lookup[<<d, Command[j][i].name>>] \in Dirs \cup {Missing}

VARIABLES
  driver,    \* the program
  ignore,    \* its argument: go on after a subtask that failed
  job,       \* the taskdesc of each job and its tasklst and jobinfo
  busy,      \* the job exec is at work on
  launching, \* exec was called by _SC_launch_job
  cwd,       \* the working directory of the program
  starts,    \* ia of SC_exec_server
  done,      \* state->done: the client has asked the server to exit
  up,        \* the program runs
  log,       \* history: the attempts of each job
  shell,     \* history: where the cds of the job lead to, one after the other
  replies    \* history: the statuses reported

vars == <<driver, ignore, job, busy, launching, cwd, starts, done, up, log, shell, replies>>

Ok          == "ok"
Failed      == "failed"
NotFinished == "unfinished"   \* the program's NOT_FINISHED

Size(j) == Len(Command[j])

\* SC_make_taskdesc
NewJob == [place |-> "ahead", nl |-> 0, nc |-> 0, ia |-> 0, status |-> Ok,
           finished |-> FALSE, dir |-> Home, pp |-> "none", at |-> Home]

Init == /\ driver \in Drivers /\ ignore \in BOOLEAN
        /\ driver = "SC_exec" => ~ignore
        /\ job = [j \in Jobs |-> NewJob]
        /\ busy = Nobody /\ launching = FALSE
        /\ cwd = Home /\ starts = 1 /\ done = FALSE /\ up = TRUE
        /\ log = [j \in Jobs |-> <<>>]
        /\ shell = [j \in Jobs |-> Home]
        /\ replies = [j \in Jobs |-> <<>>]

Listed(j) == job[j].place = "listed"

Idle == up /\ busy = Nobody

-----------------------------------------------------------------------------
(* The subtasks.                                                           *)

\* exec is at work on j and its next subtask is of this kind.
Turn(j, kind) == /\ up /\ busy = j /\ job[j].pp = "none"
                 /\ job[j].nl < Size(j)
                 /\ Command[j][job[j].nl + 1].kind = kind

\* exec goes on with the next turn, or returns and the job is looked at
\* again by the next check.
GoOn == UNCHANGED <<busy, launching>>
Return == busy' = Nobody /\ launching' = FALSE

Record(j, st) == log' = [log EXCEPT ![j] = Append(@, [task |-> job[j].nl + 1, st |-> st])]

\* _SC_handle_echo, _SC_handle_sleep
Echo(j) ==
  /\ Turn(j, "echo")
  /\ job' = [job EXCEPT ![j].nl = @ + 1, ![j].nc = @ + 1, ![j].ia = 0, ![j].status = Ok]
  /\ Record(j, Ok) /\ GoOn
  /\ UNCHANGED <<driver, ignore, cwd, starts, done, up, shell, replies>>

Target(j) == Lookup[<<cwd, Command[j][job[j].nl + 1].name>>]

\* _SC_handle_cd: chdir and getcwd by the program itself.
CdSucceeds(j) ==
  /\ Turn(j, "cd") /\ Target(j) # Missing
  /\ cwd' = Target(j)
  /\ job' = [job EXCEPT ![j].nl = @ + 1, ![j].nc = @ + 1, ![j].ia = 0,
                        ![j].status = Ok, ![j].dir = Target(j)]
  /\ shell' = [shell EXCEPT ![j] = Lookup[<<@, Command[j][job[j].nl + 1].name>>]]
  /\ Record(j, Ok) /\ GoOn
  /\ UNCHANGED <<driver, ignore, starts, done, up, replies>>

Retried_OneMore(t, st) == st # Ok /\ t.ia <= NA

\* _SC_decide_retry
Retried(t, st) == st # Ok /\ t.ia < NA

GivenUp_GoesOn(t, n, st) == [t EXCEPT !.nc = @ + 1, !.ia = 0, !.status = st]

GivenUp_LaunchesOn(t, n, st) ==
  IF st # Ok /\ ~ignore
  THEN [t EXCEPT !.nc = n, !.ia = 0, !.status = st, !.finished = TRUE]
  ELSE [t EXCEPT !.nc = @ + 1, !.ia = 0, !.status = st]

\* _SC_task_retry_p, when the attempts are used up.
GivenUp(t, n, st) == IF st # Ok /\ ~ignore
                     THEN [t EXCEPT !.nl = n, !.nc = n, !.ia = 0,
                                    !.status = st, !.finished = TRUE]
                     ELSE [t EXCEPT !.nc = @ + 1, !.ia = 0, !.status = st]

CdFails(j) ==
  /\ Turn(j, "cd")
  /\ LET t     == [job[j] EXCEPT !.ia = @ + 1]
         over  == GivenUp(t, Size(j), Failed)
         again == Retried(t, Failed)
     IN  /\ job' = [job EXCEPT ![j] =
                      IF again THEN t
                      ELSE [over EXCEPT !.ia = 1,
                                        !.nl = IF ignore THEN @ + 1 ELSE @]]
         /\ IF again \/ job'[j].nl = Size(j) THEN GoOn ELSE Return
  /\ Record(j, Failed)
  /\ UNCHANGED <<driver, ignore, cwd, starts, done, up, shell, replies>>

Workdir_AsIs(j) == cwd

\* The program goes to the directory of the job before it starts a process.
Workdir(j) == job[j].dir

\* _SC_cmnd_exec and _SC_manage_launched_job: a process is started in the
\* directory of the job, or, a redirection having failed, is not, which
\* nobody takes for a failure.
Exec(j, opened) ==
  /\ Turn(j, "exec")
  /\ cwd' = Workdir(j)
  /\ job' = [job EXCEPT ![j].nl = @ + 1, ![j].ia = @ + 1, ![j].status = NotFinished,
                        ![j].finished = FALSE,
                        ![j].pp = IF opened THEN "running" ELSE @,
                        ![j].at = cwd']
  /\ IF opened THEN UNCHANGED log ELSE Record(j, NotFinished)
  /\ Return
  /\ UNCHANGED <<driver, ignore, starts, done, up, shell, replies>>

\* The process exits, dies of a signal or is taken for lost.
ProcessEnds(j, st) ==
  /\ job[j].pp = "running"
  /\ job' = [job EXCEPT ![j].pp = IF st = Ok THEN "succeeded" ELSE "failed"]
  /\ UNCHANGED <<driver, ignore, busy, launching, cwd, starts, done, up, log, shell, replies>>

\* _SC_close_job_process and _SC_task_done: what came of the process of the
\* last subtask launched decides whether it is launched again.
Close(j) ==
  /\ up /\ busy = j /\ job[j].pp \in {"succeeded", "failed"}
  /\ LET st    == IF job[j].pp = "succeeded" THEN Ok ELSE Failed
         t     == [job[j] EXCEPT !.pp = "none"]
         again == Retried(t, st)
     IN  /\ job' = [job EXCEPT ![j] = IF again THEN [t EXCEPT !.nl = @ - 1]
                                      ELSE GivenUp(t, Size(j), st)]
         /\ log' = [log EXCEPT ![j] = Append(@, [task |-> t.nl, st |-> st])]
  /\ GoOn
  /\ UNCHANGED <<driver, ignore, cwd, starts, done, up, shell, replies>>

\* There is nothing left to launch and no process: exec ends the job.
Over(j) == up /\ busy = j /\ job[j].pp = "none" /\ job[j].nl >= Size(j)

Reply(j) == /\ job' = [job EXCEPT ![j].place = "gone"]
            /\ replies' = [replies EXCEPT ![j] = Append(@, job[j].status)]

\* _SC_server_complete; or, the event loop having found the job complete,
\* the return of SC_exec.
Complete(j) ==
  /\ Over(j) /\ ~launching
  /\ Reply(j) /\ Return
  /\ up' = (driver = "server")
  /\ UNCHANGED <<driver, ignore, cwd, starts, done, log, shell>>

\* _SC_launch_job sets the status of a job that is over when exec returns.
OverAtLaunch(j) ==
  /\ Over(j) /\ launching
  /\ job' = [job EXCEPT ![j].status = Ok]
  /\ Return
  /\ UNCHANGED <<driver, ignore, cwd, starts, done, up, log, shell, replies>>

-----------------------------------------------------------------------------
(* The programs.                                                           *)

\* _SC_server_job, when the client has sent a job; the start of SC_exec.
Accept(j) ==
  /\ Idle /\ job[j].place = "ahead"
  /\ driver = "SC_exec" => \A k \in Jobs : job[k].place = "ahead"
  /\ job' = [job EXCEPT ![j].place = "listed",
                        ![j].dir = IF driver = "server" THEN Start[j] ELSE cwd]
  /\ cwd' = job'[j].dir
  /\ shell' = [shell EXCEPT ![j] = job'[j].dir]
  /\ busy' = j /\ launching' = (driver = "SC_exec")
  /\ UNCHANGED <<driver, ignore, starts, done, up, log, replies>>

Check_OnlyEnded(j) ==
  /\ Idle /\ Listed(j) /\ job[j].pp \in {"succeeded", "failed"}
  /\ busy' = j
  /\ UNCHANGED <<driver, ignore, job, launching, cwd, starts, done, up, log, shell, replies>>

\* _SC_server_check_jobs and _SC_process_end: a job without a process, or
\* whose process has ended, is executed further.
Check(j) ==
  /\ Idle /\ Listed(j) /\ job[j].pp # "running"
  /\ busy' = j
  /\ UNCHANGED <<driver, ignore, job, launching, cwd, starts, done, up, log, shell, replies>>

\* The client asks the server to exit, which it does with the last job.
AskExit ==
  /\ Idle /\ driver = "server" /\ ~done
  /\ done' = TRUE
  /\ UNCHANGED <<driver, ignore, job, busy, launching, cwd, starts, up, log, shell, replies>>

ServerExit ==
  /\ Idle /\ driver = "server" /\ done /\ \A j \in Jobs : ~Listed(j)
  /\ up' = FALSE
  /\ UNCHANGED <<driver, ignore, job, busy, launching, cwd, starts, done, log, shell, replies>>

Forget == /\ job' = [j \in Jobs |-> IF Listed(j) THEN [job[j] EXCEPT !.place = "lost"] ELSE job[j]]
          /\ busy' = Nobody /\ launching' = FALSE

\* A signal, whatever the server is doing, takes it back to SC_exec_server,
\* which forgets its jobs and starts over; restart: the signal is one after
\* which it does, and there are attempts left.
Signal(restart) ==
  /\ up /\ driver = "server"
  /\ Forget
  /\ IF restart /\ starts < NA
     THEN starts' = starts + 1 /\ cwd' = Home /\ done' = FALSE /\ UNCHANGED up
     ELSE up' = FALSE /\ UNCHANGED <<starts, cwd, done>>
  /\ UNCHANGED <<driver, ignore, log, shell, replies>>

-----------------------------------------------------------------------------
Work(j) == \/ Echo(j) \/ CdSucceeds(j) \/ CdFails(j) \/ Close(j)
           \/ Complete(j) \/ OverAtLaunch(j)
           \/ \E opened \in BOOLEAN : Exec(j, opened)

Ends(j) == \E st \in {Ok, Failed} : ProcessEnds(j, st)

Next == \/ \E j \in Jobs : Accept(j) \/ Check(j) \/ Work(j) \/ Ends(j)
        \/ AskExit \/ ServerExit \/ \E restart \in BOOLEAN : Signal(restart)

\* The program's own steps are taken, the event loop runs its check every
\* few milliseconds, and every process ends.
Spec == /\ Init /\ [][Next]_vars
        /\ \A j \in Jobs : WF_vars(Work(j)) /\ WF_vars(Check(j)) /\ WF_vars(Ends(j))

-----------------------------------------------------------------------------
(* Properties.                                                             *)

Task == [place : {"ahead", "listed", "gone", "lost"}, nl : Nat, nc : Nat, ia : Nat,
         status : {Ok, Failed, NotFinished}, finished : BOOLEAN, dir : Dirs,
         pp : {"none", "running", "succeeded", "failed"}, at : Dirs]

TypeOK == /\ driver \in Drivers /\ ignore \in BOOLEAN
          /\ job \in [Jobs -> Task]
          /\ busy \in Jobs \cup {Nobody} /\ launching \in BOOLEAN
          /\ cwd \in Dirs /\ starts \in 1..NA /\ done \in BOOLEAN /\ up \in BOOLEAN
          /\ \A j \in Jobs : job[j].nc <= job[j].nl /\ job[j].nl <= Size(j)

\* The attempts of a job are the subtasks in their order, each until it
\* succeeds, cannot be opened or has failed NA times; nothing is attempted
\* behind a failure that is not to be ignored.
Follows(e, task) == \/ task = e.task /\ e.st = Failed
                    \/ task = e.task + 1 /\ (e.st # Failed \/ ignore)

InOrder(L) == /\ L # <<>> => L[1].task = 1
              /\ \A n \in 1..Len(L) - 1 : Follows(L[n], L[n + 1].task)
              /\ \A n \in 1..Len(L) - NA : L[n + NA].task # L[n].task

ScriptFollowed == \A j \in Jobs : InOrder(log[j])

\* No subtask of the job failed to be opened.
Opened(L) == \A n \in DOMAIN L : L[n].st # NotFinished

\* Each of the first n subtasks was attempted and did not fail in the end.
DoneTo(L, n) == \A i \in 1..n : \E k \in DOMAIN L : L[k].task = i /\ L[k].st # Failed

\* The status reported for a job is that of its last attempt.  The server
\* reports success of a job, errors not ignored, only when all its subtasks
\* have been attempted and none was left failed, and failure only after NA
\* attempts of the one that failed, if every subtask could be opened.
Honest(st, L, size) ==
  /\ L # <<>> /\ st = Last(L).st
  /\ st # Failed \/ ignore => Last(L).task = size
  /\ st # Failed /\ ~ignore => DoneTo(L, size)
  /\ st = Failed /\ ~ignore /\ Opened(L) =>
       Len(L) >= NA /\ L[Len(L) - NA + 1].task = Last(L).task

HonestReport == \A j \in Jobs : replies[j] # <<>> /\ driver = "server" =>
                                  Honest(replies[j][1], log[j], Size(j))

\* Every process runs in the directory its job's own cds lead to, whatever
\* other jobs the server takes to other directories in between.
OwnDirectory == \A j \in Jobs : job[j].pp # "none" => job[j].at = shell[j]

FateOf(j) == CASE job[j].place = "ahead"  -> "unknown"
               [] job[j].place = "listed" -> "accepted"
               [] job[j].place = "lost"   -> "lost"
               [] job[j].place = "gone"   -> Last(replies[j])

Fate == [j \in Jobs |-> FateOf(j)]

Site == INSTANCE JobSite WITH Statuses <- {Ok, Failed, NotFinished}, fate <- Fate

\* A job is answered exactly once, or lost with the server; none is
\* forgotten by a server that goes on.
ImplementsSite == Site!Spec

\* "return the exit status": what SC_exec returns is 0 only if the command
\* was successful.
ExitStatus ==
  \A j \in Jobs : driver = "SC_exec" /\ replies[j] # <<>> =>
    (replies[j][1] = Ok => Last(log[j]).st = Ok)
=============================================================================
