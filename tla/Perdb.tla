-------------------------------- MODULE Perdb --------------------------------
(***************************************************************************)
(* The perdb server and the commands that use it.                          *)
(*                                                                         *)
(* A command (perdb <request>, exchange) looks for the connection file of  *)
(* the database, launches a server when there is none, reads the server's  *)
(* address from the file, connects, sends one request and waits for the    *)
(* answer.  A server (perdb -s) loads the database file, publishes its     *)
(* address in the connection file, and serves until it is told to quit,    *)
(* is idle too long, loses its connection file or is signalled; then it    *)
(* saves the database and removes the connection file, in the order each   *)
(* of these exits has in the code.                                         *)
(*                                                                         *)
(* The server a command launches bears the name of the command: a command  *)
(* launches at most one.  Authentication, logging, the C library's         *)
(* long-lived clients and servers started with -c are left out.            *)
(***************************************************************************)
EXTENDS PerdbRequests, Integers, Sequences, FiniteSets

CONSTANTS
  Clients,     \* the commands, and the servers they launch
  Asks,        \* Asks[c]: the requests command c may make
  NoRequest, NoAnswer,
  NoConn,      \* there is no connection file
  EmptyConn,   \* the file has been opened by a server and not yet written
  Tmax,        \* PERDB_IDLE_TIMEOUT
  Interval,    \* PERDB_IDLE_INTERVAL, or
  Unset,
  NbMax,       \* nbmax: failed reads in a row that end the server
  Events,      \* what may happen to processes: "term", "hup", "kill", "drop"
  MaxSignals,  \* bound: how many servers are signalled, each once
  Spaced       \* TRUE: a new server finds no other one on its way in or out

ASSUME NamesAssumption ==
  /\ NoConn \notin Clients /\ EmptyConn \notin Clients /\ NoConn # EmptyConn
ASSUME AsksAssumption == Asks \in [Clients -> SUBSET Requests] /\ NoRequest \notin Requests
ASSUME AnswerAssumption == \A r \in Requests, m \in DB : Answer(r, m) # NoAnswer
ASSUME TimesAssumption ==
  Tmax \in Nat /\ NbMax \in Nat \ {0} /\ Interval \in Nat \cup {Unset} /\ Unset \notin Nat
ASSUME SwitchAssumption == Events \subseteq {"term", "hup", "kill", "drop"} /\ Spaced \in BOOLEAN
                           /\ MaxSignals \in Nat

VARIABLES
  conn,        \* the connection file: NoConn, EmptyConn or the server in it
  dbfile,      \* the database file
  spc,         \* where each server is
  todo,        \* the exit or signal handling steps a server has still to take
  sfd,         \* its listening socket: "closed", "bound" or "listening"
  mem,         \* its database
  ng, nb,      \* its idle time; its failed reads in a row
  ready,       \* the descriptors of the current select still to be handled
  cur,         \* the client it is answering
  signalled,   \* the servers that have had their signal
  cpc,         \* where each command is
  asked,       \* the request of a command
  answer,      \* what the server made of it
  peer,        \* the server whose address the command has read
  link,        \* the command's connection, as the server sees it
  inbox        \* what the command has sent and the server has not read

serverVars == <<spc, todo, sfd, mem, ng, nb, ready, cur, signalled>>
clientVars == <<cpc, asked, answer, peer, link, inbox>>
vars       == <<conn, dbfile, serverVars, clientVars>>

Init ==
  /\ conn = NoConn
  /\ dbfile \in DB
  /\ spc = [s \in Clients |-> "off"]
  /\ todo = [s \in Clients |-> <<>>]
  /\ sfd = [s \in Clients |-> "closed"]
  /\ mem = [s \in Clients |-> EmptyDB]
  /\ ng = [s \in Clients |-> 0]
  /\ nb = [s \in Clients |-> 0]
  /\ ready = [s \in Clients |-> {}]
  /\ cur = [s \in Clients |-> s]
  /\ signalled = {}
  /\ cpc = [c \in Clients |-> "idle"]
  /\ asked = [c \in Clients |-> NoRequest]
  /\ answer = [c \in Clients |-> NoAnswer]
  /\ peer = [c \in Clients |-> NoConn]
  /\ link = [c \in Clients |-> "none"]
  /\ inbox = [c \in Clients |-> <<>>]

Alive(s)       == spc[s] \notin {"off", "gone"}
SAt(s, l)      == spc[s] = l /\ todo[s] = <<>>
SGoto(s, l)    == spc' = [spc EXCEPT ![s] = l]
CGoto(c, l)    == cpc' = [cpc EXCEPT ![c] = l]
Connected(s)   == {c \in Clients : peer[c] = s /\ link[c] \in {"open", "replied"}}
Backlog(s)     == {c \in Clients : peer[c] = s /\ link[c] = "backlog"}

-----------------------------------------------------------------------------
(* The command: exchange, _db_clnt_ex, client_ex *)

Begin(c) ==
  /\ cpc[c] = "idle"
  /\ \E r \in Asks[c] : asked' = [asked EXCEPT ![c] = r]
  /\ CGoto(c, "look")
  /\ UNCHANGED <<conn, dbfile, serverVars, answer, peer, link, inbox>>

\* _db_srv_launch: the first turn of its loop only looks.
Look(c) ==
  /\ cpc[c] = "look"
  /\ CGoto(c, IF conn = NoConn THEN "launch" ELSE "connect")
  /\ UNCHANGED <<conn, dbfile, serverVars, asked, answer, peer, link, inbox>>

\* The second turn launches a server if there still is no file.
Launch(c) ==
  /\ cpc[c] = "launch"
  /\ conn = NoConn
  /\ SGoto(c, "check")
  /\ CGoto(c, "poll")
  /\ UNCHANGED <<conn, dbfile, todo, sfd, mem, ng, nb, ready, cur, signalled,
                 asked, answer, peer, link, inbox>>

\* As soon as there is a file, the launch counts as successful.
Found(c) ==
  /\ cpc[c] \in {"launch", "poll"}
  /\ conn # NoConn
  /\ CGoto(c, "connect")
  /\ UNCHANGED <<conn, dbfile, serverVars, asked, answer, peer, link, inbox>>

\* After 100 turns the command gives up.
GiveUp(c) ==
  /\ cpc[c] = "poll"
  /\ conn = NoConn
  /\ CGoto(c, "failed")
  /\ UNCHANGED <<conn, dbfile, serverVars, asked, answer, peer, link, inbox>>

\* parse_conn waits for a file that is not empty.
ReadConn(c) ==
  /\ cpc[c] = "connect"
  /\ conn \in Clients
  /\ peer' = [peer EXCEPT ![c] = conn]
  /\ CGoto(c, "dial")
  /\ UNCHANGED <<conn, dbfile, serverVars, asked, answer, link, inbox>>

\* The file is gone, or empty for longer than parse_conn waits.
ReadConnFails_Waits(c) ==   \* mutant: waits for a file that is gone
  /\ cpc[c] = "connect"
  /\ conn = EmptyConn
  /\ CGoto(c, "failed")
  /\ UNCHANGED <<conn, dbfile, serverVars, asked, answer, peer, link, inbox>>

ReadConnFails(c) ==
  /\ cpc[c] = "connect"
  /\ conn \notin Clients
  /\ CGoto(c, "failed")
  /\ UNCHANGED <<conn, dbfile, serverVars, asked, answer, peer, link, inbox>>

\* connect, and write the request
Dial(c) ==
  /\ cpc[c] = "dial"
  /\ sfd[peer[c]] = "listening"
  /\ link' = [link EXCEPT ![c] = "backlog"]
  /\ inbox' = [inbox EXCEPT ![c] = <<"req">>]
  /\ CGoto(c, "wait")
  /\ UNCHANGED <<conn, dbfile, serverVars, asked, answer, peer>>

\* NATTEMPTS connects are refused
DialFails(c) ==
  /\ cpc[c] = "dial"
  /\ sfd[peer[c]] # "listening"
  /\ CGoto(c, "failed")
  /\ UNCHANGED <<conn, dbfile, serverVars, asked, answer, peer, link, inbox>>

Receive(c) ==
  /\ cpc[c] = "wait"
  /\ link[c] = "replied"
  /\ CGoto(c, "fin")
  /\ UNCHANGED <<conn, dbfile, serverVars, asked, answer, peer, link, inbox>>

\* The connection ends without a reply: the reads fail, and so do the
\* attempts to connect again, whose address is the one read before.
ConnLost(c) ==
  /\ cpc[c] = "wait"
  /\ link[c] # "replied"
  /\ ~Alive(peer[c]) \/ (link[c] = "backlog" /\ sfd[peer[c]] = "closed")
  /\ CGoto(c, "failed")
  /\ UNCHANGED <<conn, dbfile, serverVars, asked, answer, peer, link, inbox>>

\* free_client says "fin:" and closes
Fin(c) ==
  /\ cpc[c] = "fin"
  /\ inbox' = [inbox EXCEPT ![c] = Append(@, "fin")]
  /\ CGoto(c, "done")
  /\ UNCHANGED <<conn, dbfile, serverVars, asked, answer, peer, link>>

\* The command is killed.
Drop(c) ==
  /\ "drop" \in Events
  /\ cpc[c] \in {"wait", "fin"}
  /\ inbox' = [inbox EXCEPT ![c] = Append(@, "eof")]
  /\ CGoto(c, "failed")
  /\ UNCHANGED <<conn, dbfile, serverVars, asked, answer, peer, link>>

ClientStep(c) == \/ Look(c) \/ Launch(c) \/ Found(c) \/ GiveUp(c)
                 \/ ReadConn(c) \/ ReadConnFails(c) \/ Dial(c) \/ DialFails(c)
                 \/ Receive(c) \/ ConnLost(c) \/ Fin(c)

-----------------------------------------------------------------------------
(* The steps by which a server ends or handles a signal, in the order of   *)
(* the code.                                                               *)

Leave_None == <<>>   \* mutant: no db_srv_close
Leave      == <<"close", "unlink">>                          \* db_srv_close
SaveLeave  == <<"truncate", "write">> \o Leave               \* server
QuitLeave_Unsaved == <<"unlink">> \o Leave   \* mutant: quit does not save
QuitLeave  == <<"unlink">> \o SaveLeave                      \* _process_act
SigDone    == <<"close", "truncate", "write", "unlink">>     \* sigdone
SigRestart == <<"close", "truncate", "write", "reopen">>     \* db_srv_restart

Doing(s, step) == todo[s] # <<>> /\ Head(todo[s]) = step
StepDone(s)    == todo' = [todo EXCEPT ![s] = Tail(@)]

\* fopen(db->file, "w") empties the file
Truncate(s) ==
  /\ Doing(s, "truncate") /\ StepDone(s)
  /\ dbfile' = EmptyDB
  /\ UNCHANGED <<conn, spc, sfd, mem, ng, nb, ready, cur, signalled, clientVars>>

\* save_db and fclose fill it
WriteDb(s) ==
  /\ Doing(s, "write") /\ StepDone(s)
  /\ dbfile' = mem[s]
  /\ UNCHANGED <<conn, spc, sfd, mem, ng, nb, ready, cur, signalled, clientVars>>

\* close_sock: if there is a connection file, whoever's it is, remove it and
\* close the socket
CloseSock(s) ==
  /\ Doing(s, "close") /\ StepDone(s)
  /\ conn' = NoConn
  /\ sfd' = [sfd EXCEPT ![s] = IF conn = NoConn THEN @ ELSE "closed"]
  /\ UNCHANGED <<dbfile, spc, mem, ng, nb, ready, cur, signalled, clientVars>>

UnlinkConn(s) ==
  /\ Doing(s, "unlink") /\ StepDone(s)
  /\ conn' = NoConn
  /\ UNCHANGED <<dbfile, spc, sfd, mem, ng, nb, ready, cur, signalled, clientVars>>

\* open_server after close_sock: the socket is -1 and the port is set, which
\* init_server takes for "setup already"
Reopen(s) ==
  /\ Doing(s, "reopen") /\ StepDone(s)
  /\ UNCHANGED <<conn, dbfile, spc, sfd, mem, ng, nb, ready, cur, signalled, clientVars>>

\* The process ends; its memory and sockets go with it.
Ends(s) ==
  /\ SGoto(s, "gone")
  /\ todo' = [todo EXCEPT ![s] = <<>>]
  /\ sfd' = [sfd EXCEPT ![s] = "closed"]
  /\ mem' = [mem EXCEPT ![s] = EmptyDB]
  /\ ng' = [ng EXCEPT ![s] = 0]
  /\ nb' = [nb EXCEPT ![s] = 0]
  /\ ready' = [ready EXCEPT ![s] = {}]

Exit(s) ==
  /\ SAt(s, "exit")
  /\ Ends(s)
  /\ UNCHANGED <<conn, dbfile, cur, signalled, clientVars>>

-----------------------------------------------------------------------------
(* The server: server, db_srv_open *)

\* Starting and ending take milliseconds, commands look for a server every
\* 100 ms.  The assumption Spaced makes of that: a server that is about to
\* look for others finds none between its own look and its publication, and
\* none on its way out.
Settled(s) == \A u \in Clients \ {s} :
                spc[u] \notin {"load", "publish", "write_conn", "exit"}

\* _is_srv_running: a connection file with a process id in it means there is
\* another server, alive or not
CheckRunning_Never(s) ==   \* mutant: no test
  /\ SAt(s, "check")
  /\ Spaced => Settled(s)
  /\ SGoto(s, "load")
  /\ UNCHANGED <<conn, dbfile, todo, sfd, mem, ng, nb, ready, cur, signalled, clientVars>>

CheckRunning(s) ==
  /\ SAt(s, "check")
  /\ Spaced => Settled(s)
  /\ SGoto(s, IF conn \in Clients THEN "gone" ELSE "load")
  /\ UNCHANGED <<conn, dbfile, todo, sfd, mem, ng, nb, ready, cur, signalled, clientVars>>

Load_Nothing(s) ==   \* mutant: db_srv_create instead of db_srv_load
  /\ SAt(s, "load")
  /\ mem' = [mem EXCEPT ![s] = EmptyDB]
  /\ SGoto(s, "publish")
  /\ UNCHANGED <<conn, dbfile, todo, sfd, ng, nb, ready, cur, signalled, clientVars>>

Load(s) ==
  /\ SAt(s, "load")
  /\ mem' = [mem EXCEPT ![s] = dbfile]
  /\ SGoto(s, "publish")
  /\ UNCHANGED <<conn, dbfile, todo, sfd, ng, nb, ready, cur, signalled, clientVars>>

\* init_server binds a socket, make_server_conn opens the file.  A file that
\* has been written is read-only and cannot be opened again; db_srv_open goes
\* on regardless.
OpenConn(s) ==
  /\ SAt(s, "publish")
  /\ sfd' = [sfd EXCEPT ![s] = "bound"]
  /\ conn' = IF conn \in Clients THEN conn ELSE EmptyConn
  /\ SGoto(s, IF conn \in Clients THEN "listen" ELSE "write_conn")
  /\ UNCHANGED <<dbfile, todo, mem, ng, nb, ready, cur, signalled, clientVars>>

\* What is written to a file that has been removed meanwhile is lost.
WriteConn_Nothing(s) ==   \* mutant: the file stays empty
  /\ SAt(s, "write_conn")
  /\ SGoto(s, "listen")
  /\ UNCHANGED <<conn, dbfile, todo, sfd, mem, ng, nb, ready, cur, signalled, clientVars>>

WriteConn(s) ==
  /\ SAt(s, "write_conn")
  /\ conn' = IF conn = NoConn THEN NoConn ELSE s
  /\ SGoto(s, "listen")
  /\ UNCHANGED <<dbfile, todo, sfd, mem, ng, nb, ready, cur, signalled, clientVars>>

-----------------------------------------------------------------------------
(* The server: async_server *)

Dt_Rounded == IF Interval = Unset THEN Tmax \div 32 ELSE Interval   \* mutant: >> 5

\* srv_setup: dt = tmax >> 3 unless the environment gives one
Dt == IF Interval = Unset THEN Tmax \div 8 ELSE Interval

Listen(s) ==
  /\ SAt(s, "listen")
  /\ IF sfd[s] = "bound"
     THEN /\ sfd' = [sfd EXCEPT ![s] = "listening"]
          /\ SGoto(s, "select")
          /\ UNCHANGED todo
     ELSE /\ SGoto(s, "exit")
          /\ todo' = [todo EXCEPT ![s] = Leave]
          /\ UNCHANGED sfd
  /\ UNCHANGED <<conn, dbfile, mem, ng, nb, ready, cur, signalled, clientVars>>

\* the descriptors select reports: clients with something to read, and the
\* listening socket.  Once that has been closed under it, select only fails.
Readable(s) ==
  IF sfd[s] = "listening"
  THEN {c \in Connected(s) : inbox[c] # <<>>}
         \cup (IF Backlog(s) # {} THEN {"listen"} ELSE {})
  ELSE {}

Select(s) ==
  /\ SAt(s, "select")
  /\ Readable(s) # {}
  /\ ready' = [ready EXCEPT ![s] = Readable(s)]
  /\ SGoto(s, "round")
  /\ UNCHANGED <<conn, dbfile, todo, sfd, mem, ng, nb, cur, signalled, clientVars>>

Timeout_Down(s) ==   \* mutant: counts the wrong way
  /\ SAt(s, "select")
  /\ Readable(s) = {}
  /\ ng' = [ng EXCEPT ![s] = @ - Dt]
  /\ SGoto(s, "turn")
  /\ UNCHANGED <<conn, dbfile, todo, sfd, mem, nb, ready, cur, signalled, clientVars>>

Timeout(s) ==
  /\ SAt(s, "select")
  /\ Readable(s) = {}
  /\ ng' = [ng EXCEPT ![s] = @ + Dt]
  /\ SGoto(s, "turn")
  /\ UNCHANGED <<conn, dbfile, todo, sfd, mem, nb, ready, cur, signalled, clientVars>>

\* _new_connection; a listening socket that was closed in this round is taken
\* for a client that cannot be read
Accept(s) ==
  /\ SAt(s, "round")
  /\ "listen" \in ready[s]
  /\ ready' = [ready EXCEPT ![s] = @ \ {"listen"}]
  /\ IF sfd[s] = "listening"
     THEN /\ \E c \in Backlog(s) : link' = [link EXCEPT ![c] = "open"]
          /\ UNCHANGED nb
     ELSE /\ nb' = [nb EXCEPT ![s] = @ + 1]
          /\ UNCHANGED link
  /\ UNCHANGED <<conn, dbfile, spc, todo, sfd, mem, ng, cur, signalled,
                 cpc, asked, answer, peer, inbox>>

\* _process_act reads one message of client c
Reads(s, c, m) ==
  /\ SAt(s, "round")
  /\ c \in ready[s]
  /\ inbox[c] # <<>> /\ Head(inbox[c]) = m
  /\ inbox' = [inbox EXCEPT ![c] = Tail(@)]
  /\ ready' = [ready EXCEPT ![s] = @ \ {c}]

\* srv_process; "save:db:" saves on the way to its answer
Process(s, c) ==
  /\ Reads(s, c, "req")
  /\ mem' = [mem EXCEPT ![s] = Effect(asked[c], mem[s])]
  /\ answer' = [answer EXCEPT ![c] = Answer(asked[c], mem[s])]
  /\ cur' = [cur EXCEPT ![s] = c]
  /\ nb' = [nb EXCEPT ![s] = 0]
  /\ todo' = [todo EXCEPT ![s] =
                IF asked[c].op = "save_db" THEN <<"truncate", "write">> ELSE <<>>]
  /\ SGoto(s, "reply")
  /\ UNCHANGED <<conn, dbfile, sfd, ng, signalled, cpc, asked, peer, link>>

\* "fin:" closes the connection
EndConnection(s, c) ==
  /\ Reads(s, c, "fin")
  /\ link' = [link EXCEPT ![c] = "closed"]
  /\ nb' = [nb EXCEPT ![s] = 0]
  /\ UNCHANGED <<conn, dbfile, spc, todo, sfd, mem, ng, cur, signalled,
                 cpc, asked, answer, peer>>

\* a read of 0 bytes closes it too, and counts
FailedRead(s, c) ==
  /\ Reads(s, c, "eof")
  /\ link' = [link EXCEPT ![c] = "closed"]
  /\ nb' = [nb EXCEPT ![s] = @ + 1]
  /\ UNCHANGED <<conn, dbfile, spc, todo, sfd, mem, ng, cur, signalled,
                 cpc, asked, answer, peer>>

\* The answer and the end-of-message mark are two writes.
Reply(s) ==
  /\ SAt(s, "reply")
  /\ link' = [link EXCEPT ![cur[s]] = "replied"]
  /\ IF asked[cur[s]].op = "quit"
     THEN SGoto(s, "exit") /\ todo' = [todo EXCEPT ![s] = QuitLeave]
     ELSE SGoto(s, "round") /\ UNCHANGED todo
  /\ UNCHANGED <<conn, dbfile, sfd, mem, ng, nb, ready, cur, signalled,
                 cpc, asked, answer, peer, inbox>>

\* If the client is dead the second one may raise SIGPIPE, which nobody
\* handles.
ReplyPipe(s) ==
  /\ SAt(s, "reply")
  /\ "eof" \in {inbox[cur[s]][i] : i \in 1 .. Len(inbox[cur[s]])}
  /\ Ends(s)
  /\ UNCHANGED <<conn, dbfile, cur, signalled, clientVars>>

EndRound(s) ==
  /\ SAt(s, "round")
  /\ ready[s] = {}
  /\ ng' = [ng EXCEPT ![s] = 0]
  /\ SGoto(s, "turn")
  /\ UNCHANGED <<conn, dbfile, todo, sfd, mem, nb, ready, cur, signalled, clientVars>>

\* The end of a turn of the loop: leave unsaved if the connection file is
\* gone, save and leave if idle too long, leave unsaved after NbMax failed
\* reads.
Turn_IdleUnsaved(s) ==   \* mutant: an idle server does not save
  /\ SAt(s, "turn")
  /\ LET next == IF conn = NoConn \/ ng[s] >= Tmax \/ nb[s] >= NbMax THEN Leave ELSE <<>>
     IN /\ todo' = [todo EXCEPT ![s] = next]
        /\ SGoto(s, IF next = <<>> THEN "select" ELSE "exit")
  /\ UNCHANGED <<conn, dbfile, sfd, mem, ng, nb, ready, cur, signalled, clientVars>>

Turn(s) ==
  /\ SAt(s, "turn")
  /\ LET next == IF conn = NoConn      THEN Leave
                 ELSE IF ng[s] >= Tmax THEN SaveLeave
                 ELSE IF nb[s] >= NbMax THEN Leave
                 ELSE <<>>
     IN /\ todo' = [todo EXCEPT ![s] = next]
        /\ SGoto(s, IF next = <<>> THEN "select" ELSE "exit")
  /\ UNCHANGED <<conn, dbfile, sfd, mem, ng, nb, ready, cur, signalled, clientVars>>

-----------------------------------------------------------------------------
(* Signals *)

Serving(s) == spc[s] \in {"listen", "select", "round", "reply", "turn"}
Leaving(s) == spc[s] = "exit" /\ todo[s] # <<>>

MaySignal(s) == s \notin signalled /\ Cardinality(signalled) < MaxSignals

\* SIGTERM, SIGINT: sigdone
Term(s) ==
  /\ "term" \in Events
  /\ MaySignal(s) /\ (Serving(s) \/ Leaving(s))
  /\ signalled' = signalled \cup {s}
  /\ SGoto(s, "exit")
  /\ todo' = [todo EXCEPT ![s] = SigDone]
  /\ UNCHANGED <<conn, dbfile, sfd, mem, ng, nb, ready, cur, clientVars>>

\* SIGHUP: sigrestart, which returns to where the server was
Hup(s) ==
  /\ "hup" \in Events
  /\ MaySignal(s) /\ (Serving(s) \/ Leaving(s))
  /\ signalled' = signalled \cup {s}
  /\ todo' = [todo EXCEPT ![s] = SigRestart \o @]
  /\ UNCHANGED <<conn, dbfile, spc, sfd, mem, ng, nb, ready, cur, clientVars>>

\* SIGKILL, or a crash of the host
Kill(s) ==
  /\ "kill" \in Events
  /\ MaySignal(s) /\ Alive(s)
  /\ signalled' = signalled \cup {s}
  /\ Ends(s)
  /\ UNCHANGED <<conn, dbfile, cur, clientVars>>

-----------------------------------------------------------------------------

ExitStep(s) == \/ Truncate(s) \/ WriteDb(s) \/ CloseSock(s) \/ UnlinkConn(s)
               \/ Reopen(s) \/ Exit(s)

ServerStep(s) == \/ ExitStep(s)
                 \/ CheckRunning(s) \/ Load(s) \/ OpenConn(s) \/ WriteConn(s)
                 \/ Listen(s) \/ Select(s) \/ Timeout(s) \/ Accept(s)
                 \/ \E c \in Clients : Process(s, c) \/ EndConnection(s, c) \/ FailedRead(s, c)
                 \/ Reply(s) \/ ReplyPipe(s) \/ EndRound(s) \/ Turn(s)

Signal(s) == Term(s) \/ Hup(s) \/ Kill(s)

\* Every command has had its say and every server is gone.
Finished == /\ \A c \in Clients : cpc[c] \in {"done", "failed"} /\ ~Alive(c)
            /\ UNCHANGED vars

Next == \/ \E c \in Clients : Begin(c) \/ ClientStep(c) \/ Drop(c)
        \/ \E s \in Clients : ServerStep(s) \/ Signal(s)
        \/ Finished

Spec == Init /\ [][Next]_vars

\* Processes that can run do run; commands need not be given and signals need
\* not come.
Fairness == /\ \A c \in Clients : WF_vars(ClientStep(c))
            /\ \A s \in Clients : WF_vars(ServerStep(s))

FairSpec == Spec /\ Fairness

-----------------------------------------------------------------------------
(* Properties *)

SPcs == {"off", "check", "load", "publish", "write_conn", "listen", "select",
         "round", "reply", "turn", "exit", "gone"}
CPcs == {"idle", "look", "launch", "poll", "connect", "dial", "wait", "fin",
         "done", "failed"}
Steps == {"truncate", "write", "close", "unlink", "reopen"}

\* Every variable ranges over what its comment says.
TypeOK ==
  /\ conn \in Clients \cup {NoConn, EmptyConn}
  /\ dbfile \in DB
  /\ spc \in [Clients -> SPcs]
  /\ todo \in [Clients -> Seq(Steps)]
  /\ sfd \in [Clients -> {"closed", "bound", "listening"}]
  /\ mem \in [Clients -> DB]
  /\ ng \in [Clients -> Nat]
  /\ nb \in [Clients -> Nat]
  /\ ready \in [Clients -> SUBSET (Clients \cup {"listen"})]
  /\ cur \in [Clients -> Clients]
  /\ signalled \subseteq Clients
  /\ cpc \in [Clients -> CPcs]
  /\ asked \in [Clients -> Requests \cup {NoRequest}]
  /\ peer \in [Clients -> Clients \cup {NoConn}]
  /\ link \in [Clients -> {"none", "backlog", "open", "replied", "closed"}]
  /\ inbox \in [Clients -> Seq({"req", "fin", "eof"})]

\* The server has the database in memory.
Loaded(s) == spc[s] \notin {"off", "check", "load", "gone"}

\* There are never two servers with the database in memory, each answering
\* from its own copy: what the connection file is there to prevent
\* (_is_srv_running).
OneServer == \A s, u \in Clients : Loaded(s) /\ Loaded(u) => s = u

\* The connection file never outlives the server it names: a command that
\* finds one finds a server.
ConnNamesServer == conn \in Clients => Alive(conn)

\* A connection file is only removed when the server it names is leaving,
\* however many servers come and go: close_sock and db_srv_close remove it
\* without looking whose it is.
OnlyOwnConn ==
  [][conn' # conn /\ conn \in Clients => todo[conn] # <<>>]_vars

\* A server that ends leaves its database in the file, whether it was told to
\* quit, idle too long or terminated ("the server will save the database in
\* $PERDB.db and exit", perdb.1), also when the signal comes in the middle of
\* another exit.
SavedOnExit ==
  [][\A s \in Clients : Loaded(s) /\ spc'[s] = "gone" => dbfile' = mem[s]]_vars

Updates(c) == asked[c] # NoRequest /\ asked[c].op \in {"set", "init", "del", "reset"}

\* "The server will save the database in $PERDB.db and exit" (perdb.1): once
\* every server is gone, a value that was set and answered, and that nobody
\* else meant to change, is in the database file.
AnsweredSurvives ==
  \A c \in Clients :
    /\ cpc[c] = "done" /\ asked[c].op = "set"
    /\ \A d \in Clients \ {c} : ~Updates(d)
    /\ \A s \in Clients : ~Alive(s)
    => dbfile[asked[c].var] = asked[c].val

\* The logical database: the memory of the server that has it, or the file.
Store == IF \E s \in Clients : Loaded(s)
         THEN mem[CHOOSE s \in Clients : Loaded(s)] ELSE dbfile

Status == [c \in Clients |->
             CASE cpc[c] = "idle"            -> "idle"
               [] cpc[c] \in {"fin", "done"} -> "done"
               [] cpc[c] = "failed"          -> "failed"
               [] OTHER                      -> "pending"]

PerdbStore == INSTANCE PerdbStore WITH store <- Store, status <- Status

\* Servers that start, save, quit and are terminated implement one store: no
\* answered request is lost or done twice, whatever server it was sent to.
ImplementsStore == PerdbStore!Spec

\* Every command comes back, with an answer or without one, whatever happens
\* to its server.
CommandReturns ==
  \A c \in Clients : cpc[c] = "look" ~> cpc[c] \in {"done", "failed"}

\* A server that nobody uses any more ends by itself ("exit after the value of
\* the environment variable PERDB_IDLE_TIMEOUT passes without any
\* transactions", perdb.1).
ServerEnds == \A s \in Clients : Loaded(s) ~> ~Alive(s)

\* db_srv_restart "restart the server": when a server has handled SIGHUP, its
\* connection file names it.
RestartPublishes ==
  [][\A s \in Clients : Doing(s, "reopen") /\ StepDone(s) => conn' = s]_vars

\* _db_clnt_ex: "make sure that there is a server running".  When a command
\* goes on to connect, some server is there to answer it.
LaunchEnsuresServer ==
  [][\A c \in Clients : cpc[c] # "connect" /\ cpc'[c] = "connect"
        => \E s \in Clients : Alive(s)]_vars
=============================================================================
