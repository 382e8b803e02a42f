---------------------------- MODULE Perdb_proofs ----------------------------
(***************************************************************************)
(* What the perdb server guarantees for any number of commands and         *)
(* servers, any variables and values, any timeout and any limit of failed  *)
(* reads.                                                                  *)
(***************************************************************************)
EXTENDS Perdb, SequenceTheorems, TLAPS

Messages == {"req", "fin", "eof"}

\* A command whose request may be processed has made one.
AskInv == \A c \in Clients :
  asked[c] \in Requests \/ (cpc[c] = "idle" /\ inbox[c] = <<>>)

TypeInv == TypeOK /\ AskInv

-----------------------------------------------------------------------------
(* Data *)

\* The rest of a sequence that is not empty.
LEMMA TailType ==
  ASSUME NEW S, NEW q \in Seq(S), q # <<>>
  PROVE  Tail(q) \in Seq(S)
OBVIOUS

\* The plans a server follows when it leaves or is signalled are sequences of
\* steps.
LEMMA PlanTypes ==
  /\ Leave \in Seq(Steps) /\ SaveLeave \in Seq(Steps) /\ QuitLeave \in Seq(Steps)
  /\ SigDone \in Seq(Steps) /\ SigRestart \in Seq(Steps)
  /\ <<"truncate", "write">> \in Seq(Steps) /\ <<>> \in Seq(Steps)
BY DEF Leave, SaveLeave, QuitLeave, SigDone, SigRestart, Steps

\* Emptying is a database, and a request makes a database of a database.
LEMMA DataTypes ==
  /\ EmptyDB \in DB
  /\ \A r \in Requests, m \in DB : Effect(r, m) \in DB
<1>1. EmptyDB \in DB
  BY DEF EmptyDB, DB
<1>2. ASSUME NEW r \in Requests, NEW m \in DB
      PROVE  Effect(r, m) \in DB
  <2>1. r.var \in Vars /\ r.val \in Vals
    BY DEF Requests
  <2>2. [m EXCEPT ![r.var] = r.val] \in DB /\ [m EXCEPT ![r.var] = Undef] \in DB
    BY <2>1 DEF DB
  <2> QED
    BY <1>1, <2>2 DEF Effect
<1> QED
  BY <1>1, <1>2

-----------------------------------------------------------------------------
(* Type correctness *)

\* The variables have their types when the commands and servers start.
LEMMA TypeInit == Init => TypeInv
BY DataTypes, PlanTypes DEF Init, TypeInv, TypeOK, AskInv, SPcs, CPcs

\* A step of a command preserves them.
LEMMA TypeClient ==
  ASSUME TypeInv, NEW c \in Clients, Begin(c) \/ ClientStep(c) \/ Drop(c)
  PROVE  TypeInv'
<1> USE DEF TypeInv, TypeOK, AskInv, SPcs, CPcs, serverVars, SGoto, CGoto
<1>1. CASE Begin(c)
  <2>1. PICK r \in Asks[c] : asked' = [asked EXCEPT ![c] = r]
    BY <1>1 DEF Begin
  <2>2. r \in Requests
    BY AsksAssumption
  <2>3. cpc' = [cpc EXCEPT ![c] = "look"] /\ UNCHANGED <<conn, dbfile, serverVars, peer, link, inbox>>
    BY <1>1 DEF Begin
  <2> QED
    BY <2>1, <2>2, <2>3
<1>2. CASE Look(c)
  BY <1>2 DEF Look
<1>3. CASE Launch(c)
  BY <1>3 DEF Launch
<1>4. CASE Found(c)
  BY <1>4 DEF Found
<1>5. CASE GiveUp(c)
  BY <1>5 DEF GiveUp
<1>6. CASE ReadConn(c)
  BY <1>6 DEF ReadConn
<1>7. CASE ReadConnFails(c)
  BY <1>7 DEF ReadConnFails
<1>8. CASE Dial(c)
  BY <1>8 DEF Dial
<1>9. CASE DialFails(c)
  BY <1>9 DEF DialFails
<1>10. CASE Receive(c)
  BY <1>10 DEF Receive
<1>11. CASE ConnLost(c)
  BY <1>11 DEF ConnLost
<1>12. CASE Fin(c)
  BY <1>12 DEF Fin
<1>13. CASE Drop(c)
  BY <1>13 DEF Drop
<1> QED
  BY <1>1, <1>2, <1>3, <1>4, <1>5, <1>6, <1>7, <1>8, <1>9, <1>10, <1>11,
     <1>12, <1>13 DEF ClientStep

\* A step by which a server ends preserves them.
LEMMA TypeExit ==
  ASSUME TypeInv, NEW s \in Clients, ExitStep(s)
  PROVE  TypeInv'
<1> USE DEF TypeInv, TypeOK, AskInv, SPcs, CPcs, clientVars, SGoto, Doing, StepDone
<1>0. ASSUME Doing(s, Head(todo[s])), StepDone(s)
      PROVE  todo' \in [Clients -> Seq(Steps)]
  <2>1. Tail(todo[s]) \in Seq(Steps)
    BY <1>0, TailType
  <2> QED
    BY <1>0, <2>1
<1>1. CASE Truncate(s)
  BY <1>0, <1>1, DataTypes DEF Truncate
<1>2. CASE WriteDb(s)
  BY <1>0, <1>2 DEF WriteDb
<1>3. CASE CloseSock(s)
  BY <1>0, <1>3 DEF CloseSock
<1>4. CASE UnlinkConn(s)
  BY <1>0, <1>4 DEF UnlinkConn
<1>5. CASE Reopen(s)
  BY <1>0, <1>5 DEF Reopen
<1>6. CASE Exit(s)
  BY <1>6, DataTypes, PlanTypes DEF Exit, Ends
<1> QED
  BY <1>1, <1>2, <1>3, <1>4, <1>5, <1>6 DEF ExitStep

\* A step that a server takes while it starts or serves preserves them.
LEMMA TypeServer ==
  ASSUME TypeInv, NEW s \in Clients, ServerStep(s)
  PROVE  TypeInv'
<1> USE DEF TypeInv, TypeOK, AskInv, SPcs, CPcs, clientVars, SGoto, SAt
<1>1. CASE ExitStep(s)
  BY <1>1, TypeExit
<1>2. CASE CheckRunning(s)
  BY <1>2 DEF CheckRunning
<1>3. CASE Load(s)
  BY <1>3 DEF Load
<1>4. CASE OpenConn(s)
  BY <1>4 DEF OpenConn
<1>5. CASE WriteConn(s)
  BY <1>5 DEF WriteConn
<1>6. CASE Listen(s)
  <2>1. /\ sfd' \in [Clients -> {"closed", "bound", "listening"}]
        /\ spc' \in [Clients -> SPcs] /\ todo' \in [Clients -> Seq(Steps)]
    <3>1. CASE sfd[s] = "bound"
      BY <1>6, <3>1 DEF Listen
    <3>2. CASE sfd[s] # "bound"
      <4>1. /\ spc' = [spc EXCEPT ![s] = "exit"] /\ todo' = [todo EXCEPT ![s] = Leave]
            /\ sfd' = sfd
        BY <1>6, <3>2 DEF Listen
      <4>2. Leave \in Seq(Steps)
        BY PlanTypes
      <4> QED
        BY <4>1, <4>2
    <3> QED
      BY <3>1, <3>2
  <2> QED
    BY <1>6, <2>1 DEF Listen
<1>7. CASE Select(s)
  BY <1>7 DEF Select, Readable, Connected
<1>8. CASE Timeout(s)
  <2>1. Dt \in Nat
    BY TimesAssumption DEF Dt
  <2> QED
    BY <1>8, <2>1 DEF Timeout
<1>9. CASE Accept(s)
  <2>1. CASE sfd[s] = "listening"
    <3>1. PICK c \in Clients : link' = [link EXCEPT ![c] = "open"]
      BY <1>9, <2>1 DEF Accept, Backlog
    <3> QED
      BY <1>9, <2>1, <3>1 DEF Accept
  <2>2. CASE sfd[s] # "listening"
    <3>1. /\ nb' = [nb EXCEPT ![s] = @ + 1] /\ link' = link
          /\ ready' \in [Clients -> SUBSET (Clients \cup {"listen"})]
      BY <1>9, <2>2 DEF Accept
    <3>2. nb' \in [Clients -> Nat]
      BY <3>1
    <3> QED
      BY <1>9, <3>1, <3>2 DEF Accept
  <2> QED
    BY <2>1, <2>2
<1>10. ASSUME NEW c \in Clients, NEW m, Reads(s, c, m)
       PROVE  /\ inbox' \in [Clients -> Seq(Messages)]
              /\ inbox'[c] = Tail(inbox[c]) /\ inbox[c] # <<>>
              /\ \A d \in Clients \ {c} : inbox'[d] = inbox[d]
              /\ ready' \in [Clients -> SUBSET (Clients \cup {"listen"})]
  <2>1. Tail(inbox[c]) \in Seq(Messages)
    BY <1>10, TailType DEF Reads, Messages
  <2> QED
    BY <1>10, <2>1 DEF Reads, Messages
<1>11. ASSUME NEW c \in Clients, Process(s, c)
       PROVE  TypeInv'
  <2>1. asked[c] \in Requests
    BY <1>10, <1>11 DEF Process
  <2>2. Effect(asked[c], mem[s]) \in DB
    BY <2>1, DataTypes
  <2>3. inbox' \in [Clients -> Seq(Messages)] /\ inbox[c] # <<>>
    BY <1>10, <1>11 DEF Process
  <2> QED
    BY <1>10, <1>11, <2>1, <2>2, <2>3, PlanTypes DEF Process, Messages
<1>12. ASSUME NEW c \in Clients, EndConnection(s, c)
       PROVE  TypeInv'
  BY <1>10, <1>12 DEF EndConnection, Messages
<1>13. ASSUME NEW c \in Clients, FailedRead(s, c)
       PROVE  TypeInv'
  <2>1. nb' \in [Clients -> Nat]
    BY <1>13 DEF FailedRead
  <2>2. link' \in [Clients -> {"none", "backlog", "open", "replied", "closed"}]
    BY <1>13 DEF FailedRead
  <2> QED
    BY <1>10, <1>13, <2>1, <2>2 DEF FailedRead, Messages
<1>14. CASE Reply(s)
  <2>1. CASE asked[cur[s]].op = "quit"
    <3>1. /\ spc' = [spc EXCEPT ![s] = "exit"] /\ todo' = [todo EXCEPT ![s] = QuitLeave]
      BY <1>14, <2>1 DEF Reply
    <3>2. QuitLeave \in Seq(Steps)
      BY PlanTypes
    <3> QED
      BY <1>14, <3>1, <3>2 DEF Reply
  <2>2. CASE asked[cur[s]].op # "quit"
    BY <1>14, <2>2 DEF Reply
  <2> QED
    BY <2>1, <2>2
<1>15. CASE ReplyPipe(s)
  BY <1>15, DataTypes, PlanTypes DEF ReplyPipe, Ends
<1>16. CASE EndRound(s)
  BY <1>16 DEF EndRound
<1>17. CASE Turn(s)
  BY <1>17, PlanTypes DEF Turn
<1> QED
  BY <1>1, <1>2, <1>3, <1>4, <1>5, <1>6, <1>7, <1>8, <1>9, <1>11, <1>12,
     <1>13, <1>14, <1>15, <1>16, <1>17 DEF ServerStep

\* A signal preserves them.
LEMMA TypeSignal ==
  ASSUME TypeInv, NEW s \in Clients, Signal(s)
  PROVE  TypeInv'
<1> USE DEF TypeInv, TypeOK, AskInv, SPcs, CPcs, clientVars, SGoto
<1>1. CASE Term(s)
  BY <1>1, PlanTypes DEF Term, MaySignal
<1>2. CASE Hup(s)
  <2>1. SigRestart \o todo[s] \in Seq(Steps)
    BY PlanTypes
  <2> QED
    BY <1>2, <2>1 DEF Hup, MaySignal
<1>3. CASE Kill(s)
  BY <1>3, DataTypes, PlanTypes DEF Kill, Ends, MaySignal
<1> QED
  BY <1>1, <1>2, <1>3 DEF Signal

\* Every step preserves them.
LEMMA TypeStep == TypeInv /\ [Next]_vars => TypeInv'
<1> SUFFICES ASSUME TypeInv, [Next]_vars PROVE TypeInv'
  OBVIOUS
<1>1. CASE UNCHANGED vars
  BY <1>1 DEF TypeInv, TypeOK, AskInv, vars, serverVars, clientVars
<1>2. CASE Finished
  BY <1>1, <1>2 DEF Finished
<1> QED
  BY <1>1, <1>2, TypeClient, TypeServer, TypeSignal DEF Next

\* Type correctness: every variable ranges over what its comment says, for
\* any events and however servers overlap.
THEOREM TypeCorrect == Spec => []TypeOK
<1>1. TypeInv => TypeOK
  BY DEF TypeInv
<1> QED
  BY TypeInit, TypeStep, <1>1, PTL DEF Spec

-----------------------------------------------------------------------------
(* One server at a time.  When servers are spaced and the only signals are *)
(* those that end a server in order, the connection file tells who has the *)
(* database, and every exit saves before it lets go of it.                 *)

Orderly == Spaced /\ Events \subseteq {"term"}

\* The server has seen no other and not ended yet.
Holds(s)  == spc[s] \notin {"off", "check", "gone"}
OneHolder == \A s, u \in Clients : Holds(s) /\ Holds(u) => s = u

\* What a server has still to do: nothing, or what is left of a save it makes
\* for a client, or of one of the ways to leave.
SaveTails == {<<>>, <<"truncate", "write">>, <<"write">>}
SavedTails == {<<>>, <<"unlink">>, <<"close", "unlink">>}
ExitTails ==
  SavedTails \cup
    {<<"unlink", "truncate", "write", "close", "unlink">>,
     <<"truncate", "write", "close", "unlink">>, <<"write", "close", "unlink">>,
     <<"close", "truncate", "write", "unlink">>,
     <<"truncate", "write", "unlink">>, <<"write", "unlink">>}

TodoOf(s) ==
  todo[s] \in IF spc[s] = "reply" THEN SaveTails
              ELSE IF spc[s] = "exit" THEN ExitTails ELSE {<<>>}

\* A server has the connection file from its publication to its exit, and in
\* its exit until it has removed it.
ConnOf(s) ==
  /\ spc[s] \in {"load", "publish"} => conn \notin Clients
  /\ spc[s] = "write_conn" => conn = EmptyConn
  /\ Serving(s) => conn = s
  /\ conn = s => Serving(s) \/ Leaving(s)

SocketOf(s) ==
  /\ spc[s] \in {"write_conn", "listen"} => sfd[s] = "bound"
  /\ spc[s] \in {"select", "round", "reply", "turn"} => sfd[s] = "listening"

\* A leaving server with no save ahead of it has saved.
SavedOf(s) == spc[s] = "exit" /\ todo[s] \in SavedTails => dbfile = mem[s]

\* A command launches its server once.
LaunchOf(s) == cpc[s] \in {"idle", "look", "launch"} => spc[s] = "off"

ServerInv(s) == TodoOf(s) /\ ConnOf(s) /\ SocketOf(s) /\ SavedOf(s) /\ LaunchOf(s)

\* Without dropped clients no read fails.
NoEof(q)  == \A i \in 1 .. Len(q) : q[i] # "eof"
ReadInv   == \A c \in Clients : nb[c] = 0 /\ NoEof(inbox[c])

IInv == TypeInv /\ OneHolder /\ ReadInv /\ \A s \in Clients : ServerInv(s)

-----------------------------------------------------------------------------

\* The invariant holds when nothing has been launched.
LEMMA SafeInit == Init => IInv
<1> SUFFICES ASSUME Init PROVE IInv
  OBVIOUS
<1>1. TypeInv
  BY TypeInit
<1>2. OneHolder
  BY DEF Init, OneHolder, Holds
<1>3. ASSUME NEW s \in Clients PROVE ServerInv(s)
  BY NamesAssumption DEF Init, ServerInv, TodoOf, ConnOf, SocketOf, SavedOf, LaunchOf,
     Serving, Leaving
<1>4. ReadInv
  BY DEF Init, ReadInv, NoEof
<1> QED
  BY <1>1, <1>2, <1>3, <1>4 DEF IInv

\* The commands do not touch what the servers hold; they launch only servers
\* that are off, and send what they are to send.
LEMMA SafeClient ==
  ASSUME IInv, TypeInv', Orderly, NEW c \in Clients, Begin(c) \/ ClientStep(c) \/ Drop(c)
  PROVE  IInv'
<1> USE DEF SGoto, CGoto
<1>0. ~Drop(c)
  BY DEF Orderly, Drop
<1>1. TypeOK
  BY DEF IInv, TypeInv
<1>2. ReadInv'
  <2> SUFFICES ASSUME NEW d \in Clients PROVE (nb[d] = 0 /\ NoEof(inbox[d]))'
    BY DEF ReadInv
  <2>1. nb[d] = 0 /\ NoEof(inbox[d]) /\ inbox[d] \in Seq(Messages)
    BY <1>1 DEF IInv, ReadInv, TypeOK, Messages
  <2>2. CASE Dial(c)
    <3>1. nb' = nb /\ (inbox'[d] = <<"req">> \/ inbox'[d] = inbox[d])
      BY <1>1, <2>2 DEF Dial, serverVars, TypeOK
    <3> QED
      BY <2>1, <3>1 DEF NoEof
  <2>3. CASE Fin(c)
    <3>1. nb' = nb /\ (inbox'[d] = Append(inbox[d], "fin") \/ inbox'[d] = inbox[d])
      BY <1>1, <2>3 DEF Fin, serverVars, TypeOK
    <3>2. NoEof(Append(inbox[d], "fin"))
      BY <2>1 DEF NoEof
    <3> QED
      BY <2>1, <3>1, <3>2
  <2>4. CASE inbox' = inbox /\ nb' = nb
    BY <2>1, <2>4 DEF NoEof
  <2>5. CASE Begin(c) \/ Look(c) \/ Launch(c) \/ Found(c) \/ GiveUp(c)
    BY <2>4, <2>5 DEF Begin, Look, Launch, Found, GiveUp, serverVars
  <2>6. CASE ReadConn(c) \/ ReadConnFails(c) \/ DialFails(c) \/ Receive(c) \/ ConnLost(c)
    BY <2>4, <2>6 DEF ReadConn, ReadConnFails, DialFails, Receive, ConnLost, serverVars
  <2> QED
    BY <1>0, <2>2, <2>3, <2>5, <2>6 DEF ClientStep
<1>3. CASE Launch(c)
  <2>1. /\ spc' = [spc EXCEPT ![c] = "check"] /\ cpc' = [cpc EXCEPT ![c] = "poll"]
        /\ UNCHANGED <<conn, dbfile, todo, sfd, mem>> /\ conn = NoConn /\ cpc[c] = "launch"
    BY <1>3 DEF Launch
  <2>2. /\ spc'[c] = "check" /\ cpc'[c] = "poll"
        /\ \A s \in Clients \ {c} : spc'[s] = spc[s] /\ cpc'[s] = cpc[s]
    BY <1>1, <2>1 DEF TypeOK
  <2>3. spc[c] = "off" /\ todo[c] = <<>>
    BY <2>1 DEF IInv, ServerInv, LaunchOf, TodoOf
  <2>4. OneHolder'
    BY <2>2 DEF IInv, OneHolder, Holds
  <2>5. ServerInv(c)'
    BY <2>1, <2>2, <2>3, NamesAssumption
    DEF ServerInv, TodoOf, ConnOf, SocketOf, SavedOf, LaunchOf, Serving, Leaving
  <2>6. ASSUME NEW s \in Clients \ {c} PROVE ServerInv(s)'
    BY <2>1, <2>2
    DEF IInv, ServerInv, TodoOf, ConnOf, SocketOf, SavedOf, LaunchOf, Serving, Leaving
  <2> QED
    BY <1>2, <2>4, <2>5, <2>6 DEF IInv
<1>4. ASSUME UNCHANGED <<conn, dbfile, spc, todo, sfd, mem>>,
             \A s \in Clients : cpc'[s] \in {"idle", "look", "launch"} =>
                                  cpc[s] \in {"idle", "look", "launch"}
      PROVE  IInv'
  <2>1. OneHolder'
    BY <1>4 DEF IInv, OneHolder, Holds
  <2>2. ASSUME NEW s \in Clients PROVE ServerInv(s)'
    BY <1>4
    DEF IInv, ServerInv, TodoOf, ConnOf, SocketOf, SavedOf, LaunchOf, Serving, Leaving
  <2> QED
    BY <1>2, <2>1, <2>2 DEF IInv
<1>5. CASE Begin(c) \/ Look(c) \/ Found(c) \/ GiveUp(c)
  BY <1>1, <1>4, <1>5 DEF Begin, Look, Found, GiveUp, serverVars, TypeOK
<1>6. CASE ReadConn(c) \/ ReadConnFails(c) \/ DialFails(c) \/ Receive(c) \/ ConnLost(c)
  BY <1>1, <1>4, <1>6 DEF ReadConn, ReadConnFails, DialFails, Receive, ConnLost, serverVars, TypeOK
<1>7. CASE Dial(c) \/ Fin(c)
  BY <1>1, <1>4, <1>7 DEF Dial, Fin, serverVars, TypeOK
<1> QED
  BY <1>0, <1>3, <1>5, <1>6, <1>7 DEF ClientStep

\* A step of the server that has the database concerns no other server.
Frame(s) ==
  /\ \A u \in Clients \ {s} : spc'[u] = spc[u] /\ todo'[u] = todo[u]
  /\ cpc' = cpc
  /\ conn' \in {conn, NoConn, EmptyConn, s}

LEMMA OthersSafe ==
  ASSUME IInv, NEW s \in Clients, Holds(s), Frame(s), ServerInv(s)', TypeInv', ReadInv'
  PROVE  IInv'
<1>1. ASSUME NEW u \in Clients \ {s}
      PROVE  ~Holds(u) /\ ~Holds(u)'
  BY DEF IInv, OneHolder, Frame, Holds
<1>2. OneHolder'
  BY <1>1 DEF OneHolder
<1>3. ASSUME NEW u \in Clients \ {s} PROVE ServerInv(u)'
  <2>1. spc'[u] \in {"off", "check", "gone"} /\ spc'[u] = spc[u] /\ todo'[u] = <<>>
    BY <1>1 DEF Frame, Holds, IInv, ServerInv, TodoOf
  <2>2. conn # u
    BY <2>1 DEF IInv, ServerInv, ConnOf, Serving, Leaving
  <2>3. conn' # u
    BY <2>2, NamesAssumption DEF Frame
  <2>4. LaunchOf(u)'
    BY <2>1 DEF Frame, IInv, ServerInv, LaunchOf
  <2> QED
    BY <2>1, <2>3, <2>4 DEF ServerInv, TodoOf, ConnOf, SocketOf, SavedOf, Serving
<1> QED
  BY <1>2, <1>3 DEF IInv

\* A server goes on from its look at the connection file only if no other
\* one holds the database: one that serves has its name in the file, and one
\* on its way in or out is excluded by the spacing.
LEMMA SafeCheck ==
  ASSUME IInv, TypeInv', Orderly, NEW s \in Clients, CheckRunning(s)
  PROVE  IInv'
<1>1. /\ spc[s] = "check" /\ todo[s] = <<>> /\ Settled(s)
      /\ spc' = [spc EXCEPT ![s] = IF conn \in Clients THEN "gone" ELSE "load"]
      /\ UNCHANGED <<conn, dbfile, todo, sfd, mem, nb, inbox, cpc>>
  BY DEF CheckRunning, Orderly, SAt, SGoto, clientVars
<1>2. /\ TypeOK /\ spc[s] = "check"
      /\ spc'[s] = IF conn \in Clients THEN "gone" ELSE "load"
      /\ \A u \in Clients \ {s} : spc'[u] = spc[u]
  BY <1>1 DEF IInv, TypeInv, TypeOK
<1>3. ASSUME conn \notin Clients, NEW u \in Clients \ {s} PROVE ~Holds(u)
  <2>1. spc[u] \notin {"load", "publish", "write_conn", "exit"}
    BY <1>1 DEF Settled
  <2>2. ~Serving(u)
    BY <1>3 DEF IInv, ServerInv, ConnOf
  <2> QED
    BY <1>2, <2>1, <2>2 DEF Holds, Serving, TypeOK, SPcs
<1>4. OneHolder'
  <2>1. CASE conn \in Clients
    BY <1>2, <2>1 DEF IInv, OneHolder, Holds
  <2>2. CASE conn \notin Clients
    BY <1>2, <1>3, <2>2 DEF OneHolder, Holds
  <2> QED
    BY <2>1, <2>2
<1>5. ServerInv(s)'
  <2>1. conn # s
    BY <1>1 DEF IInv, ServerInv, ConnOf, Serving, Leaving
  <2> QED
    BY <1>1, <1>2, <2>1
    DEF IInv, ServerInv, TodoOf, ConnOf, SocketOf, SavedOf, LaunchOf, Serving, Leaving
<1>6. ASSUME NEW u \in Clients \ {s} PROVE ServerInv(u)'
  BY <1>1, <1>2
  DEF IInv, ServerInv, TodoOf, ConnOf, SocketOf, SavedOf, LaunchOf, Serving, Leaving
<1>7. ReadInv'
  BY <1>1 DEF IInv, ReadInv, NoEof
<1> QED
  BY <1>4, <1>5, <1>6, <1>7 DEF IInv

\* Loading, publishing and listening.
LEMMA SafeStart ==
  ASSUME IInv, TypeInv', Orderly, NEW s \in Clients,
         Load(s) \/ OpenConn(s) \/ WriteConn(s) \/ Listen(s)
  PROVE  IInv'
<1> USE NamesAssumption DEF SAt, SGoto
<1>1. TypeOK /\ ServerInv(s)
  BY DEF IInv, TypeInv
<1>2. ReadInv'
  BY DEF IInv, ReadInv, NoEof, Load, OpenConn, WriteConn, Listen, clientVars
<1>3. ASSUME Frame(s), ServerInv(s)', Holds(s) PROVE IInv'
  BY <1>2, <1>3, OthersSafe
<1>4. CASE Load(s)
  <2>1. /\ spc[s] = "load" /\ spc'[s] = "publish" /\ todo[s] = <<>> /\ Frame(s)
        /\ UNCHANGED <<conn, todo, cpc>>
    BY <1>1, <1>4 DEF Load, Frame, TypeOK, clientVars
  <2> QED
    BY <1>1, <1>3, <2>1
    DEF ServerInv, TodoOf, ConnOf, SocketOf, SavedOf, LaunchOf, Serving, Leaving, Holds
<1>5. CASE OpenConn(s)
  <2>1. conn \notin Clients /\ spc[s] = "publish" /\ todo[s] = <<>>
    BY <1>1, <1>5 DEF OpenConn, ServerInv, ConnOf
  <2>2. /\ spc'[s] = "write_conn" /\ conn' = EmptyConn /\ sfd'[s] = "bound" /\ Frame(s)
        /\ UNCHANGED <<todo, cpc>>
    BY <1>1, <1>5, <2>1 DEF OpenConn, Frame, TypeOK, clientVars
  <2> QED
    BY <1>1, <1>3, <2>1, <2>2
    DEF ServerInv, TodoOf, ConnOf, SocketOf, SavedOf, LaunchOf, Serving, Leaving, Holds
<1>6. CASE WriteConn(s)
  <2>1. /\ spc[s] = "write_conn" /\ spc'[s] = "listen" /\ todo[s] = <<>> /\ conn' = s
        /\ Frame(s) /\ UNCHANGED <<todo, sfd, cpc>>
    BY <1>1, <1>6 DEF WriteConn, Frame, TypeOK, ServerInv, ConnOf, clientVars
  <2> QED
    BY <1>1, <1>3, <2>1
    DEF ServerInv, TodoOf, ConnOf, SocketOf, SavedOf, LaunchOf, Serving, Leaving, Holds
<1>7. CASE Listen(s)
  <2>1. spc[s] = "listen" /\ sfd[s] = "bound" /\ todo[s] = <<>>
    BY <1>1, <1>7 DEF Listen, ServerInv, SocketOf
  <2>2. /\ spc'[s] = "select" /\ sfd'[s] = "listening" /\ Frame(s)
        /\ UNCHANGED <<conn, todo, cpc>>
    BY <1>1, <1>7, <2>1 DEF Listen, Frame, TypeOK, clientVars
  <2> QED
    BY <1>1, <1>3, <2>1, <2>2
    DEF ServerInv, TodoOf, ConnOf, SocketOf, SavedOf, LaunchOf, Serving, Leaving, Holds
<1> QED
  BY <1>4, <1>5, <1>6, <1>7

\* What is left of a plan after its first step.
LEMMA ExitSteps ==
  ASSUME NEW q \in ExitTails, q # <<>>
  PROVE  \/ Head(q) = "truncate" /\ Tail(q) \in {<<"write", "close", "unlink">>, <<"write", "unlink">>}
         \/ Head(q) = "write" /\ Tail(q) \in {<<"close", "unlink">>, <<"unlink">>}
         \/ /\ Head(q) \in {"close", "unlink"}
            /\ IF q \in SavedTails THEN Tail(q) \in {<<"unlink">>, <<>>}
               ELSE Tail(q) \in {<<"truncate", "write", "close", "unlink">>,
                                <<"truncate", "write", "unlink">>}
<1>1. CASE q = <<"unlink">>
  <2>1. Head(q) = "unlink" /\ Tail(q) = <<>>
    BY <1>1
  <2> QED
    BY <1>1, <2>1 DEF SavedTails
<1>2. CASE q = <<"close", "unlink">>
  <2>1. Head(q) = "close" /\ Tail(q) = <<"unlink">>
    BY <1>2
  <2> QED
    BY <1>2, <2>1 DEF SavedTails
<1>3. CASE q = <<"unlink", "truncate", "write", "close", "unlink">>
  <2>1. Head(q) = "unlink" /\ Tail(q) = <<"truncate", "write", "close", "unlink">>
    BY <1>3
  <2>2. q \notin SavedTails
    BY <1>3 DEF SavedTails
  <2> QED
    BY <2>1, <2>2
<1>4. CASE q = <<"truncate", "write", "close", "unlink">>
  BY <1>4
<1>5. CASE q = <<"write", "close", "unlink">>
  BY <1>5
<1>6. CASE q = <<"close", "truncate", "write", "unlink">>
  <2>1. Head(q) = "close" /\ Tail(q) = <<"truncate", "write", "unlink">>
    BY <1>6
  <2>2. q \notin SavedTails
    BY <1>6 DEF SavedTails
  <2> QED
    BY <2>1, <2>2
<1>7. CASE q = <<"truncate", "write", "unlink">>
  BY <1>7
<1>8. CASE q = <<"write", "unlink">>
  BY <1>8
<1> QED
  BY <1>1, <1>2, <1>3, <1>4, <1>5, <1>6, <1>7, <1>8 DEF ExitTails, SavedTails

LEMMA SaveSteps ==
  ASSUME NEW q \in SaveTails, q # <<>>
  PROVE  \/ Head(q) = "truncate" /\ Tail(q) = <<"write">>
         \/ Head(q) = "write" /\ Tail(q) = <<>>
<1>1. CASE q = <<"truncate", "write">>
  <2>1. Head(q) = "truncate" /\ Tail(q) = <<"write">>
    BY <1>1
  <2> QED
    BY <2>1
<1>2. CASE q = <<"write">>
  <2>1. Head(q) = "write" /\ Tail(q) = <<>>
    BY <1>2
  <2> QED
    BY <2>1
<1> QED
  BY <1>1, <1>2 DEF SaveTails

\* The tails that promise a save differ from those that follow one.
LEMMA Unsaved ==
  /\ \A q \in {<<"truncate", "write", "close", "unlink">>, <<"truncate", "write", "unlink">>,
             <<"write", "close", "unlink">>, <<"write", "unlink">>} :
       q \in ExitTails \ SavedTails
  /\ \A q \in SavedTails : q \in ExitTails
  /\ \A q \in {<<"close", "unlink">>, <<"unlink">>, <<>>} : q \in SavedTails
  /\ \A q \in {<<"close", "unlink">>, <<"unlink">>} : q # <<>>
  BY DEF ExitTails, SavedTails

\* The ways to leave that an orderly server can take all start with a save.
LEMMA LeavePlans ==
  /\ SaveLeave \in ExitTails \ SavedTails /\ SaveLeave # <<>>
  /\ QuitLeave \in ExitTails \ SavedTails
  /\ SigDone \in ExitTails \ SavedTails /\ SigDone # <<>>
<1>1. SaveLeave = <<"truncate", "write", "close", "unlink">>
  <2> DEFINE q == <<"truncate", "write", "close", "unlink">>
  <2>1. SaveLeave \in Seq(Steps) /\ q \in Seq(Steps)
    BY PlanTypes DEF Steps
  <2>2. Len(SaveLeave) = 4 /\ \A i \in 1 .. 4 : SaveLeave[i] = q[i]
    BY DEF SaveLeave, Leave
  <2> QED
    BY <2>1, <2>2, SeqEqual
<1>2. QuitLeave = <<"unlink", "truncate", "write", "close", "unlink">>
  <2> DEFINE q == <<"unlink", "truncate", "write", "close", "unlink">>
  <2>1. QuitLeave \in Seq(Steps) /\ q \in Seq(Steps)
    BY PlanTypes DEF Steps
  <2>2. Len(QuitLeave) = 5 /\ \A i \in 1 .. 5 : QuitLeave[i] = q[i]
    BY <1>1 DEF QuitLeave
  <2> QED
    BY <2>1, <2>2, SeqEqual
<1> QED
  BY <1>1, <1>2 DEF ExitTails, SavedTails, SigDone

\* Each step of an exit, and of a save made for a client, leaves a tail of
\* what was planned; the file is removed and the database saved in the order
\* the tails say.
LEMMA SafeExit ==
  ASSUME IInv, TypeInv', Orderly, NEW s \in Clients, ExitStep(s)
  PROVE  IInv'
<1> USE NamesAssumption DEF SAt, SGoto, Doing, StepDone
<1>1. TypeOK /\ ServerInv(s)
  BY DEF IInv, TypeInv
<1>2. ReadInv'
  BY <1>1 DEF IInv, ReadInv, NoEof, ExitStep, Truncate, WriteDb, CloseSock, UnlinkConn, Reopen,
     Exit, Ends, clientVars, TypeOK
<1>3. ASSUME Frame(s), ServerInv(s)', Holds(s) PROVE IInv'
  BY <1>2, <1>3, OthersSafe
<1>4. ASSUME todo[s] # <<>>
      PROVE  /\ Holds(s)
             /\ spc[s] = "reply" => conn = s /\ todo[s] \in SaveTails
             /\ spc[s] = "exit" => todo[s] \in ExitTails
             /\ spc[s] \in {"reply", "exit"}
  BY <1>1, <1>4 DEF ServerInv, TodoOf, ConnOf, Serving, Holds
<1>5. CASE Truncate(s)
  <2>1. /\ todo[s] # <<>> /\ Head(todo[s]) = "truncate" /\ todo'[s] = Tail(todo[s])
        /\ UNCHANGED <<conn, spc, sfd, mem, cpc>> /\ Frame(s)
    BY <1>1, <1>5 DEF Truncate, Frame, TypeOK, clientVars
  <2>2. CASE spc[s] = "reply"
    <3>1. todo'[s] = <<"write">>
      BY <1>4, <2>1, <2>2, SaveSteps
    <3>2. todo'[s] \in SaveTails
      BY <3>1 DEF SaveTails
    <3>3. TodoOf(s)'
      BY <2>1, <2>2, <3>2 DEF TodoOf
    <3>4. ConnOf(s)' /\ SavedOf(s)'
      BY <1>4, <2>1, <2>2 DEF ConnOf, SavedOf, Serving
    <3>5. SocketOf(s)' /\ LaunchOf(s)'
      BY <1>1, <2>1 DEF ServerInv, SocketOf, LaunchOf
    <3> QED
      BY <1>3, <1>4, <2>1, <3>3, <3>4, <3>5 DEF ServerInv
  <2>3. CASE spc[s] = "exit"
    <3>1. todo'[s] \in {<<"write", "close", "unlink">>, <<"write", "unlink">>}
      BY <1>4, <2>1, <2>3, ExitSteps
    <3>2. todo'[s] \in ExitTails /\ todo'[s] \notin SavedTails /\ todo'[s] # <<>>
      BY <3>1, Unsaved
    <3>3. TodoOf(s)'
      BY <2>1, <2>3, <3>2 DEF TodoOf
    <3>4. ConnOf(s)' /\ SavedOf(s)'
      BY <2>1, <2>3, <3>2 DEF ConnOf, SavedOf, Serving, Leaving
    <3>5. SocketOf(s)' /\ LaunchOf(s)'
      BY <1>1, <2>1 DEF ServerInv, SocketOf, LaunchOf
    <3> QED
      BY <1>3, <1>4, <2>1, <3>3, <3>4, <3>5 DEF ServerInv
  <2> QED
    BY <1>4, <2>1, <2>2, <2>3
<1>6. CASE WriteDb(s)
  <2>1. /\ todo[s] # <<>> /\ Head(todo[s]) = "write" /\ todo'[s] = Tail(todo[s])
        /\ dbfile' = mem[s]
        /\ UNCHANGED <<conn, spc, sfd, mem, cpc>> /\ Frame(s)
    BY <1>1, <1>6 DEF WriteDb, Frame, TypeOK, clientVars
  <2>2. CASE spc[s] = "reply"
    <3>1. todo'[s] = <<>>
      BY <1>4, <2>1, <2>2, SaveSteps
    <3>2. todo'[s] \in SaveTails
      BY <3>1 DEF SaveTails
    <3>3. TodoOf(s)'
      BY <2>1, <2>2, <3>2 DEF TodoOf
    <3>4. ConnOf(s)' /\ SavedOf(s)'
      BY <1>4, <2>1, <2>2 DEF ConnOf, SavedOf, Serving
    <3>5. SocketOf(s)' /\ LaunchOf(s)'
      BY <1>1, <2>1 DEF ServerInv, SocketOf, LaunchOf
    <3> QED
      BY <1>3, <1>4, <2>1, <3>3, <3>4, <3>5 DEF ServerInv
  <2>3. CASE spc[s] = "exit"
    <3>1. todo'[s] \in {<<"close", "unlink">>, <<"unlink">>}
      BY <1>4, <2>1, <2>3, ExitSteps
    <3>2. todo'[s] \in ExitTails /\ todo'[s] # <<>>
      BY <3>1, Unsaved
    <3>3. TodoOf(s)'
      BY <2>1, <2>3, <3>2 DEF TodoOf
    <3>4. ConnOf(s)' /\ SavedOf(s)'
      BY <2>1, <2>3, <3>2 DEF ConnOf, SavedOf, Serving, Leaving
    <3>5. SocketOf(s)' /\ LaunchOf(s)'
      BY <1>1, <2>1 DEF ServerInv, SocketOf, LaunchOf
    <3> QED
      BY <1>3, <1>4, <2>1, <3>3, <3>4, <3>5 DEF ServerInv
  <2> QED
    BY <1>4, <2>1, <2>2, <2>3
<1>7. CASE CloseSock(s) \/ UnlinkConn(s)
  <2>1. /\ todo[s] # <<>> /\ Head(todo[s]) \in {"close", "unlink"} /\ todo'[s] = Tail(todo[s])
        /\ conn' = NoConn
        /\ UNCHANGED <<dbfile, spc, mem, cpc>> /\ Frame(s)
    BY <1>1, <1>7 DEF CloseSock, UnlinkConn, Frame, TypeOK, clientVars
  <2>2. spc[s] = "exit" /\ todo[s] \in ExitTails
    BY <1>4, <2>1, SaveSteps
  <2>3. \/ todo[s] \in SavedTails /\ todo'[s] \in SavedTails
        \/ todo'[s] \in ExitTails \ SavedTails
    BY <2>1, <2>2, ExitSteps, Unsaved
  <2>4. todo'[s] \in ExitTails
    BY <2>3, Unsaved
  <2>5. TodoOf(s)'
    BY <2>1, <2>2, <2>4 DEF TodoOf
  <2>6. ConnOf(s)'
    BY <2>1, <2>2 DEF ConnOf, Serving
  <2>7. SavedOf(s)'
    BY <1>1, <2>1, <2>2, <2>3 DEF ServerInv, SavedOf
  <2>8. SocketOf(s)' /\ LaunchOf(s)'
    BY <1>1, <2>1, <2>2 DEF ServerInv, SocketOf, LaunchOf
  <2> QED
    BY <1>3, <1>4, <2>1, <2>5, <2>6, <2>7, <2>8 DEF ServerInv
<1>8. CASE Reopen(s)
  BY <1>4, <1>8, SaveSteps, ExitSteps DEF Reopen
<1>9. CASE Exit(s)
  <2>1. /\ spc[s] = "exit" /\ spc'[s] = "gone" /\ todo'[s] = <<>> /\ todo[s] = <<>>
        /\ UNCHANGED <<conn, cpc>> /\ Frame(s)
    BY <1>1, <1>9 DEF Exit, Ends, Frame, TypeOK, clientVars
  <2> QED
    BY <1>1, <1>3, <2>1
    DEF ServerInv, TodoOf, ConnOf, SocketOf, SavedOf, LaunchOf, Serving, Leaving, Holds
<1> QED
  BY <1>5, <1>6, <1>7, <1>8, <1>9 DEF ExitStep

\* A serving server answers its commands and keeps its name in the connection
\* file until it is told to quit or has been idle long enough.  Its sockets are
\* its own, so no read fails and its file is not gone: both exits that do not
\* save are out of reach.
LEMMA SafeServe ==
  ASSUME IInv, TypeInv', Orderly, NEW s \in Clients,
         \/ Select(s) \/ Timeout(s) \/ Accept(s)
         \/ \E c \in Clients : Process(s, c) \/ EndConnection(s, c) \/ FailedRead(s, c)
         \/ Reply(s) \/ ReplyPipe(s) \/ EndRound(s) \/ Turn(s)
  PROVE  IInv'
<1> USE NamesAssumption DEF SAt, SGoto
<1>1. TypeOK /\ ServerInv(s) /\ ReadInv
  BY DEF IInv, TypeInv
<1>2. ASSUME spc[s] \in {"select", "round", "reply", "turn"}, todo[s] = <<>>,
             UNCHANGED <<conn, dbfile, sfd, cpc>>, ReadInv',
             \A u \in Clients \ {s} : spc'[u] = spc[u] /\ todo'[u] = todo[u],
             \/ spc'[s] \in {"select", "round", "turn"} /\ todo'[s] = <<>>
             \/ spc'[s] = "reply" /\ todo'[s] \in SaveTails
             \/ spc'[s] = "exit" /\ todo'[s] \in ExitTails \ SavedTails
      PROVE  IInv'
  <2>1. Holds(s) /\ Frame(s) /\ conn = s /\ sfd[s] = "listening" /\ spc[s] # "off"
    BY <1>1, <1>2 DEF Holds, Frame, ServerInv, ConnOf, SocketOf, Serving
  <2>2. <<>> \in SavedTails
    BY DEF SavedTails
  <2>3. TodoOf(s)' /\ SavedOf(s)'
    BY <1>2 DEF TodoOf, SavedOf
  <2>4. ConnOf(s)' /\ SocketOf(s)'
    BY <1>2, <2>1, <2>2 DEF ConnOf, SocketOf, Serving, Leaving
  <2>5. LaunchOf(s)'
    BY <1>1, <1>2, <2>1 DEF ServerInv, LaunchOf
  <2> QED
    BY <1>2, <2>1, <2>3, <2>4, <2>5, OthersSafe DEF ServerInv
<1>3. CASE Select(s) \/ Timeout(s) \/ EndRound(s)
  <2>1. /\ spc[s] \in {"select", "round"} /\ todo' = todo /\ todo[s] = <<>>
        /\ (spc' = [spc EXCEPT ![s] = "round"] \/ spc' = [spc EXCEPT ![s] = "turn"])
        /\ UNCHANGED <<conn, dbfile, sfd, cpc, nb, inbox>>
    BY <1>3 DEF Select, Timeout, EndRound, clientVars
  <2>2. ReadInv'
    BY <1>1, <2>1 DEF ReadInv, NoEof
  <2>3. /\ spc'[s] \in {"round", "turn"} /\ todo'[s] = <<>>
        /\ \A u \in Clients \ {s} : spc'[u] = spc[u] /\ todo'[u] = todo[u]
    BY <1>1, <2>1 DEF TypeOK
  <2> QED
    BY <1>2, <2>1, <2>2, <2>3
<1>4. CASE Accept(s)
  <2>1. spc[s] = "round" /\ todo[s] = <<>> /\ sfd[s] = "listening"
    BY <1>1, <1>4 DEF Accept, ServerInv, SocketOf
  <2>2. UNCHANGED <<conn, dbfile, spc, todo, sfd, cpc, nb, inbox>>
    BY <1>4, <2>1 DEF Accept
  <2>3. ReadInv'
    BY <1>1, <2>2 DEF ReadInv, NoEof
  <2> QED
    BY <1>2, <2>1, <2>2, <2>3
<1>5. ASSUME NEW c \in Clients, NEW m \in Messages, Reads(s, c, m), nb' = [nb EXCEPT ![s] = 0]
      PROVE  ReadInv'
  <2> SUFFICES ASSUME NEW d \in Clients PROVE (nb[d] = 0 /\ NoEof(inbox[d]))'
    BY DEF ReadInv
  <2>1. nb[d] = 0 /\ NoEof(inbox[d]) /\ inbox[d] \in Seq(Messages)
    BY <1>1 DEF ReadInv, TypeOK, Messages
  <2>2. nb'[d] = 0
    BY <1>1, <1>5, <2>1 DEF TypeOK
  <2>3. inbox'[d] = inbox[d] \/ (inbox[d] # <<>> /\ inbox'[d] = Tail(inbox[d]))
    BY <1>1, <1>5 DEF Reads, TypeOK
  <2>4. inbox[d] # <<>> => NoEof(Tail(inbox[d]))
    BY <2>1 DEF NoEof
  <2> QED
    BY <2>1, <2>2, <2>3, <2>4
<1>6. ASSUME NEW c \in Clients, Process(s, c) PROVE IInv'
  <2>1. Reads(s, c, "req") /\ nb' = [nb EXCEPT ![s] = 0]
    BY <1>6 DEF Process
  <2>2. ReadInv'
    BY <1>5, <2>1 DEF Messages
  <2>3. spc[s] = "round" /\ todo[s] = <<>>
    BY <2>1 DEF Reads
  <2>4. \/ todo' = [todo EXCEPT ![s] = <<"truncate", "write">>]
        \/ todo' = [todo EXCEPT ![s] = <<>>]
    BY <1>6 DEF Process
  <2>5. <<"truncate", "write">> \in SaveTails /\ <<>> \in SaveTails
    BY DEF SaveTails
  <2>6. todo'[s] \in SaveTails /\ \A u \in Clients \ {s} : todo'[u] = todo[u]
    BY <1>1, <2>4, <2>5 DEF TypeOK
  <2>7. spc'[s] = "reply" /\ \A u \in Clients \ {s} : spc'[u] = spc[u]
    BY <1>1, <1>6 DEF Process, TypeOK
  <2>8. UNCHANGED <<conn, dbfile, sfd, cpc>>
    BY <1>6 DEF Process
  <2> QED
    BY <1>2, <2>2, <2>3, <2>6, <2>7, <2>8
<1>7. ASSUME NEW c \in Clients, EndConnection(s, c) PROVE IInv'
  <2>1. /\ Reads(s, c, "fin") /\ nb' = [nb EXCEPT ![s] = 0]
        /\ UNCHANGED <<conn, dbfile, spc, todo, sfd, cpc>>
    BY <1>7 DEF EndConnection
  <2>2. ReadInv'
    BY <1>5, <2>1 DEF Messages
  <2>3. spc[s] = "round" /\ todo[s] = <<>>
    BY <2>1 DEF Reads
  <2> QED
    BY <1>2, <2>1, <2>2, <2>3
<1>8. ASSUME NEW c \in Clients PROVE ~FailedRead(s, c)
  <2>1. NoEof(inbox[c]) /\ inbox[c] \in Seq(Messages)
    BY <1>1 DEF ReadInv, TypeOK, Messages
  <2>2. inbox[c] # <<>> => Head(inbox[c]) # "eof"
    BY <2>1 DEF NoEof
  <2> QED
    BY <2>2 DEF FailedRead, Reads
<1>9. CASE Reply(s)
  <2>1. /\ spc[s] = "reply" /\ todo[s] = <<>>
        /\ UNCHANGED <<conn, dbfile, sfd, cpc, nb, inbox>>
    BY <1>9 DEF Reply
  <2>2. ReadInv'
    BY <1>1, <2>1 DEF ReadInv, NoEof
  <2>3. CASE asked[cur[s]].op = "quit"
    <3>1. spc' = [spc EXCEPT ![s] = "exit"] /\ todo' = [todo EXCEPT ![s] = QuitLeave]
      BY <1>9, <2>3 DEF Reply
    <3>2. /\ spc'[s] = "exit" /\ todo'[s] = QuitLeave
          /\ \A u \in Clients \ {s} : spc'[u] = spc[u] /\ todo'[u] = todo[u]
      BY <1>1, <3>1 DEF TypeOK
    <3>3. QuitLeave \in ExitTails \ SavedTails
      BY LeavePlans
    <3> QED
      BY <1>2, <2>1, <2>2, <3>2, <3>3
  <2>4. CASE asked[cur[s]].op # "quit"
    <3>1. spc' = [spc EXCEPT ![s] = "round"] /\ todo' = todo
      BY <1>9, <2>4 DEF Reply
    <3> QED
      BY <1>1, <1>2, <2>1, <2>2, <3>1 DEF TypeOK
  <2> QED
    BY <2>3, <2>4
<1>10. ~ReplyPipe(s)
  BY <1>1 DEF ReplyPipe, ReadInv, NoEof, TypeOK
<1>11. CASE Turn(s)
  <2>1. /\ spc[s] = "turn" /\ todo[s] = <<>>
        /\ UNCHANGED <<conn, dbfile, sfd, cpc, nb, inbox>>
    BY <1>11 DEF Turn, clientVars
  <2>2. ReadInv'
    BY <1>1, <2>1 DEF ReadInv, NoEof
  <2>3. conn # NoConn /\ ~(nb[s] >= NbMax)
    BY <1>1, <2>1, TimesAssumption DEF ServerInv, ConnOf, Serving, ReadInv
  <2>4. SaveLeave \in ExitTails \ SavedTails /\ SaveLeave # <<>>
    BY LeavePlans
  <2>5. \/ spc' = [spc EXCEPT ![s] = "exit"] /\ todo' = [todo EXCEPT ![s] = SaveLeave]
        \/ spc' = [spc EXCEPT ![s] = "select"] /\ todo' = [todo EXCEPT ![s] = <<>>]
    BY <1>11, <2>3, <2>4 DEF Turn
  <2>6. /\ \/ spc'[s] = "exit" /\ todo'[s] = SaveLeave
           \/ spc'[s] = "select" /\ todo'[s] = <<>>
        /\ \A u \in Clients \ {s} : spc'[u] = spc[u] /\ todo'[u] = todo[u]
    BY <1>1, <2>5 DEF TypeOK
  <2> QED
    BY <1>2, <2>1, <2>2, <2>4, <2>6
<1> QED
  BY <1>3, <1>4, <1>6, <1>7, <1>8, <1>9, <1>10, <1>11

\* A server that is terminated makes the plan of sigdone, wherever it is.
LEMMA SafeSignal ==
  ASSUME IInv, TypeInv', Orderly, NEW s \in Clients, Signal(s)
  PROVE  IInv'
<1>1. TypeOK /\ ServerInv(s) /\ ReadInv
  BY DEF IInv, TypeInv
<1>2. Term(s)
  BY DEF Signal, Hup, Kill, Orderly
<1>3. /\ Serving(s) \/ Leaving(s)
      /\ spc' = [spc EXCEPT ![s] = "exit"] /\ todo' = [todo EXCEPT ![s] = SigDone]
      /\ UNCHANGED <<conn, dbfile, sfd, mem, nb, cpc, inbox>>
  BY <1>2 DEF Term, SGoto, clientVars
<1>4. /\ spc'[s] = "exit" /\ todo'[s] = SigDone
      /\ \A u \in Clients \ {s} : spc'[u] = spc[u] /\ todo'[u] = todo[u]
  BY <1>1, <1>3 DEF TypeOK
<1>5. Holds(s) /\ spc[s] # "off" /\ Frame(s)
  BY <1>3, <1>4 DEF Serving, Leaving, Holds, Frame
<1>6. ReadInv'
  BY <1>1, <1>3 DEF ReadInv, NoEof
<1>7. SigDone \in ExitTails \ SavedTails /\ SigDone # <<>>
  BY LeavePlans
<1>8. TodoOf(s)' /\ ConnOf(s)' /\ SocketOf(s)' /\ SavedOf(s)'
  BY <1>3, <1>4, <1>7 DEF TodoOf, ConnOf, SocketOf, SavedOf, Serving, Leaving
<1>9. LaunchOf(s)'
  BY <1>1, <1>3, <1>5 DEF ServerInv, LaunchOf
<1> QED
  BY <1>5, <1>6, <1>8, <1>9, OthersSafe DEF ServerInv

\* The invariant is inductive for orderly servers.
LEMMA SafeStep == Orderly /\ IInv /\ [Next]_vars => IInv'
<1> SUFFICES ASSUME Orderly, IInv, [Next]_vars PROVE IInv'
  OBVIOUS
<1>1. TypeInv'
  BY TypeStep DEF IInv
<1>2. CASE UNCHANGED vars
  BY <1>1, <1>2
  DEF IInv, OneHolder, ReadInv, NoEof, ServerInv, TodoOf, ConnOf, SocketOf, SavedOf, LaunchOf,
      Holds, Serving, Leaving, vars, serverVars, clientVars
<1>3. CASE Finished
  BY <1>2, <1>3 DEF Finished
<1>4. ASSUME NEW s \in Clients, ServerStep(s) PROVE IInv'
  BY <1>1, <1>4, SafeExit, SafeCheck, SafeStart, SafeServe DEF ServerStep
<1> QED
  BY <1>1, <1>2, <1>3, <1>4, SafeClient, SafeSignal DEF Next

\* A server that has the database ends only by its exit.
LEMMA EndsByExit ==
  ASSUME IInv, Orderly, Next, NEW s \in Clients, Loaded(s), spc'[s] = "gone"
  PROVE  Exit(s)
<1>1. TypeOK /\ ServerInv(s) /\ ReadInv
  BY DEF IInv, TypeInv
<1>2. spc[s] \notin {"gone", "check"}
  BY DEF Loaded
<1>3. ASSUME NEW c \in Clients, Begin(c) \/ ClientStep(c) \/ Drop(c) PROVE FALSE
  BY <1>1, <1>2, <1>3
  DEF Begin, ClientStep, Look, Launch, Found, GiveUp, ReadConn, ReadConnFails, Dial, DialFails,
      Receive, ConnLost, Fin, Drop, SGoto, serverVars, TypeOK
<1>4. ASSUME NEW u \in Clients, Signal(u) PROVE FALSE
  BY <1>1, <1>2, <1>4 DEF Signal, Term, Hup, Kill, Orderly, SGoto, TypeOK
<1>5. ~Finished
  BY <1>2 DEF Finished, vars, serverVars
<1>6. ASSUME NEW u \in Clients, ServerStep(u) PROVE Exit(s)
  <2>1. CASE ExitStep(u)
    BY <1>1, <1>2, <2>1
    DEF ExitStep, Truncate, WriteDb, CloseSock, UnlinkConn, Reopen, Exit, Ends, SGoto, TypeOK
  <2>2. CASE CheckRunning(u) \/ Load(u) \/ OpenConn(u) \/ WriteConn(u) \/ Listen(u)
    BY <1>1, <1>2, <2>2
    DEF CheckRunning, Load, OpenConn, WriteConn, Listen, SAt, SGoto, TypeOK
  <2>3. CASE Select(u) \/ Timeout(u) \/ Accept(u) \/ Reply(u) \/ EndRound(u) \/ Turn(u)
    BY <1>1, <1>2, <2>3
    DEF Select, Timeout, Accept, Reply, EndRound, Turn, SAt, SGoto, TypeOK
  <2>4. ASSUME NEW c \in Clients, Process(u, c) \/ EndConnection(u, c) \/ FailedRead(u, c)
        PROVE  FALSE
    BY <1>1, <1>2, <2>4 DEF Process, EndConnection, FailedRead, SGoto, TypeOK
  <2>5. ~ReplyPipe(u)
    BY <1>1 DEF ReplyPipe, ReadInv, NoEof, TypeOK
  <2> QED
    BY <1>6, <2>1, <2>2, <2>3, <2>4, <2>5 DEF ServerStep
<1> QED
  BY <1>3, <1>4, <1>5, <1>6 DEF Next

\* The connection file changes only from one of an orderly server's own
\* exits, and then it was its own.
LEMMA ConnByOwner ==
  ASSUME IInv, Orderly, Next, conn' # conn, conn \in Clients
  PROVE  todo[conn] # <<>>
<1>1. TypeOK /\ OneHolder /\ ReadInv /\ \A s \in Clients : ServerInv(s)
  BY DEF IInv, TypeInv
<1>2. Holds(conn)
  BY <1>1 DEF ServerInv, ConnOf, Serving, Leaving, Holds
<1>3. ASSUME NEW s \in Clients, ExitStep(s) PROVE todo[s] # <<>>
  BY <1>3 DEF ExitStep, Truncate, WriteDb, CloseSock, UnlinkConn, Reopen, Exit, Doing
<1>4. ASSUME NEW s \in Clients, todo[s] # <<>> PROVE Holds(s)
  BY <1>1, <1>4 DEF ServerInv, TodoOf, Holds
<1>5. ASSUME NEW s \in Clients, ServerStep(s) PROVE ExitStep(s)
  <2>1. ~OpenConn(s) /\ ~WriteConn(s)
    BY <1>1, NamesAssumption DEF OpenConn, WriteConn, SAt, ServerInv, ConnOf
  <2>2. ~(CheckRunning(s) \/ Load(s) \/ Listen(s) \/ Select(s) \/ Timeout(s) \/ Accept(s))
    BY DEF CheckRunning, Load, Listen, Select, Timeout, Accept
  <2>3. ~(Reply(s) \/ ReplyPipe(s) \/ EndRound(s) \/ Turn(s))
    BY DEF Reply, ReplyPipe, EndRound, Turn
  <2>4. ~\E c \in Clients : Process(s, c) \/ EndConnection(s, c) \/ FailedRead(s, c)
    BY DEF Process, EndConnection, FailedRead
  <2> QED
    BY <1>5, <2>1, <2>2, <2>3, <2>4 DEF ServerStep
<1>6. ASSUME NEW c \in Clients PROVE ~(Begin(c) \/ ClientStep(c) \/ Drop(c))
  BY DEF Begin, ClientStep, Look, Launch, Found, GiveUp, ReadConn, ReadConnFails, Dial,
         DialFails, Receive, ConnLost, Fin, Drop
<1>7. ASSUME NEW s \in Clients PROVE ~Signal(s)
  BY DEF Signal, Term, Hup, Kill
<1>8. ~Finished
  BY DEF Finished, vars
<1>9. PICK s \in Clients : ExitStep(s)
  BY <1>5, <1>6, <1>7, <1>8 DEF Next
<1> QED
  BY <1>1, <1>2, <1>3, <1>4, <1>9 DEF OneHolder

-----------------------------------------------------------------------------
(* What orderly servers guarantee *)

\* There is never more than one server with the database in memory.
THEOREM OneServerAtATime == ASSUME Orderly PROVE Spec => []OneServer
<1>1. IInv => OneServer
  BY DEF IInv, OneHolder, OneServer, Holds, Loaded
<1> QED
  BY SafeInit, SafeStep, <1>1, PTL DEF Spec

\* The connection file names a server that is alive.
THEOREM ConnNames == ASSUME Orderly PROVE Spec => []ConnNamesServer
<1>1. IInv => ConnNamesServer
  BY DEF IInv, ServerInv, ConnOf, ConnNamesServer, Serving, Leaving, Alive
<1> QED
  BY SafeInit, SafeStep, <1>1, PTL DEF Spec

\* No server removes the connection file of another.
THEOREM OwnConn == ASSUME Orderly PROVE Spec => OnlyOwnConn
<1>1. IInv /\ [Next]_vars =>
        [conn' # conn /\ conn \in Clients => todo[conn] # <<>>]_vars
  BY ConnByOwner
<1> QED
  BY SafeInit, SafeStep, <1>1, PTL DEF Spec, OnlyOwnConn

\* Every server leaves its database in the file.
THEOREM Saved == ASSUME Orderly PROVE Spec => SavedOnExit
<1>1. ASSUME IInv, Next, NEW s \in Clients, Loaded(s), spc'[s] = "gone"
      PROVE  dbfile' = mem[s]
  <2>1. Exit(s)
    BY <1>1, EndsByExit
  <2>2. spc[s] = "exit" /\ todo[s] \in SavedTails /\ dbfile' = dbfile
    BY <2>1 DEF Exit, SAt, SavedTails
  <2> QED
    BY <1>1, <2>2 DEF IInv, ServerInv, SavedOf
<1>2. IInv /\ [Next]_vars =>
        [\A s \in Clients : Loaded(s) /\ spc'[s] = "gone" => dbfile' = mem[s]]_vars
  BY <1>1
<1> QED
  BY SafeInit, SafeStep, <1>2, PTL DEF Spec, SavedOnExit

-----------------------------------------------------------------------------
(* The database the commands see.  It is the memory of the server that has *)
(* it, or the file; no server has two, and the steps by which one takes it *)
(* over from the file and leaves it there do not change it.                *)

StoreOK == /\ \A s \in Clients : Loaded(s) => Store = mem[s]
           /\ (\A s \in Clients : ~Loaded(s)) => Store = dbfile

LEMMA StoreIs == OneServer => StoreOK
<1> SUFFICES ASSUME OneServer PROVE StoreOK
  OBVIOUS
<1>1. ASSUME NEW s \in Clients, Loaded(s) PROVE Store = mem[s]
  <2>1. \A u \in Clients : Loaded(u) <=> u = s
    BY <1>1 DEF OneServer
  <2>2. (CHOOSE u \in Clients : Loaded(u)) = s
    BY <2>1
  <2> QED
    BY <1>1, <2>2 DEF Store
<1>2. (\A s \in Clients : ~Loaded(s)) => Store = dbfile
  BY DEF Store
<1> QED
  BY <1>1, <1>2 DEF StoreOK

\* What server s does to the database it has, or does not have.
LEMMA StoreStays ==
  ASSUME OneServer, OneServer', NEW s \in Clients,
         \A u \in Clients \ {s} : spc'[u] = spc[u] /\ mem'[u] = mem[u],
         \/ Loaded(s) /\ Loaded(s)' /\ mem'[s] = mem[s]
         \/ ~Loaded(s) /\ ~Loaded(s)' /\ dbfile' = dbfile
         \/ ~Loaded(s) /\ Loaded(s)' /\ mem'[s] = dbfile
         \/ Loaded(s) /\ ~Loaded(s)' /\ dbfile' = mem[s]
  PROVE  Store' = Store
<1>1. StoreOK
  BY StoreIs
<1>2. StoreOK'
  BY StoreIs, PTL
<1>3. \A u \in Clients \ {s} : Loaded(u) => Store = mem[u]
  BY <1>1 DEF StoreOK
<1>4. \A u \in Clients \ {s} : Loaded(u) <=> Loaded(u)'
  BY DEF Loaded
<1>5. CASE Loaded(s) /\ Loaded(s)' /\ mem'[s] = mem[s]
  BY <1>1, <1>2, <1>5 DEF StoreOK
<1>6. CASE ~Loaded(s) /\ Loaded(s)' /\ mem'[s] = dbfile
  <2>1. \A u \in Clients : ~Loaded(u)
    BY <1>4, <1>6 DEF OneServer
  <2> QED
    BY <2>1, <1>1, <1>2, <1>6 DEF StoreOK
<1>7. CASE Loaded(s) /\ ~Loaded(s)' /\ dbfile' = mem[s]
  <2>1. \A u \in Clients : ~Loaded(u)'
    BY <1>4, <1>7 DEF OneServer
  <2> QED
    BY <2>1, <1>1, <1>2, <1>7 DEF StoreOK
<1>8. CASE ~Loaded(s) /\ ~Loaded(s)' /\ dbfile' = dbfile
  <2>1. CASE \E u \in Clients : Loaded(u)
    <3>1. PICK u \in Clients : Loaded(u)
      BY <2>1
    <3>2. u # s
      BY <3>1, <1>8
    <3> QED
      BY <3>1, <3>2, <1>1, <1>2, <1>4 DEF StoreOK
  <2>2. CASE ~\E u \in Clients : Loaded(u)
    <3>1. \A u \in Clients : ~Loaded(u)'
      BY <2>2, <1>4, <1>8
    <3> QED
      BY <2>2, <3>1, <1>1, <1>2, <1>8 DEF StoreOK
  <2> QED
    BY <2>1, <2>2
<1> QED
  BY <1>5, <1>6, <1>7, <1>8

LEMMA IsOne == IInv => OneServer
BY DEF IInv, OneHolder, OneServer, Holds, Loaded

LEMMA StoreClient ==
  ASSUME IInv, IInv', NEW c \in Clients, Begin(c) \/ ClientStep(c)
  PROVE  Store' = Store
<1>1. OneServer /\ OneServer'
  BY IsOne, PTL
<1>2. TypeOK
  BY DEF IInv, TypeInv
<1>3. mem' = mem /\ dbfile' = dbfile /\ (spc' = spc \/ Launch(c))
  BY DEF ClientStep, Begin, Look, Launch, Found, GiveUp, ReadConn, ReadConnFails, Dial,
         DialFails, Receive, ConnLost, Fin, serverVars
<1>4. CASE spc' = spc
  BY <1>1, <1>3, <1>4, StoreStays DEF Loaded
<1>5. CASE Launch(c)
  <2>1. spc' = [spc EXCEPT ![c] = "check"] /\ cpc[c] = "launch"
    BY <1>5 DEF Launch, SGoto
  <2>2. spc[c] = "off"
    BY <2>1 DEF IInv, ServerInv, LaunchOf
  <2>3. ~Loaded(c) /\ ~Loaded(c)' /\ \A u \in Clients \ {c} : spc'[u] = spc[u]
    BY <1>2, <2>1, <2>2 DEF Loaded, TypeOK
  <2> QED
    BY <1>1, <1>3, <2>3, StoreStays
<1> QED
  BY <1>3, <1>4, <1>5

\* Only a request processed changes the database.
LEMMA StoreServer ==
  ASSUME Orderly, IInv, IInv', NEW s \in Clients, ServerStep(s) \/ Signal(s),
         \A c \in Clients : ~Process(s, c)
  PROVE  Store' = Store
<1>1. OneServer /\ OneServer'
  BY IsOne, PTL
<1>2. TypeOK /\ ServerInv(s) /\ ReadInv
  BY DEF IInv, TypeInv
<1>3. ASSUME \A u \in Clients \ {s} : spc'[u] = spc[u], mem' = mem, Loaded(s), Loaded(s)'
      PROVE  Store' = Store
  BY <1>1, <1>3, StoreStays
<1>4. ASSUME Doing(s, "truncate") \/ Doing(s, "write") \/ Doing(s, "close")
             \/ Doing(s, "unlink") \/ Doing(s, "reopen"), spc' = spc, mem' = mem
      PROVE  Store' = Store
  <2>1. Loaded(s) /\ Loaded(s)'
    BY <1>2, <1>4 DEF Doing, ServerInv, TodoOf, Loaded
  <2> QED
    BY <2>1, <1>3, <1>4
<1>5. CASE Truncate(s) \/ WriteDb(s) \/ CloseSock(s) \/ UnlinkConn(s) \/ Reopen(s)
  BY <1>4, <1>5 DEF Truncate, WriteDb, CloseSock, UnlinkConn, Reopen
<1>6. CASE Exit(s)
  <2>1. /\ spc[s] = "exit" /\ todo[s] \in SavedTails /\ dbfile' = dbfile
        /\ spc' = [spc EXCEPT ![s] = "gone"] /\ mem' = [mem EXCEPT ![s] = EmptyDB]
    BY <1>6 DEF Exit, Ends, SAt, SGoto, SavedTails
  <2>2. dbfile' = mem[s]
    BY <2>1, <1>2 DEF ServerInv, SavedOf
  <2>3. Loaded(s) /\ ~Loaded(s)' /\ \A u \in Clients \ {s} : spc'[u] = spc[u] /\ mem'[u] = mem[u]
    BY <1>2, <2>1 DEF Loaded, TypeOK
  <2> QED
    BY <1>1, <2>2, <2>3, StoreStays
<1>7. CASE CheckRunning(s)
  <2>1. /\ spc[s] = "check" /\ UNCHANGED <<mem, dbfile>>
        /\ spc' = [spc EXCEPT ![s] = IF conn \in Clients THEN "gone" ELSE "load"]
    BY <1>7 DEF CheckRunning, SAt, SGoto
  <2>2. ~Loaded(s) /\ ~Loaded(s)' /\ \A u \in Clients \ {s} : spc'[u] = spc[u]
    BY <1>2, <2>1 DEF Loaded, TypeOK
  <2> QED
    BY <1>1, <2>1, <2>2, StoreStays
<1>8. CASE Load(s)
  <2>1. /\ spc[s] = "load" /\ spc' = [spc EXCEPT ![s] = "publish"]
        /\ mem' = [mem EXCEPT ![s] = dbfile]
    BY <1>8 DEF Load, SAt, SGoto
  <2>2. ~Loaded(s) /\ Loaded(s)' /\ mem'[s] = dbfile
        /\ \A u \in Clients \ {s} : spc'[u] = spc[u] /\ mem'[u] = mem[u]
    BY <1>2, <2>1 DEF Loaded, TypeOK
  <2> QED
    BY <1>1, <2>2, StoreStays
<1>9. ASSUME NEW l \in SPcs \ {"off", "check", "load", "gone"},
             spc' = [spc EXCEPT ![s] = l], mem' = mem, Loaded(s)
      PROVE  Store' = Store
  <2>1. Loaded(s)' /\ \A u \in Clients \ {s} : spc'[u] = spc[u]
    BY <1>2, <1>9 DEF Loaded, TypeOK
  <2> QED
    BY <2>1, <1>3, <1>9
<1> USE DEF SPcs
<1>10. CASE OpenConn(s)
  <2>1. CASE conn \in Clients
    BY <2>1, <1>9, <1>10 DEF OpenConn, SAt, SGoto, Loaded
  <2>2. CASE conn \notin Clients
    BY <2>2, <1>9, <1>10 DEF OpenConn, SAt, SGoto, Loaded
  <2> QED
    BY <2>1, <2>2
<1>11. CASE WriteConn(s)
  BY <1>9, <1>11 DEF WriteConn, SAt, SGoto, Loaded
<1>12. CASE Listen(s)
  <2>1. CASE sfd[s] = "bound"
    BY <2>1, <1>9, <1>12 DEF Listen, SAt, SGoto, Loaded
  <2>2. CASE sfd[s] # "bound"
    BY <2>2, <1>9, <1>12 DEF Listen, SAt, SGoto, Loaded
  <2> QED
    BY <2>1, <2>2
<1>13. CASE Select(s)
  BY <1>9, <1>13 DEF Select, SAt, SGoto, Loaded
<1>14. CASE Timeout(s)
  BY <1>9, <1>14 DEF Timeout, SAt, SGoto, Loaded
<1>15. CASE Accept(s)
  <2>1. Loaded(s) /\ Loaded(s)' /\ spc' = spc /\ mem' = mem
    BY <1>15 DEF Accept, SAt, Loaded
  <2> QED
    BY <2>1, <1>3
<1>16. ASSUME NEW c \in Clients, EndConnection(s, c) \/ FailedRead(s, c) PROVE Store' = Store
  <2>1. Loaded(s) /\ Loaded(s)' /\ spc' = spc /\ mem' = mem
    BY <1>16 DEF EndConnection, FailedRead, Reads, SAt, Loaded
  <2> QED
    BY <2>1, <1>3
<1>17. CASE Reply(s)
  <2>1. CASE asked[cur[s]].op = "quit"
    BY <2>1, <1>9, <1>17 DEF Reply, SAt, SGoto, Loaded
  <2>2. CASE asked[cur[s]].op # "quit"
    BY <2>2, <1>9, <1>17 DEF Reply, SAt, SGoto, Loaded
  <2> QED
    BY <2>1, <2>2
<1>18. ~ReplyPipe(s)
  BY <1>2 DEF ReplyPipe, ReadInv, NoEof, TypeOK
<1>19. CASE EndRound(s)
  BY <1>9, <1>19 DEF EndRound, SAt, SGoto, Loaded
<1>20. CASE Turn(s)
  <2>1. PICK l \in {"select", "exit"} : spc' = [spc EXCEPT ![s] = l]
    BY <1>20 DEF Turn, SGoto
  <2>2. mem' = mem /\ Loaded(s)
    BY <1>20 DEF Turn, SAt, Loaded
  <2> QED
    BY <2>1, <2>2, <1>9
<1>21. CASE Signal(s)
  <2>1. Term(s)
    BY <1>21 DEF Signal, Hup, Kill, Orderly
  <2>2. spc' = [spc EXCEPT ![s] = "exit"] /\ mem' = mem
    BY <2>1 DEF Term, SGoto
  <2>3. Loaded(s)
    BY <2>1 DEF Term, Serving, Leaving, Loaded
  <2> QED
    BY <2>2, <2>3, <1>9
<1> QED
  BY <1>5, <1>6, <1>7, <1>8, <1>10, <1>11, <1>12, <1>13, <1>14, <1>15, <1>16, <1>17,
     <1>18, <1>19, <1>20, <1>21 DEF ServerStep, ExitStep

-----------------------------------------------------------------------------
(* A request is processed once: what a command has sent is its request     *)
(* until the request has an answer, and the answer comes before the reply. *)

Early == {"idle", "look", "launch", "poll", "connect", "dial"}

CommandInv(c) ==
  /\ inbox[c] \in {<<>>, <<"req">>, <<"fin">>}
  /\ cpc[c] \in Early => inbox[c] = <<>> /\ answer[c] = NoAnswer
  /\ cpc[c] = "idle" => asked[c] = NoRequest
  /\ inbox[c] = <<"req">> => answer[c] = NoAnswer /\ cpc[c] \in {"wait", "failed"}
  /\ inbox[c] = <<"fin">> => cpc[c] = "done"
  /\ link[c] = "replied" => answer[c] # NoAnswer
  /\ cpc[c] \in {"fin", "done"} => answer[c] # NoAnswer

\* A server that replies has the answer.
ReplyInv(s) == spc[s] = "reply" => answer[cur[s]] # NoAnswer

Commands == /\ answer = [c \in Clients |-> answer[c]]
            /\ \A c \in Clients : CommandInv(c) /\ ReplyInv(c)

LEMMA CommandsInit == Init => Commands
<1> SUFFICES ASSUME Init PROVE Commands
  OBVIOUS
<1>1. answer = [c \in Clients |-> answer[c]]
  BY DEF Init
<1> QED
  BY <1>1 DEF Init, Commands, CommandInv, ReplyInv, Early

\* One command moves, the others stay as they are.
LEMMA CommandsStay ==
  ASSUME TypeOK, Commands, NEW c \in Clients, CommandInv(c)',
         answer' = [d \in Clients |-> answer'[d]],
         \A d \in Clients \ {c} : /\ cpc'[d] = cpc[d] /\ asked'[d] = asked[d]
                                  /\ answer'[d] = answer[d] /\ inbox'[d] = inbox[d]
                                  /\ link'[d] = link[d],
         \A s \in Clients : ReplyInv(s)'
  PROVE  Commands'
<1>1. ASSUME NEW d \in Clients \ {c} PROVE CommandInv(d)'
  BY DEF Commands, CommandInv
<1> QED
  BY <1>1 DEF Commands

LEMMA CommandsClient ==
  ASSUME TypeOK, Commands, Orderly, NEW c \in Clients, Begin(c) \/ ClientStep(c)
  PROVE  Commands'
<1>1. UNCHANGED <<answer, cur>> /\ (spc' = spc \/ spc' = [spc EXCEPT ![c] = "check"])
  BY DEF ClientStep, Begin, Look, Launch, Found, GiveUp, ReadConn, ReadConnFails, Dial,
         DialFails, Receive, ConnLost, Fin, serverVars, SGoto
<1>2. \A s \in Clients : ReplyInv(s)'
  BY <1>1 DEF TypeOK, Commands, ReplyInv
<1>3. CommandInv(c) /\ answer' = [d \in Clients |-> answer'[d]]
  BY <1>1 DEF Commands
<1>4. ASSUME NEW l, cpc' = [cpc EXCEPT ![c] = l],
             \A d \in Clients \ {c} : asked'[d] = asked[d] /\ inbox'[d] = inbox[d]
                                      /\ link'[d] = link[d],
             CommandInv(c)'
      PROVE  Commands'
  <2>1. \A d \in Clients \ {c} : cpc'[d] = cpc[d]
    BY <1>4 DEF TypeOK
  <2> QED
    BY <2>1, <1>1, <1>2, <1>3, <1>4, CommandsStay
\* steps that only move on
<1>5. ASSUME NEW l, cpc' = [cpc EXCEPT ![c] = l], asked' = asked, inbox' = inbox, link' = link,
             l \in Early => cpc[c] \in Early, l # "idle",
             inbox[c] = <<"req">> => l = "failed",
             inbox[c] # <<"fin">>, l # "fin", l # "done"
      PROVE  Commands'
  <2>1. cpc'[c] = l
    BY <1>5 DEF TypeOK
  <2>2. CommandInv(c)'
    BY <2>1, <1>1, <1>3, <1>5 DEF CommandInv
  <2> QED
    BY <2>2, <1>4, <1>5
<1>6. ASSUME cpc[c] \in Early PROVE inbox[c] = <<>> /\ <<>> # <<"req">> /\ <<>> # <<"fin">>
  BY <1>3, <1>6 DEF CommandInv
<1>7. CASE Begin(c)
  <2>1. PICK r : asked' = [asked EXCEPT ![c] = r]
    BY <1>7 DEF Begin
  <2>2. cpc' = [cpc EXCEPT ![c] = "look"] /\ cpc[c] = "idle" /\ UNCHANGED <<link, inbox>>
    BY <1>7 DEF Begin, CGoto
  <2>3. CommandInv(c)'
    BY <2>2, <1>1, <1>3 DEF TypeOK, CommandInv, Early
  <2>4. \A d \in Clients \ {c} : asked'[d] = asked[d]
    BY <2>1 DEF TypeOK
  <2> QED
    BY <2>2, <2>3, <2>4, <1>4
<1>8. CASE Look(c)
  <2>1. PICK l \in {"launch", "connect"} : cpc' = [cpc EXCEPT ![c] = l]
    BY <1>8 DEF Look, CGoto
  <2>2. cpc[c] = "look" /\ UNCHANGED <<asked, link, inbox>>
    BY <1>8 DEF Look
  <2> QED
    BY <2>1, <2>2, <1>5, <1>6 DEF Early
<1>9. CASE Launch(c)
  BY <1>5, <1>6, <1>9 DEF Launch, CGoto, Early
<1>10. CASE Found(c)
  BY <1>5, <1>6, <1>10 DEF Found, CGoto, Early
<1>11. CASE GiveUp(c)
  BY <1>5, <1>6, <1>11 DEF GiveUp, CGoto, Early
<1>12. CASE ReadConn(c)
  BY <1>5, <1>6, <1>12 DEF ReadConn, CGoto, Early
<1>13. CASE ReadConnFails(c)
  BY <1>5, <1>6, <1>13 DEF ReadConnFails, CGoto, Early
<1>14. CASE Dial(c)
  <2>1. /\ cpc' = [cpc EXCEPT ![c] = "wait"] /\ asked' = asked /\ cpc[c] = "dial"
        /\ link' = [link EXCEPT ![c] = "backlog"] /\ inbox' = [inbox EXCEPT ![c] = <<"req">>]
    BY <1>14 DEF Dial, CGoto
  <2>2. cpc'[c] = "wait" /\ link'[c] = "backlog" /\ inbox'[c] = <<"req">> /\ answer[c] = NoAnswer
    BY <2>1, <1>3 DEF TypeOK, CommandInv, Early
  <2>3. CommandInv(c)'
    BY <2>2, <1>1 DEF CommandInv, Early
  <2>4. \A d \in Clients \ {c} : inbox'[d] = inbox[d] /\ link'[d] = link[d]
    BY <2>1 DEF TypeOK
  <2> QED
    BY <2>1, <2>3, <2>4, <1>4
<1>15. CASE DialFails(c)
  BY <1>5, <1>6, <1>15 DEF DialFails, CGoto, Early
<1>16. CASE Receive(c)
  <2>1. /\ cpc' = [cpc EXCEPT ![c] = "fin"] /\ UNCHANGED <<asked, link, inbox>>
        /\ cpc[c] = "wait" /\ link[c] = "replied"
    BY <1>16 DEF Receive, CGoto
  <2>2. cpc'[c] = "fin"
    BY <2>1 DEF TypeOK
  <2>3. CommandInv(c)'
    BY <2>1, <2>2, <1>1, <1>3 DEF CommandInv, Early
  <2> QED
    BY <2>1, <2>3, <1>4
<1>17. CASE ConnLost(c)
  <2>1. inbox[c] # <<"fin">>
    BY <1>3, <1>17 DEF CommandInv, ConnLost
  <2> QED
    BY <2>1, <1>5, <1>17 DEF ConnLost, CGoto, Early
<1>18. CASE Fin(c)
  <2>1. /\ cpc' = [cpc EXCEPT ![c] = "done"] /\ UNCHANGED <<asked, link>> /\ cpc[c] = "fin"
        /\ inbox' = [inbox EXCEPT ![c] = Append(inbox[c], "fin")]
    BY <1>18 DEF Fin, CGoto
  <2>2. inbox[c] = <<>>
    BY <2>1, <1>3 DEF CommandInv
  <2>3. Append(<<>>, "fin") = <<"fin">>
    OBVIOUS
  <2>4. cpc'[c] = "done" /\ inbox'[c] = <<"fin">>
    BY <2>1, <2>2, <2>3 DEF TypeOK
  <2>5. CommandInv(c)'
    BY <2>1, <2>4, <1>1, <1>3 DEF CommandInv, Early
  <2>6. \A d \in Clients \ {c} : inbox'[d] = inbox[d]
    BY <2>1 DEF TypeOK
  <2> QED
    BY <2>1, <2>5, <2>6, <1>4
<1> QED
  BY <1>7, <1>8, <1>9, <1>10, <1>11, <1>12, <1>13, <1>14, <1>15, <1>16, <1>17, <1>18
     DEF ClientStep

LEMMA CommandsServer ==
  ASSUME TypeInv, Commands, Orderly, NEW s \in Clients, ServerStep(s) \/ Signal(s)
  PROVE  Commands'
<1>1. \A c \in Clients : CommandInv(c) /\ ReplyInv(c)
  BY DEF Commands
<1>0. TypeOK /\ AskInv
  BY DEF TypeInv
<1>2. ASSUME UNCHANGED <<cpc, asked, answer, link, inbox, cur>>,
             NEW l, spc' = spc \/ (l # "reply" /\ spc' = [spc EXCEPT ![s] = l])
      PROVE  Commands'
  <2>1. \A c \in Clients : CommandInv(c)'
    BY <1>1, <1>2 DEF CommandInv
  <2>2. \A c \in Clients : ReplyInv(c)'
    BY <1>1, <1>2 DEF TypeInv, TypeOK, ReplyInv
  <2> QED
    BY <2>1, <2>2, <1>2 DEF Commands
<1>3. CASE ExitStep(s)
  BY <1>2, <1>3 DEF ExitStep, Truncate, WriteDb, CloseSock, UnlinkConn, Reopen, Exit, Ends, SGoto,
                    clientVars
<1>4. CASE CheckRunning(s)
  BY <1>2, <1>4 DEF CheckRunning, SGoto, clientVars
<1>5. CASE Load(s) \/ WriteConn(s) \/ Select(s) \/ Timeout(s) \/ EndRound(s)
  BY <1>2, <1>5 DEF Load, WriteConn, Select, Timeout, EndRound, SGoto, clientVars
<1>6. CASE OpenConn(s)
  BY <1>2, <1>6 DEF OpenConn, SGoto, clientVars
<1>7. CASE Listen(s)
  BY <1>2, <1>7 DEF Listen, SGoto, clientVars
<1>8. CASE Turn(s)
  <2>1. PICK l \in {"select", "exit"} : spc' = [spc EXCEPT ![s] = l]
    BY <1>8 DEF Turn, SGoto
  <2> QED
    BY <2>1, <1>2, <1>8 DEF Turn, clientVars
<1>9. CASE ReplyPipe(s)
  BY <1>2, <1>9 DEF ReplyPipe, Ends, SGoto, clientVars
<1>10. CASE Signal(s)
  <2>1. Term(s)
    BY <1>10 DEF Signal, Hup, Kill, Orderly
  <2> QED
    BY <2>1, <1>2 DEF Term, SGoto, clientVars
\* the steps that concern a connection
<1>11. ASSUME UNCHANGED <<cpc, asked, answer, inbox, cur, spc>>,
              \A c \in Clients : link'[c] # "replied" \/ link'[c] = link[c]
       PROVE  Commands'
  <2>1. \A c \in Clients : CommandInv(c)'
    BY <1>1, <1>11 DEF CommandInv
  <2>2. \A c \in Clients : ReplyInv(c)'
    BY <1>1, <1>11 DEF ReplyInv
  <2> QED
    BY <2>1, <2>2, <1>11 DEF Commands
<1>12. CASE Accept(s)
  <2>1. link' = link \/ \E c \in Clients : link' = [link EXCEPT ![c] = "open"]
    BY <1>12 DEF Accept, Backlog
  <2>2. \A c \in Clients : link'[c] # "replied" \/ link'[c] = link[c]
    BY <2>1 DEF TypeInv, TypeOK
  <2> QED
    BY <2>2, <1>11, <1>12 DEF Accept
<1>13. ASSUME NEW c \in Clients, NEW m, Reads(s, c, m)
       PROVE  inbox[c] = <<m>> /\ inbox'[c] = <<>> /\ \A d \in Clients \ {c} : inbox'[d] = inbox[d]
  <2>1. inbox[c] # <<>> /\ Head(inbox[c]) = m /\ inbox' = [inbox EXCEPT ![c] = Tail(inbox[c])]
    BY <1>13 DEF Reads
  <2>2. inbox[c] = <<"req">> \/ inbox[c] = <<"fin">>
    BY <2>1, <1>1 DEF CommandInv
  <2>3. /\ Head(<<"req">>) = "req" /\ Head(<<"fin">>) = "fin"
        /\ Tail(<<"req">>) = <<>> /\ Tail(<<"fin">>) = <<>>
    OBVIOUS
  <2> QED
    BY <2>1, <2>2, <2>3 DEF TypeInv, TypeOK
<1>14. ASSUME NEW c \in Clients, FailedRead(s, c) PROVE FALSE
  <2>1. inbox[c] = <<"eof">>
    BY <1>13, <1>14 DEF FailedRead
  <2>2. <<"eof">>[1] = "eof" /\ <<"req">>[1] = "req" /\ <<"fin">>[1] = "fin" /\ <<"eof">> # <<>>
    OBVIOUS
  <2> QED
    BY <2>1, <2>2, <1>1 DEF CommandInv
<1>15. ASSUME NEW c \in Clients, EndConnection(s, c) PROVE Commands'
  <2>1. /\ UNCHANGED <<cpc, asked, answer, cur, spc>>
        /\ link' = [link EXCEPT ![c] = "closed"]
    BY <1>15 DEF EndConnection
  <2>2. inbox'[c] = <<>> /\ \A d \in Clients \ {c} : inbox'[d] = inbox[d]
    BY <1>13, <1>15 DEF EndConnection
  <2>3. link'[c] = "closed" /\ \A d \in Clients \ {c} : link'[d] = link[d]
    BY <2>1 DEF TypeInv, TypeOK
  <2>4. CommandInv(c)'
    BY <2>1, <2>2, <2>3, <1>1 DEF CommandInv
  <2>5. \A d \in Clients : ReplyInv(d)'
    BY <2>1, <1>1 DEF ReplyInv
  <2>6. answer' = [d \in Clients |-> answer'[d]]
    BY <2>1 DEF Commands
  <2> QED
    BY <2>1, <2>2, <2>3, <2>4, <2>5, <2>6, CommandsStay DEF TypeInv
<1>16. ASSUME NEW c \in Clients, Process(s, c) PROVE Commands'
  <2>1. /\ UNCHANGED <<cpc, asked, link>>
        /\ answer' = [answer EXCEPT ![c] = Answer(asked[c], mem[s])]
        /\ cur' = [cur EXCEPT ![s] = c] /\ spc' = [spc EXCEPT ![s] = "reply"]
    BY <1>16 DEF Process, SGoto
  <2>2. inbox[c] = <<"req">> /\ inbox'[c] = <<>> /\ \A d \in Clients \ {c} : inbox'[d] = inbox[d]
    BY <1>13, <1>16 DEF Process
  <2>3. Answer(asked[c], mem[s]) # NoAnswer
    <3>1. asked[c] \in Requests /\ mem[s] \in DB
      <4>1. inbox[c] # <<>>
        BY <1>16 DEF Process, Reads
      <4> QED
        BY <4>1, <1>0 DEF AskInv, TypeOK
    <3> QED
      BY <3>1, AnswerAssumption
  <2>4. PICK a : a = Answer(asked[c], mem[s])
    OBVIOUS
  <2>5. /\ answer'[c] = a /\ answer' = [d \in Clients |-> answer'[d]]
        /\ \A d \in Clients \ {c} : answer'[d] = answer[d]
    BY <2>1, <2>4 DEF Commands
  <2>6. cpc[c] \in {"wait", "failed"}
    BY <2>2, <1>1 DEF CommandInv
  <2>7. CommandInv(c)'
    BY <2>1, <2>2, <2>3, <2>4, <2>5, <2>6 DEF CommandInv, Early
  <2>8. ASSUME NEW u \in Clients PROVE ReplyInv(u)'
    <3>1. CASE u = s
      <4>1. cur'[u] = c
        BY <2>1, <3>1 DEF TypeInv, TypeOK
      <4> QED
        BY <4>1, <2>3, <2>4, <2>5 DEF ReplyInv
    <3>2. CASE u # s
      <4>1. cur'[u] = cur[u] /\ spc'[u] = spc[u] /\ cur[u] \in Clients /\ ReplyInv(u)
        BY <2>1, <3>2, <1>1 DEF TypeInv, TypeOK
      <4> QED
        BY <4>1, <2>3, <2>4, <2>5 DEF ReplyInv
    <3> QED
      BY <3>1, <3>2
  <2> QED
    BY <2>1, <2>2, <2>5, <2>7, <2>8, CommandsStay DEF TypeInv
<1>17. CASE Reply(s)
  <2>1. /\ UNCHANGED <<cpc, asked, answer, inbox, cur>> /\ spc[s] = "reply"
        /\ link' = [link EXCEPT ![cur[s]] = "replied"]
        /\ \E l \in {"exit", "round"} : spc' = [spc EXCEPT ![s] = l]
    BY <1>17 DEF Reply, SGoto, SAt
  <2>2. answer[cur[s]] # NoAnswer
    BY <2>1, <1>1 DEF ReplyInv
  <2>3. \A c \in Clients : link'[c] = link[c] \/ answer[c] # NoAnswer
    BY <2>1, <2>2 DEF TypeInv, TypeOK
  <2>4. \A c \in Clients : CommandInv(c)'
    BY <2>1, <2>3, <1>1 DEF CommandInv
  <2>5. \A c \in Clients : spc'[c] = "reply" => spc[c] = "reply"
    BY <2>1 DEF TypeInv, TypeOK
  <2>6. \A c \in Clients : ReplyInv(c)'
    BY <2>1, <2>5, <1>1 DEF ReplyInv
  <2> QED
    BY <2>1, <2>4, <2>6 DEF Commands
<1> QED
  BY <1>3, <1>4, <1>5, <1>6, <1>7, <1>8, <1>9, <1>10, <1>12, <1>14, <1>15, <1>16, <1>17
     DEF ServerStep

-----------------------------------------------------------------------------
(* One store.                                                              *)

SInv == IInv /\ Commands

LEMMA StoreInit == Init => SInv
BY SafeInit, CommandsInit DEF SInv

LEMMA StoreStep == Orderly /\ SInv /\ [Next]_vars => SInv'
<1> SUFFICES ASSUME Orderly, SInv, [Next]_vars PROVE SInv'
  OBVIOUS
<1>1. IInv' /\ TypeInv /\ TypeOK /\ Commands
  BY SafeStep DEF SInv, IInv, TypeInv
<1>2. CASE UNCHANGED vars
  <2>1. UNCHANGED <<cpc, asked, answer, link, inbox, spc, cur>>
    BY <1>2 DEF vars, serverVars, clientVars
  <2>2. Commands'
    BY <2>1, <1>1 DEF Commands, CommandInv, ReplyInv
  <2> QED
    BY <2>2, <1>1 DEF SInv
<1>3. CASE Finished
  BY <1>2, <1>3 DEF Finished
<1>4. ASSUME NEW c \in Clients, Begin(c) \/ ClientStep(c) \/ Drop(c) PROVE SInv'
  <2>1. ~Drop(c)
    BY DEF Orderly, Drop
  <2> QED
    BY <2>1, <1>1, <1>4, CommandsClient DEF SInv
<1>5. ASSUME NEW s \in Clients, ServerStep(s) \/ Signal(s) PROVE SInv'
  BY <1>1, <1>5, CommandsServer DEF SInv
<1> QED
  BY <1>2, <1>3, <1>4, <1>5 DEF Next

\* The status of a command at p.
StatusAt(p) == CASE p = "idle"            -> "idle"
                 [] p \in {"fin", "done"} -> "done"
                 [] p = "failed"          -> "failed"
                 [] OTHER                 -> "pending"

LEMMA StatusMoves ==
  ASSUME TypeOK, NEW c \in Clients, NEW l, cpc' = [cpc EXCEPT ![c] = l], NEW m, StatusAt(l) = m
  PROVE  Status' = [Status EXCEPT ![c] = m] /\ Status[c] = StatusAt(cpc[c])
<1>1. Status = [d \in Clients |-> StatusAt(cpc[d])]
  BY DEF Status, StatusAt
<1>2. Status' = [d \in Clients |-> StatusAt(cpc'[d])]
  BY DEF Status, StatusAt
<1>3. cpc'[c] = l /\ \A d \in Clients \ {c} : cpc'[d] = cpc[d]
  BY DEF TypeOK
<1> QED
  BY <1>1, <1>2, <1>3

LEMMA StatusNames ==
  /\ StatusAt("idle") = "idle" /\ StatusAt("failed") = "failed"
  /\ StatusAt("fin") = "done" /\ StatusAt("done") = "done"
  /\ \A p \in {"look", "launch", "poll", "connect", "dial", "wait"} : StatusAt(p) = "pending"
BY DEF StatusAt

\* A step of a command is a step of the store's: it asks, fails or returns, or
\* is on its way.
LEMMA ClientRefines ==
  ASSUME SInv, SInv', NEW c \in Clients, Begin(c) \/ ClientStep(c)
  PROVE  PerdbStore!Next \/ UNCHANGED PerdbStore!vars
<1>1. TypeOK /\ CommandInv(c) /\ Store' = Store
  BY StoreClient DEF SInv, IInv, TypeInv, Commands
<1>2. ASSUME NEW l, cpc' = [cpc EXCEPT ![c] = l], UNCHANGED <<asked, answer>>,
             StatusAt(l) = Status[c]
      PROVE  UNCHANGED PerdbStore!vars
  <2>1. Status' = [Status EXCEPT ![c] = Status[c]]
    BY <1>1, <1>2, StatusMoves
  <2>2. Status' = Status
    BY <2>1 DEF Status
  <2> QED
    BY <2>2, <1>1, <1>2 DEF PerdbStore!vars
<1>3. ASSUME cpc' = [cpc EXCEPT ![c] = "failed"], UNCHANGED <<asked, answer>>,
             Status[c] = "pending"
      PROVE  PerdbStore!Next
  <2>1. Status' = [Status EXCEPT ![c] = "failed"]
    <3>1. PICK l, m : l = "failed" /\ m = "failed"
      OBVIOUS
    <3>2. cpc' = [cpc EXCEPT ![c] = l] /\ StatusAt(l) = m
      BY <3>1, <1>3, StatusNames
    <3>3. Status' = [Status EXCEPT ![c] = m]
      BY <3>2, <1>1, StatusMoves
    <3> QED
      BY <3>1, <3>3
  <2>2. PerdbStore!Fail(c)
    BY <2>1, <1>1, <1>3 DEF PerdbStore!Fail
  <2> QED
    BY <2>2 DEF PerdbStore!Next
<1>4. Status[c] = StatusAt(cpc[c])
  BY DEF Status, StatusAt
<1>5. CASE Begin(c)
  <2>1. /\ cpc' = [cpc EXCEPT ![c] = "look"] /\ cpc[c] = "idle" /\ answer' = answer
        /\ \E r \in Asks[c] : asked' = [asked EXCEPT ![c] = r]
    BY <1>5 DEF Begin, CGoto
  <2>2. Status' = [Status EXCEPT ![c] = "pending"] /\ Status[c] = "idle"
    <3>1. PICK l, m : l = "look" /\ m = "pending"
      OBVIOUS
    <3>2. cpc' = [cpc EXCEPT ![c] = l] /\ StatusAt(l) = m
      BY <3>1, <2>1, StatusNames
    <3>3. Status' = [Status EXCEPT ![c] = m]
      BY <3>2, <1>1, StatusMoves
    <3> QED
      BY <3>1, <3>3, <2>1, <1>4, StatusNames
  <2>3. PerdbStore!Ask(c)
    BY <2>1, <2>2, <1>1 DEF PerdbStore!Ask
  <2> QED
    BY <2>3 DEF PerdbStore!Next
<1>6. CASE Look(c)
  <2>1. PICK l \in {"launch", "connect"} : cpc' = [cpc EXCEPT ![c] = l]
    BY <1>6 DEF Look, CGoto
  <2>2. cpc[c] = "look" /\ UNCHANGED <<asked, answer>>
    BY <1>6 DEF Look
  <2> QED
    BY <2>1, <2>2, <1>2, <1>4, StatusNames
<1>7. CASE Launch(c) \/ ReadConn(c) \/ Dial(c)
  <2>1. PICK l \in {"poll", "dial", "wait"} : cpc' = [cpc EXCEPT ![c] = l]
    BY <1>7 DEF Launch, ReadConn, Dial, CGoto
  <2>2. cpc[c] \in {"launch", "connect", "dial"} /\ UNCHANGED <<asked, answer>>
    BY <1>7 DEF Launch, ReadConn, Dial
  <2> QED
    BY <2>1, <2>2, <1>2, <1>4, StatusNames
<1>8. CASE Found(c)
  <2>1. /\ cpc' = [cpc EXCEPT ![c] = "connect"]
        /\ cpc[c] \in {"launch", "poll"} /\ UNCHANGED <<asked, answer>>
    BY <1>8 DEF Found, CGoto
  <2> QED
    BY <2>1, <1>2, <1>4, StatusNames
<1>9. CASE GiveUp(c) \/ ReadConnFails(c) \/ DialFails(c) \/ ConnLost(c)
  <2>1. /\ cpc' = [cpc EXCEPT ![c] = "failed"]
        /\ cpc[c] \in {"poll", "connect", "dial", "wait"} /\ UNCHANGED <<asked, answer>>
    BY <1>9 DEF GiveUp, ReadConnFails, DialFails, ConnLost, CGoto
  <2> QED
    BY <2>1, <1>3, <1>4, StatusNames
<1>10. CASE Receive(c)
  <2>1. /\ cpc' = [cpc EXCEPT ![c] = "fin"]
        /\ cpc[c] = "wait" /\ link[c] = "replied" /\ UNCHANGED <<asked, answer>>
    BY <1>10 DEF Receive, CGoto
  <2>2. Status' = [Status EXCEPT ![c] = "done"] /\ Status[c] = "pending"
    <3>1. PICK l, m : l = "fin" /\ m = "done"
      OBVIOUS
    <3>2. cpc' = [cpc EXCEPT ![c] = l] /\ StatusAt(l) = m
      BY <3>1, <2>1, StatusNames
    <3>3. Status' = [Status EXCEPT ![c] = m]
      BY <3>2, <1>1, StatusMoves
    <3> QED
      BY <3>1, <3>3, <2>1, <1>4, StatusNames
  <2>3. PerdbStore!Return(c)
    BY <2>1, <2>2, <1>1 DEF PerdbStore!Return, CommandInv
  <2> QED
    BY <2>3 DEF PerdbStore!Next
<1>11. CASE Fin(c)
  <2>1. cpc' = [cpc EXCEPT ![c] = "done"] /\ cpc[c] = "fin" /\ UNCHANGED <<asked, answer>>
    BY <1>11 DEF Fin, CGoto
  <2> QED
    BY <2>1, <1>2, <1>4, StatusNames
<1> QED
  BY <1>5, <1>6, <1>7, <1>8, <1>9, <1>10, <1>11 DEF ClientStep

\* A server serves a request at the step that processes it.
LEMMA ServerRefines ==
  ASSUME Orderly, SInv, SInv', NEW s \in Clients, ServerStep(s) \/ Signal(s)
  PROVE  PerdbStore!Next \/ UNCHANGED PerdbStore!vars
<1>1. TypeOK /\ IInv /\ IInv' /\ \A c \in Clients : CommandInv(c)
  BY DEF SInv, IInv, TypeInv, Commands
<1>2. CASE \A c \in Clients : ~Process(s, c)
  <2>1. Store' = Store
    BY <1>1, <1>2, StoreServer
  <2>2. UNCHANGED <<cpc, asked, answer>>
    BY <1>2 DEF ServerStep, ExitStep, Signal, Truncate, WriteDb, CloseSock, UnlinkConn, Reopen,
       Exit, CheckRunning, Load, OpenConn, WriteConn, Listen, Select, Timeout, Accept,
       EndConnection, FailedRead, Reply, ReplyPipe, EndRound, Turn, Term, Hup, Kill, clientVars
  <2>3. Status' = Status
    BY <2>2 DEF Status
  <2> QED
    BY <2>1, <2>2, <2>3 DEF PerdbStore!vars
<1>3. ASSUME NEW c \in Clients, Process(s, c) PROVE PerdbStore!Next
  <2>1. /\ UNCHANGED <<cpc, asked>> /\ spc[s] = "round"
        /\ answer' = [answer EXCEPT ![c] = Answer(asked[c], mem[s])]
        /\ mem' = [mem EXCEPT ![s] = Effect(asked[c], mem[s])]
        /\ spc' = [spc EXCEPT ![s] = "reply"]
        /\ inbox[c] # <<>> /\ Head(inbox[c]) = "req"
    BY <1>3 DEF Process, Reads, SAt, SGoto
  <2>2. inbox[c] = <<"req">>
    <3>1. Head(<<"fin">>) = "fin"
      OBVIOUS
    <3> QED
      BY <3>1, <2>1, <1>1 DEF CommandInv
  <2>3. answer[c] = NoAnswer /\ cpc[c] \in {"wait", "failed"}
    BY <2>2, <1>1 DEF CommandInv
  <2>4. Status' = Status /\ Status[c] \in {"pending", "failed"}
    <3>1. Status[c] = StatusAt(cpc[c])
      BY DEF Status, StatusAt
    <3> QED
      BY <3>1, <2>1, <2>3, StatusNames DEF Status
  <2>5. StoreOK /\ StoreOK'
    <3>1. OneServer /\ OneServer'
      BY <1>1, IsOne, PTL
    <3> QED
      BY <3>1, StoreIs, PTL
  <2>6. Store = mem[s]
    BY <2>1, <2>5 DEF StoreOK, Loaded
  <2>7. Store' = Effect(asked[c], mem[s])
    <3>1. PICK m : m = Effect(asked[c], mem[s])
      OBVIOUS
    <3>2. mem'[s] = m /\ spc'[s] = "reply"
      BY <2>1, <3>1, <1>1 DEF TypeOK
    <3> QED
      BY <3>1, <3>2, <2>5 DEF StoreOK, Loaded
  <2>8. PerdbStore!Serve(c)
    BY <2>1, <2>3, <2>4, <2>6, <2>7
    DEF PerdbStore!Serve, PerdbStore!Effect, PerdbStore!Answer, Effect, Answer
  <2> QED
    BY <2>8 DEF PerdbStore!Next
<1> QED
  BY <1>2, <1>3

LEMMA StepRefines ==
  Orderly /\ SInv /\ SInv' /\ [Next]_vars => [PerdbStore!Next]_(PerdbStore!vars)
<1> SUFFICES ASSUME Orderly, SInv, SInv', [Next]_vars
             PROVE  PerdbStore!Next \/ UNCHANGED PerdbStore!vars
  OBVIOUS
<1>1. CASE UNCHANGED vars
  <2>1. UNCHANGED <<cpc, asked, answer, spc, mem, dbfile>>
    BY <1>1 DEF vars, serverVars, clientVars
  <2>2. Status' = Status /\ Store' = Store
    BY <2>1 DEF Status, Store, Loaded
  <2> QED
    BY <2>1, <2>2 DEF PerdbStore!vars
<1>2. CASE Finished
  BY <1>1, <1>2 DEF Finished
<1>3. \A c \in Clients : ~Drop(c)
  BY DEF Orderly, Drop
<1> QED
  BY <1>1, <1>2, <1>3, ClientRefines, ServerRefines DEF Next

LEMMA InitRefines == Init => PerdbStore!Init
<1> SUFFICES ASSUME Init PROVE PerdbStore!Init
  OBVIOUS
<1>1. Store = dbfile
  BY DEF Init, Store, Loaded
<1>2. Status = [c \in Clients |-> "idle"]
  BY DEF Init, Status
<1> QED
  BY <1>1, <1>2 DEF Init, PerdbStore!Init, PerdbStore!DB, DB

\* Orderly servers that start, save, quit, are idle too long and are terminated
\* implement one store: a request is processed at most once, between its being
\* made and its being answered, on the database every earlier request left, and
\* no change of servers loses what a request has done.
THEOREM OneStore == ASSUME Orderly PROVE Spec => ImplementsStore
<1> QED
  BY StoreInit, StoreStep, InitRefines, StepRefines, PTL DEF Spec, ImplementsStore, PerdbStore!Spec

-----------------------------------------------------------------------------
(* What a command has set stays.                                           *)

\* No other command means to change the database.
Undisturbed(c) == \A d \in Clients \ {c} : ~Updates(d)

KeptOf(c) == answer[c] # NoAnswer /\ asked[c].op = "set" /\ Undisturbed(c)
             => Store[asked[c].var] = asked[c].val
Kept == \A c \in Clients : KeptOf(c)

LEMMA StoreType == SInv => Store \in DB
<1> SUFFICES ASSUME SInv PROVE Store \in DB
  OBVIOUS
<1>1. TypeOK /\ StoreOK
  BY IsOne, StoreIs DEF SInv, IInv, TypeInv
<1>2. CASE \E s \in Clients : Loaded(s)
  BY <1>1, <1>2 DEF StoreOK, TypeOK
<1>3. CASE ~\E s \in Clients : Loaded(s)
  BY <1>1, <1>3 DEF StoreOK, TypeOK
<1> QED
  BY <1>2, <1>3

LEMMA EffectFacts ==
  ASSUME NEW r \in Requests, NEW m \in DB
  PROVE  /\ r.op = "set" => Effect(r, m)[r.var] = r.val
         /\ r.op \notin {"set", "init", "del", "reset"} => Effect(r, m) = m
<1>1. r.var \in Vars /\ DOMAIN m = Vars
  BY DEF Requests, DB
<1> QED
  BY <1>1 DEF Effect

LEMMA KeptStep ==
  ASSUME SInv, Kept, PerdbStore!Next \/ UNCHANGED PerdbStore!vars
  PROVE  Kept'
<1>1. /\ Store \in DB /\ answer = [c \in Clients |-> answer[c]]
      /\ asked \in [Clients -> Requests \cup {NoRequest}]
      /\ \A c \in Clients : CommandInv(c) /\ (asked[c] \in Requests \/ cpc[c] = "idle")
  BY StoreType DEF SInv, IInv, TypeInv, TypeOK, AskInv, Commands
<1>2. \A c \in Clients : Status[c] = StatusAt(cpc[c])
  BY DEF Status, StatusAt
<1>3. CASE UNCHANGED <<Store, asked, answer>>
  BY <1>3 DEF Kept, KeptOf, Undisturbed, Updates
<1>4. ASSUME NEW d \in Clients, PerdbStore!Ask(d) PROVE Kept'
  <2>1. /\ Status[d] = "idle" /\ Store' = Store /\ answer' = answer
        /\ \E r \in Asks[d] : asked' = [asked EXCEPT ![d] = r]
    BY <1>4 DEF PerdbStore!Ask
  <2>2. \A c \in Clients \ {d} : asked'[c] = asked[c]
    BY <2>1, <1>1
  <2>3. cpc[d] = "idle"
    BY <2>1, <1>2 DEF StatusAt
  <2>4. answer[d] = NoAnswer /\ ~Updates(d)
    BY <2>3, <1>1 DEF CommandInv, Early, Updates
  <2>5. ASSUME NEW c \in Clients PROVE KeptOf(c)'
    <3>1. CASE c = d
      BY <3>1, <2>1, <2>4 DEF KeptOf
    <3>2. CASE c # d
      <4>1. Undisturbed(c)' => Undisturbed(c)
        BY <3>2, <2>2, <2>4 DEF Undisturbed, Updates
      <4>2. asked'[c] = asked[c] /\ KeptOf(c)
        BY <3>2, <2>2 DEF Kept
      <4> QED
        BY <4>1, <4>2, <2>1 DEF KeptOf
    <3> QED
      BY <3>1, <3>2
  <2> QED
    BY <2>5 DEF Kept
<1>5. ASSUME NEW d \in Clients, PerdbStore!Serve(d) PROVE Kept'
  <2>1. /\ Status[d] \in {"pending", "failed"} /\ asked' = asked
        /\ Store' = Effect(asked[d], Store)
        /\ \A c \in Clients \ {d} : answer'[c] = answer[c]
    BY <1>1, <1>5 DEF PerdbStore!Serve, PerdbStore!Effect, PerdbStore!Answer, Effect, Answer
  <2>2. asked[d] \in Requests
    BY <2>1, <1>1, <1>2 DEF StatusAt
  <2>3. asked[d] # NoRequest
    BY <2>2, AsksAssumption, NamesAssumption
  <2>4. ASSUME NEW c \in Clients PROVE KeptOf(c)'
    <3>1. CASE c = d
      BY <3>1, <2>1, <2>2, <1>1, EffectFacts DEF KeptOf
    <3>2. CASE c # d
      <4>1. Undisturbed(c) => Store' = Store
        BY <3>2, <2>1, <2>2, <2>3, <1>1, EffectFacts DEF Undisturbed, Updates
      <4>2. Undisturbed(c)' = Undisturbed(c)
        BY <2>1 DEF Undisturbed, Updates
      <4> QED
        BY <3>2, <4>1, <4>2, <2>1 DEF KeptOf, Kept
    <3> QED
      BY <3>1, <3>2
  <2> QED
    BY <2>4 DEF Kept
<1>6. ASSUME NEW d \in Clients, PerdbStore!Return(d) \/ PerdbStore!Fail(d) PROVE Kept'
  BY <1>3, <1>6 DEF PerdbStore!Return, PerdbStore!Fail
<1> QED
  BY <1>3, <1>4, <1>5, <1>6 DEF PerdbStore!Next, PerdbStore!vars

\* "The server will save the database in $PERDB.db and exit" (perdb.1) is true
\* of orderly servers: a value set and answered that nobody else meant to
\* change is in the file when the servers are gone.  Of two servers launched
\* together the run perdb_unsaved shows that it is not.
THEOREM SetSurvives == ASSUME Orderly PROVE Spec => []AnsweredSurvives
<1>1. Init => Kept
  BY DEF Init, Kept, KeptOf
<1>2. SInv /\ SInv' /\ Kept /\ [Next]_vars => Kept'
  BY StepRefines, KeptStep
<1>3. SInv /\ Kept => AnsweredSurvives
  <2> SUFFICES ASSUME SInv, Kept, NEW c \in Clients,
                      cpc[c] = "done", asked[c].op = "set", Undisturbed(c),
                      \A s \in Clients : ~Alive(s)
               PROVE  dbfile[asked[c].var] = asked[c].val
    BY DEF AnsweredSurvives, Undisturbed
  <2>1. answer[c] # NoAnswer
    BY DEF SInv, Commands, CommandInv
  <2>2. Store = dbfile
    BY DEF Store, Loaded, Alive
  <2> QED
    BY <2>1, <2>2 DEF Kept, KeptOf
<1> QED
  BY StoreInit, StoreStep, <1>1, <1>2, <1>3, PTL DEF Spec
=============================================================================
