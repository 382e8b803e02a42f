--------------------------- MODULE ConnPool_proofs ---------------------------
(***************************************************************************)
(* For any script, hosts, servers and faults: the books of the pool are    *)
(* true, a command stands for one task, barriers hold.                     *)
(***************************************************************************)
EXTENDS ConnPool, FiniteSetTheorems, SequenceTheorems, WellFoundedInduction, TLAPS

-----------------------------------------------------------------------------
(* What is true of one connection.                                         *)

\* Job id is neither running on the server nor reported in its messages.
Done(link, id)   == \E i \in DOMAIN link.inbox : link.inbox[i].kind = "done" /\ link.inbox[i].id = id
Silent(link, id) == id \notin link.jobs /\ ~Done(link, id)

\* A server runs or has reported a job, once, and no job that has not been made.
LinkOK(link, n) ==
  /\ \A id \in link.jobs : id < n /\ ~Done(link, id)
  /\ \A i \in DOMAIN link.inbox :
       /\ link.inbox[i].kind = "ncpu" => link.inbox[i].n > 0
       /\ link.inbox[i].kind = "done" => link.inbox[i].id < n
  /\ \A i, j \in DOMAIN link.inbox :
       /\ link.inbox[i].kind = "done" /\ link.inbox[j].kind = "done"
       /\ link.inbox[i].id = link.inbox[j].id
       => i = j

Waits(ts) == {it \in DOMAIN ts : Pending(ts[it])}

TasksOK(ts, n) ==
  /\ Len(ts) =< n
  /\ \A it \in DOMAIN ts : ts[it].id < n
  /\ \A i, j \in DOMAIN ts : ts[i].id = ts[j].id => i = j

Sound(c, n) == /\ TasksOK(c.tasks, n) /\ LinkOK(c.link, n)
               /\ c.running = c.launched - c.complete
               /\ c.running = Cardinality(Waits(c.tasks))
               /\ \A it \in DOMAIN c.tasks :
                    ~Pending(c.tasks[it]) => Silent(c.link, c.tasks[it].id)

-----------------------------------------------------------------------------
(* What is true of the commands: q is the next one, a and o are their      *)
(* answers and outcomes, m connections were asked for.                     *)

\* <<ic, it>> is where command p is.
Stands(pl, ic, it, p) == /\ ic \in DOMAIN pl /\ it \in DOMAIN pl[ic].tasks
                         /\ pl[ic].tasks[it].cmd = p /\ ~pl[ic].tasks[it].killed

Alone(pl, p) == \A ic, jc \in DOMAIN pl :
                  \A it \in DOMAIN pl[ic].tasks, jt \in DOMAIN pl[jc].tasks :
                    Stands(pl, ic, it, p) /\ Stands(pl, jc, jt, p) => ic = jc /\ it = jt

Somewhere(pl, p) == \E ic \in DOMAIN pl : \E it \in DOMAIN pl[ic].tasks : Stands(pl, ic, it, p)

\* A task says what has been reported of its command.
Truthful(t, q, a, o) == /\ t.cmd < q
                        /\ t.status = NotFinished <=> a[t.cmd] = 0
                        /\ t.status # NotFinished => t.status = o[t.cmd]

Tracked(pl, q, a, o, m) ==
  /\ \A ic \in DOMAIN pl : \A it \in DOMAIN pl[ic].tasks :
       ~pl[ic].tasks[it].killed => Truthful(pl[ic].tasks[it], q, a, o)
  /\ \A p \in Commands :
       /\ Alone(pl, p)
       /\ p < q /\ pl # <<>> /\ (a[p] = 0 \/ Len(pl) = m) => Somewhere(pl, p)

-----------------------------------------------------------------------------
(* The invariant.                                                          *)

Fates == {"none", "SC_CONN_EXHAUSTED", "SC_NO_CONN", "SC_EXIT_BAD"}

Records == [pool : Seq(Connection), hosts : SUBSET (1..Hosts), njobs : Nat, fate : Fates]

Books(s) == s \in Records /\ \A ic \in DOMAIN s.pool : Sound(s.pool[ic], s.njobs)

Idle(pl) == \A ic \in DOMAIN pl : pl[ic].running = 0

Tried(pl) == \A ic \in DOMAIN pl : pl[ic].restart < RestartLimit

\* The command at pos is the first one, or the first after a barrier.
FirstOfGroup == pos = 1 \/ Script[pos - 1] = Barrier

Phases ==
  /\ phase # "exit" => tries < NHosts /\ Tried(pool)
  /\ phase \in {"launch", "busy"} /\ FirstOfGroup => phase = "launch" /\ Idle(pool)
  /\ phase = "drain" => pos \in DOMAIN Script \ Commands \/ pos = Len(Script) + 1
  /\ phase = "done"  => pos = Len(Script) + 1 /\ Idle(pool)

Unasked == \A p \in Commands : p >= pos => answers[p] = 0

IInv == /\ TypeOK /\ Books(State) /\ Len(pool) =< conns
        /\ Tracked(pool, pos, answers, outcome, conns)
        /\ Unasked /\ Phases /\ BarrierHeld
-----------------------------------------------------------------------------
(* Sequences.                                                              *)

LEMMA SeqPut ==
  ASSUME NEW S, NEW s \in Seq(S), NEW i \in DOMAIN s, NEW e \in S
  PROVE  LET t == [s EXCEPT ![i] = e]
         IN  /\ t \in Seq(S) /\ Len(t) = Len(s) /\ DOMAIN t = DOMAIN s
             /\ \A j \in DOMAIN s : t[j] = IF j = i THEN e ELSE s[j]
OBVIOUS

LEMMA SeqAppend ==
  ASSUME NEW S, NEW s \in Seq(S), NEW e \in S
  PROVE  LET t == Append(s, e)
         IN  /\ t \in Seq(S) /\ Len(t) = Len(s) + 1 /\ DOMAIN t = 1 .. Len(s) + 1
             /\ \A j \in DOMAIN s : t[j] = s[j]
             /\ t[Len(s) + 1] = e
OBVIOUS

LEMMA SeqTail ==
  ASSUME NEW S, NEW s \in Seq(S), s # <<>>
  PROVE  LET t == Tail(s)
         IN  /\ t \in Seq(S) /\ Len(t) = Len(s) - 1 /\ DOMAIN t = 1 .. Len(s) - 1
             /\ \A j \in DOMAIN t : j + 1 \in DOMAIN s /\ t[j] = s[j + 1]
             /\ Head(s) = s[1] /\ 1 \in DOMAIN s
OBVIOUS

LEMMA SeqRemove ==
  ASSUME NEW S, NEW s \in Seq(S), NEW i \in DOMAIN s
  PROVE  LET t == RemoveAt(s, i)
         IN  /\ t \in Seq(S) /\ Len(t) = Len(s) - 1 /\ DOMAIN t = 1 .. Len(s) - 1
             /\ \A j \in DOMAIN t : t[j] = s[IF j < i THEN j ELSE j + 1]
<1>1. PICK n \in Nat : n = Len(s) /\ DOMAIN s = 1 .. n
  BY LenProperties
<1>2. i \in 1 .. n
  BY <1>1
<1>3. PICK a : a = SubSeq(s, 1, i - 1)
  OBVIOUS
<1>4. PICK b : b = SubSeq(s, i + 1, n)
  OBVIOUS
<1>5. a \in Seq(S) /\ Len(a) = i - 1 /\ \A j \in 1 .. i - 1 : a[j] = s[j]
  BY <1>1, <1>2, <1>3, SubSeqProperties
<1>6. b \in Seq(S) /\ Len(b) = n - i /\ \A j \in 1 .. n - i : b[j] = s[i + j]
  BY <1>1, <1>2, <1>4, SubSeqProperties
<1>7. RemoveAt(s, i) = a \o b
  BY <1>1, <1>3, <1>4 DEF RemoveAt
<1>8. /\ a \o b \in Seq(S) /\ Len(a \o b) = Len(a) + Len(b)
      /\ \A j \in 1 .. Len(a) + Len(b) :
           (a \o b)[j] = IF j =< Len(a) THEN a[j] ELSE b[j - Len(a)]
  BY <1>5, <1>6, ConcatProperties
<1>9. ASSUME NEW j \in 1 .. n - 1 PROVE (a \o b)[j] = s[IF j < i THEN j ELSE j + 1]
  <2>1. PICK m \in 1 .. n : m = i
    BY <1>2
  <2>2. Len(a) = m - 1 /\ Len(b) = n - m /\ j \in 1 .. Len(a) + Len(b)
    BY <2>1, <1>5, <1>6
  <2>3. CASE j < m
    <3>1. j \in 1 .. m - 1 /\ j =< Len(a)
      BY <2>2, <2>3
    <3> QED
      BY <3>1, <2>1, <2>2, <2>3, <1>5, <1>8
  <2>4. CASE j >= m
    <3>1. PICK k \in 1 .. n - m : k = j - (m - 1) /\ m + k = j + 1
      BY <2>4
    <3>2. ~(j =< Len(a)) /\ j - Len(a) = k
      BY <2>2, <2>4, <3>1
    <3>3. (a \o b)[j] = b[k]
      BY <3>2, <2>2, <1>8
    <3>4. b[k] = s[j + 1]
      BY <3>1, <2>1, <1>6
    <3> QED
      BY <3>3, <3>4, <2>1, <2>4
  <2>5. j < m \/ j >= m
    OBVIOUS
  <2> QED
    BY <2>3, <2>4, <2>5
<1>10. Len(a \o b) = n - 1 /\ DOMAIN (a \o b) = 1 .. n - 1
  <2>1. PICK m \in 1 .. n : m = i
    BY <1>2
  <2>2. Len(a \o b) = n - 1
    BY <2>1, <1>5, <1>6, <1>8
  <2> QED
    BY <2>2, <1>8, LenProperties
<1> QED
  BY <1>1, <1>7, <1>8, <1>9, <1>10

-----------------------------------------------------------------------------
(* Servers and their messages.                                             *)

\* link d keeps quiet about whatever link c does
Quieter(d, c) == \A id \in Nat : Silent(c, id) => Silent(d, id)

LEMMA Messages ==
  ASSUME NEW m \in Message
  PROVE  /\ m.kind \in {"ncpu", "rstrt", "done"}
         /\ m.kind = "ncpu" => m.n \in Nat
         /\ m.kind = "done" => m.id \in Nat /\ m.st \in {Ok, Failed}
BY DEF Message

LEMMA LinkGrows ==
  ASSUME NEW n \in Nat, NEW m \in Nat, n =< m, NEW link \in Link, LinkOK(link, n)
  PROVE  LinkOK(link, m)
<1>1. \A id \in link.jobs : id \in Nat
  BY DEF Link
<1>2. \A i \in DOMAIN link.inbox : link.inbox[i] \in Message
  BY DEF Link
<1>3. \A i \in DOMAIN link.inbox : link.inbox[i].kind = "done" => link.inbox[i].id \in Nat
  BY <1>2, Messages
<1> QED
  BY <1>1, <1>3 DEF LinkOK

LEMMA NewLink ==
  ASSUME NEW h \in 1..Hosts, NEW n \in Nat
  PROVE  /\ StartedServer(h) \in Link /\ LinkOK(StartedServer(h), n)
         /\ \A id \in Nat : Silent(StartedServer(h), id)
         /\ NoServer \in Link /\ LinkOK(NoServer, n)
         /\ \A id \in Nat : Silent(NoServer, id)
<1>1. PICK k : k = Cpus[h]
  OBVIOUS
<1>2. k \in Nat /\ k > 0
  BY <1>1, PoolAssumption
<1>3. PICK m : m = [kind |-> "ncpu", n |-> k]
  OBVIOUS
<1>4. m \in Message /\ m.kind = "ncpu" /\ m.n = k
  BY <1>2, <1>3 DEF Message
<1>5. PICK q : q = <<m>>
  OBVIOUS
<1>6. q \in Seq(Message) /\ DOMAIN q = {1} /\ q[1] = m
  BY <1>4, <1>5
<1>7. StartedServer(h) = [proc |-> "running", inbox |-> q, jobs |-> {}]
  BY <1>1, <1>3, <1>5 DEF StartedServer
<1>8. PICK s : s = [proc |-> "running", inbox |-> q, jobs |-> {}]
  OBVIOUS
<1>9. s \in Link /\ s.inbox = q /\ s.jobs = {}
  BY <1>6, <1>8 DEF Link
<1>10. LinkOK(s, n) /\ \A id \in Nat : Silent(s, id)
  BY <1>2, <1>4, <1>6, <1>9 DEF LinkOK, Silent, Done
<1>11. NoServer \in Link /\ LinkOK(NoServer, n) /\ \A id \in Nat : Silent(NoServer, id)
  BY DEF NoServer, Link, LinkOK, Silent, Done
<1> QED
  BY <1>7, <1>8, <1>9, <1>10, <1>11

LEMMA SendOK ==
  ASSUME NEW n \in Nat, NEW link \in Link, LinkOK(link, n),
         NEW id \in Nat, id < n, Silent(link, id)
  PROVE  LET d == Send(link, id)
         IN  /\ d \in Link /\ LinkOK(d, n)
             /\ \A k \in Nat : k # id /\ Silent(link, k) => Silent(d, k)
<1>1. CASE link.proc # "running"
  BY <1>1 DEF Send
<1>2. CASE link.proc = "running"
  <2>1. PICK d : d = [link EXCEPT !.jobs = @ \cup {id}]
    OBVIOUS
  <2>2. d \in Link /\ d.inbox = link.inbox /\ d.jobs = link.jobs \cup {id}
    BY <2>1 DEF Link
  <2>3. \A k \in Nat : Done(d, k) <=> Done(link, k)
    BY <2>2 DEF Done
  <2>4. \A k \in link.jobs : k \in Nat
    BY DEF Link
  <2>5. LinkOK(d, n)
    BY <2>2, <2>3, <2>4 DEF LinkOK, Silent
  <2>6. \A k \in Nat : k # id /\ Silent(link, k) => Silent(d, k)
    BY <2>2, <2>3 DEF Silent
  <2> QED
    BY <1>2, <2>1, <2>2, <2>5, <2>6 DEF Send
<1> QED
  BY <1>1, <1>2

\* The first message is read.
ReadLink(link) == [link EXCEPT !.inbox = Tail(@)]

LEMMA ReadOK ==
  ASSUME NEW n \in Nat, NEW link \in Link, LinkOK(link, n), link.inbox # <<>>
  PROVE  LET d == ReadLink(link)
             m == Head(link.inbox)
         IN  /\ d \in Link /\ LinkOK(d, n) /\ Quieter(d, link)
             /\ m \in Message
             /\ m.kind = "ncpu" => m.n > 0
             /\ m.kind = "done" => m.id < n /\ Silent(d, m.id) /\ ~Silent(link, m.id)
<1>1. PICK q : q = link.inbox /\ q \in Seq(Message)
  BY DEF Link
<1>2. PICK t : t = Tail(q)
  OBVIOUS
<1>3. /\ t \in Seq(Message) /\ \A j \in DOMAIN t : j + 1 \in DOMAIN q /\ t[j] = q[j + 1]
      /\ Head(q) = q[1] /\ 1 \in DOMAIN q /\ \A j \in DOMAIN t : j \in Nat /\ j >= 1
  BY <1>1, <1>2, SeqTail
<1>4. PICK d : d = ReadLink(link)
  OBVIOUS
<1>5. d \in Link /\ d.inbox = t /\ d.jobs = link.jobs
  BY <1>1, <1>2, <1>3, <1>4 DEF ReadLink, Link
<1>6. PICK m : m = q[1]
  OBVIOUS
<1>7. m \in Message
  BY <1>1, <1>3, <1>6
<1>8. \A id \in Nat : Done(d, id) => Done(link, id)
  BY <1>1, <1>3, <1>5 DEF Done
<1>9. Quieter(d, link)
  BY <1>5, <1>8 DEF Quieter, Silent
<1>10. \A k \in link.jobs : k \in Nat
  BY DEF Link
<1>11. LinkOK(d, n)
  <2>1. \A id \in d.jobs : id < n /\ ~Done(d, id)
    BY <1>5, <1>8, <1>10 DEF LinkOK
  <2>2. ASSUME NEW i \in DOMAIN t
        PROVE  /\ t[i].kind = "ncpu" => t[i].n > 0
               /\ t[i].kind = "done" => t[i].id < n
    BY <1>1, <1>3 DEF LinkOK
  <2>3. ASSUME NEW i \in DOMAIN t, NEW j \in DOMAIN t,
               t[i].kind = "done", t[j].kind = "done", t[i].id = t[j].id
        PROVE  i = j
    <3>1. i + 1 = j + 1
      BY <2>3, <1>1, <1>3 DEF LinkOK
    <3> QED
      BY <3>1, <1>3
  <2> QED
    BY <2>1, <2>2, <2>3, <1>5 DEF LinkOK
<1>12. ASSUME m.kind = "done" PROVE m.id < n /\ Silent(d, m.id) /\ ~Silent(link, m.id)
  <2>1. m.id < n /\ Done(link, m.id)
    BY <1>12, <1>1, <1>3, <1>6 DEF LinkOK, Done
  <2>2. m.id \notin link.jobs
    BY <2>1 DEF LinkOK
  <2>3. ASSUME NEW j \in DOMAIN t, t[j].kind = "done", t[j].id = m.id PROVE FALSE
    <3>1. 1 = j + 1
      BY <2>3, <1>12, <1>1, <1>3, <1>6 DEF LinkOK
    <3> QED
      BY <3>1, <1>3
  <2> QED
    BY <2>1, <2>2, <2>3, <1>5 DEF Silent, Done
<1>13. m.kind = "ncpu" => m.n > 0
  BY <1>1, <1>3, <1>6 DEF LinkOK
<1> QED
  BY <1>1, <1>3, <1>4, <1>5, <1>6, <1>7, <1>9, <1>11, <1>12, <1>13

\* A server reports a job, announces its restart, or dies.
LEMMA ReportOK ==
  ASSUME NEW n \in Nat, NEW link \in Link, LinkOK(link, n), NEW left \in SUBSET link.jobs,
         NEW m \in Message,
         m.kind = "rstrt" \/ (m.kind = "done" /\ m.id \in link.jobs \ left)
  PROVE  LET d == [link EXCEPT !.jobs = left, !.inbox = Append(@, m)]
         IN  d \in Link /\ LinkOK(d, n) /\ Quieter(d, link)
<1>1. PICK q : q = link.inbox /\ q \in Seq(Message)
  BY DEF Link
<1>2. PICK t : t = Append(q, m)
  OBVIOUS
<1>3. PICK l \in Nat : l = Len(q) /\ DOMAIN q = 1 .. l
  BY <1>1, LenProperties
<1>4. t \in Seq(Message) /\ DOMAIN t = 1 .. l + 1 /\ (\A j \in 1 .. l : t[j] = q[j]) /\ t[l + 1] = m
  BY <1>1, <1>2, <1>3, SeqAppend
<1>5. PICK d : d = [link EXCEPT !.jobs = left, !.inbox = Append(@, m)]
  OBVIOUS
<1>6. d \in Link /\ d.inbox = t /\ d.jobs = left
  BY <1>1, <1>2, <1>4, <1>5 DEF Link
<1>7. \A k \in link.jobs : k \in Nat /\ k < n /\ ~Done(link, k)
  BY DEF Link, LinkOK
<1>8. ASSUME NEW k \in Nat, Done(d, k) PROVE Done(link, k) \/ (m.kind = "done" /\ k = m.id)
  <2>1. PICK j \in 1 .. l + 1 : t[j].kind = "done" /\ t[j].id = k
    BY <1>8, <1>4, <1>6 DEF Done
  <2>2. CASE j = l + 1
    BY <2>1, <2>2, <1>4
  <2>3. CASE j # l + 1
    <3>1. j \in 1 .. l
      BY <2>3
    <3> QED
      BY <3>1, <2>1, <1>1, <1>3, <1>4 DEF Done
  <2> QED
    BY <2>2, <2>3
<1>9. Quieter(d, link)
  BY <1>6, <1>7, <1>8 DEF Quieter, Silent
<1>10. \A j \in 1 .. l : /\ q[j].kind = "ncpu" => q[j].n > 0
                         /\ q[j].kind = "done" => q[j].id < n /\ q[j].id \notin link.jobs
  BY <1>1, <1>3, <1>7 DEF LinkOK, Done
<1>11. ASSUME NEW j \in 1 .. l + 1
       PROVE  /\ t[j].kind = "ncpu" => t[j].n > 0
              /\ t[j].kind = "done" => t[j].id < n
  <2>1. CASE j = l + 1
    BY <2>1, <1>4, <1>7
  <2>2. CASE j # l + 1
    <3>1. j \in 1 .. l
      BY <2>2
    <3> QED
      BY <3>1, <1>4, <1>10
  <2> QED
    BY <2>1, <2>2
<1>12. ASSUME NEW i \in 1 .. l + 1, NEW j \in 1 .. l + 1, i < j,
              t[i].kind = "done", t[j].kind = "done", t[i].id = t[j].id
       PROVE  FALSE
  <2>1. i \in 1 .. l /\ t[i] = q[i]
    BY <1>12, <1>4
  <2>2. CASE j = l + 1
    BY <2>1, <2>2, <1>12, <1>4, <1>10
  <2>3. CASE j # l + 1
    <3>1. j \in 1 .. l /\ t[j] = q[j]
      BY <2>3, <1>4
    <3> QED
      BY <3>1, <2>1, <1>12, <1>1, <1>3 DEF LinkOK
  <2> QED
    BY <2>2, <2>3
<1>13. \A i, j \in 1 .. l + 1 :
         t[i].kind = "done" /\ t[j].kind = "done" /\ t[i].id = t[j].id => i = j
  BY <1>12
<1>14. \A id \in left : id < n /\ ~Done(d, id)
  BY <1>7, <1>8
<1>15. LinkOK(d, n)
  BY <1>4, <1>6, <1>11, <1>13, <1>14 DEF LinkOK
<1> QED
  BY <1>5, <1>6, <1>9, <1>15

LEMMA DieOK ==
  ASSUME NEW n \in Nat, NEW link \in Link, LinkOK(link, n)
  PROVE  LET d == [link EXCEPT !.jobs = {}, !.proc = "dead"]
         IN  d \in Link /\ LinkOK(d, n) /\ Quieter(d, link)
<1>1. PICK d : d = [link EXCEPT !.jobs = {}, !.proc = "dead"]
  OBVIOUS
<1>2. d \in Link /\ d.inbox = link.inbox /\ d.jobs = {}
  BY <1>1 DEF Link
<1>3. \A k \in Nat : Done(d, k) <=> Done(link, k)
  BY <1>2 DEF Done
<1> QED
  BY <1>1, <1>2, <1>3 DEF LinkOK, Quieter, Silent

-----------------------------------------------------------------------------
(* Tasks, and how many of them wait for an answer.                         *)

LEMMA TaskFields ==
  ASSUME NEW t \in Task
  PROVE  /\ t.id \in Nat /\ t.cmd \in Commands /\ t.ia \in 0..NA /\ t.killed \in BOOLEAN
         /\ t.status \in {NotFinished, Ok, Failed} /\ t.retry \in {-1, 0, 1}
BY DEF Task

LEMMA Ids ==
  ASSUME NEW ts \in Seq(Task)
  PROVE  \A it \in DOMAIN ts : ts[it] \in Task /\ ts[it].id \in Nat
BY TaskFields

LEMMA WaitsFinite ==
  ASSUME NEW ts \in Seq(Task)
  PROVE  IsFiniteSet(Waits(ts)) /\ Cardinality(Waits(ts)) \in Nat
<1>1. PICK l \in Nat : l = Len(ts) /\ DOMAIN ts = 1 .. l
  BY LenProperties
<1>2. IsFiniteSet(1 .. l)
  BY FS_Interval
<1>3. Waits(ts) \subseteq 1 .. l
  BY <1>1 DEF Waits
<1> QED
  BY <1>2, <1>3, FS_Subset, FS_CardinalityType

LEMMA PushTask ==
  ASSUME NEW ts \in Seq(Task), NEW t \in Task, Pending(t)
  PROVE  Cardinality(Waits(Append(ts, t))) = Cardinality(Waits(ts)) + 1
<1>1. PICK l \in Nat : l = Len(ts) /\ DOMAIN ts = 1 .. l
  BY LenProperties
<1>2. PICK us : us = Append(ts, t)
  OBVIOUS
<1>3. DOMAIN us = 1 .. l + 1 /\ us[l + 1] = t /\ \A j \in 1 .. l : us[j] = ts[j]
  BY <1>1, <1>2, SeqAppend
<1>4. Waits(us) = Waits(ts) \cup {l + 1}
  BY <1>1, <1>3 DEF Waits
<1>5. l + 1 \notin Waits(ts)
  BY <1>1 DEF Waits
<1> QED
  BY <1>2, <1>4, <1>5, WaitsFinite, FS_AddElement

LEMMA PutTask ==
  ASSUME NEW ts \in Seq(Task), NEW it \in DOMAIN ts, Pending(ts[it]), NEW u \in Task
  PROVE  LET us == [ts EXCEPT ![it] = u]
         IN  /\ Cardinality(Waits(ts)) > 0
             /\ Cardinality(Waits(us)) = IF Pending(u) THEN Cardinality(Waits(ts))
                                         ELSE Cardinality(Waits(ts)) - 1
<1>1. PICK us : us = [ts EXCEPT ![it] = u]
  OBVIOUS
<1>2. DOMAIN us = DOMAIN ts /\ us[it] = u /\ \A j \in DOMAIN ts : j # it => us[j] = ts[j]
  BY <1>1
<1>3. it \in Waits(ts)
  BY DEF Waits
<1>4. PICK m \in Nat : m = Cardinality(Waits(ts))
  BY WaitsFinite
<1>5. m > 0
  BY <1>3, <1>4, WaitsFinite, FS_EmptySet
<1>6. CASE Pending(u)
  <2>1. Waits(us) = Waits(ts)
    BY <1>2, <1>6 DEF Waits
  <2> QED
    BY <2>1, <1>1, <1>4, <1>5, <1>6
<1>7. CASE ~Pending(u)
  <2>1. Waits(us) = Waits(ts) \ {it}
    BY <1>2, <1>7 DEF Waits
  <2>2. Cardinality(Waits(us)) = m - 1
    BY <2>1, <1>3, <1>4, WaitsFinite, FS_RemoveElement
  <2> QED
    BY <2>2, <1>1, <1>4, <1>5, <1>7
<1> QED
  BY <1>6, <1>7

Issued(n, cmd) == [MakeTask(n, cmd) EXCEPT !.ia = 1]

LEMMA IssuedTask ==
  ASSUME NEW n \in Nat, NEW cmd \in Commands
  PROVE  LET t == Issued(n, cmd)
         IN  /\ t \in Task /\ t.id = n /\ t.cmd = cmd /\ ~t.killed
             /\ t.status = NotFinished /\ Pending(t) /\ Unfinished(t)
<1>1. 1 \in 0 .. NA
  BY PoolAssumption
<1>2. PICK m : m = MakeTask(n, cmd)
  OBVIOUS
<1>3. /\ m \in [id : Nat, cmd : Commands, ia : {0}, status : {NotFinished},
                retry : {0}, killed : {FALSE}]
      /\ m.id = n /\ m.cmd = cmd
  BY <1>2 DEF MakeTask
<1>4. PICK t : t = [m EXCEPT !.ia = 1]
  OBVIOUS
<1>5. /\ t \in Task /\ t.id = n /\ t.cmd = cmd /\ t.killed = FALSE
      /\ t.status = NotFinished
  BY <1>1, <1>3, <1>4 DEF Task
<1> QED
  BY <1>2, <1>4, <1>5 DEF Issued, Pending, Unfinished

-----------------------------------------------------------------------------
(* What the operations do to a connection.                                 *)

LEMMA Fields ==
  ASSUME NEW c \in Connection
  PROVE  /\ c.host \in 1..Hosts /\ c.running \in Nat /\ c.launched \in Nat /\ c.complete \in Nat
         /\ c.max \in Nat \ {0} /\ c.lmt \in Nat \ {0} /\ c.restart \in 0..RestartLimit
         /\ c.started \in BOOLEAN /\ c.tasks \in Seq(Task) /\ c.link \in Link
BY DEF Connection

LEMMA SoundGrows ==
  ASSUME NEW n \in Nat, NEW m \in Nat, n =< m, NEW c \in Connection, Sound(c, n)
  PROVE  Sound(c, m)
<1>1. c.tasks \in Seq(Task) /\ c.link \in Link
  BY Fields
<1>2. LinkOK(c.link, m)
  BY <1>1, LinkGrows DEF Sound
<1>3. \A it \in DOMAIN c.tasks : c.tasks[it].id \in Nat
  BY <1>1, Ids
<1>4. Len(c.tasks) \in Nat
  BY <1>1, LenProperties
<1>5. TasksOK(c.tasks, m)
  BY <1>3, <1>4 DEF Sound, TasksOK
<1> QED
  BY <1>2, <1>5 DEF Sound

\* A task that waits for an answer is changed, its link with it.
LEMMA SoundPut ==
  ASSUME NEW n \in Nat, NEW c \in Connection, Sound(c, n),
         NEW it \in DOMAIN c.tasks, Pending(c.tasks[it]),
         NEW u \in Task, u.id = c.tasks[it].id,
         NEW d, d.tasks = [c.tasks EXCEPT ![it] = u], LinkOK(d.link, n),
         \A k \in Nat : k # u.id /\ Silent(c.link, k) => Silent(d.link, k),
         Pending(u) \/ Silent(d.link, u.id),
         d.running = IF Pending(u) THEN c.running ELSE c.running - 1,
         d.running = d.launched - d.complete
  PROVE  Sound(d, n) /\ c.running > 0 /\ d.running \in Nat
<1>1. PICK ts : ts = c.tasks /\ ts \in Seq(Task)
  BY Fields
<1>2. PICK us : us = [ts EXCEPT ![it] = u] /\ us = d.tasks
  BY <1>1
<1>3. /\ us \in Seq(Task) /\ Len(us) = Len(ts) /\ DOMAIN us = DOMAIN ts
      /\ us[it] = u /\ \A j \in DOMAIN ts : j # it => us[j] = ts[j]
  BY <1>1, <1>2, SeqPut
<1>4. \A j \in DOMAIN ts : us[j].id = ts[j].id
  BY <1>1, <1>3
<1>5. TasksOK(us, n)
  BY <1>1, <1>3, <1>4 DEF TasksOK, Sound
<1>6. /\ c.running = Cardinality(Waits(ts)) /\ Cardinality(Waits(ts)) > 0
      /\ Cardinality(Waits(us)) = IF Pending(u) THEN Cardinality(Waits(ts))
                                  ELSE Cardinality(Waits(ts)) - 1
  BY <1>1, <1>2, PutTask DEF Sound
<1>7. PICK m \in Nat : m = Cardinality(Waits(ts))
  BY <1>1, WaitsFinite
<1>8. ASSUME NEW j \in DOMAIN us, ~Pending(us[j]) PROVE Silent(d.link, us[j].id)
  <2>1. CASE j = it
    BY <2>1, <1>8, <1>3
  <2>2. CASE j # it
    <3>1. ts[j].id # u.id
      BY <2>2, <1>1, <1>3, <1>8 DEF Sound, TasksOK
    <3>2. us[j] = ts[j] /\ Silent(c.link, ts[j].id)
      BY <2>2, <1>1, <1>3, <1>8 DEF Sound
    <3>3. ts[j].id \in Nat
      BY <1>1, <1>3, <1>8, Ids
    <3> QED
      BY <3>1, <3>2, <3>3
  <2> QED
    BY <2>1, <2>2
<1>9. c.running > 0 /\ d.running \in Nat /\ d.running = Cardinality(Waits(us))
  BY <1>6, <1>7
<1> QED
  BY <1>2, <1>5, <1>8, <1>9 DEF Sound

\* What a connection is after PoolJob, Withdraw, and the end of a job.
Took(c, n, cmd) == [c EXCEPT !.tasks = Append(@, Issued(n, cmd)), !.running = @ + 1,
                             !.launched = @ + 1, !.link = Send(@, n)]

PutTaskIn(c, it, u) == [c.tasks EXCEPT ![it] = u]

Killed(t)      == [t EXCEPT !.killed = TRUE]
Finished(t, st) == [t EXCEPT !.status = st, !.retry = Retry(t, st)]
Again(t, st)   == [t EXCEPT !.status = st, !.retry = 1, !.ia = @ + 1]

Gone(c, it) ==
  [c EXCEPT !.tasks = PutTaskIn(c, it, Killed(c.tasks[it])),
            !.complete = @ + 1, !.running = @ - 1]

Ended(c, it, st, l) ==
  [c EXCEPT !.tasks = PutTaskIn(c, it, Finished(c.tasks[it], st)),
            !.lmt = l, !.complete = @ + 1, !.running = @ - 1]

Retried(c, it, st, l) ==
  [c EXCEPT !.tasks = PutTaskIn(c, it, Again(c.tasks[it], st)),
            !.lmt = l, !.link = Send(@, c.tasks[it].id)]

LEMMA TookSound ==
  ASSUME NEW n \in Nat, NEW c \in Connection, Sound(c, n), NEW cmd \in Commands
  PROVE  LET d == Took(c, n, cmd)
         IN  /\ d \in Connection /\ Sound(d, n + 1)
             /\ d.tasks = Append(c.tasks, Issued(n, cmd)) /\ d.restart = c.restart
             /\ \A k \in Nat : k # n /\ Silent(c.link, k) => Silent(d.link, k)
<1>1. PICK ts : ts = c.tasks /\ ts \in Seq(Task)
  BY Fields
<1>2. PICK t : t = Issued(n, cmd)
  OBVIOUS
<1>3. t \in Task /\ t.id = n /\ Pending(t)
  BY <1>2, IssuedTask
<1>4. PICK us : us = Append(ts, t)
  OBVIOUS
<1>5. PICK l \in Nat : l = Len(ts) /\ DOMAIN ts = 1 .. l
  BY <1>1, LenProperties
<1>6. /\ us \in Seq(Task) /\ Len(us) = l + 1 /\ DOMAIN us = 1 .. l + 1
      /\ us[l + 1] = t /\ \A j \in 1 .. l : us[j] = ts[j]
  BY <1>1, <1>3, <1>4, <1>5, SeqAppend
<1>7. PICK k : k = c.link /\ k \in Link /\ LinkOK(k, n)
  BY Fields DEF Sound
<1>8. LinkOK(k, n + 1) /\ Silent(k, n)
  <2>1. \A i \in k.jobs : i \in Nat
    BY <1>7 DEF Link
  <2>2. ~Done(k, n)
    <3>1. \A i \in DOMAIN k.inbox : k.inbox[i].kind = "done" => k.inbox[i].id # n
      <4>1. \A i \in DOMAIN k.inbox : k.inbox[i] \in Message
        BY <1>7 DEF Link
      <4>2. \A i \in DOMAIN k.inbox : k.inbox[i].kind = "done" => k.inbox[i].id \in Nat
        BY <4>1, Messages
      <4> QED
        BY <4>2, <1>7 DEF LinkOK
    <3> QED
      BY <3>1 DEF Done
  <2>3. n \notin k.jobs
    BY <2>1, <1>7 DEF LinkOK
  <2>4. n + 1 \in Nat /\ n =< n + 1
    OBVIOUS
  <2> QED
    BY <2>2, <2>3, <2>4, <1>7, LinkGrows DEF Silent
<1>9. PICK e : e = Send(k, n)
  OBVIOUS
<1>10. e \in Link /\ LinkOK(e, n + 1) /\ \A i \in Nat : i # n /\ Silent(k, i) => Silent(e, i)
  BY <1>7, <1>8, <1>9, SendOK
<1>11. PICK d : d = Took(c, n, cmd)
  OBVIOUS
<1>12. /\ d = [c EXCEPT !.tasks = us, !.running = c.running + 1,
                        !.launched = c.launched + 1, !.link = e]
       /\ d \in Connection /\ d.tasks = us /\ d.link = e /\ d.restart = c.restart
       /\ d.running = c.running + 1 /\ d.launched = c.launched + 1 /\ d.complete = c.complete
  <2>1. d = [c EXCEPT !.tasks = us, !.running = c.running + 1,
                      !.launched = c.launched + 1, !.link = e]
    BY <1>1, <1>2, <1>4, <1>7, <1>9, <1>11 DEF Took, Connection
  <2>2. c.running + 1 \in Nat /\ c.launched + 1 \in Nat
    BY Fields
  <2> QED
    BY <2>1, <2>2, <1>6, <1>10 DEF Connection
<1>13. TasksOK(us, n + 1)
  <2>1. \A j \in 1 .. l : ts[j].id \in Nat /\ ts[j].id < n
    BY <1>1, <1>5, Ids DEF Sound, TasksOK
  <2>2. \A j \in 1 .. l + 1 : j = l + 1 \/ j \in 1 .. l
    OBVIOUS
  <2>3. l =< n
    BY <1>1, <1>5 DEF Sound, TasksOK
  <2>4. \A j \in 1 .. l + 1 : us[j].id < n + 1 /\ (us[j].id = n => j = l + 1)
    BY <2>1, <2>2, <1>3, <1>6
  <2>5. \A i, j \in 1 .. l + 1 : us[i].id = us[j].id => i = j
    <3>1. \A i, j \in 1 .. l : ts[i].id = ts[j].id => i = j
      BY <1>1, <1>5 DEF Sound, TasksOK
    <3> QED
      BY <3>1, <2>2, <2>4, <1>3, <1>6
  <2> QED
    BY <2>3, <2>4, <2>5, <1>6 DEF TasksOK
<1>14. c.running = Cardinality(Waits(ts)) /\ c.running \in Nat
       /\ Cardinality(Waits(us)) = Cardinality(Waits(ts)) + 1
  BY <1>1, <1>3, <1>4, PushTask, Fields DEF Sound
<1>15. ASSUME NEW j \in DOMAIN us, ~Pending(us[j]) PROVE Silent(e, us[j].id)
  <2>1. j \in 1 .. l /\ us[j] = ts[j]
    BY <1>15, <1>3, <1>6
  <2>2. Silent(k, ts[j].id) /\ ts[j].id \in Nat /\ ts[j].id < n
    BY <2>1, <1>15, <1>1, <1>5, <1>7, Ids DEF Sound, TasksOK
  <2> QED
    BY <2>1, <2>2, <1>10
<1>16. d.running = d.launched - d.complete
  <2>1. c.running \in Nat /\ c.launched \in Nat /\ c.complete \in Nat
    BY Fields
  <2> QED
    BY <2>1, <1>12 DEF Sound
<1>17. Sound(d, n + 1)
  BY <1>10, <1>12, <1>13, <1>14, <1>15, <1>16 DEF Sound
<1> QED
  BY <1>1, <1>2, <1>4, <1>7, <1>10, <1>11, <1>12, <1>17

LEMMA GoneSound ==
  ASSUME NEW n \in Nat, NEW c \in Connection, Sound(c, n), NEW it \in DOMAIN c.tasks,
         Pending(c.tasks[it]), Silent(c.link, c.tasks[it].id)
  PROVE  LET d == Gone(c, it)
         IN  /\ d \in Connection /\ Sound(d, n)
             /\ d.tasks = PutTaskIn(c, it, Killed(c.tasks[it]))
             /\ d.restart = c.restart /\ d.link = c.link
<1>1. PICK ts : ts = c.tasks /\ ts \in Seq(Task)
  BY Fields
<1>2. PICK u : u = Killed(ts[it])
  OBVIOUS
<1>3. ts[it] \in Task
  BY <1>1
<1>4. u \in Task /\ u.id = ts[it].id /\ u.killed = TRUE
  BY <1>2, <1>3 DEF Killed, Task
<1>5. ~Pending(u)
  BY <1>4 DEF Pending
<1>6. PICK us : us = [ts EXCEPT ![it] = u] /\ us = PutTaskIn(c, it, u)
  BY <1>1 DEF PutTaskIn
<1>7. us \in Seq(Task)
  BY <1>1, <1>4, <1>6, SeqPut
<1>8. PICK d : d = Gone(c, it)
  OBVIOUS
<1>9. /\ d = [c EXCEPT !.tasks = us, !.complete = c.complete + 1, !.running = c.running - 1]
      /\ d.tasks = us /\ d.running = c.running - 1 /\ d.complete = c.complete + 1
      /\ d.launched = c.launched /\ d.link = c.link /\ d.restart = c.restart
  <2>1. d = [c EXCEPT !.tasks = us, !.complete = c.complete + 1, !.running = c.running - 1]
    BY <1>1, <1>2, <1>6, <1>8 DEF Gone, Connection
  <2> QED
    BY <2>1 DEF Connection
<1>10. d.running = d.launched - d.complete
  <2>1. c.running \in Nat /\ c.launched \in Nat /\ c.complete \in Nat
    BY Fields
  <2> QED
    BY <2>1, <1>9 DEF Sound
<1>11. LinkOK(d.link, n)
  BY <1>9 DEF Sound
<1>12. Sound(d, n) /\ d.running \in Nat
  <2>1. Silent(d.link, u.id) /\ \A k \in Nat : k # u.id /\ Silent(c.link, k) => Silent(d.link, k)
    BY <1>1, <1>4, <1>9
  <2>2. d.running = IF Pending(u) THEN c.running ELSE c.running - 1
    BY <1>5, <1>9
  <2>3. d.tasks = [c.tasks EXCEPT ![it] = u] /\ u.id = c.tasks[it].id
    BY <1>1, <1>4, <1>6, <1>9
  <2> QED
    BY <2>1, <2>2, <2>3, <1>4, <1>10, <1>11, SoundPut
<1>13. d \in Connection
  <2>1. c.complete + 1 \in Nat /\ c.running - 1 \in Nat
    BY <1>9, <1>12, Fields
  <2> QED
    BY <2>1, <1>7, <1>9 DEF Connection
<1> QED
  BY <1>1, <1>2, <1>6, <1>8, <1>9, <1>12, <1>13

\* A job has been reported done and will not be tried again.
LEMMA EndedSound ==
  ASSUME NEW n \in Nat, NEW c \in Connection, Sound(c, n), NEW it \in DOMAIN c.tasks,
         Pending(c.tasks[it]), Silent(c.link, c.tasks[it].id),
         NEW st \in {Ok, Failed}, Retry(c.tasks[it], st) # 1, NEW l \in Nat \ {0}
  PROVE  LET d == Ended(c, it, st, l)
             t == c.tasks[it]
         IN  /\ d \in Connection /\ Sound(d, n) /\ d.restart = c.restart
             /\ d.tasks = PutTaskIn(c, it, Finished(t, st))
<1>1. PICK ts : ts = c.tasks /\ ts \in Seq(Task)
  BY Fields
<1>2. PICK r : r = Retry(ts[it], st)
  OBVIOUS
<1>3. r \in {-1, 0, 1} /\ r # 1
  BY <1>1, <1>2 DEF Retry
<1>4. PICK u : u = Finished(ts[it], st)
  OBVIOUS
<1>5. ts[it] \in Task
  BY <1>1
<1>6. u \in Task /\ u.id = ts[it].id /\ u.status = st /\ u.retry = r
  BY <1>2, <1>3, <1>4, <1>5 DEF Finished, Task
<1>7. ~Pending(u)
  BY <1>3, <1>6 DEF Pending, Ok, Failed, NotFinished
<1>8. PICK us : us = [ts EXCEPT ![it] = u] /\ us = PutTaskIn(c, it, u)
  BY <1>1 DEF PutTaskIn
<1>9. us \in Seq(Task)
  BY <1>1, <1>6, <1>8, SeqPut
<1>10. PICK d : d = Ended(c, it, st, l)
  OBVIOUS
<1>11. /\ d = [c EXCEPT !.tasks = us, !.lmt = l, !.complete = c.complete + 1, !.running = c.running - 1]
       /\ d.tasks = us /\ d.running = c.running - 1 /\ d.complete = c.complete + 1
       /\ d.launched = c.launched /\ d.link = c.link /\ d.restart = c.restart
  <2>1. d = [c EXCEPT !.tasks = us, !.lmt = l, !.complete = c.complete + 1, !.running = c.running - 1]
    BY <1>1, <1>2, <1>4, <1>8, <1>10 DEF Ended, Connection
  <2> QED
    BY <2>1 DEF Connection
<1>12. d.running = d.launched - d.complete
  <2>1. c.running \in Nat /\ c.launched \in Nat /\ c.complete \in Nat
    BY Fields
  <2> QED
    BY <2>1, <1>11 DEF Sound
<1>13. LinkOK(d.link, n)
  BY <1>11 DEF Sound
<1>14. Sound(d, n) /\ d.running \in Nat
  <2>1. Silent(d.link, u.id) /\ \A k \in Nat : k # u.id /\ Silent(c.link, k) => Silent(d.link, k)
    BY <1>1, <1>6, <1>11
  <2>2. d.running = IF Pending(u) THEN c.running ELSE c.running - 1
    BY <1>7, <1>11
  <2>3. d.tasks = [c.tasks EXCEPT ![it] = u] /\ u.id = c.tasks[it].id
    BY <1>1, <1>6, <1>8, <1>11
  <2>4. u \in Task /\ Pending(c.tasks[it])
    BY <1>6
  <2> QED
    BY <2>1, <2>2, <2>3, <2>4, <1>12, <1>13, SoundPut
<1>15. d \in Connection
  <2>1. c.complete + 1 \in Nat /\ c.running - 1 \in Nat
    BY <1>11, <1>14, Fields
  <2> QED
    BY <2>1, <1>9, <1>11 DEF Connection
<1> QED
  BY <1>1, <1>2, <1>4, <1>8, <1>10, <1>11, <1>14, <1>15

\* It will be tried again.
LEMMA RetriedSound ==
  ASSUME NEW n \in Nat, NEW c \in Connection, Sound(c, n), NEW it \in DOMAIN c.tasks,
         Pending(c.tasks[it]), Silent(c.link, c.tasks[it].id),
         NEW st \in {Ok, Failed}, Retry(c.tasks[it], st) = 1, NEW l \in Nat \ {0}
  PROVE  LET d == Retried(c, it, st, l)
             t == c.tasks[it]
         IN  /\ d \in Connection /\ Sound(d, n) /\ d.restart = c.restart
             /\ d.tasks = PutTaskIn(c, it, Again(t, st))
<1>1. PICK ts : ts = c.tasks /\ ts \in Seq(Task)
  BY Fields
<1>2. PICK t \in Task : t = ts[it]
  BY <1>1
<1>3. t.ia < NA /\ t.ia \in 0..NA
  <2>1. t.ia < NA
    BY <1>1, <1>2 DEF Retry
  <2> QED
    BY <2>1, TaskFields
<1>4. PICK u : u = Again(t, st)
  OBVIOUS
<1>5. t.ia + 1 \in 0..NA
  BY <1>3, PoolAssumption
<1>6. u \in Task /\ u.id = t.id /\ u.retry = 1 /\ u.killed = t.killed
  BY <1>4, <1>5 DEF Again, Task
<1>7. Pending(u)
  BY <1>1, <1>2, <1>6 DEF Pending
<1>8. PICK us : us = [ts EXCEPT ![it] = u] /\ us = PutTaskIn(c, it, u)
  BY <1>1 DEF PutTaskIn
<1>9. us \in Seq(Task)
  BY <1>1, <1>6, <1>8, SeqPut
<1>10. PICK e : e = Send(c.link, t.id)
  OBVIOUS
<1>11. e \in Link /\ LinkOK(e, n) /\ \A k \in Nat : k # t.id /\ Silent(c.link, k) => Silent(e, k)
  <2>1. t.id \in Nat /\ t.id < n
    BY <1>1, <1>2, TaskFields DEF Sound, TasksOK
  <2>2. c.link \in Link /\ LinkOK(c.link, n)
    BY Fields DEF Sound
  <2>3. Silent(c.link, t.id)
    BY <1>1, <1>2
  <2> QED
    BY <2>1, <2>2, <2>3, <1>10, SendOK
<1>12. PICK d : d = Retried(c, it, st, l)
  OBVIOUS
<1>13. /\ d = [c EXCEPT !.tasks = us, !.lmt = l, !.link = e]
       /\ d.tasks = us /\ d.running = c.running /\ d.complete = c.complete
       /\ d.launched = c.launched /\ d.link = e /\ d.restart = c.restart
  <2>1. d = [c EXCEPT !.tasks = us, !.lmt = l, !.link = e]
    BY <1>1, <1>2, <1>4, <1>8, <1>10, <1>12 DEF Retried, Connection
  <2> QED
    BY <2>1 DEF Connection
<1>14. d.running = d.launched - d.complete
  BY <1>13 DEF Sound
<1>15. Sound(d, n)
  <2>1. LinkOK(d.link, n) /\ \A k \in Nat : k # u.id /\ Silent(c.link, k) => Silent(d.link, k)
    BY <1>6, <1>11, <1>13
  <2>2. d.running = IF Pending(u) THEN c.running ELSE c.running - 1
    BY <1>7, <1>13
  <2>3. d.tasks = [c.tasks EXCEPT ![it] = u] /\ u.id = c.tasks[it].id
    BY <1>1, <1>2, <1>6, <1>8, <1>13
  <2> QED
    BY <2>1, <2>2, <2>3, <1>6, <1>7, <1>14, SoundPut
<1>16. d \in Connection
  BY <1>9, <1>11, <1>13 DEF Connection
<1> QED
  BY <1>1, <1>2, <1>4, <1>8, <1>12, <1>13, <1>15, <1>16

\* Only the link changes, or what a connection is counted by.
LEMMA LinkedSound ==
  ASSUME NEW n \in Nat, NEW c \in Connection, Sound(c, n), NEW d,
         d.tasks = c.tasks, d.running = c.running, LinkOK(d.link, n), Quieter(d.link, c.link),
         d.running = d.launched - d.complete
  PROVE  Sound(d, n)
<1>1. \A it \in DOMAIN c.tasks : c.tasks[it].id \in Nat
  BY Fields, Ids
<1> QED
  BY <1>1 DEF Sound, Quieter

-----------------------------------------------------------------------------
(* What the operations do to the pool.                                     *)

Put(s, ic, c) == [s EXCEPT !.pool = [s.pool EXCEPT ![ic] = c]]

\* t is s but for connection ic, which is c.
Changed(t, s, ic, c) ==
  /\ t \in Records /\ t.hosts = s.hosts /\ t.njobs = s.njobs /\ t.fate = s.fate
  /\ Len(t.pool) = Len(s.pool) /\ DOMAIN t.pool = DOMAIN s.pool
  /\ t.pool = [s.pool EXCEPT ![ic] = c] /\ t.pool[ic] = c
  /\ \A lc \in DOMAIN s.pool : lc # ic => t.pool[lc] = s.pool[lc]

LEMMA PutIs ==
  ASSUME NEW s \in Records, NEW ic \in DOMAIN s.pool, NEW c \in Connection
  PROVE  Changed(Put(s, ic, c), s, ic, c)
<1>1. PICK p : p = s.pool /\ p \in Seq(Connection)
  BY DEF Records
<1>2. PICK q : q = [p EXCEPT ![ic] = c]
  OBVIOUS
<1>3. /\ q \in Seq(Connection) /\ Len(q) = Len(p) /\ DOMAIN q = DOMAIN p
      /\ q[ic] = c /\ \A lc \in DOMAIN p : lc # ic => q[lc] = p[lc]
  BY <1>1, <1>2, SeqPut
<1>4. PICK t : t = Put(s, ic, c)
  OBVIOUS
<1>5. t \in Records /\ t.pool = q /\ t.hosts = s.hosts /\ t.njobs = s.njobs /\ t.fate = s.fate
  BY <1>1, <1>2, <1>3, <1>4 DEF Put, Records
<1> QED
  BY <1>1, <1>2, <1>3, <1>4, <1>5 DEF Changed

LEMMA WithdrawIs ==
  ASSUME NEW s \in Records, NEW ic \in DOMAIN s.pool, NEW it \in DOMAIN s.pool[ic].tasks
  PROVE  Withdraw(s, ic, it) = Put(s, ic, Gone(s.pool[ic], it))
BY DEF Withdraw, Put, Gone, PutTaskIn, Killed, Records

Started(t) == [t EXCEPT !.ia = @ + 1]

Execd(c, it) == [c EXCEPT !.tasks = PutTaskIn(c, it, Started(c.tasks[it])),
                          !.running = @ + 1, !.link = Send(@, c.tasks[it].id)]

LEMMA ExecJobIs ==
  ASSUME NEW s \in Records, NEW ic \in DOMAIN s.pool, NEW it \in DOMAIN s.pool[ic].tasks
  PROVE  ExecJob(s, ic, it) = Put(s, ic, Execd(s.pool[ic], it))
BY DEF ExecJob, Put, Execd, PutTaskIn, Started, Records

LEMMA PoolJobIs ==
  ASSUME NEW s \in Records, NEW ic \in DOMAIN s.pool, NEW cmd \in Commands,
         Took(s.pool[ic], s.njobs, cmd) \in Connection
  PROVE  LET t == PoolJob(s, ic, cmd)
         IN  /\ t \in Records /\ t.hosts = s.hosts /\ t.fate = s.fate /\ t.njobs = s.njobs + 1
             /\ t.pool = [s.pool EXCEPT ![ic] = Took(s.pool[ic], s.njobs, cmd)]
<1>1. PICK n \in Nat : n = s.njobs
  BY DEF Records
<1>2. PICK c \in Connection : c = s.pool[ic]
  BY DEF Records
<1>3. PICK m : m = MakeTask(n, cmd)
  OBVIOUS
<1>4. m \in Task /\ m.id = n
  <2>1. 0 \in 0..NA
    BY PoolAssumption
  <2> QED
    BY <1>3, <2>1 DEF MakeTask, Task
<1>5. PICK c1 : c1 = [c EXCEPT !.tasks = Append(@, m)]
  OBVIOUS
<1>6. PICK us : us = Append(c.tasks, m)
  OBVIOUS
<1>7. PICK l \in Nat : l = Len(c.tasks) + 1
  BY Fields, LenProperties
<1>8. us \in Seq(Task) /\ Len(us) = l /\ l \in DOMAIN us /\ us[l] = m
  BY <1>4, <1>6, <1>7, Fields, SeqAppend
<1>9. c1 \in Connection /\ c1.tasks = us /\ c1.running = c.running /\ c1.link = c.link
      /\ c1.launched = c.launched
  BY <1>5, <1>6, <1>8 DEF Connection
<1>10. PICK p : p = [s EXCEPT !.njobs = @ + 1, !.pool[ic].tasks = Append(@, MakeTask(s.njobs, cmd))]
  OBVIOUS
<1>11. /\ p \in Records /\ p.njobs = n + 1 /\ p.hosts = s.hosts /\ p.fate = s.fate
       /\ p.pool = [s.pool EXCEPT ![ic] = c1] /\ p.pool[ic] = c1 /\ ic \in DOMAIN p.pool
  <2>1. p = [Put(s, ic, c1) EXCEPT !.njobs = n + 1]
    BY <1>1, <1>2, <1>3, <1>5, <1>10 DEF Put, Records
  <2>2. PICK q : q = Put(s, ic, c1)
    OBVIOUS
  <2>3. /\ q \in Records /\ q.hosts = s.hosts /\ q.fate = s.fate
        /\ q.pool = [s.pool EXCEPT ![ic] = c1] /\ q.pool[ic] = c1 /\ ic \in DOMAIN q.pool
    BY <2>2, <1>9, PutIs DEF Changed
  <2>4. p = [q EXCEPT !.njobs = n + 1] /\ n + 1 \in Nat
    BY <2>1, <2>2
  <2>5. p \in Records /\ p.njobs = n + 1 /\ p.hosts = q.hosts /\ p.fate = q.fate /\ p.pool = q.pool
    BY <2>3, <2>4 DEF Records
  <2> QED
    BY <2>3, <2>5
<1>12. PICK q : q = ExecJob(p, ic, Len(p.pool[ic].tasks))
  OBVIOUS
<1>13. PICK c2 : c2 = Execd(c1, l)
  OBVIOUS
<1>14. q = Put(p, ic, c2)
  BY <1>8, <1>9, <1>11, <1>12, <1>13, ExecJobIs
<1>15. PICK t : t = Started(m)
  OBVIOUS
<1>16. t = Issued(n, cmd) /\ t \in Task
  <2>1. m.ia + 1 = 1
    BY <1>3 DEF MakeTask
  <2>2. t = Issued(n, cmd)
    BY <2>1, <1>3, <1>15 DEF Started, Issued
  <2> QED
    BY <2>2, IssuedTask
<1>17. PICK vs : vs = Append(c.tasks, t)
  OBVIOUS
<1>18. vs \in Seq(Task) /\ [us EXCEPT ![l] = t] = vs
  <2>1. vs \in Seq(Task)
    BY <1>16, <1>17, Fields, SeqAppend
  <2>2. \A j \in DOMAIN c.tasks : j \in 1 .. l - 1 /\ j # l
    BY <1>7, Fields, LenProperties
  <2>3. c.tasks \in Seq(Task)
    BY Fields
  <2>4. PICK w : w = [us EXCEPT ![l] = t]
    OBVIOUS
  <2>5. /\ w \in Seq(Task) /\ Len(w) = l /\ w[l] = t
        /\ \A j \in DOMAIN c.tasks : w[j] = us[j] /\ us[j] = c.tasks[j]
    <3>1. /\ w \in Seq(Task) /\ Len(w) = l /\ w[l] = t
          /\ \A j \in DOMAIN us : j # l => w[j] = us[j]
      BY <2>4, <1>8, <1>16, SeqPut
    <3>2. DOMAIN us = 1 .. l /\ \A j \in DOMAIN c.tasks : us[j] = c.tasks[j]
      BY <2>3, <1>4, <1>6, <1>7, SeqAppend
    <3>3. \A j \in 1 .. l - 1 : j \in 1 .. l
      OBVIOUS
    <3> QED
      BY <3>1, <3>2, <3>3, <2>2
  <2>6. Len(vs) = l /\ vs[l] = t /\ \A j \in DOMAIN c.tasks : vs[j] = c.tasks[j]
    BY <2>3, <1>7, <1>16, <1>17, SeqAppend
  <2>7. \A j \in 1 .. l : j = l \/ j \in DOMAIN c.tasks
    BY <2>3, <1>7, LenProperties
  <2>8. w = vs
    BY <2>1, <2>5, <2>6, <2>7, SeqEqual
  <2> QED
    BY <2>1, <2>4, <2>8
<1>19. PICK e : e = Send(c.link, n)
  OBVIOUS
<1>20. c2 = [c1 EXCEPT !.tasks = vs, !.running = c.running + 1, !.link = e]
  BY <1>4, <1>8, <1>9, <1>13, <1>15, <1>18, <1>19 DEF Execd, PutTaskIn, Connection
<1>21. PICK d : d = Took(c, n, cmd)
  OBVIOUS
<1>22. d = [c EXCEPT !.tasks = vs, !.running = c.running + 1, !.launched = c.launched + 1, !.link = e]
  BY <1>16, <1>17, <1>19, <1>21 DEF Took, Connection
<1>23. [c2 EXCEPT !.launched = @ + 1] = d
  BY <1>5, <1>9, <1>20, <1>22 DEF Connection
<1>24. PoolJob(s, ic, cmd) = [q EXCEPT !.pool[ic].launched = @ + 1]
  BY <1>10, <1>12 DEF PoolJob
<1>25. PICK r : r = [q EXCEPT !.pool[ic].launched = @ + 1]
  OBVIOUS
<1>26. r.pool = [s.pool EXCEPT ![ic] = d] /\ r.njobs = n + 1 /\ r.hosts = s.hosts /\ r.fate = s.fate
       /\ r = [pool |-> r.pool, hosts |-> r.hosts, njobs |-> r.njobs, fate |-> r.fate]
  <2>1. q.pool = [p.pool EXCEPT ![ic] = c2] /\ q.njobs = p.njobs /\ q.hosts = p.hosts /\ q.fate = p.fate
        /\ q = [pool |-> q.pool, hosts |-> q.hosts, njobs |-> q.njobs, fate |-> q.fate]
    BY <1>14, <1>11 DEF Put, Records
  <2>2. q.pool[ic] = c2
    BY <2>1, <1>11
  <2>3. r.pool = [q.pool EXCEPT ![ic] = d] /\ r.njobs = q.njobs /\ r.hosts = q.hosts /\ r.fate = q.fate
        /\ r = [pool |-> r.pool, hosts |-> r.hosts, njobs |-> r.njobs, fate |-> r.fate]
    BY <2>1, <2>2, <1>23, <1>25
  <2> QED
    BY <2>1, <2>3, <1>11
<1>27. r.pool \in Seq(Connection)
  <2>1. s.pool \in Seq(Connection)
    BY DEF Records
  <2> QED
    BY <2>1, <1>1, <1>2, <1>21, <1>26, SeqPut
<1>28. r \in Records
  <2>1. s.hosts \in SUBSET (1..Hosts) /\ s.fate \in Fates
    BY DEF Records
  <2> QED
    BY <2>1, <1>26, <1>27 DEF Records
<1> QED
  BY <1>1, <1>2, <1>21, <1>24, <1>25, <1>26, <1>28

-----------------------------------------------------------------------------
(* A task of connection ic is withdrawn and made again with lc.            *)

Give(s, ic, it, lc) == PoolJob(Withdraw(s, ic, it), lc, s.pool[ic].tasks[it].cmd)

\* ql is pl after that: u is the new task.
Handed(pl, ql, ic, it, lc, u) ==
  /\ DOMAIN ql = DOMAIN pl
  /\ \A jc \in DOMAIN pl : \A jt \in DOMAIN pl[jc].tasks :
       /\ jt \in DOMAIN ql[jc].tasks
       /\ ql[jc].tasks[jt] = IF jc = ic /\ jt = it THEN Killed(pl[ic].tasks[it])
                             ELSE pl[jc].tasks[jt]
  /\ \E at \in DOMAIN ql[lc].tasks :
       /\ ql[lc].tasks[at] = u
       /\ \A jc \in DOMAIN pl : \A jt \in DOMAIN ql[jc].tasks :
            jt \in DOMAIN pl[jc].tasks \/ (jc = lc /\ jt = at)

LEMMA Killing ==
  ASSUME NEW t \in Task
  PROVE  Killed(t) \in Task /\ Killed(t).id = t.id /\ Killed(t).killed /\ ~Unfinished(Killed(t))
BY DEF Killed, Task, Unfinished

\* t is s after that.
Given(t, s, ic, it, lc) ==
  /\ Books(t) /\ t.hosts = s.hosts /\ t.fate = s.fate /\ t.njobs = s.njobs + 1
  /\ Len(t.pool) = Len(s.pool)
  /\ Handed(s.pool, t.pool, ic, it, lc, Issued(s.njobs, s.pool[ic].tasks[it].cmd))
  /\ lc # ic => DOMAIN t.pool[ic].tasks = DOMAIN s.pool[ic].tasks
  /\ \A jc \in DOMAIN s.pool :
       /\ t.pool[jc].restart = s.pool[jc].restart
       /\ \A k \in Nat : k # s.njobs /\ Silent(s.pool[jc].link, k)
                        => Silent(t.pool[jc].link, k)

LEMMA GiveBooks ==
  ASSUME NEW s, Books(s), NEW ic \in DOMAIN s.pool, NEW lc \in DOMAIN s.pool,
         NEW it \in DOMAIN s.pool[ic].tasks, Unfinished(s.pool[ic].tasks[it]),
         Silent(s.pool[ic].link, s.pool[ic].tasks[it].id)
  PROVE  Given(Give(s, ic, it, lc), s, ic, it, lc)
<1>1. s \in Records /\ \A jc \in DOMAIN s.pool : Sound(s.pool[jc], s.njobs)
  BY DEF Books
<1>2. PICK n \in Nat : n = s.njobs
  BY <1>1 DEF Records
<1>3. \A jc \in DOMAIN s.pool : s.pool[jc] \in Connection
  BY <1>1 DEF Records
<1>4. PICK c \in Connection : c = s.pool[ic]
  BY <1>3
<1>5. PICK x \in Task : x = c.tasks[it]
  BY <1>4, Fields
<1>6. Pending(x) /\ Sound(c, n) /\ Silent(c.link, x.id)
  BY <1>1, <1>2, <1>4, <1>5 DEF Pending, Unfinished
<1>7. PICK g : g = Gone(c, it)
  OBVIOUS
<1>8. /\ g \in Connection /\ Sound(g, n) /\ g.tasks = PutTaskIn(c, it, Killed(x))
      /\ g.restart = c.restart /\ g.link = c.link
  BY <1>4, <1>5, <1>6, <1>7, GoneSound
<1>9. PICK w : w = Withdraw(s, ic, it)
  OBVIOUS
<1>10. w = Put(s, ic, g)
  BY <1>1, <1>4, <1>7, <1>9, WithdrawIs
<1>11. /\ w \in Records /\ w.hosts = s.hosts /\ w.njobs = n /\ w.fate = s.fate
       /\ Len(w.pool) = Len(s.pool) /\ DOMAIN w.pool = DOMAIN s.pool
       /\ w.pool[ic] = g /\ \A jc \in DOMAIN s.pool : jc # ic => w.pool[jc] = s.pool[jc]
  <2>1. g \in Connection /\ s \in Records
    BY <1>1, <1>8
  <2>2. Changed(w, s, ic, g)
    BY <2>1, <1>10, PutIs
  <2> QED
    BY <2>2, <1>2 DEF Changed
<1>12. \A jc \in DOMAIN w.pool : w.pool[jc] \in Connection /\ Sound(w.pool[jc], n)
  BY <1>1, <1>2, <1>3, <1>8, <1>11
<1>13. PICK h \in Connection : h = w.pool[lc] /\ Sound(h, n)
  BY <1>11, <1>12
<1>14. PICK cmd \in Commands : cmd = x.cmd
  BY TaskFields
<1>15. PICK d : d = Took(h, n, cmd)
  OBVIOUS
<1>16. /\ d \in Connection /\ Sound(d, n + 1)
       /\ d.tasks = Append(h.tasks, Issued(n, cmd)) /\ d.restart = h.restart
       /\ \A k \in Nat : k # n /\ Silent(h.link, k) => Silent(d.link, k)
  <2>1. Sound(h, n)
    BY <1>13
  <2>2. LET e == Took(h, n, cmd)
        IN  /\ e \in Connection /\ Sound(e, n + 1)
            /\ e.tasks = Append(h.tasks, Issued(n, cmd)) /\ e.restart = h.restart
            /\ \A k \in Nat : k # n /\ Silent(h.link, k) => Silent(e.link, k)
    BY <2>1, TookSound
  <2> QED
    BY <2>2, <1>15
<1>17. PICK t : t = Give(s, ic, it, lc) /\ t = PoolJob(w, lc, cmd)
  BY <1>4, <1>5, <1>9, <1>14 DEF Give
<1>18. /\ t \in Records /\ t.hosts = s.hosts /\ t.fate = s.fate /\ t.njobs = n + 1
       /\ t.pool = [w.pool EXCEPT ![lc] = d]
  BY <1>11, <1>13, <1>15, <1>16, <1>17, PoolJobIs
<1>19. /\ Len(t.pool) = Len(s.pool) /\ DOMAIN t.pool = DOMAIN s.pool
       /\ t.pool[lc] = d /\ \A jc \in DOMAIN s.pool : jc # lc => t.pool[jc] = w.pool[jc]
  <2>1. w.pool \in Seq(Connection)
    BY <1>11 DEF Records
  <2> QED
    BY <2>1, <1>11, <1>16, <1>18, SeqPut
<1>20. Books(t)
  <2>1. n + 1 \in Nat /\ n =< n + 1
    OBVIOUS
  <2>2. \A jc \in DOMAIN w.pool : Sound(w.pool[jc], n + 1)
    BY <2>1, <1>12, SoundGrows
  <2> QED
    BY <2>2, <1>11, <1>16, <1>18, <1>19 DEF Books
<1>21. ASSUME NEW jc \in DOMAIN s.pool
       PROVE  /\ t.pool[jc].restart = s.pool[jc].restart
              /\ \A k \in Nat : k # n /\ Silent(s.pool[jc].link, k) => Silent(t.pool[jc].link, k)
  <2>1. w.pool[jc].restart = s.pool[jc].restart /\ w.pool[jc].link = s.pool[jc].link
    BY <1>4, <1>8, <1>11
  <2>2. CASE jc = lc
    BY <2>1, <2>2, <1>13, <1>16, <1>19
  <2>3. CASE jc # lc
    BY <2>1, <2>3, <1>19
  <2> QED
    BY <2>2, <2>3
<1>22. PICK ts \in Seq(Task) : ts = c.tasks
  BY Fields
<1>23. /\ DOMAIN g.tasks = DOMAIN ts /\ g.tasks[it] = Killed(x)
       /\ \A j \in DOMAIN ts : j # it => g.tasks[j] = ts[j]
  BY <1>4, <1>5, <1>8, <1>22, Killing, SeqPut DEF PutTaskIn
<1>24. ASSUME NEW jc \in DOMAIN s.pool
       PROVE  /\ DOMAIN w.pool[jc].tasks = DOMAIN s.pool[jc].tasks
              /\ \A jt \in DOMAIN s.pool[jc].tasks :
                   w.pool[jc].tasks[jt] = IF jc = ic /\ jt = it THEN Killed(x)
                                          ELSE s.pool[jc].tasks[jt]
  BY <1>4, <1>11, <1>22, <1>23
<1>25. PICK u : u = Issued(n, cmd)
  OBVIOUS
<1>26. PICK hs \in Seq(Task) : hs = h.tasks
  BY Fields
<1>27. PICK l \in Nat : l = Len(hs) + 1 /\ DOMAIN hs = 1 .. l - 1
  BY LenProperties
<1>28. /\ DOMAIN d.tasks = 1 .. l /\ d.tasks[l] = u
       /\ \A j \in DOMAIN hs : d.tasks[j] = hs[j]
  BY <1>16, <1>25, <1>26, <1>27, IssuedTask, SeqAppend
<1>29. ASSUME NEW jc \in DOMAIN s.pool
       PROVE  /\ \A jt \in DOMAIN w.pool[jc].tasks :
                   jt \in DOMAIN t.pool[jc].tasks /\ t.pool[jc].tasks[jt] = w.pool[jc].tasks[jt]
              /\ \A jt \in DOMAIN t.pool[jc].tasks :
                   jt \in DOMAIN w.pool[jc].tasks \/ (jc = lc /\ jt = l)
  <2>1. CASE jc # lc
    BY <2>1, <1>19
  <2>2. CASE jc = lc
    <3>1. \A j \in 1 .. l - 1 : j \in 1 .. l
      OBVIOUS
    <3>2. \A j \in 1 .. l : j \in 1 .. l - 1 \/ j = l
      OBVIOUS
    <3>3. t.pool[jc].tasks = d.tasks /\ w.pool[jc].tasks = hs
      BY <2>2, <1>13, <1>19, <1>26
    <3> QED
      BY <3>1, <3>2, <3>3, <2>2, <1>27, <1>28
  <2> QED
    BY <2>1, <2>2
<1>30. Handed(s.pool, t.pool, ic, it, lc, u)
  <2>1. l \in DOMAIN t.pool[lc].tasks /\ t.pool[lc].tasks[l] = u
    BY <1>19, <1>27, <1>28
  <2>2. s.pool[ic].tasks[it] = x
    BY <1>4, <1>5
  <2> QED
    BY <2>1, <2>2, <1>19, <1>24, <1>29 DEF Handed
<1>31. lc # ic => DOMAIN t.pool[ic].tasks = DOMAIN s.pool[ic].tasks
  BY <1>19, <1>24
<1> QED
  BY <1>2, <1>4, <1>5, <1>14, <1>17, <1>18, <1>19, <1>20, <1>21, <1>25, <1>30, <1>31 DEF Given

LEMMA HandedTracked ==
  ASSUME NEW pl \in Seq(Connection), NEW ql \in Seq(Connection), Len(ql) = Len(pl),
         NEW ic \in DOMAIN pl, NEW it \in DOMAIN pl[ic].tasks, NEW lc \in DOMAIN pl,
         Unfinished(pl[ic].tasks[it]), NEW n \in Nat,
         Handed(pl, ql, ic, it, lc, Issued(n, pl[ic].tasks[it].cmd)),
         NEW q, NEW a, NEW o, NEW m, Tracked(pl, q, a, o, m)
  PROVE  Tracked(ql, q, a, o, m)
<1>1. PICK x \in Task : x = pl[ic].tasks[it]
  BY Fields
<1>2. x.status = NotFinished /\ ~x.killed /\ x.cmd \in Commands
  BY <1>1, TaskFields DEF Unfinished
<1>3. PICK u : u = Issued(n, x.cmd)
  OBVIOUS
<1>4. u.cmd = x.cmd /\ u.status = NotFinished /\ ~u.killed
  BY <1>2, <1>3, IssuedTask
<1>5. PICK at \in DOMAIN ql[lc].tasks :
        /\ ql[lc].tasks[at] = u
        /\ \A jc \in DOMAIN pl : \A jt \in DOMAIN ql[jc].tasks :
             jt \in DOMAIN pl[jc].tasks \/ (jc = lc /\ jt = at)
  BY <1>1, <1>3 DEF Handed
<1>6. /\ DOMAIN ql = DOMAIN pl
      /\ \A jc \in DOMAIN pl : \A jt \in DOMAIN pl[jc].tasks :
           /\ jt \in DOMAIN ql[jc].tasks
           /\ ql[jc].tasks[jt] = IF jc = ic /\ jt = it THEN Killed(x) ELSE pl[jc].tasks[jt]
  BY <1>1 DEF Handed
<1>7. Killed(x).killed
  BY Killing
\* a place in ql is the new one or one of pl
<1>8. ASSUME NEW jc \in DOMAIN pl, NEW jt \in DOMAIN ql[jc].tasks, ~ql[jc].tasks[jt].killed
      PROVE  \/ jc = lc /\ jt = at
             \/ /\ jt \in DOMAIN pl[jc].tasks /\ ql[jc].tasks[jt] = pl[jc].tasks[jt]
                /\ ~(jc = ic /\ jt = it)
  BY <1>5, <1>6, <1>7, <1>8
<1>9. Truthful(x, q, a, o)
  BY <1>1, <1>2 DEF Tracked
<1>10. Truthful(u, q, a, o)
  BY <1>2, <1>4, <1>9 DEF Truthful
<1>11. \A jc \in DOMAIN ql : \A jt \in DOMAIN ql[jc].tasks :
         ~ql[jc].tasks[jt].killed => Truthful(ql[jc].tasks[jt], q, a, o)
  BY <1>5, <1>6, <1>8, <1>10 DEF Tracked
<1>12. \A p \in Commands : Alone(pl, p)
  BY DEF Tracked
<1>13. \A jc \in DOMAIN pl : \A jt \in DOMAIN pl[jc].tasks :
         pl[jc].tasks[jt].cmd = x.cmd /\ ~pl[jc].tasks[jt].killed => jc = ic /\ jt = it
  BY <1>1, <1>2, <1>12 DEF Alone, Stands
<1>14. ASSUME NEW p \in Commands PROVE Alone(ql, p)
  <2>1. SUFFICES ASSUME NEW jc \in DOMAIN ql, NEW kc \in DOMAIN ql,
                        NEW jt \in DOMAIN ql[jc].tasks, NEW kt \in DOMAIN ql[kc].tasks,
                        Stands(ql, jc, jt, p), Stands(ql, kc, kt, p)
                 PROVE  jc = kc /\ jt = kt
    BY DEF Alone
  <2>2. \/ jc = lc /\ jt = at
        \/ /\ jt \in DOMAIN pl[jc].tasks /\ Stands(pl, jc, jt, p) /\ ~(jc = ic /\ jt = it)
    BY <2>1, <1>6, <1>8 DEF Stands
  <2>3. \/ kc = lc /\ kt = at
        \/ /\ kt \in DOMAIN pl[kc].tasks /\ Stands(pl, kc, kt, p) /\ ~(kc = ic /\ kt = it)
    BY <2>1, <1>6, <1>8 DEF Stands
  <2>4. CASE p = x.cmd
    BY <2>2, <2>3, <2>4, <1>13 DEF Stands
  <2>5. CASE p # x.cmd
    <3>1. Stands(pl, jc, jt, p) /\ Stands(pl, kc, kt, p)
      BY <2>1, <2>2, <2>3, <2>5, <1>4, <1>5 DEF Stands
    <3> QED
      BY <3>1, <1>12 DEF Alone, Stands
  <2> QED
    BY <2>4, <2>5
<1>15. ASSUME NEW p \in Commands, Somewhere(pl, p) PROVE Somewhere(ql, p)
  <2>1. PICK jc \in DOMAIN pl : \E jt \in DOMAIN pl[jc].tasks : Stands(pl, jc, jt, p)
    BY <1>15 DEF Somewhere
  <2>2. PICK jt \in DOMAIN pl[jc].tasks : Stands(pl, jc, jt, p)
    BY <2>1
  <2>3. CASE jc = ic /\ jt = it
    <3>1. p = x.cmd
      BY <2>2, <2>3, <1>1 DEF Stands
    <3> QED
      BY <3>1, <1>4, <1>5, <1>6 DEF Somewhere, Stands
  <2>4. CASE ~(jc = ic /\ jt = it)
    BY <2>2, <2>4, <1>6 DEF Somewhere, Stands
  <2> QED
    BY <2>3, <2>4
<1>16. ql # <<>> /\ pl # <<>>
  BY <1>6
<1> QED
  BY <1>11, <1>14, <1>15, <1>16 DEF Tracked

-----------------------------------------------------------------------------
(* The loop over the tasks of a connection.                                *)

\* A set of natural numbers that is not empty has a least element: the
\* intervals that end in the set are finite, so one of them has no other below.
LEMMA Least ==
  ASSUME NEW S \in SUBSET Nat, S # {}
  PROVE  \E m \in S : \A k \in S : m =< k
<1> DEFINE T == {0 .. k : k \in S}
           R == StrictSubsetOrdering(Nat)
<1>1. IsWellFoundedOn(R, FiniteSubsetsOf(Nat))
  BY FS_StrictSubsetOrderingWellFounded
<1>2. T \subseteq FiniteSubsetsOf(Nat) /\ T # {}
  <2>1. \A k \in S : 0 .. k \subseteq Nat /\ IsFiniteSet(0 .. k)
    BY FS_Interval
  <2> QED BY <2>1 DEF FiniteSubsetsOf
<1>3. \E x \in T : \A y \in T : ~(<<y, x>> \in R)
  <2> HIDE DEF T, R
  <2> QED BY <1>1, <1>2, WFMin
<1>4. PICK m \in S : \A k \in S : <<0 .. k, 0 .. m>> \notin R
  BY <1>3
<1>5. \A k \in S : k < m => <<0 .. k, 0 .. m>> \in R
  <2> SUFFICES ASSUME NEW k \in S, k < m PROVE <<0 .. k, 0 .. m>> \in R
    OBVIOUS
  <2>1. 0 .. k \subseteq 0 .. m /\ m \in 0 .. m /\ m \notin 0 .. k /\ 0 .. m \subseteq Nat
    OBVIOUS
  <2> QED BY <2>1 DEF StrictSubsetOrdering
<1>6. \A k \in S : ~(k < m)
  BY <1>4, <1>5
<1> HIDE DEF T, R
<1>7. \A k \in S : m =< k
  BY <1>6
<1> QED BY <1>7

\* One turn, and the records of the loop after each of m turns.
Turn(r, ic, it, to) == IF Unfinished(r.pool[ic].tasks[it]) THEN Give(r, ic, it, to[it]) ELSE r

Turns(d, m, s, ic, to) ==
  d = [it \in 0 .. m |-> IF it = 0 THEN s ELSE Turn(d[it - 1], ic, it, to)]

LEMMA TurnsExist ==
  ASSUME NEW s, NEW ic, NEW to, NEW l \in Nat
  PROVE  \E d : Turns(d, l, s, ic, to)
<1> DEFINE Bad == {k \in Nat : ~\E d : Turns(d, k, s, ic, to)}
<1> SUFFICES ASSUME Bad # {} PROVE FALSE
  OBVIOUS
<1>1. PICK m \in Bad : \A k \in Bad : m =< k
  BY Least
<1>2. m \in Nat /\ ~\E d : Turns(d, m, s, ic, to)
  OBVIOUS
<1>3. CASE m = 0
  <2>1. Turns([k \in 0 .. 0 |-> s], 0, s, ic, to)
    BY DEF Turns
  <2> QED
    BY <2>1, <1>2, <1>3
<1>4. CASE m # 0
  <2>1. m - 1 \in Nat /\ m - 1 \notin Bad
    BY <1>1, <1>2, <1>4
  <2>2. PICK d : Turns(d, m - 1, s, ic, to)
    BY <2>1
  <2>3. PICK e : e = [it \in 0 .. m |-> IF it = 0 THEN s ELSE Turn(d[it - 1], ic, it, to)]
    OBVIOUS
  <2>4. \A k \in 0 .. m - 1 : d[k] = IF k = 0 THEN s ELSE Turn(d[k - 1], ic, k, to)
    BY <2>2 DEF Turns
  <2>5. \A k \in 0 .. m : e[k] = IF k = 0 THEN s ELSE Turn(d[k - 1], ic, k, to)
    BY <2>3
  <2>6. e = [k \in 0 .. m |-> e[k]]
    BY <2>3
  <2>7. \A k \in 0 .. m : e[k] = IF k = 0 THEN s ELSE Turn(e[k - 1], ic, k, to)
    <3> TAKE k \in 0 .. m
    <3>1. k # 0 => k - 1 \in 0 .. m - 1 /\ k - 1 \in 0 .. m
      BY <1>2
    <3>2. k # 0 => e[k - 1] = d[k - 1]
      BY <3>1, <2>4, <2>5
    <3> QED
      BY <3>2, <2>5
  <2>8. e = [k \in 0 .. m |-> IF k = 0 THEN s ELSE Turn(e[k - 1], ic, k, to)]
    BY <2>6, <2>7
  <2>9. Turns(e, m, s, ic, to)
    BY <2>8 DEF Turns
  <2> QED
    BY <2>9, <1>2
<1> QED
  BY <1>3, <1>4

LEMMA ReissueDef ==
  ASSUME NEW s, NEW ic, NEW to, NEW l \in Nat, l = Len(s.pool[ic].tasks)
  PROVE  \E d : Turns(d, l, s, ic, to) /\ Reissue(s, ic, to) = d[l]
<1>1. \E d : Turns(d, l, s, ic, to)
  BY TurnsExist
<1>2. Turns(CHOOSE d : Turns(d, l, s, ic, to), l, s, ic, to)
  BY <1>1
<1>3. Reissue(s, ic, to) = (CHOOSE d : Turns(d, l, s, ic, to))[l]
  BY DEF Reissue, Turns, Turn, Give
<1> QED
  BY <1>2, <1>3

-----------------------------------------------------------------------------
(* What the loop keeps.                                                    *)

Kept(r, s) == /\ r.hosts = s.hosts /\ r.fate = s.fate
              /\ Len(r.pool) = Len(s.pool) /\ DOMAIN r.pool = DOMAIN s.pool
              /\ \A jc \in DOMAIN s.pool : r.pool[jc].restart = s.pool[jc].restart

\* Whatever was true of the commands still is.
Follows(ql, pl) == \A q, a, o, m : Tracked(pl, q, a, o, m) => Tracked(ql, q, a, o, m)

\* r is what has become of s after k turns.
Going(r, s, ic, k, to) ==
  /\ Books(r) /\ Kept(r, s) /\ s.njobs =< r.njobs /\ Follows(r.pool, s.pool)
  /\ \A id \in Nat : id < s.njobs /\ Silent(s.pool[ic].link, id) => Silent(r.pool[ic].link, id)
  /\ \A it \in DOMAIN s.pool[ic].tasks :
       /\ it \in DOMAIN r.pool[ic].tasks
       /\ IF it =< k THEN ~Unfinished(r.pool[ic].tasks[it])
          ELSE r.pool[ic].tasks[it] = s.pool[ic].tasks[it]
  /\ (\A it \in DOMAIN to : to[it] # ic) => DOMAIN r.pool[ic].tasks = DOMAIN s.pool[ic].tasks
  /\ Idle(s.pool) => r = s

LEMMA IdleNone ==
  ASSUME NEW n \in Nat, NEW c \in Connection, Sound(c, n), c.running = 0,
         NEW it \in DOMAIN c.tasks
  PROVE  ~Pending(c.tasks[it]) /\ ~Unfinished(c.tasks[it])
<1>1. Cardinality(Waits(c.tasks)) = 0 /\ IsFiniteSet(Waits(c.tasks))
  BY Fields, WaitsFinite DEF Sound
<1>2. Waits(c.tasks) = {}
  BY <1>1, FS_EmptySet
<1> QED
  BY <1>2 DEF Waits, Pending, Unfinished

LEMMA TurnGoes ==
  ASSUME NEW s, Books(s), NEW ic \in DOMAIN s.pool, NEW to,
         DOMAIN to = DOMAIN s.pool[ic].tasks,
         \A it \in DOMAIN to : to[it] \in DOMAIN s.pool,
         \A it \in DOMAIN s.pool[ic].tasks : Silent(s.pool[ic].link, s.pool[ic].tasks[it].id),
         NEW k \in Nat, k + 1 \in DOMAIN s.pool[ic].tasks,
         NEW r, Going(r, s, ic, k, to)
  PROVE  Going(Turn(r, ic, k + 1, to), s, ic, k + 1, to)
<1>1. PICK it \in DOMAIN s.pool[ic].tasks : it = k + 1
  OBVIOUS
<1>2. PICK n \in Nat : n = s.njobs
  BY DEF Books, Records
<1>3. PICK m \in Nat : m = r.njobs /\ n =< m
  BY <1>2 DEF Going, Books, Records
<1>4. PICK c \in Connection : c = s.pool[ic] /\ Sound(c, n)
  BY <1>2 DEF Books, Records
<1>5. \A jt \in DOMAIN c.tasks : jt \in Nat /\ c.tasks[jt] \in Task /\ c.tasks[jt].id \in Nat
  BY Fields, Ids
<1>6. r.pool[ic].tasks[it] = c.tasks[it] /\ it \in DOMAIN r.pool[ic].tasks
  BY <1>1, <1>4, <1>5 DEF Going
<1>7. CASE ~Unfinished(r.pool[ic].tasks[it])
  <2>1. \A jt \in DOMAIN c.tasks : jt =< k + 1 => jt =< k \/ jt = it
    BY <1>1, <1>5
  <2>2. \A jt \in DOMAIN c.tasks : ~(jt =< k + 1) => ~(jt =< k)
    BY <1>5
  <2>3. Going(r, s, ic, k + 1, to)
    BY <2>1, <2>2, <1>4, <1>7 DEF Going
  <2>4. Turn(r, ic, k + 1, to) = r
    BY <1>1, <1>7 DEF Turn
  <2> QED
    BY <2>3, <2>4
<1>8. CASE Unfinished(r.pool[ic].tasks[it])
  <2>1. PICK lc : lc = to[it]
    OBVIOUS
  <2>2. Books(r) /\ ic \in DOMAIN r.pool /\ lc \in DOMAIN r.pool
    BY <2>1 DEF Going, Kept
  <2>3. PICK x \in Task : x = c.tasks[it]
    BY <1>4, <1>5, <1>1
  <2>4. x.id \in Nat /\ x.id < n /\ Silent(c.link, x.id)
    BY <2>3, <1>1, <1>4, <1>5 DEF Sound, TasksOK
  <2>5. Silent(r.pool[ic].link, r.pool[ic].tasks[it].id)
    BY <2>3, <2>4, <1>2, <1>4, <1>6 DEF Going
  <2>6. PICK t : t = Give(r, ic, it, lc) /\ t = Turn(r, ic, k + 1, to)
    BY <2>1, <1>1, <1>8 DEF Turn
  <2>7. /\ Books(t) /\ t.hosts = r.hosts /\ t.fate = r.fate /\ t.njobs = m + 1
        /\ Len(t.pool) = Len(r.pool)
        /\ Handed(r.pool, t.pool, ic, it, lc, Issued(m, x.cmd))
        /\ lc # ic => DOMAIN t.pool[ic].tasks = DOMAIN r.pool[ic].tasks
        /\ \A jc \in DOMAIN r.pool :
             /\ t.pool[jc].restart = r.pool[jc].restart
             /\ \A id \in Nat : id # m /\ Silent(r.pool[jc].link, id)
                               => Silent(t.pool[jc].link, id)
    <3>1. Given(t, r, ic, it, lc)
      BY <2>2, <2>5, <2>6, <1>6, <1>8, GiveBooks
    <3> QED
      BY <3>1, <2>3, <1>3, <1>6 DEF Given
  <2>8. Kept(t, s)
    BY <2>7 DEF Going, Kept, Handed
  <2>9. ASSUME NEW q, NEW a, NEW o, NEW g, Tracked(s.pool, q, a, o, g)
        PROVE  Tracked(t.pool, q, a, o, g)
    <3>1. Tracked(r.pool, q, a, o, g)
      BY <2>9 DEF Going, Follows
    <3>2. r.pool \in Seq(Connection) /\ t.pool \in Seq(Connection)
      BY <2>2, <2>7 DEF Books, Records
    <3>3. Handed(r.pool, t.pool, ic, it, lc, Issued(m, r.pool[ic].tasks[it].cmd))
      BY <2>3, <2>7, <1>6
    <3> QED
      BY <3>1, <3>2, <3>3, <2>2, <2>7, <1>6, <1>8, HandedTracked
  <2>10. Follows(t.pool, s.pool)
    BY <2>9 DEF Follows
  <2>11. \A id \in Nat : id < n /\ Silent(c.link, id) => Silent(t.pool[ic].link, id)
    BY <2>2, <2>7, <1>2, <1>3, <1>4 DEF Going
  <2>12. ASSUME NEW jt \in DOMAIN c.tasks
         PROVE  /\ jt \in DOMAIN t.pool[ic].tasks
                /\ IF jt =< k + 1 THEN ~Unfinished(t.pool[ic].tasks[jt])
                   ELSE t.pool[ic].tasks[jt] = c.tasks[jt]
    <3>1. /\ jt \in DOMAIN r.pool[ic].tasks
          /\ IF jt =< k THEN ~Unfinished(r.pool[ic].tasks[jt])
             ELSE r.pool[ic].tasks[jt] = c.tasks[jt]
      BY <1>4 DEF Going
    <3>2. /\ jt \in DOMAIN t.pool[ic].tasks
          /\ t.pool[ic].tasks[jt] = IF jt = it THEN Killed(x) ELSE r.pool[ic].tasks[jt]
      BY <3>1, <2>2, <2>3, <2>7, <1>6 DEF Handed
    <3>3. ~Unfinished(Killed(x))
      BY Killing
    <3>4. jt \in Nat /\ (jt =< k + 1 => jt = it \/ jt =< k) /\ (~(jt =< k + 1) => ~(jt =< k) /\ jt # it)
      BY <1>1, <1>5
    <3> QED
      BY <3>1, <3>2, <3>3, <3>4
  <2>13. (\A jt \in DOMAIN to : to[jt] # ic) => DOMAIN t.pool[ic].tasks = DOMAIN s.pool[ic].tasks
    BY <2>1, <2>7, <1>1 DEF Going
  <2>14. ~Idle(s.pool)
    <3>1. Unfinished(c.tasks[it])
      BY <1>6, <1>8
    <3>2. c.running # 0
      BY <3>1, <1>1, <1>4, IdleNone
    <3> QED
      BY <3>2, <1>4 DEF Idle
  <2>15. s.njobs =< t.njobs
    BY <2>7, <1>2, <1>3
  <2> QED
    BY <2>6, <2>7, <2>8, <2>10, <2>11, <2>12, <2>13, <2>14, <2>15, <1>2, <1>4 DEF Going
<1> QED
  BY <1>7, <1>8

LEMMA ReissueGoes ==
  ASSUME NEW s, Books(s), NEW ic \in DOMAIN s.pool, NEW to,
         DOMAIN to = DOMAIN s.pool[ic].tasks,
         \A it \in DOMAIN to : to[it] \in DOMAIN s.pool,
         \A it \in DOMAIN s.pool[ic].tasks : Silent(s.pool[ic].link, s.pool[ic].tasks[it].id)
  PROVE  Going(Reissue(s, ic, to), s, ic, Len(s.pool[ic].tasks), to)
<1>1. PICK l \in Nat : l = Len(s.pool[ic].tasks) /\ DOMAIN s.pool[ic].tasks = 1 .. l
  <2>1. s.pool[ic].tasks \in Seq(Task)
    BY Fields DEF Books, Records
  <2> QED
    BY <2>1, LenProperties
<1>2. PICK d : Turns(d, l, s, ic, to) /\ Reissue(s, ic, to) = d[l]
  BY <1>1, ReissueDef
<1>3. \A k \in 0 .. l : d[k] = IF k = 0 THEN s ELSE Turn(d[k - 1], ic, k, to)
  BY <1>2 DEF Turns
<1>4. Going(s, s, ic, 0, to)
  <2>1. \A it \in DOMAIN s.pool[ic].tasks : ~(it =< 0)
    BY <1>1
  <2>2. s.njobs =< s.njobs
    BY DEF Books, Records
  <2> QED
    BY <2>1, <2>2 DEF Going, Kept, Follows
<1> DEFINE Bad == {k \in 0 .. l : ~Going(d[k], s, ic, k, to)}
<1>5. Bad = {}
  <2> SUFFICES ASSUME Bad # {} PROVE FALSE
    OBVIOUS
  <2>1. Bad \in SUBSET Nat
    OBVIOUS
  <2>2. PICK m \in Bad : \A k \in Bad : m =< k
    BY <2>1, Least
  <2>3. m \in 0 .. l /\ ~Going(d[m], s, ic, m, to)
    OBVIOUS
  <2>4. m # 0
    BY <2>3, <1>3, <1>4
  <2>5. PICK k \in Nat : k + 1 = m /\ k \in 0 .. l /\ k = m - 1 /\ k \notin Bad
    <3>1. m - 1 \in Nat /\ m - 1 + 1 = m /\ m - 1 \in 0 .. l
      BY <2>3, <2>4
    <3>2. ~(m =< m - 1)
      BY <2>3
    <3> QED
      BY <3>1, <3>2, <2>2
  <2>6. Going(d[k], s, ic, k, to)
    BY <2>5
  <2>7. k + 1 \in DOMAIN s.pool[ic].tasks
    BY <2>3, <2>5, <1>1
  <2>8. PICK r : r = d[k]
    OBVIOUS
  <2>9. Going(Turn(r, ic, k + 1, to), s, ic, k + 1, to)
    BY <2>6, <2>7, <2>8, TurnGoes
  <2>10. d[m] = Turn(r, ic, k + 1, to)
    BY <2>3, <2>4, <2>5, <2>8, <1>3
  <2> QED
    BY <2>3, <2>5, <2>9, <2>10
<1>6. l \in 0 .. l
  OBVIOUS
<1> QED
  BY <1>1, <1>2, <1>5, <1>6

-----------------------------------------------------------------------------
(* Steps that move the work about and lose none of it.                     *)

Carries(t, s) ==
  /\ Books(t) /\ Len(t.pool) =< Len(s.pool) /\ (Idle(s.pool) => Idle(t.pool))
  /\ \A q, a, o : \A m \in Nat :
       Len(s.pool) =< m /\ Tracked(s.pool, q, a, o, m) => Tracked(t.pool, q, a, o, m)

Moves(t, s) == Carries(t, s) /\ t.fate = s.fate /\ (Tried(s.pool) => Tried(t.pool))

\* The step ends the session or no connection has been opened too often.
Settles(t, s) == Carries(t, s) /\ (t.fate # "none" \/ (t.fate = s.fate /\ Tried(t.pool)))

Fresh(s, ic) == \A id \in Nat : Silent(s.pool[ic].link, id)

LEMMA BooksTypes ==
  ASSUME NEW s, Books(s)
  PROVE  /\ s \in Records /\ s.pool \in Seq(Connection) /\ Len(s.pool) \in Nat /\ s.njobs \in Nat
         /\ DOMAIN s.pool = 1 .. Len(s.pool)
         /\ \A ic \in DOMAIN s.pool : /\ s.pool[ic] \in Connection /\ Sound(s.pool[ic], s.njobs)
                                      /\ s.pool[ic].tasks \in Seq(Task)
<1>1. /\ s \in Records /\ s.pool \in Seq(Connection) /\ s.njobs \in Nat
      /\ \A ic \in DOMAIN s.pool : Sound(s.pool[ic], s.njobs)
  BY DEF Books, Records
<1>2. Len(s.pool) \in Nat /\ DOMAIN s.pool = 1 .. Len(s.pool)
  BY <1>1, LenProperties
<1>3. \A ic \in DOMAIN s.pool : s.pool[ic] \in Connection
  BY <1>1
<1> QED
  BY <1>1, <1>2, <1>3, Fields

LEMMA CarriesTrans ==
  ASSUME NEW s, NEW t, NEW u, Books(s), Carries(t, s), Carries(u, t)
  PROVE  Carries(u, s)
<1>1. Len(s.pool) \in Nat /\ Len(t.pool) \in Nat /\ Len(u.pool) \in Nat
  BY BooksTypes DEF Carries
<1>2. Len(t.pool) =< Len(s.pool) /\ Len(u.pool) =< Len(t.pool)
  BY DEF Carries
<1>3. Len(u.pool) =< Len(s.pool)
  BY <1>1, <1>2
<1>4. ASSUME NEW q, NEW a, NEW o, NEW m \in Nat,
             Len(s.pool) =< m, Tracked(s.pool, q, a, o, m)
      PROVE  Tracked(u.pool, q, a, o, m)
  <2>1. Len(t.pool) =< m
    BY <1>1, <1>2, <1>4
  <2>2. Tracked(t.pool, q, a, o, m)
    BY <1>4 DEF Carries
  <2> QED
    BY <2>1, <2>2 DEF Carries
<1> QED
  BY <1>3, <1>4 DEF Carries

LEMMA MovesTrans ==
  ASSUME NEW s, NEW t, NEW u, Books(s), Moves(t, s), Moves(u, t)
  PROVE  Moves(u, s)
BY CarriesTrans DEF Moves

LEMMA SettlesTrans ==
  ASSUME NEW s, NEW t, NEW u, Books(s), Moves(t, s), Settles(u, t)
  PROVE  Settles(u, s)
BY CarriesTrans DEF Moves, Settles

\* Two pools with the same tasks stand for the same commands.
SameTasks(pl, ql) == DOMAIN ql = DOMAIN pl /\ \A jc \in DOMAIN pl : ql[jc].tasks = pl[jc].tasks

LEMMA SameTracked ==
  ASSUME NEW pl \in Seq(Connection), NEW ql \in Seq(Connection), SameTasks(pl, ql),
         NEW q, NEW a, NEW o, NEW m, Tracked(pl, q, a, o, m)
  PROVE  Tracked(ql, q, a, o, m)
<1>1. Len(ql) = Len(pl) /\ (ql # <<>> <=> pl # <<>>)
  <2>1. PICK l \in Nat : l = Len(pl) /\ DOMAIN pl = 1 .. l
    BY LenProperties
  <2>2. PICK k \in Nat : k = Len(ql) /\ DOMAIN ql = 1 .. k
    BY LenProperties
  <2>3. 1 .. k = 1 .. l
    BY <2>1, <2>2 DEF SameTasks
  <2>4. k = l
    BY <2>3
  <2> QED
    BY <2>1, <2>2, <2>4
<1>2. \A jc \in DOMAIN ql : jc \in DOMAIN pl /\ ql[jc].tasks = pl[jc].tasks
  BY DEF SameTasks
<1>3. \A jc \in DOMAIN pl : jc \in DOMAIN ql /\ ql[jc].tasks = pl[jc].tasks
  BY DEF SameTasks
<1>4. \A jc, jt, p : Stands(ql, jc, jt, p) <=> Stands(pl, jc, jt, p)
  BY <1>2, <1>3 DEF Stands
<1>5. \A p \in Commands : Alone(pl, p) => Alone(ql, p)
  BY <1>2, <1>4 DEF Alone
<1>6. \A p \in Commands : Somewhere(pl, p) => Somewhere(ql, p)
  BY <1>3, <1>4 DEF Somewhere
<1>7. \A ic \in DOMAIN ql : \A it \in DOMAIN ql[ic].tasks :
        ~ql[ic].tasks[it].killed => Truthful(ql[ic].tasks[it], q, a, o)
  BY <1>2 DEF Tracked
<1> QED
  BY <1>1, <1>5, <1>6, <1>7 DEF Tracked

\* A connection is opened, closed, or moved to another host.
LEMMA PutCarries ==
  ASSUME NEW s, Books(s), NEW ic \in DOMAIN s.pool, NEW d \in Connection,
         d.tasks = s.pool[ic].tasks, d.running = s.pool[ic].running,
         d.running = d.launched - d.complete,
         LinkOK(d.link, s.njobs), Quieter(d.link, s.pool[ic].link)
  PROVE  /\ Carries(Put(s, ic, d), s) /\ Changed(Put(s, ic, d), s, ic, d)
         /\ d.restart = s.pool[ic].restart => Moves(Put(s, ic, d), s)
<1>1. PICK t : t = Put(s, ic, d)
  OBVIOUS
<1>2. Changed(t, s, ic, d)
  BY <1>1, PutIs DEF Books
<1>3. s.njobs \in Nat /\ s.pool[ic] \in Connection /\ Sound(s.pool[ic], s.njobs)
  BY BooksTypes
<1>4. Sound(d, s.njobs)
  BY <1>3, LinkedSound
<1>5. /\ t \in Records /\ t.hosts = s.hosts /\ t.njobs = s.njobs /\ t.fate = s.fate
      /\ Len(t.pool) = Len(s.pool) /\ DOMAIN t.pool = DOMAIN s.pool
      /\ t.pool[ic] = d /\ \A lc \in DOMAIN s.pool : lc # ic => t.pool[lc] = s.pool[lc]
  BY <1>2 DEF Changed
<1>6. Books(t)
  BY <1>4, <1>5 DEF Books
<1>7. SameTasks(s.pool, t.pool)
  BY <1>5 DEF SameTasks
<1>8. s.pool \in Seq(Connection) /\ t.pool \in Seq(Connection) /\ Len(s.pool) \in Nat
  BY <1>6, BooksTypes
<1>9. Idle(s.pool) => Idle(t.pool)
  BY <1>5 DEF Idle
<1>10. Len(t.pool) =< Len(s.pool)
  BY <1>5, <1>8
<1>11. Carries(t, s)
  BY <1>6, <1>7, <1>8, <1>9, <1>10, SameTracked DEF Carries
<1>12. d.restart = s.pool[ic].restart /\ Tried(s.pool) => Tried(t.pool)
  BY <1>5 DEF Tried
<1> QED
  BY <1>1, <1>2, <1>5, <1>11, <1>12 DEF Moves

\* The hosts or the fate of the pool change.
LEMMA TurnedCarries ==
  ASSUME NEW s, Books(s), NEW H \in SUBSET (1..Hosts), NEW f \in Fates
  PROVE  LET t == [s EXCEPT !.hosts = H]
             u == [s EXCEPT !.fate = f]
         IN  /\ Moves(t, s) /\ t.pool = s.pool /\ t.hosts = H
             /\ t.fate = s.fate /\ t.njobs = s.njobs
             /\ Carries(u, s) /\ u.pool = s.pool /\ u.fate = f
<1>1. s \in Records /\ Len(s.pool) \in Nat
  BY BooksTypes
<1>2. PICK t : t = [s EXCEPT !.hosts = H]
  OBVIOUS
<1>3. t \in Records /\ t.pool = s.pool /\ t.hosts = H /\ t.fate = s.fate /\ t.njobs = s.njobs
  BY <1>1, <1>2 DEF Records
<1>4. PICK u : u = [s EXCEPT !.fate = f]
  OBVIOUS
<1>5. u \in Records /\ u.pool = s.pool /\ u.fate = f /\ u.njobs = s.njobs
  BY <1>1, <1>4 DEF Records
<1>6. Carries(t, s)
  BY <1>1, <1>3 DEF Carries, Books
<1>7. Carries(u, s)
  BY <1>1, <1>5 DEF Carries, Books
<1> QED
  BY <1>2, <1>3, <1>4, <1>5, <1>6, <1>7 DEF Moves

-----------------------------------------------------------------------------
(* Giving the work of a connection away.                                   *)

LEMMA GoingMoves ==
  ASSUME NEW s, Books(s), NEW r, NEW ic, NEW k, NEW to, Going(r, s, ic, k, to)
  PROVE  Moves(r, s)
<1>1. Len(r.pool) = Len(s.pool) /\ Len(s.pool) \in Nat
  BY BooksTypes DEF Going, Kept
<1>2. Tried(s.pool) => Tried(r.pool)
  BY DEF Tried, Going, Kept
<1>3. Len(r.pool) =< Len(s.pool)
  BY <1>1
<1> QED
  BY <1>2, <1>3 DEF Moves, Carries, Going, Kept, Follows

LEMMA AssignCurrentMoves ==
  ASSUME NEW s, Books(s), NEW ic \in DOMAIN s.pool, Fresh(s, ic)
  PROVE  Moves(AssignCurrent(s, ic), s)
<1>1. PICK to : to = [it \in DOMAIN s.pool[ic].tasks |-> ic]
  OBVIOUS
<1>2. DOMAIN to = DOMAIN s.pool[ic].tasks /\ \A it \in DOMAIN to : to[it] \in DOMAIN s.pool
  BY <1>1
<1>3. \A it \in DOMAIN s.pool[ic].tasks : s.pool[ic].tasks[it].id \in Nat
  BY BooksTypes, Ids
<1>4. \A it \in DOMAIN s.pool[ic].tasks : Silent(s.pool[ic].link, s.pool[ic].tasks[it].id)
  BY <1>3 DEF Fresh
<1>5. AssignCurrent(s, ic) = Reissue(s, ic, to)
  BY <1>1 DEF AssignCurrent
<1>6. Going(Reissue(s, ic, to), s, ic, Len(s.pool[ic].tasks), to)
  BY <1>2, <1>4, ReissueGoes
<1> QED
  BY <1>5, <1>6, GoingMoves

\* After the loop connection ic has no unfinished task, unless it is alone.
LEMMA AssignOthersGoes ==
  ASSUME NEW s, Books(s), NEW ic \in DOMAIN s.pool, Fresh(s, ic)
  PROVE  LET r == AssignOthers(s, ic)
         IN  /\ Moves(r, s) /\ Len(r.pool) = Len(s.pool)
             /\ Len(s.pool) > 1 => \A it \in DOMAIN r.pool[ic].tasks :
                                     ~Unfinished(r.pool[ic].tasks[it])
             /\ Idle(s.pool) => r = s
<1>0. PICK z \in Nat : z = Len(s.pool) /\ DOMAIN s.pool = 1 .. z
  BY BooksTypes
<1>1. PICK n \in Nat : n = Len(s.pool) - 1 /\ z = n + 1 /\ DOMAIN s.pool = 1 .. n + 1 /\ ic \in 1 .. n + 1
  <2>1. z - 1 \in Nat /\ z = z - 1 + 1
    BY <1>0
  <2> QED
    BY <2>1, <1>0
<1>2. PICK ts \in Seq(Task) : ts = s.pool[ic].tasks
  BY BooksTypes
<1>3. PICK l \in Nat : l = Len(ts) /\ DOMAIN ts = 1 .. l
  BY LenProperties
<1> DEFINE other(k) == IF k < ic THEN k ELSE k + 1
           target(it) == IF n = 0 THEN ic ELSE other(((it - 1) % n) + 1)
<1>4. ASSUME NEW it \in 1 .. l PROVE target(it) \in 1 .. n + 1 /\ (n # 0 => target(it) # ic)
  <2>1. CASE n = 0
    BY <2>1, <1>1
  <2>2. CASE n # 0
    <3>1. PICK k : k = (it - 1) % n
      OBVIOUS
    <3>2. k \in 0 .. n - 1
      BY <3>1, <2>2
    <3>3. k + 1 \in 1 .. n
      BY <3>2
    <3>4. target(it) = IF k + 1 < ic THEN k + 1 ELSE k + 1 + 1
      BY <3>1, <2>2
    <3> HIDE DEF target
    <3> QED
      BY <3>3, <3>4, <1>1
  <2> QED
    BY <2>1, <2>2
<1> HIDE DEF target
<1>5. PICK to : to = [it \in DOMAIN ts |-> target(it)]
  OBVIOUS
<1>6. /\ DOMAIN to = DOMAIN ts /\ \A it \in DOMAIN to : to[it] \in DOMAIN s.pool
      /\ n # 0 => \A it \in DOMAIN to : to[it] # ic
  BY <1>1, <1>3, <1>4, <1>5
<1>7. PICK r : r = AssignOthers(s, ic) /\ r = Reissue(s, ic, to)
  BY <1>1, <1>2, <1>5 DEF AssignOthers, target
<1>8. \A it \in DOMAIN ts : ts[it].id \in Nat
  BY Ids
<1>9. \A it \in DOMAIN s.pool[ic].tasks : Silent(s.pool[ic].link, s.pool[ic].tasks[it].id)
  BY <1>2, <1>8 DEF Fresh
<1>10. Going(r, s, ic, l, to)
  BY <1>2, <1>3, <1>6, <1>7, <1>9, ReissueGoes
<1>11. Moves(r, s)
  BY <1>10, GoingMoves
<1>12. Len(r.pool) = Len(s.pool) /\ (Idle(s.pool) => r = s)
  BY <1>10 DEF Going, Kept
<1>13. ASSUME n # 0, NEW it \in DOMAIN r.pool[ic].tasks PROVE ~Unfinished(r.pool[ic].tasks[it])
  <2>1. it \in DOMAIN ts
    BY <1>2, <1>6, <1>10, <1>13 DEF Going
  <2>2. it =< l
    BY <2>1, <1>3
  <2>3. it =< l => ~Unfinished(r.pool[ic].tasks[it])
    BY <2>1, <1>2, <1>10 DEF Going
  <2> QED
    BY <2>2, <2>3
<1>14. z > 1 => n # 0
  <2>1. z = n + 1
    BY <1>1
  <2> HIDE DEF other
  <2> QED
    BY <2>1
<1> QED
  BY <1>0, <1>7, <1>11, <1>12, <1>13, <1>14

\* A connection that has nothing left to do is removed.
LEMMA RemovedTracked ==
  ASSUME NEW pl \in Seq(Connection), NEW ic \in DOMAIN pl, NEW rl,
         rl = RemoveAt(pl, ic),
         Len(pl) > 1 => \A it \in DOMAIN pl[ic].tasks : ~Unfinished(pl[ic].tasks[it]),
         NEW q, NEW a, NEW o, NEW m \in Nat, Len(pl) =< m, Tracked(pl, q, a, o, m)
  PROVE  Tracked(rl, q, a, o, m)
<1>1. PICK n \in Nat : n = Len(pl) - 1 /\ DOMAIN pl = 1 .. n + 1 /\ ic \in 1 .. n + 1
  <2>1. PICK l \in Nat : l = Len(pl) /\ DOMAIN pl = 1 .. l
    BY LenProperties
  <2>2. PICK n \in Nat : n = l - 1 /\ l = n + 1
    <3>1. l - 1 \in Nat /\ l = l - 1 + 1
      BY <2>1
    <3> QED
      BY <3>1
  <2> QED
    BY <2>1, <2>2
<1> DEFINE up(j) == IF j < ic THEN j ELSE j + 1
<1>2. /\ rl \in Seq(Connection) /\ Len(rl) = n /\ DOMAIN rl = 1 .. n
      /\ \A j \in 1 .. n : rl[j] = pl[up(j)]
  BY <1>1, SeqRemove
<1>3. \A j \in 1 .. n : up(j) \in 1 .. n + 1 /\ up(j) # ic
  BY <1>1
<1>4. \A i, j \in 1 .. n : up(i) = up(j) => i = j
  BY <1>1
<1>5. \A i \in 1 .. n + 1 : i # ic => \E j \in 1 .. n : up(j) = i
  <2> SUFFICES ASSUME NEW i \in 1 .. n + 1, i # ic PROVE \E j \in 1 .. n : up(j) = i
    OBVIOUS
  <2>1. CASE i < ic
    <3>1. i \in 1 .. n /\ up(i) = i
      BY <2>1, <1>1
    <3> QED
      BY <3>1
  <2>2. CASE ~(i < ic)
    <3>1. i - 1 \in 1 .. n /\ up(i - 1) = i
      BY <2>2, <1>1
    <3> QED
      BY <3>1
  <2> QED
    BY <2>1, <2>2
<1> HIDE DEF up
<1>6. \A ic1 \in DOMAIN rl : \A it \in DOMAIN rl[ic1].tasks :
        ~rl[ic1].tasks[it].killed => Truthful(rl[ic1].tasks[it], q, a, o)
  BY <1>1, <1>2, <1>3 DEF Tracked
<1>7. ASSUME NEW p \in Commands PROVE Alone(rl, p)
  <2>1. Alone(pl, p)
    BY DEF Tracked
  <2>2. SUFFICES ASSUME NEW jc \in 1 .. n, NEW kc \in 1 .. n,
                        NEW jt \in DOMAIN rl[jc].tasks, NEW kt \in DOMAIN rl[kc].tasks,
                        Stands(rl, jc, jt, p), Stands(rl, kc, kt, p)
                 PROVE  jc = kc /\ jt = kt
    BY <1>2 DEF Alone
  <2>3. Stands(pl, up(jc), jt, p) /\ Stands(pl, up(kc), kt, p)
    BY <2>2, <1>1, <1>2, <1>3 DEF Stands
  <2>4. up(jc) = up(kc) /\ jt = kt
    BY <2>1, <2>3 DEF Alone, Stands
  <2> QED
    BY <2>4, <1>4
<1>8. ASSUME NEW p \in Commands, p < q, rl # <<>>, a[p] = 0 \/ Len(rl) = m
      PROVE  Somewhere(rl, p)
  <2>1. n > 0 /\ Len(pl) > 1 /\ n < m
    BY <1>1, <1>2, <1>8
  <2>2. a[p] = 0
    BY <2>1, <1>2, <1>8
  <2>3. pl # <<>>
    BY <1>1
  <2>4. Somewhere(pl, p)
    BY <2>2, <2>3, <1>8 DEF Tracked
  <2>5. PICK jc \in DOMAIN pl : \E jt \in DOMAIN pl[jc].tasks : Stands(pl, jc, jt, p)
    BY <2>4 DEF Somewhere
  <2>6. PICK jt \in DOMAIN pl[jc].tasks : Stands(pl, jc, jt, p)
    BY <2>5
  <2>7. ~pl[jc].tasks[jt].killed /\ pl[jc].tasks[jt].status = NotFinished
    BY <2>2, <2>6 DEF Stands, Tracked, Truthful
  <2>8. jc # ic
    BY <2>1, <2>7 DEF Unfinished
  <2>9. PICK kc \in 1 .. n : up(kc) = jc
    BY <2>8, <1>1, <1>5
  <2>10. kc \in DOMAIN rl /\ jt \in DOMAIN rl[kc].tasks /\ Stands(rl, kc, jt, p)
    BY <2>6, <2>9, <1>2 DEF Stands
  <2> QED
    BY <2>10 DEF Somewhere
<1> QED
  BY <1>6, <1>7, <1>8 DEF Tracked

LEMMA RemoveMoves ==
  ASSUME NEW s, Books(s), NEW ic \in DOMAIN s.pool, Fresh(s, ic)
  PROVE  Moves(RemoveConnection(s, ic), s)
<1>1. PICK r : r = AssignOthers(s, ic)
  OBVIOUS
<1>2. /\ Moves(r, s) /\ Len(r.pool) = Len(s.pool)
      /\ Len(s.pool) > 1 => \A it \in DOMAIN r.pool[ic].tasks : ~Unfinished(r.pool[ic].tasks[it])
      /\ Idle(s.pool) => r = s
  BY <1>1, AssignOthersGoes
<1>3. Books(r)
  BY <1>2 DEF Moves, Carries
<1>4. /\ r \in Records /\ r.pool \in Seq(Connection) /\ Len(r.pool) \in Nat
      /\ DOMAIN r.pool = 1 .. Len(r.pool) /\ DOMAIN s.pool = 1 .. Len(s.pool)
      /\ \A jc \in DOMAIN r.pool : Sound(r.pool[jc], r.njobs)
  BY <1>3, BooksTypes
<1>5. ic \in DOMAIN r.pool
  BY <1>2, <1>4
<1>6. PICK rl : rl = RemoveAt(r.pool, ic)
  OBVIOUS
<1>7. /\ rl \in Seq(Connection) /\ Len(rl) = Len(r.pool) - 1 /\ DOMAIN rl = 1 .. Len(r.pool) - 1
      /\ \A j \in DOMAIN rl : rl[j] = r.pool[IF j < ic THEN j ELSE j + 1]
  BY <1>4, <1>5, <1>6, SeqRemove
<1>8. ASSUME NEW j \in DOMAIN rl PROVE \E i \in DOMAIN r.pool : rl[j] = r.pool[i]
  <2>1. PICK l \in Nat : l = Len(r.pool)
    BY <1>4
  <2>2. j \in 1 .. l - 1 /\ ic \in 1 .. l
    BY <2>1, <1>4, <1>5, <1>7
  <2>3. j \in 1 .. l /\ j + 1 \in 1 .. l
    BY <2>2
  <2>4. j \in DOMAIN r.pool /\ j + 1 \in DOMAIN r.pool
    BY <2>1, <2>3, <1>4
  <2> QED
    BY <2>4, <1>7
<1>9. PICK t : t = RemoveConnection(s, ic) /\ t = [r EXCEPT !.pool = RemoveAt(@, ic)]
  BY <1>1 DEF RemoveConnection
<1>10. t = [r EXCEPT !.pool = rl]
  BY <1>6, <1>9
<1>11. t \in Records /\ t.pool = rl /\ t.njobs = r.njobs /\ t.fate = r.fate
  BY <1>4, <1>7, <1>10 DEF Records
<1>12. Books(t)
  BY <1>4, <1>8, <1>11 DEF Books
<1>13. Len(t.pool) =< Len(r.pool)
  BY <1>4, <1>7, <1>11
<1>14. Idle(r.pool) => Idle(t.pool)
  BY <1>8, <1>11 DEF Idle
<1>15. Tried(r.pool) => Tried(t.pool)
  BY <1>8, <1>11 DEF Tried
<1>16. ASSUME NEW q, NEW a, NEW o, NEW m \in Nat,
              Len(r.pool) =< m, Tracked(r.pool, q, a, o, m)
       PROVE  Tracked(rl, q, a, o, m)
  BY <1>2, <1>4, <1>5, <1>6, <1>16, RemovedTracked
<1>17. Moves(t, r)
  BY <1>11, <1>12, <1>13, <1>14, <1>15, <1>16 DEF Moves, Carries
<1> QED
  BY <1>2, <1>9, <1>17, MovesTrans

-----------------------------------------------------------------------------
(* Opening a connection, and opening it again.                             *)

LEMMA LeastSpare ==
  ASSUME NEW S \in SUBSET Nat, S # {}
  PROVE  Min(S) \in S
<1>1. \E x \in S : \A y \in S : x =< y
  BY Least
<1> QED
  BY <1>1 DEF Min

LEMMA ShiftMoves ==
  ASSUME NEW s, Books(s), NEW ic \in DOMAIN s.pool, Fresh(s, ic)
  PROVE  /\ Moves(Shift(s, ic), s)
         /\ Spare(s) # {} => DOMAIN Shift(s, ic).pool = DOMAIN s.pool
<1>1. /\ s \in Records /\ s.hosts \in SUBSET (1..Hosts) /\ s.pool[ic] \in Connection
      /\ s.njobs \in Nat /\ Sound(s.pool[ic], s.njobs)
  BY BooksTypes DEF Records
<1>2. PICK H : H = s.hosts \ {s.pool[ic].host}
  OBVIOUS
<1>3. PICK v : v = [s EXCEPT !.hosts = @ \ {s.pool[ic].host}]
  OBVIOUS
<1>4. v = [s EXCEPT !.hosts = H] /\ H \in SUBSET (1..Hosts)
  BY <1>1, <1>2, <1>3
<1>5. PICK f \in Fates : f = s.fate
  BY <1>1 DEF Records
<1>6. Moves(v, s) /\ v.pool = s.pool
  BY <1>4, <1>5, TurnedCarries
<1>7. Books(v) /\ ic \in DOMAIN v.pool /\ Fresh(v, ic)
  BY <1>6 DEF Moves, Carries, Fresh
<1>8. CASE Spare(s) = {}
  <2>1. Shift(s, ic) = RemoveConnection(v, ic)
    BY <1>3, <1>8 DEF Shift
  <2> QED
    BY <2>1, <1>6, <1>7, <1>8, RemoveMoves, MovesTrans
<1>9. CASE Spare(s) # {}
  <2>1. PICK h \in 1..Hosts : h = Min(Spare(s))
    <3>1. Spare(s) \in SUBSET Nat /\ Spare(s) \subseteq 1..Hosts
      BY <1>1 DEF Spare
    <3> QED
      BY <3>1, <1>9, LeastSpare
  <2>2. PICK d : d = [v.pool[ic] EXCEPT !.host = h]
    OBVIOUS
  <2>3. /\ d \in Connection /\ d.tasks = s.pool[ic].tasks /\ d.running = s.pool[ic].running
        /\ d.launched = s.pool[ic].launched /\ d.complete = s.pool[ic].complete
        /\ d.link = s.pool[ic].link /\ d.restart = s.pool[ic].restart
    BY <2>2, <1>1, <1>6 DEF Connection
  <2>4. d.running = d.launched - d.complete /\ LinkOK(d.link, v.njobs) /\ Quieter(d.link, v.pool[ic].link)
    BY <2>3, <1>6, <1>7, BooksTypes DEF Sound, Quieter
  <2>5. Moves(Put(v, ic, d), v) /\ Changed(Put(v, ic, d), v, ic, d)
    BY <2>3, <2>4, <1>6, <1>7, PutCarries
  <2>6. Shift(s, ic) = Put(v, ic, d)
    <3>1. Shift(s, ic) = [v EXCEPT !.pool[ic].host = h]
      BY <2>1, <1>3, <1>9 DEF Shift
    <3> QED
      BY <3>1, <2>2, <1>7 DEF Put, Books, Records
  <2>7. Moves(Shift(s, ic), s)
    BY <2>5, <2>6, <1>6, MovesTrans
  <2>8. DOMAIN Shift(s, ic).pool = DOMAIN s.pool
    BY <2>5, <2>6, <1>6 DEF Changed
  <2> QED
    BY <2>7, <2>8
<1> QED
  BY <1>8, <1>9

Closed(c)   == [c EXCEPT !.link = NoServer]
Opened(c)   == [c EXCEPT !.started = TRUE, !.link = StartedServer(c.host)]
Unopened(c) == [c EXCEPT !.started = FALSE]
CountedUp(c) == [c EXCEPT !.restart = @ + 1]

LEMMA CloseMoves ==
  ASSUME NEW s, Books(s), NEW ic \in DOMAIN s.pool
  PROVE  LET t == Close(s, ic)
         IN  Moves(t, s) /\ DOMAIN t.pool = DOMAIN s.pool /\ Fresh(t, ic) /\ Spare(t) = Spare(s)
             /\ t.pool[ic].restart = s.pool[ic].restart /\ t.fate = s.fate
<1>1. /\ s \in Records /\ s.pool[ic] \in Connection
      /\ s.njobs \in Nat /\ Sound(s.pool[ic], s.njobs)
  BY BooksTypes
<1>2. PICK c : c = s.pool[ic]
  OBVIOUS
<1>3. PICK d : d = Closed(c)
  OBVIOUS
<1>4. /\ NoServer \in Link /\ LinkOK(NoServer, s.njobs) /\ \A id \in Nat : Silent(NoServer, id)
  <2>1. NoServer \in Link /\ LinkOK(NoServer, s.njobs) /\ \A id \in Nat : Silent(NoServer, id)
    BY <1>1 DEF NoServer, Link, LinkOK, Silent, Done
  <2> QED
    BY <2>1
<1>5. PICK k : k = NoServer
  OBVIOUS
<1>6. /\ d \in Connection /\ d.tasks = c.tasks /\ d.running = c.running
      /\ d.launched = c.launched /\ d.complete = c.complete /\ d.host = c.host
      /\ d.link = k /\ d.restart = c.restart
  BY <1>1, <1>2, <1>3, <1>4, <1>5 DEF Closed, Connection
<1>7. d.running = d.launched - d.complete /\ LinkOK(d.link, s.njobs) /\ Quieter(d.link, c.link)
  BY <1>1, <1>2, <1>4, <1>5, <1>6 DEF Sound, Quieter
<1>8. PICK t : t = Put(s, ic, d)
  OBVIOUS
<1>9. Moves(t, s) /\ Changed(t, s, ic, d)
  BY <1>2, <1>6, <1>7, <1>8, PutCarries
<1>10. Close(s, ic) = t
  BY <1>1, <1>2, <1>3, <1>8 DEF Close, Put, Closed, Records
<1>11. Fresh(t, ic)
  BY <1>4, <1>5, <1>6, <1>9 DEF Fresh, Changed
<1>12. \A lc \in DOMAIN s.pool : t.pool[lc].host = s.pool[lc].host
  BY <1>2, <1>6, <1>9 DEF Changed
<1>13. Spare(t) = Spare(s)
  BY <1>9, <1>12 DEF Spare, Changed
<1> QED
  BY <1>2, <1>6, <1>9, <1>10, <1>11, <1>13 DEF Changed

\* SC_open_remote starts a server.
LEMMA OpenMoves ==
  ASSUME NEW s, Books(s), NEW ic \in DOMAIN s.pool
  PROVE  LET t == LaunchConnection(s, ic, TRUE)
         IN  /\ Moves(t, s) /\ DOMAIN t.pool = DOMAIN s.pool /\ Len(t.pool) = Len(s.pool)
             /\ Fresh(t, ic) /\ t.njobs = s.njobs /\ t.fate = s.fate
<1>1. /\ s \in Records /\ s.pool[ic] \in Connection
      /\ s.njobs \in Nat /\ Sound(s.pool[ic], s.njobs)
  BY BooksTypes
<1>2. PICK c : c = s.pool[ic]
  OBVIOUS
<1>3. PICK d : d = Opened(c)
  OBVIOUS
<1>4. PICK k : k = StartedServer(c.host)
  OBVIOUS
<1>5. k \in Link /\ LinkOK(k, s.njobs) /\ \A id \in Nat : Silent(k, id)
  <2>1. PICK h \in 1..Hosts : h = c.host
    BY <1>1, <1>2, Fields
  <2>2. k = StartedServer(h)
    BY <2>1, <1>4
  <2> QED
    BY <2>2, <1>1, NewLink
<1>6. /\ d \in Connection /\ d.tasks = c.tasks /\ d.running = c.running
      /\ d.launched = c.launched /\ d.complete = c.complete
      /\ d.link = k /\ d.restart = c.restart
  BY <1>1, <1>2, <1>3, <1>4, <1>5 DEF Opened, Connection
<1>7. d.running = d.launched - d.complete /\ LinkOK(d.link, s.njobs) /\ Quieter(d.link, c.link)
  BY <1>1, <1>2, <1>5, <1>6 DEF Sound, Quieter
<1>8. PICK t : t = Put(s, ic, d)
  OBVIOUS
<1>9. Moves(t, s) /\ Changed(t, s, ic, d)
  BY <1>2, <1>6, <1>7, <1>8, PutCarries
<1>10. LaunchConnection(s, ic, TRUE) = t
  BY <1>1, <1>2, <1>3, <1>8 DEF LaunchConnection, Put, Opened, Records
<1>11. Fresh(t, ic)
  BY <1>5, <1>6, <1>9 DEF Fresh, Changed
<1> QED
  BY <1>9, <1>10, <1>11 DEF Changed

\* It cannot start one.
LEMMA NotOpenMoves ==
  ASSUME NEW s, Books(s), NEW ic \in DOMAIN s.pool, Fresh(s, ic)
  PROVE  Moves(LaunchConnection(s, ic, FALSE), s)
<1>1. /\ s \in Records /\ s.pool[ic] \in Connection
      /\ s.njobs \in Nat /\ Sound(s.pool[ic], s.njobs)
  BY BooksTypes
<1>2. PICK c : c = s.pool[ic]
  OBVIOUS
<1>3. PICK d : d = Unopened(c)
  OBVIOUS
<1>4. /\ d \in Connection /\ d.tasks = c.tasks /\ d.running = c.running
      /\ d.launched = c.launched /\ d.complete = c.complete
      /\ d.link = c.link /\ d.restart = c.restart
  BY <1>1, <1>2, <1>3 DEF Unopened, Connection
<1>5. d.running = d.launched - d.complete /\ LinkOK(d.link, s.njobs) /\ Quieter(d.link, c.link)
  BY <1>1, <1>2, <1>4 DEF Sound, Quieter
<1>6. PICK t : t = Put(s, ic, d)
  OBVIOUS
<1>7. Moves(t, s) /\ Changed(t, s, ic, d)
  BY <1>2, <1>4, <1>5, <1>6, PutCarries
<1>8. Books(t) /\ ic \in DOMAIN t.pool /\ Fresh(t, ic)
  BY <1>2, <1>4, <1>7 DEF Changed, Fresh, Moves, Carries
<1>9. LaunchConnection(s, ic, FALSE) = Shift(t, ic)
  BY <1>1, <1>2, <1>3, <1>6 DEF LaunchConnection, Put, Unopened, Records
<1> QED
  BY <1>7, <1>8, <1>9, ShiftMoves, MovesTrans

LEMMA ReconnectSettles ==
  ASSUME NEW s, Books(s), NEW ic \in DOMAIN s.pool, Tried(s.pool), NEW up \in BOOLEAN
  PROVE  Settles(Reconnect(s, ic, up), s)
<1>1. /\ s \in Records /\ s.pool[ic] \in Connection
      /\ s.njobs \in Nat /\ Sound(s.pool[ic], s.njobs)
  BY BooksTypes
<1>2. PICK c : c = s.pool[ic]
  OBVIOUS
<1>3. PICK n \in Nat : n = c.restart + 1 /\ n =< RestartLimit /\ n \in 0..RestartLimit
  <2>1. RestartLimit \in Nat
    BY PoolAssumption DEF RestartLimit
  <2>2. c.restart \in 0..RestartLimit /\ c.restart < RestartLimit
    BY <1>1, <1>2, Fields DEF Tried
  <2>3. c.restart + 1 \in 0..RestartLimit
    BY <2>1, <2>2
  <2> QED
    BY <2>1, <2>3
<1>4. PICK d : d = CountedUp(c)
  OBVIOUS
<1>5. /\ d \in Connection /\ d.tasks = c.tasks /\ d.running = c.running
      /\ d.launched = c.launched /\ d.complete = c.complete
      /\ d.link = c.link /\ d.restart = n
  BY <1>1, <1>2, <1>3, <1>4 DEF CountedUp, Connection
<1>6. d.running = d.launched - d.complete /\ LinkOK(d.link, s.njobs) /\ Quieter(d.link, c.link)
  BY <1>1, <1>2, <1>5 DEF Sound, Quieter
<1>7. PICK v : v = Put(s, ic, d)
  OBVIOUS
<1>8. Carries(v, s) /\ Changed(v, s, ic, d)
  BY <1>2, <1>5, <1>6, <1>7, PutCarries
<1>9. v = [s EXCEPT !.pool[ic].restart = @ + 1]
  BY <1>1, <1>2, <1>4, <1>7 DEF Put, CountedUp, Records
<1>10. Books(v) /\ ic \in DOMAIN v.pool /\ v.fate = s.fate /\ v.pool[ic].restart = n
  BY <1>5, <1>8 DEF Carries, Changed
<1>11. PICK r : r = Reconnect(s, ic, up)
  OBVIOUS
<1>12. PICK o : o = LaunchConnection(Close(v, ic), ic, up)
  OBVIOUS
<1>13. r = CASE n >= Attempts -> [v EXCEPT !.fate = "SC_CONN_EXHAUSTED"]
             [] n < Attempts /\ ~up -> [o EXCEPT !.fate = "SC_NO_CONN"]
             [] OTHER -> AssignCurrent(o, ic)
  BY <1>9, <1>10, <1>11, <1>12 DEF Reconnect
<1>14. CASE n >= Attempts
  <2>1. ~(n < Attempts)
    BY <1>14, PoolAssumption
  <2>2. r = [v EXCEPT !.fate = "SC_CONN_EXHAUSTED"]
    BY <2>1, <1>13, <1>14
  <2>3. PICK f \in Fates : f = "SC_CONN_EXHAUSTED"
    BY DEF Fates
  <2>4. PICK H \in SUBSET (1..Hosts) : TRUE
    OBVIOUS
  <2>5. r = [v EXCEPT !.fate = f]
    BY <2>2, <2>3
  <2>6. Carries(r, v) /\ r.fate = f
    BY <2>4, <2>5, <1>10, TurnedCarries
  <2>7. Carries(r, s)
    BY <2>6, <1>8, CarriesTrans
  <2> QED
    BY <2>3, <2>6, <2>7, <1>11 DEF Settles
<1>15. CASE ~(n >= Attempts)
  <2>1. n < Attempts /\ n < RestartLimit
    BY <1>15, PoolAssumption DEF RestartLimit
  <2>2. Moves(v, s)
    <3>1. Tried(v.pool)
      BY <2>1, <1>8, <1>10 DEF Tried, Changed
    <3> QED
      BY <3>1, <1>8, <1>10 DEF Moves
  <2>3. PICK w : w = Close(v, ic)
    OBVIOUS
  <2>4. Moves(w, v) /\ DOMAIN w.pool = DOMAIN v.pool /\ Fresh(w, ic)
    BY <2>3, <1>10, CloseMoves
  <2>5. Moves(w, s) /\ Books(w) /\ ic \in DOMAIN w.pool
    <3>1. Moves(w, s)
      BY <2>2, <2>4, MovesTrans
    <3> QED
      BY <3>1, <2>4, <1>10 DEF Moves, Carries
  <2>6. CASE ~up
    <3>1. o = LaunchConnection(w, ic, FALSE)
      BY <2>3, <2>6, <1>12
    <3>2. Moves(o, w)
      BY <3>1, <2>4, <2>5, NotOpenMoves
    <3>3. Moves(o, s) /\ Books(o)
      <4>1. Moves(o, s)
        BY <3>2, <2>5, MovesTrans
      <4> QED
        BY <4>1 DEF Moves, Carries
    <3>4. r = [o EXCEPT !.fate = "SC_NO_CONN"]
      BY <2>1, <2>6, <1>13, <1>15
    <3>5. PICK f \in Fates : f = "SC_NO_CONN"
      BY DEF Fates
    <3>6. PICK H \in SUBSET (1..Hosts) : TRUE
      OBVIOUS
    <3>7. r = [o EXCEPT !.fate = f]
      BY <3>4, <3>5
    <3>8. Carries(r, o) /\ r.fate = f
      BY <3>3, <3>6, <3>7, TurnedCarries
    <3>9. Carries(r, s)
      BY <3>3, <3>8, CarriesTrans DEF Moves
    <3> QED
      BY <3>5, <3>8, <3>9, <1>11 DEF Settles
  <2>7. CASE up
    <3>1. o = LaunchConnection(w, ic, TRUE)
      BY <2>3, <2>7, <1>12
    <3>2. Moves(o, w) /\ DOMAIN o.pool = DOMAIN w.pool /\ Fresh(o, ic)
      BY <3>1, <2>5, OpenMoves
    <3>3. Moves(o, s) /\ Books(o) /\ ic \in DOMAIN o.pool
      <4>1. Moves(o, s)
        BY <3>2, <2>5, MovesTrans
      <4> QED
        BY <4>1, <3>2, <2>5 DEF Moves, Carries
    <3>4. r = AssignCurrent(o, ic)
      BY <2>1, <2>7, <1>13, <1>15
    <3>5. Moves(r, o)
      BY <3>2, <3>3, <3>4, AssignCurrentMoves
    <3>6. Moves(r, s)
      BY <3>3, <3>5, MovesTrans
    <3> QED
      BY <3>6, <1>11 DEF Moves, Settles
  <2> QED
    BY <2>6, <2>7
<1> QED
  BY <1>14, <1>15

LEMMA RecoverSettles ==
  ASSUME NEW s, Books(s), NEW ic \in DOMAIN s.pool, Tried(s.pool), NEW up \in BOOLEAN
  PROVE  Settles(Recover(s, ic, up), s)
<1>1. PICK w : w = Close(s, ic)
  OBVIOUS
<1>2. Moves(w, s) /\ DOMAIN w.pool = DOMAIN s.pool /\ Fresh(w, ic) /\ Spare(w) = Spare(s)
  BY <1>1, CloseMoves
<1>3. Books(w) /\ ic \in DOMAIN w.pool
  BY <1>2 DEF Moves, Carries
<1>4. PICK v : v = Shift(w, ic)
  OBVIOUS
<1>5. Moves(v, w) /\ (Spare(w) # {} => DOMAIN v.pool = DOMAIN w.pool)
  BY <1>2, <1>3, <1>4, ShiftMoves
<1>6. Moves(v, s)
  BY <1>2, <1>5, MovesTrans
<1>7. CASE Spare(s) = {}
  <2>1. Recover(s, ic, up) = v
    BY <1>1, <1>4, <1>7 DEF Recover
  <2> QED
    BY <2>1, <1>6 DEF Moves, Settles
<1>8. CASE Spare(s) # {}
  <2>1. Recover(s, ic, up) = Reconnect(v, ic, up)
    BY <1>1, <1>4, <1>8 DEF Recover
  <2>2. Books(v) /\ ic \in DOMAIN v.pool /\ Tried(v.pool)
    BY <1>2, <1>5, <1>6, <1>8 DEF Moves, Carries
  <2>3. Settles(Reconnect(v, ic, up), v)
    BY <2>2, ReconnectSettles
  <2> QED
    BY <2>1, <2>3, <1>6, SettlesTrans
<1> QED
  BY <1>7, <1>8

-----------------------------------------------------------------------------
(* A command is launched.                                                  *)

LEMMA CommandsAre ==
  /\ Len(Script) \in Nat /\ DOMAIN Script = 1 .. Len(Script)
  /\ Commands \subseteq 1 .. Len(Script) /\ \A p \in Commands : p \in Nat /\ p >= 1
<1>1. Len(Script) \in Nat /\ DOMAIN Script = 1 .. Len(Script)
  BY PoolAssumption, LenProperties
<1> QED
  BY <1>1 DEF Commands

\* ql is pl with one more task, u, of connection ic.
Added(pl, ql, ic, u) ==
  /\ DOMAIN ql = DOMAIN pl
  /\ \A jc \in DOMAIN pl : \A jt \in DOMAIN pl[jc].tasks :
       jt \in DOMAIN ql[jc].tasks /\ ql[jc].tasks[jt] = pl[jc].tasks[jt]
  /\ \E at \in DOMAIN ql[ic].tasks :
       /\ ql[ic].tasks[at] = u
       /\ \A jc \in DOMAIN pl : \A jt \in DOMAIN ql[jc].tasks :
            jt \in DOMAIN pl[jc].tasks \/ (jc = ic /\ jt = at)

\* What a new job makes of the pool.
Launches(t, s, ic, cmd) ==
  /\ Books(t) /\ t.fate = s.fate /\ Len(t.pool) = Len(s.pool)
  /\ (Tried(s.pool) => Tried(t.pool))
  /\ Added(s.pool, t.pool, ic, Issued(s.njobs, cmd))

LEMMA PoolJobLaunches ==
  ASSUME NEW s, Books(s), NEW ic \in DOMAIN s.pool, NEW cmd \in Commands
  PROVE  Launches(PoolJob(s, ic, cmd), s, ic, cmd)
<1>1. /\ s \in Records /\ s.pool \in Seq(Connection) /\ Len(s.pool) \in Nat
      /\ \A jc \in DOMAIN s.pool : s.pool[jc] \in Connection /\ Sound(s.pool[jc], s.njobs)
  BY BooksTypes
<1>2. PICK n \in Nat : n = s.njobs
  BY BooksTypes
<1>3. PICK h \in Connection : h = s.pool[ic] /\ Sound(h, n)
  BY <1>1, <1>2
<1>4. PICK d : d = Took(h, n, cmd)
  OBVIOUS
<1>5. /\ d \in Connection /\ Sound(d, n + 1)
      /\ d.tasks = Append(h.tasks, Issued(n, cmd)) /\ d.restart = h.restart
  <2>1. Sound(h, n)
    BY <1>3
  <2>2. LET e == Took(h, n, cmd)
        IN  /\ e \in Connection /\ Sound(e, n + 1)
            /\ e.tasks = Append(h.tasks, Issued(n, cmd)) /\ e.restart = h.restart
    BY <2>1, TookSound
  <2> QED
    BY <2>2, <1>4
<1>6. PICK t : t = PoolJob(s, ic, cmd)
  OBVIOUS
<1>7. /\ t \in Records /\ t.fate = s.fate /\ t.njobs = n + 1
      /\ t.pool = [s.pool EXCEPT ![ic] = d]
  BY <1>1, <1>2, <1>3, <1>4, <1>5, <1>6, PoolJobIs
<1>8. /\ Len(t.pool) = Len(s.pool) /\ DOMAIN t.pool = DOMAIN s.pool
      /\ t.pool[ic] = d /\ \A jc \in DOMAIN s.pool : jc # ic => t.pool[jc] = s.pool[jc]
  BY <1>1, <1>5, <1>7, SeqPut
<1>9. Books(t)
  <2>1. n + 1 \in Nat /\ n =< n + 1
    OBVIOUS
  <2>2. \A jc \in DOMAIN s.pool : Sound(s.pool[jc], n + 1)
    BY <2>1, <1>1, <1>2, SoundGrows
  <2> QED
    BY <2>2, <1>5, <1>7, <1>8 DEF Books
<1>10. PICK u : u = Issued(n, cmd)
  OBVIOUS
<1>11. PICK hs \in Seq(Task) : hs = h.tasks
  BY Fields
<1>12. PICK l \in Nat : l = Len(hs) + 1 /\ DOMAIN hs = 1 .. l - 1
  BY LenProperties
<1>13. /\ DOMAIN d.tasks = 1 .. l /\ d.tasks[l] = u
       /\ \A j \in DOMAIN hs : d.tasks[j] = hs[j]
  BY <1>5, <1>10, <1>11, <1>12, IssuedTask, SeqAppend
<1>14. ASSUME NEW jc \in DOMAIN s.pool
       PROVE  /\ \A jt \in DOMAIN s.pool[jc].tasks :
                   jt \in DOMAIN t.pool[jc].tasks /\ t.pool[jc].tasks[jt] = s.pool[jc].tasks[jt]
              /\ \A jt \in DOMAIN t.pool[jc].tasks :
                   jt \in DOMAIN s.pool[jc].tasks \/ (jc = ic /\ jt = l)
  <2>1. CASE jc # ic
    BY <2>1, <1>8
  <2>2. CASE jc = ic
    <3>1. \A j \in 1 .. l - 1 : j \in 1 .. l
      OBVIOUS
    <3>2. \A j \in 1 .. l : j \in 1 .. l - 1 \/ j = l
      OBVIOUS
    <3>3. t.pool[jc].tasks = d.tasks /\ s.pool[jc].tasks = hs
      BY <2>2, <1>3, <1>8, <1>11
    <3> QED
      BY <3>1, <3>2, <3>3, <2>2, <1>12, <1>13
  <2> QED
    BY <2>1, <2>2
<1>15. l \in DOMAIN t.pool[ic].tasks /\ t.pool[ic].tasks[l] = u
  BY <1>8, <1>12, <1>13
<1>16. Added(s.pool, t.pool, ic, u)
  BY <1>8, <1>14, <1>15 DEF Added
<1>17. Tried(s.pool) => Tried(t.pool)
  BY <1>3, <1>5, <1>8 DEF Tried
<1> QED
  BY <1>2, <1>6, <1>7, <1>8, <1>9, <1>10, <1>16, <1>17 DEF Launches

LEMMA AddedTracked ==
  ASSUME NEW pl \in Seq(Connection), NEW ql \in Seq(Connection), Len(ql) = Len(pl),
         NEW ic \in DOMAIN pl, NEW n \in Nat, NEW q \in Nat, q \in Commands,
         Added(pl, ql, ic, Issued(n, q)),
         NEW a, NEW o, NEW m, Tracked(pl, q, a, o, m), a[q] = 0
  PROVE  Tracked(ql, q + 1, a, o, m)
<1>1. PICK u \in Task : /\ u = Issued(n, q) /\ u.cmd = q /\ ~u.killed /\ u.status = NotFinished
  BY IssuedTask
<1>2. PICK at \in DOMAIN ql[ic].tasks :
        /\ ql[ic].tasks[at] = u
        /\ \A jc \in DOMAIN pl : \A jt \in DOMAIN ql[jc].tasks :
             jt \in DOMAIN pl[jc].tasks \/ (jc = ic /\ jt = at)
  BY <1>1 DEF Added
<1>3. /\ DOMAIN ql = DOMAIN pl
      /\ \A jc \in DOMAIN pl : \A jt \in DOMAIN pl[jc].tasks :
           jt \in DOMAIN ql[jc].tasks /\ ql[jc].tasks[jt] = pl[jc].tasks[jt]
  BY DEF Added
<1>4. \A p \in Commands : p \in Nat
  BY CommandsAre
<1>5. \A jc \in DOMAIN pl : \A jt \in DOMAIN pl[jc].tasks :
        /\ pl[jc].tasks[jt].cmd \in Commands
        /\ ~pl[jc].tasks[jt].killed => Truthful(pl[jc].tasks[jt], q, a, o)
  BY TaskFields, Fields DEF Tracked
<1>6. \A jc \in DOMAIN pl : \A jt \in DOMAIN pl[jc].tasks :
        ~pl[jc].tasks[jt].killed => pl[jc].tasks[jt].cmd # q
                                    /\ Truthful(pl[jc].tasks[jt], q + 1, a, o)
  <2> SUFFICES ASSUME NEW jc \in DOMAIN pl, NEW jt \in DOMAIN pl[jc].tasks,
                      ~pl[jc].tasks[jt].killed
               PROVE  /\ pl[jc].tasks[jt].cmd # q
                      /\ Truthful(pl[jc].tasks[jt], q + 1, a, o)
    OBVIOUS
  <2>1. PICK c \in Nat : c = pl[jc].tasks[jt].cmd
    BY <1>4, <1>5
  <2>2. c < q /\ c < q + 1 /\ c # q
    BY <2>1, <1>5 DEF Truthful
  <2> QED
    BY <2>1, <2>2, <1>5 DEF Truthful
<1>7. Truthful(u, q + 1, a, o)
  BY <1>1 DEF Truthful
<1>8. \A jc \in DOMAIN ql : \A jt \in DOMAIN ql[jc].tasks :
        ~ql[jc].tasks[jt].killed => Truthful(ql[jc].tasks[jt], q + 1, a, o)
  BY <1>2, <1>3, <1>6, <1>7
<1>9. ASSUME NEW p \in Commands PROVE Alone(ql, p)
  <2>1. SUFFICES ASSUME NEW jc \in DOMAIN ql, NEW kc \in DOMAIN ql,
                        NEW jt \in DOMAIN ql[jc].tasks, NEW kt \in DOMAIN ql[kc].tasks,
                        Stands(ql, jc, jt, p), Stands(ql, kc, kt, p)
                 PROVE  jc = kc /\ jt = kt
    BY DEF Alone
  <2>2. (jc = ic /\ jt = at /\ p = q) \/ (jt \in DOMAIN pl[jc].tasks /\ Stands(pl, jc, jt, p) /\ p # q)
    <3>1. CASE jt \in DOMAIN pl[jc].tasks
      <4>1. Stands(pl, jc, jt, p)
        BY <3>1, <2>1, <1>3 DEF Stands
      <4> QED
        BY <4>1, <3>1, <1>6 DEF Stands
    <3>2. CASE jt \notin DOMAIN pl[jc].tasks
      BY <3>2, <2>1, <1>1, <1>2, <1>3 DEF Stands
    <3> QED
      BY <3>1, <3>2
  <2>3. (kc = ic /\ kt = at /\ p = q) \/ (kt \in DOMAIN pl[kc].tasks /\ Stands(pl, kc, kt, p) /\ p # q)
    <3>1. CASE kt \in DOMAIN pl[kc].tasks
      <4>1. Stands(pl, kc, kt, p)
        BY <3>1, <2>1, <1>3 DEF Stands
      <4> QED
        BY <4>1, <3>1, <1>6 DEF Stands
    <3>2. CASE kt \notin DOMAIN pl[kc].tasks
      BY <3>2, <2>1, <1>1, <1>2, <1>3 DEF Stands
    <3> QED
      BY <3>1, <3>2
  <2>4. Alone(pl, p)
    BY DEF Tracked
  <2> QED
    BY <2>2, <2>3, <2>4, <1>3 DEF Alone, Stands
<1>10. ASSUME NEW p \in Commands, Somewhere(pl, p) PROVE Somewhere(ql, p)
  <2>1. PICK jc \in DOMAIN pl : \E jt \in DOMAIN pl[jc].tasks : Stands(pl, jc, jt, p)
    BY <1>10 DEF Somewhere
  <2>2. PICK jt \in DOMAIN pl[jc].tasks : Stands(pl, jc, jt, p)
    BY <2>1
  <2> QED
    BY <2>2, <1>3 DEF Somewhere, Stands
<1>11. Somewhere(ql, q)
  BY <1>1, <1>2, <1>3 DEF Somewhere, Stands
<1>12. ql # <<>> /\ pl # <<>>
  BY <1>3
<1>13. ASSUME NEW p \in Commands, p < q + 1, a[p] = 0 \/ Len(ql) = m PROVE Somewhere(ql, p)
  <2>1. p = q \/ p < q
    <3>1. p \in Nat /\ p < q + 1
      BY <1>4, <1>13
    <3> QED
      BY <3>1
  <2>2. CASE p = q
    BY <2>2, <1>11
  <2>3. CASE p < q
    BY <2>3, <1>10, <1>12, <1>13 DEF Tracked
  <2> QED
    BY <2>1, <2>2, <2>3
<1> QED
  BY <1>8, <1>9, <1>13 DEF Tracked

-----------------------------------------------------------------------------
(* A job is reported done.                                                 *)

\* ql is pl but for the task of a command that has been reported as st.
Reported(pl, ql, ic, it, st) ==
  /\ DOMAIN ql = DOMAIN pl
  /\ \A jc \in DOMAIN pl :
       /\ DOMAIN ql[jc].tasks = DOMAIN pl[jc].tasks
       /\ \A jt \in DOMAIN pl[jc].tasks :
            ~(jc = ic /\ jt = it) => ql[jc].tasks[jt] = pl[jc].tasks[jt]
  /\ ql[ic].tasks[it].cmd = pl[ic].tasks[it].cmd
  /\ ql[ic].tasks[it].killed = pl[ic].tasks[it].killed
  /\ ql[ic].tasks[it].status = st

\* The histories of command x once it is reported with status st.
Noted(a, o, b, r, x, st) == /\ b = [a EXCEPT ![x] = @ + 1]
                            /\ r = [o EXCEPT ![x] = st]

LEMMA ReportedTracked ==
  ASSUME NEW pl \in Seq(Connection), NEW ql \in Seq(Connection), Len(ql) = Len(pl),
         NEW ic \in DOMAIN pl, NEW it \in DOMAIN pl[ic].tasks, NEW st \in {Ok, Failed},
         ~pl[ic].tasks[it].killed, Reported(pl, ql, ic, it, st),
         NEW q, NEW a \in [Commands -> Nat], NEW o \in [Commands -> {NotFinished, Ok, Failed}],
         NEW m, Tracked(pl, q, a, o, m), NEW x, x = pl[ic].tasks[it].cmd,
         NEW b, NEW r, Noted(a, o, b, r, x, st)
  PROVE  Tracked(ql, q, b, r, m)
<1>1. x \in Commands
  BY Fields, TaskFields
<1>4. /\ b[x] # 0 /\ \A p \in Commands : p # x => b[p] = a[p]
      /\ r[x] = st /\ \A p \in Commands : p # x => r[p] = o[p]
      /\ st # NotFinished
  BY <1>1 DEF Noted, NotFinished, Ok, Failed
<1>5. \A jc \in DOMAIN pl : \A jt \in DOMAIN pl[jc].tasks : pl[jc].tasks[jt].cmd \in Commands
  BY Fields, TaskFields
<1>6. /\ DOMAIN ql = DOMAIN pl
      /\ \A jc \in DOMAIN pl :
           /\ DOMAIN ql[jc].tasks = DOMAIN pl[jc].tasks
           /\ \A jt \in DOMAIN pl[jc].tasks :
                /\ ~(jc = ic /\ jt = it) => ql[jc].tasks[jt] = pl[jc].tasks[jt]
                /\ ql[jc].tasks[jt].cmd = pl[jc].tasks[jt].cmd
                /\ ql[jc].tasks[jt].killed = pl[jc].tasks[jt].killed
      /\ ql[ic].tasks[it].status = st
  BY DEF Reported
<1>7. \A jc, jt, p : Stands(ql, jc, jt, p) <=> Stands(pl, jc, jt, p)
  BY <1>6 DEF Stands
<1>8. Stands(pl, ic, it, x)
  BY DEF Stands
<1>9. ASSUME NEW jc \in DOMAIN pl, NEW jt \in DOMAIN pl[jc].tasks, ~ql[jc].tasks[jt].killed
      PROVE  Truthful(ql[jc].tasks[jt], q, b, r)
  <2>1. ~pl[jc].tasks[jt].killed /\ Truthful(pl[jc].tasks[jt], q, a, o)
    BY <1>6, <1>9 DEF Tracked
  <2>2. CASE jc = ic /\ jt = it
    BY <2>1, <2>2, <1>4, <1>6 DEF Truthful
  <2>3. CASE ~(jc = ic /\ jt = it)
    <3>1. Alone(pl, x)
      BY <1>1 DEF Tracked
    <3>2. ~Stands(pl, jc, jt, x)
      BY <3>1, <2>3, <1>8 DEF Alone
    <3>3. pl[jc].tasks[jt].cmd # x
      BY <3>2, <2>1 DEF Stands
    <3> QED
      BY <3>3, <2>1, <2>3, <1>4, <1>5, <1>6 DEF Truthful
  <2> QED
    BY <2>2, <2>3
<1>10. \A p \in Commands : Alone(ql, p)
  <2>1. \A p \in Commands : Alone(pl, p)
    BY DEF Tracked
  <2> QED
    BY <2>1, <1>6, <1>7 DEF Alone
<1>11. \A p \in Commands : Somewhere(pl, p) => Somewhere(ql, p)
  BY <1>6, <1>7 DEF Somewhere
<1>12. \A p \in Commands : b[p] = 0 => a[p] = 0
  BY <1>4
<1>13. ql # <<>> /\ pl # <<>>
  BY <1>6
<1>14. \A p \in Commands : p < q /\ (b[p] = 0 \/ Len(ql) = m) => Somewhere(ql, p)
  BY <1>11, <1>12, <1>13 DEF Tracked
<1> QED
  BY <1>6, <1>9, <1>10, <1>14 DEF Tracked

LEMMA NewLimitType ==
  ASSUME NEW s \in Records, NEW ic \in DOMAIN s.pool, NEW slow \in BOOLEAN
  PROVE  NewLimit(s, ic, slow) \in Nat \ {0}
<1>1. PICK x \in Nat \ {0} : x = s.pool[ic].max
  BY Fields DEF Records
<1>2. PICK y \in Nat \ {0} : y = s.pool[ic].lmt
  BY Fields DEF Records
<1>3. PICK l \in Int : l = IF Len(s.pool) < 2 THEN x ELSE IF slow THEN y - 1 ELSE y
  OBVIOUS
<1>4. PICK g \in Int : g = CASE Recruit = 1 -> l + 1 [] Recruit = 2 -> 2 * l [] OTHER -> x
  BY <1>3
<1>5. PICK e \in Int : e = IF g < x THEN g ELSE x
  OBVIOUS
<1>6. NewLimit(s, ic, slow) = IF e > 1 THEN e ELSE 1
  BY <1>1, <1>2, <1>3, <1>4, <1>5 DEF NewLimit
<1> QED
  BY <1>6

\* What the end of a job makes of the pool.
Reports(t, s, ic, it, st) ==
  /\ Books(t) /\ t.fate = s.fate /\ Len(t.pool) = Len(s.pool)
  /\ (Tried(s.pool) => Tried(t.pool))
  /\ Reported(s.pool, t.pool, ic, it, st)

LEMMA PutReports ==
  ASSUME NEW s, Books(s), NEW ic \in DOMAIN s.pool, NEW it \in DOMAIN s.pool[ic].tasks,
         NEW st, NEW u \in Task, u.cmd = s.pool[ic].tasks[it].cmd,
         u.killed = s.pool[ic].tasks[it].killed, u.status = st,
         NEW d \in Connection, Sound(d, s.njobs), d.restart = s.pool[ic].restart,
         d.tasks = PutTaskIn(s.pool[ic], it, u)
  PROVE  Reports(Put(s, ic, d), s, ic, it, st)
<1>1. PICK ts \in Seq(Task) : ts = s.pool[ic].tasks
  BY BooksTypes
<1>2. PICK t : t = Put(s, ic, d)
  OBVIOUS
<1>3. Changed(t, s, ic, d)
  BY <1>2, PutIs DEF Books
<1>4. /\ t \in Records /\ t.hosts = s.hosts /\ t.njobs = s.njobs /\ t.fate = s.fate
      /\ Len(t.pool) = Len(s.pool) /\ DOMAIN t.pool = DOMAIN s.pool
      /\ t.pool[ic] = d /\ \A lc \in DOMAIN s.pool : lc # ic => t.pool[lc] = s.pool[lc]
  BY <1>3 DEF Changed
<1>5. Books(t)
  BY <1>4 DEF Books
<1>6. /\ DOMAIN d.tasks = DOMAIN ts /\ d.tasks[it] = u
      /\ \A j \in DOMAIN ts : j # it => d.tasks[j] = ts[j]
  BY <1>1 DEF PutTaskIn
<1>7. Reported(s.pool, t.pool, ic, it, st)
  BY <1>1, <1>4, <1>6 DEF Reported
<1>8. Tried(s.pool) => Tried(t.pool)
  BY <1>4 DEF Tried
<1> QED
  BY <1>2, <1>4, <1>5, <1>7, <1>8 DEF Reports

\* A connection that has read the end of a job.
DoneIn(c, it, st, l) ==
  [c EXCEPT !.tasks = PutTaskIn(c, it, Finished(c.tasks[it], st)), !.lmt = l, !.running = @ - 1]

LEMMA TaskOutputReports ==
  ASSUME NEW s, Books(s), NEW ic \in DOMAIN s.pool, NEW it \in DOMAIN s.pool[ic].tasks,
         Pending(s.pool[ic].tasks[it]),
         Silent(s.pool[ic].link, s.pool[ic].tasks[it].id),
         NEW st \in {Ok, Failed}, NEW slow \in BOOLEAN
  PROVE  Reports(TaskOutput(s, ic, it, st, slow), s, ic, it, st)
<1>1. s \in Records /\ s.njobs \in Nat
  BY BooksTypes
<1>2. PICK c \in Connection : c = s.pool[ic] /\ Sound(c, s.njobs)
  BY BooksTypes
<1>3. PICK ts \in Seq(Task) : ts = c.tasks
  BY Fields
<1>4. PICK t \in Task : t = ts[it]
  BY <1>2, <1>3
<1>5. t = c.tasks[it] /\ Pending(t) /\ ~t.killed /\ Silent(c.link, t.id)
  BY <1>2, <1>3, <1>4 DEF Pending
<1>6. PICK l \in Nat \ {0} : l = NewLimit(s, ic, slow)
  BY <1>1, NewLimitType
<1>7. PICK ok : ok = Retry(t, st)
  OBVIOUS
<1>8. ok \in {-1, 0, 1}
  BY <1>7 DEF Retry
<1>9. PICK f : f = Finished(t, st)
  OBVIOUS
<1>10. f \in Task /\ f.status = st /\ f.killed = t.killed /\ f.cmd = t.cmd /\ f.ia = t.ia /\ f.id = t.id
  BY <1>7, <1>8, <1>9 DEF Finished, Task
<1>11. PICK fs : fs = [ts EXCEPT ![it] = f] /\ fs = PutTaskIn(c, it, f)
  BY <1>3 DEF PutTaskIn
<1>12. PICK j : j = JobDone(s, ic, it, ok, st, slow)
  OBVIOUS
<1>13. PICK d : d = DoneIn(c, it, st, l)
  OBVIOUS
<1>14. d = [c EXCEPT !.tasks = fs, !.lmt = l, !.running = c.running - 1]
  BY <1>3, <1>4, <1>9, <1>11, <1>13 DEF DoneIn, Connection
<1>15. j = Put(s, ic, d)
  <2>1. j = [s EXCEPT !.pool[ic].tasks[it].status = st, !.pool[ic].tasks[it].retry = ok,
                      !.pool[ic].lmt = l, !.pool[ic].running = @ - 1]
    BY <1>6, <1>12 DEF JobDone
  <2>2. f = [t EXCEPT !.status = st, !.retry = ok]
    BY <1>7, <1>9 DEF Finished
  <2>3. j = [s EXCEPT !.pool = [s.pool EXCEPT ![ic] =
               [c EXCEPT !.tasks = [ts EXCEPT ![it] = [t EXCEPT !.status = st, !.retry = ok]],
                         !.lmt = l, !.running = c.running - 1]]]
    <3>1. PICK c1 : c1 = [c EXCEPT !.tasks = [ts EXCEPT ![it] = [t EXCEPT !.status = st]]]
      OBVIOUS
    <3>2. PICK c2 : c2 = [c EXCEPT !.tasks = [ts EXCEPT ![it] = [t EXCEPT !.status = st, !.retry = ok]]]
      OBVIOUS
    <3>3. PICK s1 : s1 = [s EXCEPT !.pool[ic].tasks[it].status = st]
      OBVIOUS
    <3>4. PICK s2 : s2 = [s1 EXCEPT !.pool[ic].tasks[it].retry = ok]
      OBVIOUS
    <3>5. s1 = [s EXCEPT !.pool = [s.pool EXCEPT ![ic] = c1]]
      BY <3>1, <3>3, <1>1, <1>2, <1>3, <1>4 DEF Records
    <3>6. s1.pool = [s.pool EXCEPT ![ic] = c1] /\ s1.pool[ic] = c1 /\ ic \in DOMAIN s1.pool
      BY <3>5, <1>1 DEF Records
    <3>7. c1.tasks[it] = [t EXCEPT !.status = st] /\ it \in DOMAIN c1.tasks
          /\ c1.tasks = [ts EXCEPT ![it] = [t EXCEPT !.status = st]]
      BY <3>1, <1>2, <1>3 DEF Connection
    <3>8. [c1 EXCEPT !.tasks[it].retry = ok] = c2
      BY <3>1, <3>2, <3>7 DEF Connection
    <3>9. s2 = [s1 EXCEPT !.pool[ic] = [c1 EXCEPT !.tasks[it].retry = ok]]
      BY <3>4, <3>6
    <3>10. s2 = [s EXCEPT !.pool = [s.pool EXCEPT ![ic] = c2]]
      <4>1. s2 = [s1 EXCEPT !.pool = [s1.pool EXCEPT ![ic] = c2]]
        BY <3>8, <3>9
      <4>2. [s1.pool EXCEPT ![ic] = c2] = [s.pool EXCEPT ![ic] = c2]
        BY <3>6
      <4> QED
        BY <4>1, <4>2, <3>5, <1>1 DEF Records
    <3>11. j = [s2 EXCEPT !.pool[ic].lmt = l, !.pool[ic].running = s.pool[ic].running - 1]
      BY <3>3, <3>4, <2>1
    <3>12. [c2 EXCEPT !.lmt = l, !.running = s.pool[ic].running - 1]
           = [c EXCEPT !.tasks = [ts EXCEPT ![it] = [t EXCEPT !.status = st, !.retry = ok]],
                       !.lmt = l, !.running = c.running - 1]
      BY <3>2, <1>2 DEF Connection
    <3>13. s2.pool = [s.pool EXCEPT ![ic] = c2] /\ s2.pool[ic] = c2 /\ ic \in DOMAIN s2.pool
      BY <3>10, <1>1 DEF Records
    <3>14. j = [s2 EXCEPT !.pool[ic] = [c2 EXCEPT !.lmt = l, !.running = s.pool[ic].running - 1]]
      BY <3>11, <3>13
    <3> QED
      BY <3>10, <3>12, <3>13, <3>14, <1>1 DEF Records
  <2> QED
    BY <2>2, <2>3, <1>11, <1>14 DEF Put
<1>16. PICK r : r = TaskOutput(s, ic, it, st, slow)
  OBVIOUS
<1>17. r = IF ok = 1 THEN ExecJob(j, ic, it) ELSE [j EXCEPT !.pool[ic].complete = @ + 1]
  BY <1>2, <1>5, <1>7, <1>12, <1>16 DEF TaskOutput
<1>18. CASE ok # 1
  <2>1. PICK e : e = Ended(c, it, st, l)
    OBVIOUS
  <2>2. e \in Connection /\ Sound(e, s.njobs) /\ e.restart = c.restart
        /\ e.tasks = PutTaskIn(c, it, Finished(c.tasks[it], st))
    <3>1. it \in DOMAIN c.tasks /\ Pending(c.tasks[it]) /\ Silent(c.link, c.tasks[it].id)
          /\ Retry(c.tasks[it], st) # 1 /\ Sound(c, s.njobs)
      BY <1>2, <1>5, <1>7, <1>18
    <3> QED
      BY <3>1, <2>1, <1>1, EndedSound
  <2>3. e = [d EXCEPT !.complete = @ + 1]
    <3>1. e = [c EXCEPT !.tasks = fs, !.lmt = l, !.complete = c.complete + 1, !.running = c.running - 1]
      BY <2>1, <1>5, <1>9, <1>11 DEF Ended, Connection
    <3> QED
      BY <3>1, <1>14 DEF Connection
  <2>4. r = Put(s, ic, e)
    <3>1. r = [j EXCEPT !.pool[ic].complete = @ + 1]
      BY <1>17, <1>18
    <3> QED
      BY <3>1, <2>3, <1>1, <1>15 DEF Put, Records
  <2>5. e.tasks = PutTaskIn(s.pool[ic], it, f)
    BY <2>2, <1>2, <1>5, <1>9
  <2>6. Reports(Put(s, ic, e), s, ic, it, st)
    BY <2>2, <2>5, <1>2, <1>5, <1>10, PutReports
  <2> QED
    BY <2>4, <2>6, <1>16
<1>19. CASE ok = 1
  <2>1. PICK e : e = Retried(c, it, st, l)
    OBVIOUS
  <2>2. e \in Connection /\ Sound(e, s.njobs) /\ e.restart = c.restart
        /\ e.tasks = PutTaskIn(c, it, Again(c.tasks[it], st))
    <3>1. it \in DOMAIN c.tasks /\ Pending(c.tasks[it]) /\ Silent(c.link, c.tasks[it].id)
          /\ Retry(c.tasks[it], st) = 1 /\ Sound(c, s.njobs)
      BY <1>2, <1>5, <1>7, <1>19
    <3> QED
      BY <3>1, <2>1, <1>1, RetriedSound
  <2>3. PICK u : u = Again(t, st)
    OBVIOUS
  <2>4. u = Started(f)
    BY <2>3, <1>7, <1>9, <1>19 DEF Again, Started, Finished, Task
  <2>5. u \in Task /\ u.status = st /\ u.killed = t.killed /\ u.cmd = t.cmd
    <3>1. t.ia < NA /\ t.ia \in 0..NA
      <4>1. t.ia < NA
        BY <1>7, <1>19 DEF Retry
      <4> QED
        BY <4>1, TaskFields
    <3>2. t.ia + 1 \in 0..NA
      BY <3>1, PoolAssumption
    <3> QED
      BY <3>2, <2>3 DEF Again, Task
  <2>6. PICK k : k = Send(c.link, t.id)
    OBVIOUS
  <2>7. PICK us : us = [ts EXCEPT ![it] = u] /\ us = PutTaskIn(c, it, u)
    BY <1>3 DEF PutTaskIn
  <2>8. e = [c EXCEPT !.tasks = us, !.lmt = l, !.link = k]
    <3>1. PutTaskIn(c, it, Again(c.tasks[it], st)) = us /\ Send(c.link, c.tasks[it].id) = k
      BY <2>3, <2>6, <2>7, <1>3, <1>4
    <3> QED
      BY <3>1, <2>1 DEF Retried, Connection
  <2>9. c.running > 0 /\ c.running \in Nat
    <3>1. it \in Waits(ts)
      BY <1>2, <1>3, <1>4, <1>5 DEF Waits
    <3>2. PICK w \in Nat : w = Cardinality(Waits(ts))
      BY WaitsFinite
    <3>3. w > 0
      BY <3>1, <3>2, WaitsFinite, FS_EmptySet
    <3> QED
      BY <3>2, <3>3, <1>2, <1>3 DEF Sound
  <2>10. d \in Connection /\ d.tasks = fs /\ d.link = c.link /\ d.running = c.running - 1
    <3>1. c.running - 1 \in Nat
      BY <2>9
    <3>2. fs \in Seq(Task)
      BY <1>2, <1>3, <1>10, <1>11, SeqPut
    <3> QED
      BY <3>1, <3>2, <1>14 DEF Connection
  <2>11. Changed(j, s, ic, d)
    BY <2>10, <1>1, <1>15, PutIs
  <2>12. j \in Records /\ j.pool[ic] = d /\ ic \in DOMAIN j.pool
         /\ it \in DOMAIN fs /\ fs[it] = f
    BY <2>11, <1>2, <1>3, <1>11 DEF Changed
  <2>13. ExecJob(j, ic, it) = Put(j, ic, Execd(d, it))
    BY <2>10, <2>12, ExecJobIs
  <2>14. Execd(d, it) = e
    <3>1. Execd(d, it) = [d EXCEPT !.tasks = [fs EXCEPT ![it] = u], !.running = d.running + 1, !.link = k]
      BY <2>4, <2>6, <2>10, <2>12, <1>10 DEF Execd, PutTaskIn, Connection
    <3>2. [fs EXCEPT ![it] = u] = us
      BY <2>7, <1>11
    <3>3. d.running + 1 = c.running
      BY <2>9, <2>10
    <3>4. Execd(d, it) = [d EXCEPT !.tasks = us, !.running = c.running, !.link = k]
      BY <3>1, <3>2, <3>3
    <3> QED
      BY <3>4, <2>8, <1>14 DEF Connection
  <2>15. r = Put(s, ic, e)
    <3>1. r = Put(j, ic, e)
      BY <2>13, <2>14, <1>17, <1>19
    <3> QED
      BY <3>1, <1>1, <1>15 DEF Put, Records
  <2>16. e.tasks = PutTaskIn(s.pool[ic], it, u)
    BY <2>2, <2>3, <1>2, <1>5
  <2>17. Reports(Put(s, ic, e), s, ic, it, st)
    BY <2>2, <2>5, <2>16, <1>2, <1>5, PutReports
  <2> QED
    BY <2>15, <2>17, <1>16
<1> QED
  BY <1>18, <1>19

-----------------------------------------------------------------------------
(* The steps of the client and of the servers.                             *)

Phrase == {"launch", "busy", "drain", "done", "exit"}

LEMMA Basics ==
  ASSUME IInv
  PROVE  /\ conns \in Nat /\ conns >= 1 /\ NHosts \in Nat /\ NHosts >= 1 /\ Len(pool) =< conns
         /\ State \in Records /\ Books(State) /\ pool \in Seq(Connection)
         /\ State.pool = pool /\ State.fate = fate /\ State.njobs = njobs /\ State.hosts = hosts
         /\ Len(pool) \in Nat /\ DOMAIN pool = 1 .. Len(pool)
         /\ Tracked(pool, pos, answers, outcome, conns)
         /\ pos \in Nat /\ pos >= 1 /\ pos =< Len(Script) + 1 /\ faults \in 0..MaxFaults
         /\ phase \in Phrase
<1>1. conns \in Nat /\ conns >= 1 /\ NHosts \in Nat /\ NHosts >= 1
  <2>1. PICK h \in Nat : h = Hosts
    BY PoolAssumption
  <2>2. conns \in 1 .. h
    BY <2>1, PoolAssumption DEF IInv, TypeOK
  <2>3. h >= 1
    BY <2>2
  <2> QED
    BY <2>1, <2>2, <2>3 DEF NHosts
<1>2. State.pool = pool /\ State.fate = fate /\ State.njobs = njobs /\ State.hosts = hosts
  BY DEF State
<1>3. Books(State) /\ State \in Records
  BY DEF IInv, Books
<1>4. pool \in Seq(Connection) /\ Len(pool) \in Nat /\ DOMAIN pool = 1 .. Len(pool)
  BY <1>2, <1>3, BooksTypes
<1>5. pos \in Nat /\ pos >= 1 /\ pos =< Len(Script) + 1
  BY CommandsAre DEF IInv, TypeOK
<1> QED
  BY <1>1, <1>2, <1>3, <1>4, <1>5 DEF IInv, TypeOK, Phrase

LEMMA NextState ==
  ASSUME NEW t \in Records, SetState(t)
  PROVE  State' = t /\ pool' = t.pool /\ fate' = t.fate
<1>1. t = [pool |-> t.pool, hosts |-> t.hosts, njobs |-> t.njobs, fate |-> t.fate]
  BY DEF Records
<1> QED
  BY <1>1 DEF SetState, State

\* A step that carries the work along and leaves the commands alone.
LEMMA CarriesHolds ==
  ASSUME IInv, NEW t, Carries(t, State), SetState(t),
         UNCHANGED <<conns, pos, answers, outcome>>,
         faults' \in 0..MaxFaults, tries' \in 0..NHosts, phase' \in Phrase, Phases'
  PROVE  IInv'
<1>1. Books(t) /\ Len(t.pool) =< Len(pool) /\ Len(t.pool) \in Nat /\ t \in Records
  BY Basics, BooksTypes DEF Carries
<1>2. State' = t /\ pool' = t.pool
  BY <1>1, NextState
<1>3. Tracked(t.pool, pos, answers, outcome, conns)
  BY Basics DEF Carries
<1>4. Len(t.pool) =< conns
  BY <1>1, Basics
<1>5. t.pool \in Seq(Connection) /\ t.hosts \subseteq 1..Hosts /\ t.njobs \in Nat /\ t.fate \in Fates
  BY <1>1 DEF Records
<1>6. TypeOK'
  BY <1>5 DEF TypeOK, IInv, SetState, NHosts, Fates, Phrase
<1>7. Books(State)'
  BY <1>1, <1>2 DEF Books
<1>8. Unasked' /\ BarrierHeld'
  BY DEF IInv, Unasked, BarrierHeld
<1> QED
  BY <1>2, <1>3, <1>4, <1>6, <1>7, <1>8 DEF IInv

LEMMA CountedMoves ==
  ASSUME IInv, phase = "launch"
  PROVE  LET t == Counted
         IN  Moves(t, State) /\ Books(t) /\ DOMAIN t.pool = DOMAIN pool /\ t.fate = fate
<1>1. PICK s : s = State
  OBVIOUS
<1>2. s \in Records /\ Books(s) /\ s.pool = pool /\ s.fate = fate /\ Len(s.pool) \in Nat
  BY <1>1, Basics
<1>3. CASE ~(tries = 0 /\ FirstOfGroup)
  <2>1. Counted = s
    BY <1>1, <1>3 DEF Counted, FirstOfGroup
  <2>2. Moves(s, s)
    BY <1>2 DEF Moves, Carries
  <2> QED
    BY <2>1, <2>2, <1>1, <1>2
<1>4. CASE tries = 0 /\ FirstOfGroup
  <2>1. Idle(s.pool)
    BY <1>2, <1>4 DEF IInv, Phases
  <2>2. PICK ql : ql = [ic \in DOMAIN s.pool |-> [s.pool[ic] EXCEPT !.launched = 0, !.complete = 0]]
    OBVIOUS
  <2>3. PICK t : t = [s EXCEPT !.pool = ql]
    OBVIOUS
  <2>4. Counted = t
    BY <1>1, <1>4, <2>2, <2>3 DEF Counted, FirstOfGroup
  <2>5. PICK l \in Nat : l = Len(s.pool) /\ DOMAIN s.pool = 1 .. l
    BY <1>2, BooksTypes
  <2>6. \A ic \in 1 .. l : /\ s.pool[ic] \in Connection /\ Sound(s.pool[ic], s.njobs)
                           /\ s.pool[ic].running = 0
    BY <1>2, <2>1, <2>5, BooksTypes DEF Idle
  <2>7. ASSUME NEW ic \in 1 .. l
        PROVE  /\ ql[ic] \in Connection /\ Sound(ql[ic], s.njobs)
               /\ ql[ic].running = 0 /\ ql[ic].restart = s.pool[ic].restart
               /\ ql[ic].tasks = s.pool[ic].tasks
    <3>1. PICK c \in Connection : c = s.pool[ic] /\ Sound(c, s.njobs) /\ c.running = 0
      BY <2>6
    <3>2. PICK d : d = [c EXCEPT !.launched = 0, !.complete = 0]
      OBVIOUS
    <3>3. d = ql[ic]
      BY <3>1, <3>2, <2>2, <2>5
    <3>4. /\ d \in Connection /\ d.tasks = c.tasks /\ d.link = c.link /\ d.running = 0
          /\ d.launched = 0 /\ d.complete = 0 /\ d.restart = c.restart
      <4>1. d \in Connection
        BY <3>2 DEF Connection
      <4>2. /\ d.tasks = c.tasks /\ d.link = c.link /\ d.running = c.running
            /\ d.launched = 0 /\ d.complete = 0 /\ d.restart = c.restart
        BY <3>2 DEF Connection
      <4> QED
        BY <4>1, <4>2, <3>1
    <3>5. Sound(d, s.njobs)
      <4>1. d.running = d.launched - d.complete
        BY <3>4
      <4>2. d.tasks = c.tasks /\ d.link = c.link /\ d.running = c.running
        BY <3>1, <3>4
      <4> QED
        BY <4>1, <4>2, <3>1 DEF Sound
    <3> QED
      BY <3>1, <3>3, <3>4, <3>5
  <2>8. ql \in Seq(Connection) /\ Len(ql) = l /\ DOMAIN ql = DOMAIN s.pool
    <3>1. ql \in [1 .. l -> Connection]
      BY <2>2, <2>5, <2>7
    <3> QED
      BY <3>1, <2>5
  <2>9. t \in Records /\ t.pool = ql /\ t.fate = fate /\ t.njobs = s.njobs
    BY <1>2, <2>3, <2>8 DEF Records
  <2>10. Books(t)
    BY <2>5, <2>7, <2>8, <2>9 DEF Books
  <2>11. SameTasks(s.pool, ql)
    BY <2>5, <2>7, <2>8 DEF SameTasks
  <2>12. s.pool \in Seq(Connection)
    BY <1>2 DEF Records
  <2>13. Idle(ql) /\ (Tried(s.pool) => Tried(ql))
    BY <2>5, <2>7, <2>8 DEF Idle, Tried
  <2>14. Len(ql) =< Len(s.pool)
    BY <2>5, <2>8
  <2>15. Moves(t, s)
    BY <1>2, <2>8, <2>9, <2>10, <2>11, <2>12, <2>13, <2>14, SameTracked DEF Moves, Carries
  <2> QED
    BY <1>1, <1>2, <2>4, <2>8, <2>9, <2>10, <2>15
<1> QED
  BY <1>3, <1>4

LEMMA LaunchHolds ==
  ASSUME IInv, phase = "launch", pos \in Commands, NEW s, Moves(s, State), NEW ic \in DOMAIN s.pool,
         SetState(PoolJob(s, ic, pos)), phase' = Launched, pos' = pos + 1, tries' = 0,
         UNCHANGED <<conns, answers, outcome, faults>>
  PROVE  IInv'
<1>1. PICK q \in Nat : q = pos /\ q \in Commands /\ q =< Len(Script) /\ q >= 1
  BY CommandsAre
<1>2. Books(s) /\ s.pool \in Seq(Connection) /\ Len(s.pool) =< Len(pool) /\ Len(s.pool) \in Nat
      /\ s.njobs \in Nat
  BY Basics, BooksTypes DEF Moves, Carries
<1>3. PICK t : t = PoolJob(s, ic, q)
  OBVIOUS
<1>4. Launches(t, s, ic, q)
  BY <1>1, <1>2, <1>3, PoolJobLaunches
<1>5. /\ Books(t) /\ t.fate = s.fate /\ Len(t.pool) = Len(s.pool)
      /\ (Tried(s.pool) => Tried(t.pool))
      /\ Added(s.pool, t.pool, ic, Issued(s.njobs, q))
  BY <1>4 DEF Launches
<1>6. t \in Records /\ t.pool \in Seq(Connection)
  BY <1>5, BooksTypes
<1>7. State' = t /\ pool' = t.pool
  BY <1>1, <1>3, <1>6, NextState
<1>8. Tracked(s.pool, q, answers, outcome, conns)
  BY <1>1, Basics DEF Moves, Carries
<1>9. answers[q] = 0
  <2>1. q >= q
    OBVIOUS
  <2> QED
    BY <2>1, <1>1 DEF IInv, Unasked
<1>10. Tracked(t.pool, q + 1, answers, outcome, conns)
  BY <1>1, <1>2, <1>5, <1>6, <1>8, <1>9, AddedTracked
<1>11. Len(t.pool) =< conns
  BY <1>2, <1>5, Basics
<1>12. Tried(t.pool)
  BY <1>5, Basics DEF IInv, Phases, Moves
<1>13. PICK b \in Nat : b = Len(Script)
  BY CommandsAre
<1>14. q + 1 \in 1 .. b + 1 /\ (~(q < b) => q + 1 = b + 1) /\ q + 1 # 1 /\ q + 1 - 1 = q
  BY <1>1, <1>13
<1>15. phase' \in {"launch", "drain"} /\ (phase' = "drain" => pos' = Len(Script) + 1)
  BY <1>1, <1>13, <1>14 DEF Launched
<1>16. ~FirstOfGroup'
  <2>1. Script[q] # Barrier
    BY <1>1 DEF Commands
  <2> QED
    BY <2>1, <1>1, <1>14 DEF FirstOfGroup
<1>17. tries' < NHosts'
  BY Basics DEF NHosts
<1>18. Phases'
  BY <1>7, <1>12, <1>15, <1>16, <1>17 DEF Phases
<1>19. Unasked'
  <2>1. \A p \in Commands : p >= q + 1 => p >= q
    BY <1>1, CommandsAre
  <2> QED
    BY <2>1, <1>1 DEF Unasked, IInv
<1>20. BarrierHeld'
  <2>1. \A p \in DOMAIN Script \ Commands : q + 1 > p => q > p
    <3>1. \A p \in DOMAIN Script \ Commands : p # q /\ p \in Nat
      BY <1>1, CommandsAre
    <3> QED
      BY <3>1, <1>1
  <2> QED
    BY <2>1, <1>1 DEF BarrierHeld, IInv
<1>21. TypeOK'
  <2>1. t.pool \in Seq(Connection) /\ t.hosts \subseteq 1..Hosts /\ t.njobs \in Nat /\ t.fate \in Fates
    BY <1>6 DEF Records
  <2>2. tries' \in 0..NHosts'
    BY Basics DEF NHosts
  <2>3. pos' \in 1 .. Len(Script) + 1
    BY <1>1, <1>13, <1>14
  <2> QED
    BY <2>1, <2>2, <2>3, <1>1, <1>3, <1>15 DEF TypeOK, IInv, SetState, Fates
<1>22. Books(State)'
  BY <1>5, <1>7 DEF Books
<1> QED
  BY <1>1, <1>7, <1>10, <1>11, <1>18, <1>19, <1>20, <1>21, <1>22 DEF IInv

LEMMA SendJobHolds ==
  ASSUME IInv, NEW ic \in DOMAIN pool, SendJob(ic)
  PROVE  IInv'
<1>1. PICK s : s = Counted
  OBVIOUS
<1>2. Moves(s, State) /\ ic \in DOMAIN s.pool
  BY <1>1, CountedMoves DEF SendJob
<1> QED
  BY <1>1, <1>2, LaunchHolds DEF SendJob

LEMMA StartAndSendHolds ==
  ASSUME IInv, NEW ic \in DOMAIN pool, StartAndSend(ic)
  PROVE  IInv'
<1>1. PICK s : s = Counted
  OBVIOUS
<1>2. Moves(s, State) /\ Books(s) /\ ic \in DOMAIN s.pool
  BY <1>1, CountedMoves DEF StartAndSend
<1>3. PICK t : t = LaunchConnection(s, ic, TRUE)
  OBVIOUS
<1>4. Moves(t, s) /\ ic \in DOMAIN t.pool
  BY <1>2, <1>3, OpenMoves
<1>5. Moves(t, State)
  BY <1>2, <1>4, Basics, MovesTrans
<1> QED
  BY <1>1, <1>3, <1>4, <1>5, LaunchHolds DEF StartAndSend

LEMMA StartFailsHolds ==
  ASSUME IInv, NEW ic \in DOMAIN pool, StartFails(ic)
  PROVE  IInv'
<1>1. PICK s : s = Counted
  OBVIOUS
<1>2. Moves(s, State) /\ Books(s) /\ ic \in DOMAIN s.pool
  BY <1>1, CountedMoves DEF StartFails
<1>3. PICK w : w = Close(s, ic)
  OBVIOUS
<1>4. Moves(w, s) /\ DOMAIN w.pool = DOMAIN s.pool /\ Fresh(w, ic)
  BY <1>2, <1>3, CloseMoves
<1>5. Books(w) /\ ic \in DOMAIN w.pool
  BY <1>2, <1>4 DEF Moves, Carries
<1>6. PICK v : v = LaunchConnection(w, ic, FALSE)
  OBVIOUS
<1>7. Moves(v, w)
  BY <1>4, <1>5, <1>6, NotOpenMoves
<1>8. Moves(v, State)
  BY <1>2, <1>4, <1>7, Basics, MovesTrans
<1>9. Books(v)
  BY <1>8 DEF Moves, Carries
<1>10. PICK t : t = IF tries + 1 >= NHosts THEN [v EXCEPT !.fate = "SC_EXIT_BAD"] ELSE v
  OBVIOUS
<1>11. SetState(t) /\ phase' = (IF t.fate # "none" THEN "exit" ELSE "launch")
  BY <1>1, <1>3, <1>6, <1>10 DEF StartFails, SetPhase
<1>12. Carries(t, State) /\ (t.fate = "none" => t = v /\ ~(tries + 1 >= NHosts))
  <2>1. CASE ~(tries + 1 >= NHosts)
    <3>1. t = v
      BY <2>1, <1>10
    <3> QED
      BY <3>1, <2>1, <1>8 DEF Moves
  <2>2. CASE tries + 1 >= NHosts
    <3>1. PICK f \in Fates : f = "SC_EXIT_BAD"
      BY DEF Fates
    <3>2. PICK H \in SUBSET (1..Hosts) : TRUE
      OBVIOUS
    <3>3. t = [v EXCEPT !.fate = f]
      BY <2>2, <3>1, <1>10
    <3>4. Carries(t, v) /\ t.fate = f
      BY <3>2, <3>3, <1>9, TurnedCarries
    <3> QED
      BY <3>1, <3>4, <1>8, Basics, CarriesTrans DEF Moves
  <2> QED
    BY <2>1, <2>2
<1>13. PICK n \in Nat : n = tries /\ n + 1 =< NHosts /\ n < NHosts
  <2>1. tries \in Nat /\ tries < NHosts /\ NHosts \in Nat
    BY Basics DEF IInv, TypeOK, Phases, StartFails
  <2> QED
    BY <2>1
<1>14. t \in Records
  BY <1>12 DEF Carries, Books
<1>15. State' = t /\ pool' = t.pool
  BY <1>11, <1>14, NextState
<1>16. Phases'
  <2>1. CASE t.fate # "none"
    <3>1. phase' = "exit"
      BY <2>1, <1>11
    <3> QED
      BY <3>1 DEF Phases
  <2>2. CASE t.fate = "none"
    <3>1. phase' = "launch" /\ t = v
      BY <2>2, <1>11, <1>12
    <3>2. tries' < NHosts'
      <4>1. ~(n + 1 >= NHosts)
        BY <2>2, <1>12, <1>13
      <4>2. n + 1 < NHosts
        BY <4>1, Basics
      <4> QED
        BY <4>2, <1>13 DEF StartFails, NHosts
    <3>3. Tried(t.pool)
      BY <3>1, <1>8, Basics DEF StartFails, IInv, Phases, Moves
    <3>4. FirstOfGroup' => Idle(t.pool)
      BY <3>1, <1>8, Basics DEF StartFails, IInv, Phases, Moves, Carries, FirstOfGroup
    <3> QED
      BY <3>1, <3>2, <3>3, <3>4, <1>15 DEF Phases
  <2> QED
    BY <2>1, <2>2
<1>17. faults' \in 0..MaxFaults
  BY Basics, PoolAssumption DEF StartFails, Fault
<1>18. tries' \in 0..NHosts
  BY <1>13, Basics DEF StartFails
<1>19. phase' \in Phrase
  BY <1>11 DEF Phrase
<1>20. UNCHANGED <<conns, pos, answers, outcome>>
  BY DEF StartFails
<1> QED
  BY <1>11, <1>12, <1>16, <1>17, <1>18, <1>19, <1>20, CarriesHolds

LEMMA FullySubscribedHolds ==
  ASSUME IInv, FullySubscribed
  PROVE  IInv'
<1>1. PICK t : t = Counted
  OBVIOUS
<1>2. Moves(t, State) /\ Books(t)
  BY <1>1, CountedMoves DEF FullySubscribed
<1>3. t \in Records
  BY <1>2 DEF Books
<1>4. State' = t /\ pool' = t.pool /\ SetState(t)
  BY <1>1, <1>3, NextState DEF FullySubscribed
<1>5. ~FirstOfGroup
  <2> SUFFICES ASSUME FirstOfGroup PROVE FALSE
    OBVIOUS
  <2>1. Idle(pool) /\ pool # <<>> /\ BestConnections = {}
    BY DEF FullySubscribed, IInv, Phases
  <2>2. 1 \in DOMAIN pool
    BY <2>1, Basics
  <2>3. \A ic \in DOMAIN pool : pool[ic].running = 0 /\ 0 < pool[ic].lmt /\ 0 < pool[ic].max
    <3> SUFFICES ASSUME NEW ic \in DOMAIN pool
                 PROVE  pool[ic].running = 0 /\ 0 < pool[ic].lmt /\ 0 < pool[ic].max
      OBVIOUS
    <3>1. PICK x \in Nat \ {0} : x = pool[ic].max
      BY Basics, Fields
    <3>2. PICK y \in Nat \ {0} : y = pool[ic].lmt
      BY Basics, Fields
    <3> QED
      BY <3>1, <3>2, <2>1 DEF Idle
  <2>4. 1 \in Room /\ 1 \in {ic \in DOMAIN pool : pool[ic].running < pool[ic].max}
    BY <2>2, <2>3 DEF Room
  <2>5. PICK l \in Nat : l = Len(pool)
    BY Basics
  <2>6. CASE l < 2
    BY <2>1, <2>4, <2>5, <2>6 DEF BestConnections
  <2>7. CASE ~(l < 2)
    <3>1. l >= 2
      BY <2>7
    <3> QED
      BY <3>1, <2>1, <2>4, <2>5, <2>7 DEF BestConnections
  <2> QED
    BY <2>6, <2>7
<1>6. phase' = "busy" /\ ~FirstOfGroup' /\ tries' = 0
  BY <1>5 DEF FullySubscribed, FirstOfGroup
<1>7. tries' \in 0..NHosts /\ tries' < NHosts'
  BY <1>6, Basics DEF NHosts, FullySubscribed
<1>8. Tried(t.pool)
  BY <1>2, Basics DEF Moves, IInv, Phases, FullySubscribed
<1>9. Phases'
  BY <1>4, <1>6, <1>7, <1>8 DEF Phases
<1>10. faults' \in 0..MaxFaults /\ phase' \in Phrase
  BY <1>6, Basics DEF Phrase, FullySubscribed
<1>11. UNCHANGED <<conns, pos, answers, outcome>>
  BY DEF FullySubscribed
<1> QED
  BY <1>2, <1>4, <1>7, <1>9, <1>10, <1>11, CarriesHolds DEF Moves

LEMMA Stays ==
  ASSUME IInv
  PROVE  Moves(State, State)
BY Basics DEF Moves, Carries

LEMMA TryAgainHolds ==
  ASSUME IInv, TryAgain
  PROVE  IInv'
<1>1. PICK t : t = State
  OBVIOUS
<1>2. Carries(t, State)
  BY <1>1, Stays DEF Moves
<1>3. SetState(t) /\ UNCHANGED <<conns, pos, answers, outcome>>
  BY <1>1 DEF SetState, State, TryAgain
<1>4. phase = "busy" /\ phase' = "launch" /\ phase' \in Phrase
  BY DEF TryAgain, Phrase
<1>5. ~FirstOfGroup'
  BY <1>4 DEF IInv, Phases, FirstOfGroup, TryAgain
<1>6. tries' < NHosts' /\ Tried(pool)'
  BY <1>4 DEF IInv, Phases, TryAgain, NHosts, Tried
<1>7. Phases'
  BY <1>4, <1>5, <1>6 DEF Phases
<1>8. faults' \in 0..MaxFaults /\ tries' \in 0..NHosts
  BY DEF TryAgain, IInv, TypeOK
<1> QED
  BY <1>2, <1>3, <1>4, <1>7, <1>8, CarriesHolds

LEMMA NoConnectionsHolds ==
  ASSUME IInv, NoConnections
  PROVE  IInv'
<1>1. PICK f \in Fates : f = "SC_EXIT_BAD"
  BY DEF Fates
<1>2. PICK H \in SUBSET (1..Hosts) : TRUE
  OBVIOUS
<1>3. PICK s : s = State
  OBVIOUS
<1>4. Books(s)
  BY <1>3, Basics
<1>5. PICK t : t = [s EXCEPT !.fate = f]
  OBVIOUS
<1>6. Carries(t, s)
  BY <1>2, <1>4, <1>5, TurnedCarries
<1>7. SetState(t)
  BY <1>1, <1>3, <1>5 DEF NoConnections, State, SetState
<1>8. phase' = "exit" /\ phase' \in Phrase /\ UNCHANGED <<conns, pos, answers, outcome>>
  BY DEF NoConnections, Phrase
<1>9. Phases'
  BY <1>8 DEF Phases
<1>10. faults' \in 0..MaxFaults /\ tries' \in 0..NHosts
  BY DEF NoConnections, IInv, TypeOK
<1> QED
  BY <1>3, <1>6, <1>7, <1>8, <1>9, <1>10, CarriesHolds

LEMMA ReachBarrierHolds ==
  ASSUME IInv, ReachBarrier
  PROVE  IInv'
<1>1. PICK t : t = State
  OBVIOUS
<1>2. Carries(t, State)
  BY <1>1, Stays DEF Moves
<1>3. SetState(t) /\ UNCHANGED <<conns, pos, answers, outcome>>
  BY <1>1 DEF SetState, State, ReachBarrier
<1>4. phase = "launch" /\ phase' = "drain" /\ phase' \in Phrase
  BY DEF ReachBarrier, Phrase
<1>5. tries' < NHosts' /\ Tried(pool)'
  BY <1>4 DEF IInv, Phases, ReachBarrier, NHosts, Tried
<1>6. pos' \in DOMAIN Script \ Commands
  BY DEF ReachBarrier
<1>7. Phases'
  BY <1>4, <1>5, <1>6 DEF Phases
<1>8. faults' \in 0..MaxFaults /\ tries' \in 0..NHosts
  BY DEF ReachBarrier, IInv, TypeOK
<1> QED
  BY <1>2, <1>3, <1>4, <1>7, <1>8, CarriesHolds

\* When no job is running every command launched so far has been answered.
LEMMA IdleAnswered ==
  ASSUME IInv, Idle(pool), pool # <<>>, NEW p \in Commands, p < pos
  PROVE  answers[p] > 0
<1>1. answers[p] \in Nat
  BY DEF IInv, TypeOK
<1>2. SUFFICES ASSUME answers[p] = 0 PROVE FALSE
  BY <1>1
<1>3. Somewhere(pool, p)
  BY <1>2, Basics DEF Tracked
<1>4. PICK ic \in DOMAIN pool : \E it \in DOMAIN pool[ic].tasks : Stands(pool, ic, it, p)
  BY <1>3 DEF Somewhere
<1>5. PICK it \in DOMAIN pool[ic].tasks : Stands(pool, ic, it, p)
  BY <1>4
<1>6. ~pool[ic].tasks[it].killed /\ pool[ic].tasks[it].status = NotFinished
  BY <1>2, <1>5, Basics DEF Stands, Tracked, Truthful
<1>7. PICK c \in Connection : c = pool[ic] /\ Sound(c, njobs) /\ c.running = 0
  BY Basics, BooksTypes DEF Idle
<1>8. njobs \in Nat
  BY DEF IInv, TypeOK
<1>9. ~Unfinished(c.tasks[it])
  BY <1>7, <1>8, IdleNone
<1> QED
  BY <1>6, <1>7, <1>9 DEF Unfinished

LEMMA DrainedHolds ==
  ASSUME IInv, Drained
  PROVE  IInv'
<1>1. PICK q \in Nat : q = pos /\ q >= 1 /\ q =< Len(Script) + 1
  BY Basics
<1>2. PICK b \in Nat : b = Len(Script)
  BY CommandsAre
<1>3. phase = "drain" /\ Idle(pool) /\ pool # <<>>
  BY DEF Drained, AllIdle, Idle
<1>4. q \in DOMAIN Script \ Commands \/ q = b + 1
  BY <1>1, <1>2, <1>3 DEF IInv, Phases
<1>5. PICK r : r = IF q > b THEN q ELSE q + 1
  OBVIOUS
<1>6. /\ r \in 1 .. b + 1 /\ pos' = r /\ phase' = IF q < b THEN "launch" ELSE "done"
      /\ (~(q < b) => r = b + 1)
  BY <1>1, <1>2, <1>5 DEF Drained
<1>7. \A p \in Commands : p < r => p < q
  <2> SUFFICES ASSUME NEW p \in Commands, p < r PROVE p < q
    OBVIOUS
  <2>1. p \in Nat /\ p =< b
    BY <1>2, CommandsAre
  <2>2. CASE q = b + 1
    BY <2>1, <2>2
  <2>3. CASE q # b + 1
    <3>1. p # q
      BY <2>3, <1>4
    <3> QED
      BY <3>1, <2>1, <1>1, <1>5
  <2> QED
    BY <2>2, <2>3
<1>8. \A p \in Commands : p < q => p < r
  <2> SUFFICES ASSUME NEW p \in Commands, p < q PROVE p < r
    OBVIOUS
  <2>1. p \in Nat
    BY CommandsAre
  <2> QED
    BY <2>1, <1>1, <1>5
<1>9. Tracked(pool, r, answers, outcome, conns)
  <2>1. Tracked(pool, q, answers, outcome, conns)
    BY <1>1, Basics
  <2>2. \A ic \in DOMAIN pool : \A it \in DOMAIN pool[ic].tasks :
          ~pool[ic].tasks[it].killed => Truthful(pool[ic].tasks[it], r, answers, outcome)
    <3> SUFFICES ASSUME NEW ic \in DOMAIN pool, NEW it \in DOMAIN pool[ic].tasks,
                        ~pool[ic].tasks[it].killed
                 PROVE  Truthful(pool[ic].tasks[it], r, answers, outcome)
      OBVIOUS
    <3>1. Truthful(pool[ic].tasks[it], q, answers, outcome)
      BY <2>1 DEF Tracked
    <3>2. pool[ic].tasks[it].cmd \in Commands
      <4>1. pool[ic] \in Connection
        BY Basics
      <4> QED
        BY <4>1, Fields, TaskFields
    <3> QED
      BY <3>1, <3>2, <1>8 DEF Truthful
  <2> QED
    BY <2>1, <2>2, <1>7 DEF Tracked
<1>10. \A p \in Commands : p >= r => answers[p] = 0
  <2> SUFFICES ASSUME NEW p \in Commands, p >= r PROVE answers[p] = 0
    OBVIOUS
  <2>1. p \in Nat
    BY CommandsAre
  <2>2. p >= q
    BY <2>1, <1>1, <1>5
  <2> QED
    BY <2>2, <1>1 DEF IInv, Unasked
<1>11. BarrierHeld'
  <2> SUFFICES ASSUME NEW x \in DOMAIN Script \ Commands, r > x,
                      NEW p \in Commands, p < x
               PROVE  answers[p] > 0
    BY <1>6 DEF BarrierHeld, Drained
  <2>1. x \in Nat /\ p \in Nat /\ x =< b
    BY <1>2, CommandsAre
  <2>2. p < r
    BY <2>1, <1>6
  <2>3. p < pos
    BY <2>2, <1>1, <1>7
  <2> QED
    BY <2>3, <1>3, IdleAnswered
<1>12. pool' = pool /\ State' = State
  BY DEF Drained, State
<1>13. tries' < NHosts' /\ Tried(pool')
  BY <1>3, <1>12 DEF IInv, Phases, Drained, NHosts
<1>14. phase' \in {"launch", "done"} /\ (phase' = "done" => pos' = Len(Script) + 1)
  BY <1>2, <1>6
<1>15. Phases'
  BY <1>3, <1>12, <1>13, <1>14 DEF Phases
<1>16. TypeOK'
  <2>1. pos' \in 1 .. Len(Script) + 1
    BY <1>2, <1>6
  <2> QED
    BY <2>1, <1>14 DEF TypeOK, IInv, Drained, NHosts
<1>17. Books(State)' /\ Len(pool)' =< conns'
  BY <1>12 DEF IInv, Books, Drained
<1>18. Unasked'
  BY <1>6, <1>10 DEF Unasked, Drained
<1>19. Tracked(pool, pos, answers, outcome, conns)'
  BY <1>6, <1>9, <1>12 DEF Drained
<1> QED
  BY <1>11, <1>15, <1>16, <1>17, <1>18, <1>19 DEF IInv

\* A callback that carries the work along, in a phase that waits.
LEMMA WaitingHolds ==
  ASSUME IInv, Waiting, NEW t, Moves(t, State), SetState(t),
         UNCHANGED <<conns, phase, pos, tries, answers, outcome, faults>>
  PROVE  IInv'
<1>1. Books(t)
  BY DEF Moves, Carries
<1>2. t \in Records
  BY <1>1 DEF Books
<1>3. State' = t /\ pool' = t.pool
  BY <1>2, NextState
<1>4. phase \in {"busy", "drain"} /\ (phase = "busy" => ~FirstOfGroup)
  BY DEF Waiting, IInv, Phases
<1>5. tries' < NHosts' /\ Tried(t.pool)
  BY <1>4, Basics DEF IInv, Phases, NHosts, Moves
<1>6. ~FirstOfGroup' <=> ~FirstOfGroup
  BY DEF FirstOfGroup
<1>7. phase = "drain" => pos' \in DOMAIN Script \ Commands \/ pos' = Len(Script) + 1
  BY DEF IInv, Phases
<1>8. Phases'
  BY <1>3, <1>4, <1>5, <1>6, <1>7 DEF Phases
<1>9. faults' \in 0..MaxFaults /\ tries' \in 0..NHosts /\ phase' \in Phrase
  BY <1>4 DEF IInv, TypeOK, Phrase
<1> QED
  BY <1>8, <1>9, CarriesHolds DEF Moves

\* A connection whose first message has been read; m is its new maximum.
ReadIn(c, m) == [c EXCEPT !.link = ReadLink(c.link), !.max = m]

LEMMA ReadInSound ==
  ASSUME NEW n \in Nat, NEW c \in Connection, Sound(c, n), c.link.inbox # <<>>, NEW m \in Nat \ {0}
  PROVE  LET d == ReadIn(c, m)
         IN  /\ d \in Connection /\ d.tasks = c.tasks /\ d.running = c.running
             /\ d.running = d.launched - d.complete /\ d.restart = c.restart
             /\ d.link = ReadLink(c.link) /\ LinkOK(d.link, n) /\ Quieter(d.link, c.link)
<1>1. PICK d : d = ReadIn(c, m)
  OBVIOUS
<1>2. PICK l : l = c.link
  OBVIOUS
<1>3. l \in Link /\ LinkOK(l, n) /\ l.inbox # <<>>
  BY <1>2, Fields DEF Sound
<1>4. PICK k : k = ReadLink(l)
  OBVIOUS
<1>5. k \in Link /\ LinkOK(k, n) /\ Quieter(k, l)
  BY <1>3, <1>4, ReadOK
<1>6. d = [c EXCEPT !.link = k, !.max = m]
  BY <1>1, <1>2, <1>4 DEF ReadIn
<1>7. d \in Connection
  BY <1>5, <1>6 DEF Connection
<1>8. /\ d.tasks = c.tasks /\ d.running = c.running /\ d.launched = c.launched
      /\ d.complete = c.complete /\ d.restart = c.restart /\ d.link = k
  BY <1>6 DEF Connection
<1>9. d.running = d.launched - d.complete
  BY <1>8 DEF Sound
<1> QED
  BY <1>1, <1>2, <1>4, <1>5, <1>7, <1>8, <1>9

LEMMA ServerOutputHolds ==
  ASSUME IInv, NEW ic \in DOMAIN pool, ServerOutput(ic)
  PROVE  IInv'
<1>1. PICK s : s = State
  OBVIOUS
<1>2. s \in Records /\ Books(s) /\ s.pool = pool /\ s.njobs \in Nat
  BY <1>1, Basics, BooksTypes
<1>3. PICK c \in Connection : c = s.pool[ic] /\ Sound(c, s.njobs)
  BY <1>2, BooksTypes
<1>4. PICK l \in Link : l = c.link /\ LinkOK(l, s.njobs)
  BY <1>3, Fields DEF Sound
<1>5. Waiting /\ l.inbox # <<>> /\ Head(l.inbox).kind = "ncpu"
  BY <1>2, <1>3, <1>4 DEF ServerOutput, Receive
<1>6. PICK m \in Nat \ {0} : m = Head(l.inbox).n
  <2>1. PICK h : h = Head(l.inbox)
    OBVIOUS
  <2>2. h \in Message /\ (h.kind = "ncpu" => h.n > 0)
    BY <2>1, <1>2, <1>4, <1>5, ReadOK
  <2>3. h.n \in Nat /\ h.n > 0
    BY <2>1, <2>2, <1>5, Messages
  <2> QED
    BY <2>1, <2>3
<1>7. PICK d : d = ReadIn(c, m)
  OBVIOUS
<1>8. /\ d \in Connection /\ d.tasks = c.tasks /\ d.running = c.running
      /\ d.running = d.launched - d.complete /\ d.restart = c.restart
      /\ LinkOK(d.link, s.njobs) /\ Quieter(d.link, c.link)
  <2>1. c.link.inbox # <<>> /\ Sound(c, s.njobs)
    BY <1>3, <1>4, <1>5
  <2> QED
    BY <2>1, <1>2, <1>7, ReadInSound
<1>9. PICK t : t = Put(s, ic, d)
  OBVIOUS
<1>10. Moves(t, s)
  BY <1>2, <1>3, <1>8, <1>9, PutCarries
<1>11. t = [Read(ic) EXCEPT !.pool[ic].max = Head(pool[ic].link.inbox).n]
  <2>1. PICK k : k = ReadLink(l)
    OBVIOUS
  <2>2. PICK r : r = Read(ic)
    OBVIOUS
  <2>3. PICK c1 : c1 = [c EXCEPT !.link = k]
    OBVIOUS
  <2>4. r = Put(s, ic, c1)
    BY <2>1, <2>2, <2>3, <1>1, <1>2, <1>3, <1>4 DEF Read, Put, ReadLink, Records, Connection
  <2>5. r.pool = [s.pool EXCEPT ![ic] = c1] /\ r.pool[ic] = c1
    BY <2>4, <1>2 DEF Put, Records
  <2>6. PICK v : v = [r EXCEPT !.pool[ic].max = m]
    OBVIOUS
  <2>7. v = [r EXCEPT !.pool = [s.pool EXCEPT ![ic] = [c1 EXCEPT !.max = m]]]
    BY <2>5, <2>6
  <2>8. [c1 EXCEPT !.max = m] = d
    BY <2>1, <2>3, <1>4, <1>7 DEF ReadIn, Connection
  <2>9. v = [r EXCEPT !.pool = [s.pool EXCEPT ![ic] = d]]
    BY <2>7, <2>8
  <2>10. PICK p : p = [s.pool EXCEPT ![ic] = c1]
    OBVIOUS
  <2>11. r = [s EXCEPT !.pool = p]
    BY <2>4, <2>10 DEF Put
  <2>12. PICK q : q = [s.pool EXCEPT ![ic] = d]
    OBVIOUS
  <2>13. v = [r EXCEPT !.pool = q] /\ t = [s EXCEPT !.pool = q]
    BY <2>9, <2>12, <1>9 DEF Put
  <2>14. v = t
    BY <2>11, <2>13, <1>2 DEF Records
  <2>15. pool[ic].link.inbox = l.inbox
    BY <1>2, <1>3, <1>4
  <2> QED
    BY <2>2, <2>6, <2>14, <2>15, <1>6
<1>12. SetState(t) /\ UNCHANGED <<conns, phase, pos, tries, answers, outcome, faults>>
  BY <1>11 DEF ServerOutput
<1> QED
  BY <1>1, <1>5, <1>10, <1>12, WaitingHolds

LEMMA JobOutputHolds ==
  ASSUME IInv, NEW ic \in DOMAIN pool, JobOutput(ic)
  PROVE  IInv'
<1>1. PICK s : s = State
  OBVIOUS
<1>2. s \in Records /\ Books(s) /\ s.pool = pool /\ s.njobs \in Nat
  BY <1>1, Basics, BooksTypes
<1>3. PICK c \in Connection : c = s.pool[ic] /\ Sound(c, s.njobs)
  BY <1>2, BooksTypes
<1>4. PICK l \in Link : l = c.link /\ LinkOK(l, s.njobs)
  BY <1>3, Fields DEF Sound
<1>5. PICK m : m = Head(l.inbox)
  OBVIOUS
<1>6. Waiting /\ l.inbox # <<>> /\ m.kind = "done"
  BY <1>2, <1>3, <1>4, <1>5 DEF JobOutput, Receive
<1>7. PICK k : k = ReadLink(l)
  OBVIOUS
<1>8. m \in Message /\ Silent(k, m.id) /\ ~Silent(l, m.id)
  BY <1>2, <1>4, <1>5, <1>6, <1>7, ReadOK
<1>9. PICK st \in {Ok, Failed} : st = m.st
  BY <1>6, <1>8, Messages
<1>10. PICK it \in DOMAIN c.tasks, slow \in BOOLEAN :
         /\ c.tasks[it].id = m.id
         /\ SetState(TaskOutput(Read(ic), ic, it, st, slow))
         /\ answers' = [answers EXCEPT ![c.tasks[it].cmd] = @ + 1]
         /\ outcome' = [outcome EXCEPT ![c.tasks[it].cmd] = st]
  <2>1. m = Head(pool[ic].link.inbox) /\ c = pool[ic]
    BY <1>2, <1>3, <1>4, <1>5
  <2> QED
    BY <2>1, <1>9 DEF JobOutput
<1>11. UNCHANGED <<conns, phase, pos, tries, faults>>
  BY DEF JobOutput
<1>12. PICK x \in Commands : x = c.tasks[it].cmd
  BY Fields, TaskFields
<1>13. Pending(c.tasks[it]) /\ ~c.tasks[it].killed
  <2>1. Pending(c.tasks[it])
    BY <1>3, <1>4, <1>8, <1>10 DEF Sound
  <2> QED
    BY <2>1 DEF Pending
\* the connection and the pool once the message is read
<1>14. PICK y \in Nat \ {0} : y = c.max
  BY Fields
<1>15. PICK d : d = ReadIn(c, y)
  OBVIOUS
<1>16. /\ d \in Connection /\ d.tasks = c.tasks /\ d.running = c.running
       /\ d.running = d.launched - d.complete /\ d.restart = c.restart
       /\ d.link = k /\ LinkOK(d.link, s.njobs) /\ Quieter(d.link, c.link)
  <2>1. c.link.inbox # <<>> /\ Sound(c, s.njobs)
    BY <1>3, <1>4, <1>6
  <2> QED
    BY <2>1, <1>2, <1>4, <1>7, <1>15, ReadInSound
<1>17. PICK r : r = Put(s, ic, d)
  OBVIOUS
<1>18. Moves(r, s) /\ Changed(r, s, ic, d)
  BY <1>2, <1>3, <1>16, <1>17, PutCarries
<1>19. r = Read(ic)
  <2>1. Read(ic) = [s EXCEPT !.pool[ic].link.inbox = Tail(@)]
    BY <1>1 DEF Read
  <2>2. d = [c EXCEPT !.link = k]
    BY <1>4, <1>7, <1>14, <1>15 DEF ReadIn, Connection
  <2>3. Read(ic) = Put(s, ic, [c EXCEPT !.link = k])
    BY <2>1, <1>2, <1>3, <1>4, <1>7 DEF Put, ReadLink, Records, Connection
  <2> QED
    BY <2>2, <2>3, <1>17
<1>20. Books(r) /\ ic \in DOMAIN r.pool /\ r.pool[ic] = d /\ Len(r.pool) = Len(pool)
       /\ r.pool \in Seq(Connection)
  <2>1. Books(r) /\ ic \in DOMAIN r.pool /\ r.pool[ic] = d /\ Len(r.pool) = Len(pool)
    BY <1>2, <1>18 DEF Moves, Carries, Changed
  <2> QED
    BY <2>1, BooksTypes
<1>21. PICK t : t = TaskOutput(r, ic, it, st, slow)
  OBVIOUS
<1>22. Reports(t, r, ic, it, st)
  <2>1. it \in DOMAIN r.pool[ic].tasks /\ Pending(r.pool[ic].tasks[it])
        /\ Silent(r.pool[ic].link, r.pool[ic].tasks[it].id)
    BY <1>8, <1>10, <1>13, <1>16, <1>20
  <2> QED
    BY <2>1, <1>20, <1>21, TaskOutputReports
<1>23. /\ Books(t) /\ Len(t.pool) = Len(r.pool) /\ (Tried(r.pool) => Tried(t.pool))
       /\ Reported(r.pool, t.pool, ic, it, st)
  BY <1>22 DEF Reports
<1>24. t \in Records /\ t.pool \in Seq(Connection) /\ SetState(t)
  BY <1>10, <1>19, <1>21, <1>23, BooksTypes
<1>25. State' = t /\ pool' = t.pool
  BY <1>24, NextState
<1>26. Tracked(r.pool, pos, answers, outcome, conns)
  BY <1>1, <1>18, Basics DEF Moves, Carries
<1>27. answers \in [Commands -> Nat] /\ outcome \in [Commands -> {NotFinished, Ok, Failed}]
  BY DEF IInv, TypeOK
<1>28. PICK a : a = [answers EXCEPT ![x] = @ + 1]
  OBVIOUS
<1>29. PICK o : o = [outcome EXCEPT ![x] = st]
  OBVIOUS
<1>30. answers' = a /\ outcome' = o
  BY <1>10, <1>12, <1>28, <1>29
<1>31. Tracked(t.pool, pos, a, o, conns)
  <2>1. PICK pl : pl = r.pool
    OBVIOUS
  <2>2. PICK ql : ql = t.pool
    OBVIOUS
  <2>3. PICK f \in [Commands -> Nat] : f = answers
    BY <1>27
  <2>4. PICK g \in [Commands -> {NotFinished, Ok, Failed}] : g = outcome
    BY <1>27
  <2>5. PICK q : q = pos
    OBVIOUS
  <2>6. PICK n : n = conns
    OBVIOUS
  <2>7. /\ pl \in Seq(Connection) /\ ql \in Seq(Connection) /\ Len(ql) = Len(pl)
        /\ ic \in DOMAIN pl /\ it \in DOMAIN pl[ic].tasks
        /\ ~pl[ic].tasks[it].killed /\ x = pl[ic].tasks[it].cmd
    BY <2>1, <2>2, <1>12, <1>13, <1>16, <1>20, <1>23, <1>24
  <2>8. Reported(pl, ql, ic, it, st)
    BY <2>1, <2>2, <1>23
  <2>9. Tracked(pl, q, f, g, n)
    BY <2>1, <2>3, <2>4, <2>5, <2>6, <1>26
  <2>10. Noted(f, g, a, o, x, st)
    BY <2>3, <2>4, <1>28, <1>29 DEF Noted
  <2>11. Tracked(ql, q, a, o, n)
    BY <2>7, <2>8, <2>9, <2>10, ReportedTracked
  <2> QED
    BY <2>2, <2>5, <2>6, <2>11
<1>32. /\ a \in [Commands -> Nat] /\ o \in [Commands -> {NotFinished, Ok, Failed}]
       /\ \A p \in Commands : p # x => a[p] = answers[p]
       /\ \A p \in Commands : answers[p] > 0 => a[p] > 0
  BY <1>27, <1>28, <1>29
<1>33. x < pos
  BY <1>12, <1>13, <1>3, <1>2, Basics DEF Tracked, Truthful
<1>34. Unasked'
  <2>1. \A p \in Commands : p >= pos => p # x
    BY <1>33, CommandsAre, Basics
  <2> QED
    BY <2>1, <1>11, <1>30, <1>32 DEF IInv, Unasked
<1>35. BarrierHeld'
  BY <1>11, <1>30, <1>32 DEF IInv, BarrierHeld
<1>36. phase \in {"busy", "drain"} /\ (phase = "busy" => ~FirstOfGroup)
  BY <1>6 DEF Waiting, IInv, Phases
<1>37. tries' < NHosts' /\ Tried(t.pool)
  BY <1>1, <1>2, <1>11, <1>18, <1>23, <1>36 DEF IInv, Phases, NHosts, Moves
<1>38. ~FirstOfGroup' <=> ~FirstOfGroup
  BY <1>11 DEF FirstOfGroup
<1>39. phase = "drain" => pos' \in DOMAIN Script \ Commands \/ pos' = Len(Script) + 1
  BY <1>11 DEF IInv, Phases
<1>40. Phases'
  BY <1>11, <1>25, <1>36, <1>37, <1>38, <1>39 DEF Phases
<1>41. TypeOK'
  <2>1. t.pool \in Seq(Connection) /\ t.hosts \subseteq 1..Hosts /\ t.njobs \in Nat /\ t.fate \in Fates
    BY <1>24 DEF Records
  <2> QED
    BY <2>1, <1>11, <1>24, <1>30, <1>32 DEF TypeOK, IInv, SetState, NHosts, Fates
<1>42. Books(State)' /\ Len(pool)' =< conns'
  BY <1>11, <1>20, <1>23, <1>25, Basics DEF Books
<1>43. Tracked(pool, pos, answers, outcome, conns)'
  BY <1>11, <1>25, <1>30, <1>31
<1> QED
  BY <1>34, <1>35, <1>40, <1>41, <1>42, <1>43 DEF IInv

LEMMA SettlesHolds ==
  ASSUME IInv, Waiting, NEW t, Settles(t, State), SetState(t), SetPhase(t, phase),
         UNCHANGED <<conns, pos, tries, answers, outcome>>, faults' \in 0..MaxFaults
  PROVE  IInv'
<1>1. Books(t)
  BY DEF Settles, Carries
<1>2. t \in Records
  BY <1>1 DEF Books
<1>3. State' = t /\ pool' = t.pool
  BY <1>2, NextState
<1>4. phase \in {"busy", "drain"} /\ (phase = "busy" => ~FirstOfGroup)
  BY DEF Waiting, IInv, Phases
<1>5. phase' = IF t.fate # "none" THEN "exit" ELSE phase
  BY DEF SetPhase
<1>6. Phases'
  <2>1. CASE t.fate # "none"
    BY <2>1, <1>5 DEF Phases
  <2>2. CASE t.fate = "none"
    <3>1. tries' < NHosts' /\ Tried(t.pool)
      BY <2>2, <1>4 DEF IInv, Phases, NHosts, Settles
    <3>2. ~FirstOfGroup' <=> ~FirstOfGroup
      BY DEF FirstOfGroup
    <3>3. phase = "drain" => pos' \in DOMAIN Script \ Commands \/ pos' = Len(Script) + 1
      BY DEF IInv, Phases
    <3>4. phase' = phase
      BY <2>2, <1>5
    <3> QED
      BY <3>1, <3>2, <3>3, <3>4, <1>3, <1>4 DEF Phases
  <2> QED
    BY <2>1, <2>2
<1>7. tries' \in 0..NHosts /\ phase' \in Phrase
  BY <1>4, <1>5 DEF IInv, TypeOK, Phrase
<1> QED
  BY <1>6, <1>7, CarriesHolds DEF Settles

LEMMA FaultCount ==
  ASSUME IInv, UNCHANGED faults \/ Fault
  PROVE  faults' \in 0..MaxFaults
<1>1. PICK n \in Nat : n = MaxFaults
  BY PoolAssumption
<1>2. faults \in 0..n
  BY <1>1, Basics
<1>3. CASE UNCHANGED faults
  BY <1>1, <1>2, <1>3
<1>4. CASE Fault
  BY <1>1, <1>2, <1>4 DEF Fault
<1> QED
  BY <1>3, <1>4

LEMMA ReopenHolds ==
  ASSUME IInv, Waiting, NEW ic \in DOMAIN pool, NEW up \in BOOLEAN, Reopen(ic, up),
         UNCHANGED faults \/ Fault,
         UNCHANGED <<conns, pos, tries, answers, outcome>>
  PROVE  IInv'
<1>1. PICK s : s = State
  OBVIOUS
<1>2. Books(s) /\ s.pool = pool /\ ic \in DOMAIN s.pool
  BY <1>1, Basics
<1>3. Tried(s.pool)
  BY <1>2 DEF Waiting, IInv, Phases
<1>4. PICK t : t = Reconnect(s, ic, up)
  OBVIOUS
<1>5. Settles(t, s)
  BY <1>2, <1>3, <1>4, ReconnectSettles
<1>6. SetState(t) /\ SetPhase(t, phase)
  BY <1>1, <1>4 DEF Reopen
<1> QED
  BY <1>1, <1>5, <1>6, FaultCount, SettlesHolds

LEMMA ServerRestartHolds ==
  ASSUME IInv, NEW ic \in DOMAIN pool, NEW up \in BOOLEAN, ServerRestart(ic, up)
  PROVE  IInv'
<1>1. Waiting /\ Reopen(ic, up) /\ UNCHANGED <<conns, pos, tries, answers, outcome>>
  BY DEF ServerRestart, Receive
<1>2. UNCHANGED faults \/ Fault
  BY DEF ServerRestart
<1> QED
  BY <1>1, <1>2, ReopenHolds

LEMMA LoseContactHolds ==
  ASSUME IInv, NEW ic \in DOMAIN pool, NEW up \in BOOLEAN, LoseContact(ic, up)
  PROVE  IInv'
<1>1. Waiting /\ Reopen(ic, up) /\ Fault /\ UNCHANGED <<conns, pos, tries, answers, outcome>>
  BY DEF LoseContact
<1> QED
  BY <1>1, ReopenHolds

LEMMA RejectedHolds ==
  ASSUME IInv, NEW ic \in DOMAIN pool, NEW up \in BOOLEAN, Rejected(ic, up)
  PROVE  IInv'
<1>1. PICK s : s = State
  OBVIOUS
<1>2. Books(s) /\ s.pool = pool /\ ic \in DOMAIN s.pool
  BY <1>1, Basics
<1>3. Waiting /\ UNCHANGED <<conns, pos, tries, answers, outcome>>
  BY DEF Rejected
<1>4. Tried(s.pool)
  BY <1>2, <1>3 DEF Waiting, IInv, Phases
<1>5. PICK t : t = Recover(s, ic, up)
  OBVIOUS
<1>6. Settles(t, s)
  BY <1>2, <1>4, <1>5, RecoverSettles
<1>7. SetState(t) /\ SetPhase(t, phase)
  BY <1>1, <1>5 DEF Rejected
<1>8. UNCHANGED faults \/ Fault
  BY DEF Rejected
<1>9. faults' \in 0..MaxFaults
  BY <1>8, FaultCount
<1> QED
  BY <1>1, <1>3, <1>6, <1>7, <1>9, SettlesHolds

\* A server does something: its connection has another link.
LEMMA ServerHolds ==
  ASSUME IInv, NEW ic \in DOMAIN pool, Running(ic), NEW k \in Link,
         LinkOK(k, njobs), Quieter(k, pool[ic].link),
         pool' = [pool EXCEPT ![ic] = [pool[ic] EXCEPT !.link = k]],
         UNCHANGED <<conns, phase, pos, tries, hosts, njobs, fate, answers, outcome>>,
         UNCHANGED faults \/ Fault
  PROVE  IInv'
<1>1. PICK s : s = State
  OBVIOUS
<1>2. s \in Records /\ Books(s) /\ s.pool = pool /\ s.njobs = njobs
  BY <1>1, Basics
<1>3. PICK c \in Connection : c = s.pool[ic] /\ Sound(c, s.njobs)
  BY <1>2, BooksTypes
<1>4. PICK d : d = [c EXCEPT !.link = k]
  OBVIOUS
<1>5. /\ d \in Connection /\ d.tasks = c.tasks /\ d.running = c.running
      /\ d.launched = c.launched /\ d.complete = c.complete
      /\ d.link = k /\ d.restart = c.restart
  <2>1. d \in Connection
    BY <1>4 DEF Connection
  <2> QED
    BY <2>1, <1>4 DEF Connection
<1>6. d.running = d.launched - d.complete /\ LinkOK(d.link, s.njobs) /\ Quieter(d.link, c.link)
  BY <1>2, <1>3, <1>5 DEF Sound
<1>7. PICK t : t = Put(s, ic, d)
  OBVIOUS
<1>8. Moves(t, s)
  BY <1>2, <1>3, <1>5, <1>6, <1>7, PutCarries
<1>9. SetState(t)
  BY <1>1, <1>2, <1>3, <1>4, <1>7 DEF SetState, Put, State
<1>10. Books(t) /\ t \in Records
  BY <1>8 DEF Moves, Carries, Books
<1>11. State' = t /\ pool' = t.pool
  BY <1>9, <1>10, NextState
<1>12. phase \in {"launch", "busy", "drain"}
  BY Basics DEF Running, Phrase
<1>13. tries' < NHosts' /\ Tried(t.pool)
  BY <1>2, <1>8, <1>12 DEF IInv, Phases, NHosts, Moves
<1>14. FirstOfGroup' <=> FirstOfGroup
  BY DEF FirstOfGroup
<1>15. Idle(pool) => Idle(t.pool)
  BY <1>2, <1>8 DEF Moves, Carries
<1>16. phase = "drain" => pos' \in DOMAIN Script \ Commands \/ pos' = Len(Script) + 1
  BY DEF IInv, Phases
<1>17. phase \in {"launch", "busy"} /\ FirstOfGroup => phase = "launch" /\ Idle(pool)
  BY DEF IInv, Phases
<1>18. Phases'
  BY <1>11, <1>12, <1>13, <1>14, <1>15, <1>16, <1>17 DEF Phases
<1>19. tries' \in 0..NHosts /\ phase' \in Phrase
  BY <1>12 DEF IInv, TypeOK, Phrase
<1> QED
  BY <1>1, <1>8, <1>9, <1>18, <1>19, FaultCount, CarriesHolds DEF Moves


\* A server reports a job: it is no longer running and a message says so.
LEMMA ServerDoneHolds ==
  ASSUME IInv, NEW ic \in DOMAIN pool, NEW id \in pool[ic].link.jobs, NEW st \in {Ok, Failed},
         ServerDone(ic, id, st)
  PROVE  IInv'
<1>1. PICK c \in Connection : c = pool[ic] /\ Sound(c, njobs)
  BY Basics, BooksTypes
<1>2. PICK l \in Link : l = c.link /\ LinkOK(l, njobs)
  BY <1>1, Fields DEF Sound
<1>3. PICK left : left = l.jobs \ {id}
  OBVIOUS
<1>4. PICK m : m = [kind |-> "done", id |-> id, st |-> st]
  OBVIOUS
<1>5. left \in SUBSET l.jobs /\ id \in l.jobs \ left /\ id \in Nat
  BY <1>1, <1>2, <1>3 DEF Link
<1>6. m \in Message /\ m.kind = "done" /\ m.id = id
  BY <1>4, <1>5 DEF Message
<1>7. PICK k : k = [l EXCEPT !.jobs = left, !.inbox = Append(@, m)]
  OBVIOUS
<1>8. njobs \in Nat
  BY DEF IInv, TypeOK
<1>9. k \in Link /\ LinkOK(k, njobs) /\ Quieter(k, l)
  <2>1. PICK n \in Nat : n = njobs
    BY <1>8
  <2>2. LinkOK(l, n)
    BY <1>2, <2>1
  <2> QED
    BY <2>1, <2>2, <1>5, <1>6, <1>7, ReportOK
<1>10. pool' = [pool EXCEPT ![ic] = [pool[ic] EXCEPT !.link = k]]
  BY <1>1, <1>2, <1>3, <1>4, <1>7, Basics DEF ServerDone, Connection, Link
<1>11. /\ Running(ic) /\ UNCHANGED faults
       /\ UNCHANGED <<conns, phase, pos, tries, hosts, njobs, fate, answers, outcome>>
  BY DEF ServerDone
<1> QED
  BY <1>1, <1>2, <1>9, <1>10, <1>11, ServerHolds

LEMMA ServerStartsOverHolds ==
  ASSUME IInv, NEW ic \in DOMAIN pool, ServerStartsOver(ic)
  PROVE  IInv'
<1>1. PICK c \in Connection : c = pool[ic] /\ Sound(c, njobs)
  BY Basics, BooksTypes
<1>2. PICK l \in Link : l = c.link /\ LinkOK(l, njobs)
  BY <1>1, Fields DEF Sound
<1>3. PICK left : left = {}
  OBVIOUS
<1>4. PICK m : m = [kind |-> "rstrt"]
  OBVIOUS
<1>5. m \in Message /\ m.kind = "rstrt" /\ left \in SUBSET l.jobs
  BY <1>3, <1>4 DEF Message
<1>6. PICK k : k = [l EXCEPT !.jobs = left, !.inbox = Append(@, m)]
  OBVIOUS
<1>7. PICK n \in Nat : n = njobs
  BY DEF IInv, TypeOK
<1>8. k \in Link /\ LinkOK(k, njobs) /\ Quieter(k, l)
  <2>1. LinkOK(l, n)
    BY <1>2, <1>7
  <2> QED
    BY <2>1, <1>5, <1>6, <1>7, ReportOK
<1>9. pool' = [pool EXCEPT ![ic] = [pool[ic] EXCEPT !.link = k]]
  BY <1>1, <1>2, <1>3, <1>4, <1>6, Basics DEF ServerStartsOver, Connection, Link
<1>10. /\ Running(ic) /\ Fault
       /\ UNCHANGED <<conns, phase, pos, tries, hosts, njobs, fate, answers, outcome>>
  BY DEF ServerStartsOver
<1> QED
  BY <1>1, <1>2, <1>8, <1>9, <1>10, ServerHolds

LEMMA ServerDiesHolds ==
  ASSUME IInv, NEW ic \in DOMAIN pool, ServerDies(ic)
  PROVE  IInv'
<1>1. PICK c \in Connection : c = pool[ic] /\ Sound(c, njobs)
  BY Basics, BooksTypes
<1>2. PICK l \in Link : l = c.link /\ LinkOK(l, njobs)
  BY <1>1, Fields DEF Sound
<1>3. PICK k : k = [l EXCEPT !.jobs = {}, !.proc = "dead"]
  OBVIOUS
<1>4. PICK n \in Nat : n = njobs
  BY DEF IInv, TypeOK
<1>5. k \in Link /\ LinkOK(k, njobs) /\ Quieter(k, l)
  <2>1. LinkOK(l, n)
    BY <1>2, <1>4
  <2> QED
    BY <2>1, <1>3, <1>4, DieOK
<1>6. pool' = [pool EXCEPT ![ic] = [pool[ic] EXCEPT !.link = k]]
  BY <1>1, <1>2, <1>3, Basics DEF ServerDies, Connection, Link
<1>7. /\ Running(ic) /\ Fault
      /\ UNCHANGED <<conns, phase, pos, tries, hosts, njobs, fate, answers, outcome>>
  BY DEF ServerDies
<1> QED
  BY <1>1, <1>2, <1>5, <1>6, <1>7, ServerHolds

-----------------------------------------------------------------------------
(* The invariant from the start, and in every step.                        *)

LEMMA NewConnectionSound ==
  ASSUME NEW h \in 1..Hosts
  PROVE  /\ NewConnection(h) \in Connection /\ Sound(NewConnection(h), 0)
         /\ NewConnection(h).running = 0 /\ NewConnection(h).restart < RestartLimit
         /\ NewConnection(h).tasks = <<>>
<1>1. PICK c : c = NewConnection(h)
  OBVIOUS
<1>2. RestartLimit \in Nat /\ 0 < RestartLimit
  BY PoolAssumption DEF RestartLimit
<1>3. NoServer \in Link /\ LinkOK(NoServer, 0)
  BY NewLink
<1>4. c \in Connection
  BY <1>1, <1>2, <1>3 DEF NewConnection, Connection
<1>5. /\ c.tasks = <<>> /\ c.running = 0 /\ c.launched = 0 /\ c.complete = 0
      /\ c.link = NoServer /\ c.restart = 0
  BY <1>1 DEF NewConnection
<1>6. Waits(c.tasks) = {}
  BY <1>5 DEF Waits
<1>7. TasksOK(c.tasks, 0)
  BY <1>5 DEF TasksOK
<1>8. Cardinality(Waits(c.tasks)) = 0
  BY <1>6, FS_EmptySet
<1>9. Sound(c, 0)
  BY <1>3, <1>5, <1>7, <1>8 DEF Sound
<1> QED
  BY <1>1, <1>2, <1>4, <1>5, <1>9

LEMMA InitHolds ==
  ASSUME Init
  PROVE  IInv
<1>1. PICK h \in Nat : h = Hosts
  BY PoolAssumption
<1>2. PICK n \in 1 .. h : n = conns
  BY <1>1, PoolAssumption DEF Init
<1>3. PICK pl : pl = [ic \in 1 .. n |-> NewConnection(ic)]
  OBVIOUS
<1>4. pool = pl
  BY <1>2, <1>3 DEF Init
<1>5. ASSUME NEW ic \in 1 .. n
      PROVE  /\ pl[ic] \in Connection /\ Sound(pl[ic], 0) /\ pl[ic].running = 0
             /\ pl[ic].restart < RestartLimit /\ pl[ic].tasks = <<>>
  <2>1. ic \in 1 .. Hosts
    BY <1>1
  <2> QED
    BY <2>1, <1>3, NewConnectionSound
<1>6. pl \in Seq(Connection) /\ Len(pl) = n /\ DOMAIN pl = 1 .. n
  BY <1>3, <1>5
<1>7. PICK k \in Nat : k = NHosts /\ k >= 1 /\ k =< h
  <2>1. h >= 1
    BY <1>2
  <2> QED
    BY <2>1, <1>1 DEF NHosts
<1>8. hosts \subseteq 1 .. Hosts
  BY <1>1, <1>7 DEF Init
<1>9. /\ conns \in Sizes /\ phase = "launch" /\ pos = 1 /\ tries = 0 /\ njobs = 0
      /\ fate = "none" /\ faults = 0
      /\ answers = [p \in Commands |-> 0] /\ outcome = [p \in Commands |-> NotFinished]
  BY DEF Init
<1>10. TypeOK
  <2>1. pos \in 1 .. Len(Script) + 1
    BY <1>9, CommandsAre
  <2>2. tries \in 0 .. NHosts /\ faults \in 0 .. MaxFaults
    BY <1>7, <1>9, PoolAssumption
  <2> QED
    BY <2>1, <2>2, <1>4, <1>6, <1>8, <1>9 DEF TypeOK
<1>11. Books(State)
  <2>1. State \in Records
    BY <1>4, <1>6, <1>8, <1>9 DEF State, Records, Fates
  <2>2. State.pool = pl /\ State.njobs = 0
    BY <1>4, <1>9 DEF State
  <2> QED
    BY <2>1, <2>2, <1>5, <1>6 DEF Books
<1>12. Tracked(pool, pos, answers, outcome, conns)
  <2>1. \A ic \in DOMAIN pl : DOMAIN pl[ic].tasks = {}
    BY <1>5, <1>6
  <2>2. \A p \in Commands : ~(p < pos)
    BY <1>9, CommandsAre
  <2> QED
    BY <2>1, <2>2, <1>4 DEF Tracked, Alone
<1>13. Unasked
  BY <1>9 DEF Unasked
<1>14. Phases
  BY <1>4, <1>5, <1>6, <1>7, <1>9 DEF Phases, Idle, Tried
<1>15. BarrierHeld
  <2>1. \A b \in DOMAIN Script \ Commands : ~(pos > b)
    BY <1>9, CommandsAre
  <2> QED
    BY <2>1 DEF BarrierHeld
<1>16. Len(pool) =< conns
  BY <1>2, <1>4, <1>6
<1> QED
  BY <1>10, <1>11, <1>12, <1>13, <1>14, <1>15, <1>16 DEF IInv

LEMMA StepHolds ==
  ASSUME IInv, [Next]_vars
  PROVE  IInv'
<1>1. CASE UNCHANGED vars
  BY <1>1 DEF vars, IInv, TypeOK, Books, State, Tracked, Unasked, Phases, BarrierHeld,
               NHosts, FirstOfGroup, Idle, Tried, Alone, Somewhere, Stands
<1>2. CASE Launch
  <2>1. CASE \E ic \in DOMAIN pool : SendJob(ic)
    BY <2>1, SendJobHolds
  <2>2. CASE \E ic \in DOMAIN pool : StartAndSend(ic)
    BY <2>2, StartAndSendHolds
  <2>3. CASE \E ic \in DOMAIN pool : StartFails(ic)
    BY <2>3, StartFailsHolds
  <2>4. CASE FullySubscribed
    BY <2>4, FullySubscribedHolds
  <2>5. CASE TryAgain
    BY <2>5, TryAgainHolds
  <2>6. CASE NoConnections
    BY <2>6, NoConnectionsHolds
  <2>7. CASE ReachBarrier
    BY <2>7, ReachBarrierHolds
  <2>8. CASE Drained
    BY <2>8, DrainedHolds
  <2> QED
    BY <1>2, <2>1, <2>2, <2>3, <2>4, <2>5, <2>6, <2>7, <2>8 DEF Launch
<1>3. CASE Recovery
  <2>1. PICK ic \in DOMAIN pool, up \in BOOLEAN :
          ServerRestart(ic, up) \/ LoseContact(ic, up) \/ Rejected(ic, up)
    BY <1>3 DEF Recovery
  <2> QED
    BY <2>1, ServerRestartHolds, LoseContactHolds, RejectedHolds
<1>4. ASSUME NEW ic \in DOMAIN pool, Callback(ic)
      PROVE  IInv'
  BY <1>4, ServerOutputHolds, JobOutputHolds DEF Callback
<1>5. ASSUME NEW ic \in DOMAIN pool, Answer(ic)
      PROVE  IInv'
  <2>1. PICK id \in pool[ic].link.jobs, st \in {Ok, Failed} : ServerDone(ic, id, st)
    BY <1>5 DEF Answer
  <2> QED
    BY <2>1, ServerDoneHolds
<1>6. ASSUME NEW ic \in DOMAIN pool, ServerStartsOver(ic) \/ ServerDies(ic)
      PROVE  IInv'
  BY <1>6, ServerStartsOverHolds, ServerDiesHolds
<1> QED
  BY <1>1, <1>2, <1>3, <1>4, <1>5, <1>6 DEF Next

-----------------------------------------------------------------------------
(* What the invariant says of the pool.                                    *)

LEMMA BooksBalanced ==
  ASSUME IInv
  PROVE  Accounting
<1>1. ASSUME NEW ic \in DOMAIN pool
      PROVE  LET c == pool[ic]
             IN  /\ c.running = c.launched - c.complete
                 /\ c.running = Cardinality(Waits(c.tasks))
  BY Basics, BooksTypes DEF Sound
<1> QED
  BY <1>1 DEF Accounting, Waits

\* A place that is not withdrawn: its command is at no other.
LEMMA PlaceStands ==
  ASSUME IInv, NEW x \in Places, ~TaskAt(x).killed
  PROVE  /\ x[1] \in DOMAIN pool /\ x[2] \in DOMAIN pool[x[1]].tasks /\ x = <<x[1], x[2]>>
         /\ TaskAt(x).cmd \in Commands /\ TaskAt(x).status \in {NotFinished, Ok, Failed}
         /\ Stands(pool, x[1], x[2], TaskAt(x).cmd)
         /\ Truthful(TaskAt(x), pos, answers, outcome)
<1>1. PICK ic \in DOMAIN pool : x \in {ic} \X DOMAIN pool[ic].tasks
  BY DEF Places
<1>2. PICK it \in DOMAIN pool[ic].tasks : x = <<ic, it>>
  BY <1>1
<1>3. TaskAt(x) = pool[ic].tasks[it] /\ x[1] = ic /\ x[2] = it
  BY <1>2 DEF TaskAt
<1>4. pool[ic].tasks[it] \in Task
  BY Basics, BooksTypes
<1>5. Truthful(pool[ic].tasks[it], pos, answers, outcome)
  BY <1>3, Basics DEF Tracked
<1>6. Stands(pool, ic, it, TaskAt(x).cmd)
  BY <1>3 DEF Stands
<1> QED
  BY <1>2, <1>3, <1>4, <1>5, <1>6, TaskFields

LEMMA TasksOfCommand ==
  ASSUME IInv, pool # <<>>, NEW p \in Commands, pos > p
  PROVE  Cardinality(CurrentTasks(p)) = IF answers[p] = 0 THEN 1 ELSE 0
<1>1. \A x \in CurrentTasks(p) :
        /\ x \in Places /\ TaskAt(x).cmd = p /\ TaskAt(x).status = NotFinished
        /\ ~TaskAt(x).killed
  BY DEF CurrentTasks, Unfinished
<1>2. CASE answers[p] # 0
  <2>1. ASSUME NEW x \in CurrentTasks(p) PROVE FALSE
    BY <1>1, <1>2, PlaceStands DEF Truthful
  <2>2. CurrentTasks(p) = {}
    BY <2>1
  <2> QED
    BY <1>2, <2>2, FS_EmptySet
<1>3. CASE answers[p] = 0
  <2>1. p < pos
    BY CommandsAre, Basics
  <2>2. Somewhere(pool, p) /\ Alone(pool, p)
    BY <1>3, <2>1, Basics DEF Tracked
  <2>3. PICK ic \in DOMAIN pool : \E it \in DOMAIN pool[ic].tasks : Stands(pool, ic, it, p)
    BY <2>2 DEF Somewhere
  <2>4. PICK it \in DOMAIN pool[ic].tasks : Stands(pool, ic, it, p)
    BY <2>3
  <2>5. PICK x : x = <<ic, it>>
    OBVIOUS
  <2>6. x \in Places /\ x[1] = ic /\ x[2] = it /\ TaskAt(x) = pool[ic].tasks[it]
    BY <2>5 DEF Places, TaskAt
  <2>7. TaskAt(x).cmd = p /\ ~TaskAt(x).killed
    BY <2>4, <2>6 DEF Stands
  <2>8. TaskAt(x).status = NotFinished
    BY <1>3, <2>6, <2>7, PlaceStands DEF Truthful
  <2>9. x \in CurrentTasks(p)
    BY <2>6, <2>7, <2>8 DEF CurrentTasks, Unfinished
  <2>10. ASSUME NEW y \in CurrentTasks(p) PROVE y = x
    <3>1. /\ y[1] \in DOMAIN pool /\ y[2] \in DOMAIN pool[y[1]].tasks /\ y = <<y[1], y[2]>>
          /\ Stands(pool, y[1], y[2], p)
      BY <1>1, PlaceStands
    <3>2. y[1] = ic /\ y[2] = it
      BY <3>1, <2>2, <2>4 DEF Alone
    <3> QED
      BY <3>1, <3>2, <2>5
  <2>11. CurrentTasks(p) = {x}
    BY <2>9, <2>10
  <2> QED
    BY <1>3, <2>11, FS_Singleton
<1> QED
  BY <1>2, <1>3

LEMMA OneTaskHolds ==
  ASSUME IInv
  PROVE  OneTask
BY TasksOfCommand DEF OneTask

LEMMA StatusHolds ==
  ASSUME IInv
  PROVE  StatusTrue
<1> SUFFICES ASSUME phase = "done", Len(pool) = conns
             PROVE  PoolStatus = {} <=> Succeeded
  BY DEF StatusTrue
<1>1. pos = Len(Script) + 1 /\ Idle(pool) /\ pool # <<>>
  BY Basics DEF IInv, Phases
<1>2. \A p \in Commands : p < pos
  <2>1. PICK n \in Nat : n = Len(Script) /\ Commands \subseteq 1 .. n
    BY CommandsAre
  <2> QED
    BY <2>1, <1>1
<1>3. \A p \in Commands : answers[p] # 0
  BY <1>1, <1>2, IdleAnswered
<1>4. ASSUME NEW x \in Places, ~TaskAt(x).killed
      PROVE  /\ TaskAt(x).cmd \in Commands /\ TaskAt(x).retry # 1
             /\ TaskAt(x).status = outcome[TaskAt(x).cmd]
  <2>1. /\ x[1] \in DOMAIN pool /\ x[2] \in DOMAIN pool[x[1]].tasks
        /\ TaskAt(x).cmd \in Commands /\ Truthful(TaskAt(x), pos, answers, outcome)
    BY <1>4, PlaceStands
  <2>2. PICK c \in Connection : c = pool[x[1]] /\ Sound(c, njobs) /\ c.running = 0
    BY <2>1, <1>1, Basics, BooksTypes DEF Idle
  <2>3. njobs \in Nat
    BY DEF IInv, TypeOK
  <2>4. ~Pending(TaskAt(x))
    BY <2>1, <2>2, <2>3, IdleNone DEF TaskAt
  <2> QED
    BY <2>1, <2>4, <1>3, <1>4 DEF Truthful, Pending
<1>5. ASSUME PoolStatus = {}, NEW p \in Commands
      PROVE  outcome[p] = Ok
  <2>1. Somewhere(pool, p)
    BY <1>1, <1>2, Basics DEF Tracked
  <2>2. PICK ic \in DOMAIN pool : \E it \in DOMAIN pool[ic].tasks : Stands(pool, ic, it, p)
    BY <2>1 DEF Somewhere
  <2>3. PICK it \in DOMAIN pool[ic].tasks : Stands(pool, ic, it, p)
    BY <2>2
  <2>4. PICK x : x = <<ic, it>>
    OBVIOUS
  <2>5. x \in Places /\ TaskAt(x) = pool[ic].tasks[it]
    BY <2>4 DEF Places, TaskAt
  <2>6. ~TaskAt(x).killed /\ TaskAt(x).cmd = p
    BY <2>3, <2>5 DEF Stands
  <2>7. TaskAt(x).retry # 1 /\ TaskAt(x).status = outcome[p]
    BY <2>5, <2>6, <1>4
  <2> QED
    BY <2>5, <2>6, <2>7, <1>5 DEF PoolStatus
<1>6. ASSUME Succeeded, NEW x \in PoolStatus
      PROVE  FALSE
  <2>1. x \in Places /\ ~TaskAt(x).killed /\ TaskAt(x).status # Ok
    BY <1>6 DEF PoolStatus
  <2> QED
    BY <2>1, <1>4, <1>6 DEF Succeeded
<1> QED
  BY <1>5, <1>6 DEF Succeeded

-----------------------------------------------------------------------------
(* The theorems.                                                           *)

LEMMA Invariant == Spec => []IInv
<1>1. Init => IInv
  BY InitHolds
<1>2. IInv /\ [Next]_vars => IInv'
  BY StepHolds
<1> QED
  BY <1>1, <1>2, PTL DEF Spec

\* The pool, its connections, tasks and messages stay what the code declares
\* them to be: no limit reaches zero, no connection is reopened more often
\* than it may be, no task is run more often than NA.
THEOREM TypeCorrect == Spec => []TypeOK
<1>1. IInv => TypeOK
  BY DEF IInv
<1> QED
  BY <1>1, Invariant, PTL

\* n_running is the number of tasks that wait for an answer, and what was
\* launched and is not complete, for any number of hosts, commands, retries
\* and faults.
THEOREM BooksBalance == Spec => []Accounting
<1>1. IInv => Accounting
  BY BooksBalanced
<1> QED
  BY <1>1, Invariant, PTL

\* As long as a connection is left, a command that no server has answered
\* stands for exactly one task, and an answered one for none.
THEOREM OneTaskEach == Spec => []OneTask
<1>1. IInv => OneTask
  BY OneTaskHolds
<1> QED
  BY <1>1, Invariant, PTL

\* Every command before a barrier has been answered when the barrier is
\* passed.
THEOREM Barriers == Spec => []BarrierHeld
<1>1. IInv => BarrierHeld
  BY DEF IInv
<1> QED
  BY <1>1, Invariant, PTL

\* With no connection retired, the status at the end of the session is zero
\* exactly when every command succeeded in its last attempt.
THEOREM StatusTold == Spec => []StatusTrue
<1>1. IInv => StatusTrue
  BY StatusHolds
<1> QED
  BY <1>1, Invariant, PTL
=============================================================================
