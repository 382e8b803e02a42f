--------------------------- MODULE ParFile_proofs ---------------------------
(***************************************************************************)
(* For any threads, names and sizes: entries have parts of the file of     *)
(* their own, which are all the space that is given out, a call transfers  *)
(* at the place of its entry, and a write changes no byte of another.      *)
(*                                                                         *)
(* What is true of entries has to be so of those in the tables of the file *)
(* too, from which it is opened, and of the space a thread has been given  *)
(* but not yet put into the symbol table.                                  *)
(*                                                                         *)
(* When entries are defined by one thread alone, and not directly after a  *)
(* flush, the tables of a file that is taken for flushed are those of the  *)
(* program, and the file is one variable for each name.                    *)
(***************************************************************************)
EXTENDS ParFile, FiniteSetTheorems, TLAPS

Address == Nat \cup {Nowhere}

Typed == /\ addr \in Nat /\ pos \in Nat /\ disk \in [Threads -> Nat]
         /\ pflock \in Threads \cup {Nobody} /\ iolock \in Threads \cup {Nobody}
         /\ symtab \in [Names -> Address] /\ place \in [Threads -> Address]
         /\ pc \in [Threads -> PCs] /\ DOMAIN job = Threads
         /\ job = [t \in Threads |-> job[t]]
         /\ \A t \in Threads : job[t] \in Jobs[t] \cup {NoJob}
         /\ saved \in [at : Nat, symtab : [Names -> Address]]
         /\ DOMAIN bytes = Cells

\* Two stretches of the file have no byte in common.
Apart(a, m, b, n) == a + Size[m] =< b \/ b + Size[n] =< a

\* The entries of a table lie before the end of the data, each by itself.
Separate(tab, end) ==
  \A m \in Names : tab[m] # Nowhere =>
    /\ tab[m] + Size[m] =< end
    /\ \A n \in Names \ {m} : tab[n] # Nowhere => Apart(tab[m], m, tab[n], n)

\* A thread that has space of its own, not in the symbol table yet.
Given(t) == /\ place[t] \in Nat /\ place[t] + Size[job[t].name] =< addr
            /\ \A n \in Names : symtab[n] # Nowhere => Apart(place[t], job[t].name, symtab[n], n)
            /\ \A u \in Threads \ {t} : At(u, "install") =>
                 Apart(place[t], job[t].name, place[u], job[u].name)

\* Where a thread is in its call.
Call(t) == /\ At(t, "idle") <=> job[t] = NoJob
           /\ pc[t] \in {"space", "reserve", "install"} =>
                job[t].op # "read" /\ symtab[job[t].name] = Nowhere
           /\ Doing(t, "read") => symtab[job[t].name] # Nowhere

\* The locks it has, and what it knows by them.
Locked(t) == /\ At(t, "reserve") <=> pflock = t
             /\ At(t, "transfer") <=> iolock = t
             /\ At(t, "reserve") => place[t] = addr
             /\ At(t, "transfer") => pos = disk[t]

\* Where its transfer will be.
Bound(t) == /\ At(t, "seek") => place[t] = symtab[job[t].name] /\ place[t] # Nowhere
            /\ pc[t] \in {"iolock", "transfer"} /\ ~Doing(t, "define") =>
                 symtab[job[t].name] = disk[t]

Thread(t) == Call(t) /\ Locked(t) /\ Bound(t) /\ (At(t, "install") => Given(t))

Tables == /\ Separate(symtab, addr) /\ Separate(saved.symtab, saved.at)
          /\ mode # "open" => Idle

IInv == Typed /\ Tables /\ \A t \in Threads : Thread(t)

\* What a call is about.
LEMMA JobFacts ==
  ASSUME NEW t \in Threads, NEW j \in Jobs[t]
  PROVE  /\ j.op \in {"read", "write", "define"} /\ j.name \in Names /\ j # NoJob
         /\ j.op # "read" => Owner[j.name] = t
BY NoJobAssumption DEF Jobs, Own

LEMMA Sizes == /\ \A n \in Names : Size[n] \in Nat /\ Size[n] >= 1
               /\ Nowhere \notin Nat /\ Nobody \notin Threads /\ TableSize \in Nat
BY FileAssumption, NoneAssumption

LEMMA InitInv == Init => IInv
<1> SUFFICES ASSUME Init PROVE IInv
  OBVIOUS
<1>1. Typed
  BY Sizes DEF Init, Typed, Address, PCs
<1>2. Tables
  BY DEF Init, Tables, Separate
<1>3. \A t \in Threads : Thread(t)
  BY Sizes DEF Init, Thread, Call, Locked, Bound, At, Doing
<1> QED
  BY <1>1, <1>2, <1>3 DEF IInv

-----------------------------------------------------------------------------
(* The steps.                                                              *)

\* What is to be shown of a step of one thread that leaves the space of the
\* file as it is.
LEMMA OneThread ==
  ASSUME IInv, NEW t \in Threads, Typed', Thread(t)', UNCHANGED <<addr, symtab, saved, mode>>,
         mode = "open", pc'[t] # "install",
         \A u \in Threads \ {t} :
           /\ pc'[u] = pc[u] /\ job'[u] = job[u] /\ place'[u] = place[u] /\ disk'[u] = disk[u]
           /\ pflock' = u <=> pflock = u
           /\ iolock' = u <=> iolock = u
           /\ iolock = u => pos' = pos
  PROVE  IInv'
<1>1. Tables'
  BY DEF IInv, Tables, Separate, Apart
<1>2. ASSUME NEW u \in Threads \ {t} PROVE Thread(u)'
  <2>1. Thread(u)
    BY DEF IInv
  <2>2. Call(u)' /\ Bound(u)'
    BY <2>1 DEF Thread, Call, Bound, At, Doing
  <2>3. Locked(u)'
    BY <2>1 DEF Thread, Locked, At
  <2>4. At(u, "install")' => Given(u)'
    BY <2>1 DEF Thread, Given, At, Apart
  <2> QED
    BY <2>2, <2>3, <2>4 DEF Thread
<1> QED
  BY <1>1, <1>2 DEF IInv

\* What a thread in a call knows.
LEMMA InCall ==
  ASSUME IInv, NEW t \in Threads, ~At(t, "idle")
  PROVE  /\ mode = "open" /\ job[t] # NoJob /\ job[t] \in Jobs[t] /\ job[t].name \in Names
         /\ job[t].op \in {"read", "write", "define"} /\ (job[t].op # "read" => Owner[job[t].name] = t)
         /\ Thread(t) /\ Size[job[t].name] \in Nat /\ symtab[job[t].name] \in Address
         /\ place[t] \in Address /\ disk[t] \in Nat
<1>1. Thread(t) /\ Typed /\ Tables
  BY DEF IInv
<1>2. job[t] # NoJob /\ job[t] \in Jobs[t] /\ mode = "open"
  BY <1>1 DEF Thread, Call, Typed, Tables, Idle
<1> QED
  BY <1>1, <1>2, JobFacts, Sizes DEF Typed

LEMMA BeginInv == ASSUME IInv, NEW t \in Threads, Begin(t) PROVE IInv'
<1>1. PICK j \in Jobs[t] : Allowed(t, j) /\ job' = [job EXCEPT ![t] = j]
  BY DEF Begin
<1>2. mode = "open" /\ pc[t] = "idle" /\ pc' = [pc EXCEPT ![t] = "lookup"]
      /\ UNCHANGED <<fileVars, disk, place>>
  BY DEF Begin, At, Goto
<1>3. Typed /\ Thread(t)
  BY DEF IInv
<1>4. pc'[t] = "lookup" /\ job'[t] = j
  BY <1>1, <1>2, <1>3 DEF Typed
<1>5. Typed'
  BY <1>1, <1>2, <1>3 DEF Typed, fileVars, PCs
<1>6. Thread(t)'
  <2>1. j.op = "read" => symtab[j.name] # Nowhere
    BY <1>1, Sizes DEF Allowed, Stored
  <2>2. j # NoJob
    BY JobFacts
  <2>3. Locked(t)
    BY <1>3 DEF Thread
  <2>4. Locked(t)'
    BY <2>3, <1>2, <1>4 DEF Locked, At, fileVars
  <2> QED
    BY <2>1, <2>2, <2>4, <1>2, <1>4 DEF Thread, Call, Bound, At, Doing, fileVars
<1>7. \A u \in Threads \ {t} : pc'[u] = pc[u] /\ job'[u] = job[u]
  BY <1>1, <1>2, <1>3 DEF Typed
<1> QED
  BY <1>2, <1>4, <1>5, <1>6, <1>7, OneThread DEF fileVars

LEMMA LookupInv == ASSUME IInv, NEW t \in Threads, Lookup(t) PROVE IInv'
<1>1. pc[t] = "lookup" /\ place' = [place EXCEPT ![t] = symtab[job[t].name]]
      /\ pc' = [pc EXCEPT ![t] = IF symtab[job[t].name] = Nowhere THEN "space" ELSE "seek"]
      /\ UNCHANGED <<fileVars, disk, job>>
  BY DEF Lookup, At, Goto
<1>2. Typed /\ Thread(t) /\ mode = "open" /\ symtab[job[t].name] \in Address /\ job[t] # NoJob
      /\ job[t].op \in {"read", "write", "define"}
  BY <1>1, InCall DEF IInv, At
<1>3. place'[t] = symtab[job[t].name]
      /\ pc'[t] = IF symtab[job[t].name] = Nowhere THEN "space" ELSE "seek"
  BY <1>1, <1>2 DEF Typed
<1>4. Typed'
  BY <1>1, <1>2 DEF Typed, fileVars, PCs
<1>5. Thread(t)'
  <2>1. Call(t)'
    BY <1>1, <1>2, <1>3 DEF Thread, Call, At, Doing, fileVars
  <2>2. Locked(t)'
    BY <1>1, <1>2, <1>3 DEF Thread, Locked, At, fileVars
  <2>3. Bound(t)' /\ pc'[t] # "install"
    BY <1>1, <1>3 DEF Bound, At, fileVars
  <2> QED
    BY <2>1, <2>2, <2>3 DEF Thread, At
<1>6. \A u \in Threads \ {t} : pc'[u] = pc[u] /\ place'[u] = place[u]
  BY <1>1, <1>2 DEF Typed
<1> QED
  BY <1>1, <1>2, <1>3, <1>4, <1>5, <1>6, OneThread DEF fileVars

LEMMA ReadAddrInv == ASSUME IInv, NEW t \in Threads, ReadAddr(t) PROVE IInv'
<1>1. pc[t] = "space" /\ pflock = Nobody /\ pflock' = t /\ place' = [place EXCEPT ![t] = addr]
      /\ pc' = [pc EXCEPT ![t] = "reserve"]
      /\ UNCHANGED <<addr, iolock, pos, symtab, bytes, saved, mode, disk, job>>
  BY DEF ReadAddr, At, Goto
<1>2. Typed /\ Thread(t) /\ mode = "open"
  BY <1>1, InCall DEF IInv, At
<1>3. place'[t] = addr /\ pc'[t] = "reserve"
  BY <1>1, <1>2 DEF Typed
<1>4. Typed'
  BY <1>1, <1>2 DEF Typed, PCs, Address
<1>5. Thread(t)'
  BY <1>1, <1>2, <1>3 DEF Thread, Call, Locked, Bound, At, Doing
<1>6. \A u \in Threads \ {t} : pc'[u] = pc[u] /\ place'[u] = place[u]
                               /\ (pflock' = u <=> pflock = u)
  BY <1>1, <1>2, Sizes DEF Typed
<1> QED
  BY <1>1, <1>2, <1>3, <1>4, <1>5, <1>6, OneThread

LEMMA SeekInv == ASSUME IInv, NEW t \in Threads, Seek(t) PROVE IInv'
<1>1. pc[t] = "seek" /\ disk' = [disk EXCEPT ![t] = place[t]]
      /\ pc' = [pc EXCEPT ![t] = "iolock"]
      /\ UNCHANGED <<addr, pflock, iolock, pos, symtab, bytes, saved, mode, job, place>>
  BY DEF Seek, At, Goto
<1>2. Typed /\ Thread(t) /\ mode = "open" /\ job[t] # NoJob
  BY <1>1, InCall DEF IInv, At
<1>3. place[t] = symtab[job[t].name] /\ place[t] \in Nat
  BY <1>1, <1>2 DEF Thread, Bound, Typed, Address, At
<1>4. disk'[t] = place[t] /\ pc'[t] = "iolock"
  BY <1>1, <1>2 DEF Typed
<1>5. Typed'
  BY <1>1, <1>2, <1>3 DEF Typed, PCs
<1>6. Thread(t)'
  BY <1>1, <1>2, <1>3, <1>4 DEF Thread, Call, Locked, Bound, At, Doing
<1>7. \A u \in Threads \ {t} : pc'[u] = pc[u] /\ disk'[u] = disk[u]
  BY <1>1, <1>2 DEF Typed
<1> QED
  BY <1>1, <1>2, <1>4, <1>5, <1>6, <1>7, OneThread

LEMMA SeekStreamInv == ASSUME IInv, NEW t \in Threads, SeekStream(t) PROVE IInv'
<1>1. pc[t] = "iolock" /\ iolock = Nobody /\ iolock' = t /\ pos' = disk[t]
      /\ pc' = [pc EXCEPT ![t] = "transfer"]
      /\ UNCHANGED <<addr, pflock, symtab, bytes, saved, mode, disk, job, place>>
  BY DEF SeekStream, At, Goto
<1>2. Typed /\ Thread(t) /\ mode = "open" /\ disk[t] \in Nat
  BY <1>1, InCall DEF IInv, At
<1>3. pc'[t] = "transfer"
  BY <1>1, <1>2 DEF Typed
<1>4. Typed'
  BY <1>1, <1>2 DEF Typed, PCs
<1>5. Thread(t)'
  BY <1>1, <1>2, <1>3 DEF Thread, Call, Locked, Bound, At, Doing
<1>6. \A u \in Threads \ {t} : pc'[u] = pc[u] /\ (iolock' = u <=> iolock = u) /\ iolock # u
  BY <1>1, <1>2, Sizes DEF Typed
<1> QED
  BY <1>1, <1>2, <1>3, <1>4, <1>5, <1>6, OneThread

\* Write, Extend and Read.
LEMMA TransferInv ==
  ASSUME IInv, NEW t \in Threads, Write(t) \/ Extend(t) \/ Read(t) PROVE IInv'
<1>1. pc[t] = "transfer" /\ iolock' = Nobody /\ UNCHANGED <<addr, pflock, symtab, saved, mode, job, place>>
  BY DEF Write, Extend, Read, Moved, At
<1>2. Typed /\ Thread(t) /\ mode = "open" /\ disk[t] \in Nat /\ job[t] # NoJob
      /\ Size[job[t].name] \in Nat
  BY <1>1, InCall DEF IInv, At
<1>3. PICK n \in Nat, l \in {"eod", "return"} :
        /\ pos' = pos + n /\ disk' = [disk EXCEPT ![t] = @ + n]
        /\ pc' = [pc EXCEPT ![t] = l]
  BY <1>2 DEF Write, Extend, Read, Moved, Goto
<1>4. pc'[t] = l
  BY <1>2, <1>3 DEF Typed
<1>5. DOMAIN bytes' = Cells
  BY <1>2 DEF Write, Extend, Read, Put, Typed
<1>6. Typed'
  BY <1>1, <1>2, <1>3, <1>5 DEF Typed, PCs
<1>7. Thread(t)'
  <2>1. iolock = t
    BY <1>1, <1>2 DEF Thread, Locked, At
  <2> QED
    BY <2>1, <1>1, <1>2, <1>4, Sizes DEF Thread, Call, Locked, Bound, At, Doing
<1>8. iolock = t
  BY <1>1, <1>2 DEF Thread, Locked, At
<1>9. \A u \in Threads \ {t} : pc'[u] = pc[u] /\ disk'[u] = disk[u] /\ iolock # u /\ iolock' # u
  BY <1>1, <1>2, <1>3, <1>8, Sizes DEF Typed
<1> QED
  BY <1>1, <1>2, <1>4, <1>6, <1>7, <1>9, OneThread

LEMMA EodInv == ASSUME IInv, NEW t \in Threads, Eod(t) PROVE IInv'
<1>1. pc[t] = "eod" /\ disk' = [disk EXCEPT ![t] = addr] /\ pc' = [pc EXCEPT ![t] = "return"]
      /\ UNCHANGED <<fileVars, job, place>>
  BY DEF Eod, At, Goto
<1>2. Typed /\ Thread(t) /\ mode = "open" /\ addr \in Nat
  BY <1>1, InCall DEF IInv, At, Typed
<1>3. pc'[t] = "return"
  BY <1>1, <1>2 DEF Typed
<1>4. Typed'
  BY <1>1, <1>2 DEF Typed, PCs, fileVars
<1>5. Thread(t)'
  BY <1>1, <1>2, <1>3 DEF Thread, Call, Locked, Bound, At, Doing, fileVars
<1>6. \A u \in Threads \ {t} : pc'[u] = pc[u] /\ disk'[u] = disk[u]
  BY <1>1, <1>2 DEF Typed
<1> QED
  BY <1>1, <1>2, <1>3, <1>4, <1>5, <1>6, OneThread DEF fileVars

LEMMA ReturnInv == ASSUME IInv, NEW t \in Threads, Return(t) PROVE IInv'
<1>1. pc[t] = "return" /\ job' = [job EXCEPT ![t] = NoJob] /\ pc' = [pc EXCEPT ![t] = "idle"]
      /\ place' = [place EXCEPT ![t] = Nowhere] /\ UNCHANGED <<fileVars, disk>>
  BY DEF Return, At, Goto
<1>2. Typed /\ Thread(t) /\ mode = "open"
  BY <1>1, InCall DEF IInv, At
<1>3. pc'[t] = "idle" /\ job'[t] = NoJob
  BY <1>1, <1>2 DEF Typed
<1>4. Typed'
  BY <1>1, <1>2 DEF Typed, PCs, Address, fileVars
<1>5. Thread(t)'
  BY <1>1, <1>2, <1>3 DEF Thread, Call, Locked, Bound, At, Doing, fileVars
<1>6. \A u \in Threads \ {t} : pc'[u] = pc[u] /\ job'[u] = job[u] /\ place'[u] = place[u]
  BY <1>1, <1>2 DEF Typed
<1> QED
  BY <1>1, <1>2, <1>3, <1>4, <1>5, <1>6, OneThread DEF fileVars

\* The space a thread reserves lies behind all that was given before.
LEMMA ReserveInv == ASSUME IInv, NEW t \in Threads, Reserve(t) PROVE IInv'
<1> DEFINE n == job[t].name
<1>1. pc[t] = "reserve" /\ addr' = addr + Size[n] /\ pflock' = Nobody
      /\ pc' = [pc EXCEPT ![t] = "install"]
      /\ UNCHANGED <<iolock, pos, symtab, bytes, saved, mode, job, place>>
  BY DEF Reserve, At, Goto
<1>2. disk' = [disk EXCEPT ![t] = IF Doing(t, "define") THEN place[t] + Size[n] ELSE place[t]]
  BY DEF Reserve
<1>3. Typed /\ Thread(t) /\ Tables /\ mode = "open" /\ n \in Names /\ Size[n] \in Nat
  BY <1>1, InCall DEF IInv, At
<1>4. place[t] = addr /\ addr \in Nat /\ pflock = t
  BY <1>1, <1>3 DEF Thread, Locked, At, Typed
<1>5. pc'[t] = "install" /\ \A u \in Threads \ {t} : pc'[u] = pc[u] /\ disk'[u] = disk[u]
  BY <1>1, <1>2, <1>3 DEF Typed
<1>6. Typed'
  <2>1. disk' \in [Threads -> Nat]
    BY <1>2, <1>3, <1>4 DEF Typed
  <2> QED
    BY <2>1, <1>1, <1>3, <1>4 DEF Typed, PCs
<1>7. Tables'
  <2>1. Separate(symtab, addr')
    <3>1. \A m \in Names : symtab[m] # Nowhere => symtab[m] \in Nat /\ Size[m] \in Nat
      BY <1>3, Sizes DEF Typed, Address
    <3> QED
      BY <3>1, <1>1, <1>3, <1>4 DEF Separate, Tables
  <2> QED
    BY <2>1, <1>1, <1>3 DEF Tables, Separate, Apart
<1>8. Thread(t)'
  <2>1. Call(t)' /\ Locked(t)' /\ Bound(t)'
    BY <1>1, <1>3, <1>5, Sizes DEF Thread, Call, Locked, Bound, At, Doing
  <2>2. Given(t)'
    <3>1. \A m \in Names : symtab[m] # Nowhere => Apart(addr, n, symtab[m], m)
      BY <1>3, Sizes DEF Tables, Separate, Apart
    <3>2. \A u \in Threads \ {t} : At(u, "install") => Apart(addr, n, place[u], job[u].name)
      BY Sizes DEF IInv, Thread, Given, Apart
    <3> QED
      BY <3>1, <3>2, <1>1, <1>3, <1>4, <1>5 DEF Given, At, Apart
  <2> QED
    BY <2>1, <2>2 DEF Thread
<1>9. ASSUME NEW u \in Threads \ {t} PROVE Thread(u)'
  <2>1. Thread(u)
    BY DEF IInv
  <2>2. Call(u)' /\ Bound(u)'
    BY <2>1, <1>1, <1>5 DEF Thread, Call, Bound, At, Doing
  <2>3. Locked(u)'
    BY <2>1, <1>1, <1>4, <1>5, Sizes DEF Thread, Locked, At
  <2>4. ASSUME At(u, "install") PROVE Given(u)'
    <3>1. Given(u) /\ job[u].name \in Names /\ Size[job[u].name] \in Nat /\ place[u] \in Nat
      BY <2>1, <2>4, InCall DEF Thread, At, Given
    <3>2. place[u] + Size[job[u].name] =< addr
      BY <3>1 DEF Given
    <3>3. Apart(place[u], job[u].name, addr, n)
      BY <3>2 DEF Apart
    <3>4. place[u] + Size[job[u].name] =< addr'
      BY <3>1, <3>2, <1>1, <1>3, <1>4
    <3> QED
      BY <3>1, <3>3, <3>4, <1>1, <1>4, <1>5 DEF Given, At, Apart
  <2>5. At(u, "install")' => At(u, "install")
    BY <1>5 DEF At
  <2> QED
    BY <2>2, <2>3, <2>4, <2>5 DEF Thread
<1> QED
  BY <1>6, <1>7, <1>8, <1>9 DEF IInv

\* The entry of a thread goes into the symbol table with the space it has.
LEMMA InstallInv == ASSUME IInv, NEW t \in Threads, Install(t) PROVE IInv'
<1> DEFINE n == job[t].name
<1>1. pc[t] = "install" /\ symtab' = [symtab EXCEPT ![n] = place[t]]
      /\ pc' = [pc EXCEPT ![t] = IF Doing(t, "define") THEN "iolock" ELSE "seek"]
      /\ UNCHANGED <<addr, pflock, iolock, pos, bytes, saved, mode, disk, job, place>>
  BY DEF Install, At, Goto
<1>2. Typed /\ Thread(t) /\ Tables /\ mode = "open" /\ n \in Names /\ Size[n] \in Nat
      /\ job[t] # NoJob
  BY <1>1, InCall DEF IInv, At
<1>3. Given(t) /\ place[t] \in Nat /\ job[t].op # "read" /\ symtab[n] = Nowhere
      /\ Owner[n] = t
  <2>1. Given(t) /\ place[t] \in Nat
    BY <1>1, <1>2 DEF Thread, At, Given
  <2>2. job[t].op # "read" /\ symtab[n] = Nowhere
    BY <1>1, <1>2 DEF Thread, Call
  <2>3. Owner[n] = t
    BY <1>1, <2>2, InCall DEF At
  <2> QED
    BY <2>1, <2>2, <2>3
<1>4. symtab'[n] = place[t] /\ \A m \in Names \ {n} : symtab'[m] = symtab[m]
  BY <1>1, <1>2 DEF Typed
<1>5. pc'[t] = (IF Doing(t, "define") THEN "iolock" ELSE "seek")
      /\ \A u \in Threads \ {t} : pc'[u] = pc[u]
  BY <1>1, <1>2 DEF Typed
<1>6. Typed'
  BY <1>1, <1>2, <1>3 DEF Typed, PCs, Address
<1>7. Tables'
  <2>1. ASSUME NEW m \in Names, symtab'[m] # Nowhere
        PROVE  /\ symtab'[m] + Size[m] =< addr
               /\ \A k \in Names \ {m} : symtab'[k] # Nowhere => Apart(symtab'[m], m, symtab'[k], k)
    <3>1. CASE m = n
      <4>1. place[t] + Size[n] =< addr
        BY <1>3 DEF Given
      <4>2. \A k \in Names \ {n} : symtab[k] # Nowhere => Apart(place[t], n, symtab[k], k)
        BY <1>3 DEF Given
      <4> QED
        BY <3>1, <4>1, <4>2, <1>4
    <3>2. CASE m # n
      <4>1. symtab'[m] = symtab[m] /\ symtab[m] # Nowhere
        BY <2>1, <3>2, <1>4
      <4>2. symtab[m] + Size[m] =< addr
            /\ \A k \in Names \ {m} : symtab[k] # Nowhere => Apart(symtab[m], m, symtab[k], k)
        BY <4>1, <1>2 DEF Tables, Separate
      <4>3. Apart(place[t], n, symtab[m], m)
        BY <4>1, <1>3 DEF Given
      <4> QED
        BY <3>2, <4>1, <4>2, <4>3, <1>4 DEF Apart
    <3> QED
      BY <3>1, <3>2
  <2>2. Separate(symtab', addr)
    BY <2>1 DEF Separate
  <2> QED
    BY <2>2, <1>1, <1>2 DEF Tables, Separate, Apart
<1>8. Thread(t)'
  BY <1>1, <1>2, <1>3, <1>4, <1>5, Sizes DEF Thread, Call, Locked, Bound, At, Doing
<1>9. ASSUME NEW u \in Threads \ {t} PROVE Thread(u)'
  <2>1. Thread(u) /\ (pc[u] # "idle" => job[u] # NoJob /\ job[u] \in Jobs[u])
    BY InCall DEF IInv, At
  <2>2. CASE pc[u] = "idle"
    BY <2>1, <2>2, <1>1, <1>5, <1>2 DEF Thread, Call, Locked, Bound, At, Doing
  <2>3. CASE pc[u] # "idle"
    <3>1. job[u].name \in Names /\ job[u].op \in {"read", "write", "define"} /\ mode = "open"
          /\ (job[u].op # "read" => Owner[job[u].name] = u) /\ Size[job[u].name] \in Nat
          /\ place[u] \in Address
      BY <2>3, InCall DEF At
    <3>2. symtab'[job[u].name] = symtab[job[u].name]
      <4>1. job[u].name # n
        BY <2>1, <2>3, <3>1, <1>3 DEF Thread, Call, Doing
      <4> QED
        BY <4>1, <3>1, <1>4
    <3>3. Call(u)' /\ Locked(u)' /\ Bound(u)'
      BY <2>1, <3>2, <1>1, <1>5 DEF Thread, Call, Locked, Bound, At, Doing
    <3>4. ASSUME At(u, "install") PROVE Given(u)'
      <4>1. Given(u)
        BY <2>1, <3>4 DEF Thread
      <4>2. Apart(place[u], job[u].name, place[t], n)
        BY <4>1, <1>1 DEF Given, At
      <4>3. \A m \in Names : symtab'[m] # Nowhere => Apart(place[u], job[u].name, symtab'[m], m)
        BY <4>1, <4>2, <1>4 DEF Given
      <4>4. \A v \in Threads \ {u} : At(v, "install")' =>
              Apart(place[u], job[u].name, place[v], job[v].name)
        BY <4>1, <1>5 DEF Given, At
      <4> QED
        BY <4>1, <4>3, <4>4, <1>1 DEF Given, Apart
    <3>5. At(u, "install")' => At(u, "install")
      BY <1>5 DEF At
    <3> QED
      BY <3>3, <3>4, <3>5 DEF Thread
  <2> QED
    BY <2>2, <2>3
<1> QED
  BY <1>6, <1>7, <1>8, <1>9 DEF IInv

\* The calls on the whole file find every thread idle.
LEMMA FileStep ==
  ASSUME IInv, Idle, Typed', Tables', UNCHANGED <<pc, job, pflock, iolock>>
  PROVE  IInv'
<1>1. ASSUME NEW t \in Threads PROVE Thread(t)'
  <2>1. Thread(t) /\ pc[t] = "idle" /\ job[t] = NoJob
    BY DEF IInv, Idle, At, Thread, Call
  <2> QED
    BY <2>1 DEF Thread, Call, Locked, Bound, At, Doing
<1> QED
  BY <1>1 DEF IInv

LEMMA FlushInv == ASSUME IInv, Flush \/ Close PROVE IInv'
<1>1. Idle /\ Flushed /\ UNCHANGED <<pflock, iolock, pos, symtab, threadVars>>
  BY DEF Flush, Close
<1>2. Typed /\ Tables
  BY DEF IInv
<1>3. addr' = addr /\ DOMAIN bytes' = Cells
      /\ saved' \in {saved, [at |-> addr, symtab |-> symtab]}
  <2>1. CASE flushed
    BY <2>1, <1>1, <1>2 DEF Flushed, Typed
  <2>2. CASE ~flushed
    BY <2>2, <1>1 DEF Flushed, Put
  <2> QED
    BY <2>1, <2>2
<1>4. saved' \in [at : Nat, symtab : [Names -> Address]] /\ Separate(saved'.symtab, saved'.at)
  <2>1. CASE saved' = saved
    BY <2>1, <1>2 DEF Typed, Tables
  <2>2. CASE saved' = [at |-> addr, symtab |-> symtab]
    BY <2>2, <1>2 DEF Typed, Tables
  <2> QED
    BY <2>1, <2>2, <1>3
<1>5. Typed'
  BY <1>1, <1>2, <1>3, <1>4 DEF Typed, threadVars
<1>6. Tables'
  <2>1. Separate(symtab', addr')
    BY <1>1, <1>2, <1>3 DEF Tables
  <2> QED
    BY <2>1, <1>1, <1>4 DEF Tables, Idle, At, threadVars, Separate, Apart
<1> QED
  BY <1>1, <1>5, <1>6, FileStep DEF threadVars

LEMMA OpenInv == ASSUME IInv, Open PROVE IInv'
<1>1. mode = "closed" /\ UNCHANGED <<pflock, iolock, pos, bytes, saved, pc, job, place>>
      /\ disk' = [t \in Threads |-> 0]
      /\ \/ symtab' = saved.symtab /\ addr' = saved.at
         \/ UNCHANGED <<symtab, addr>>
  BY DEF Open
<1>2. Typed /\ Tables /\ Idle
  BY <1>1 DEF IInv, Tables
<1>3. saved.symtab \in [Names -> Address] /\ saved.at \in Nat
  BY <1>2 DEF Typed
<1>4. Typed'
  BY <1>1, <1>2, <1>3 DEF Typed
<1>5. Separate(symtab', addr')
  BY <1>1, <1>2 DEF Tables
<1>6. Tables'
  BY <1>1, <1>2, <1>5 DEF Tables, Idle, At, Separate, Apart
<1> QED
  BY <1>1, <1>2, <1>4, <1>6, FileStep

LEMMA StepInv == IInv /\ [Next]_vars => IInv'
<1> SUFFICES ASSUME IInv, [Next]_vars PROVE IInv'
  OBVIOUS
<1>1. ASSUME NEW t \in Threads, Begin(t) \/ Step(t) PROVE IInv'
  BY <1>1, BeginInv, LookupInv, ReadAddrInv, ReserveInv, InstallInv, SeekInv, SeekStreamInv,
     TransferInv, EodInv, ReturnInv DEF Step
<1>2. CASE Flush \/ Close \/ Open
  BY <1>2, FlushInv, OpenInv
<1>3. CASE UNCHANGED vars
  <2>1. Typed'
    BY <1>3 DEF IInv, Typed, vars, fileVars, threadVars
  <2>2. Tables'
    BY <1>3 DEF IInv, Tables, Separate, Apart, Idle, At, vars, fileVars, threadVars
  <2>3. \A t \in Threads : Thread(t)'
    BY <1>3 DEF IInv, Thread, Call, Locked, Bound, Given, Apart, At, Doing, vars, fileVars, threadVars
  <2> QED
    BY <2>1, <2>2, <2>3 DEF IInv
<1> QED
  BY <1>1, <1>2, <1>3 DEF Next

LEMMA Invariance == Spec => []IInv
BY InitInv, StepInv, PTL DEF Spec

-----------------------------------------------------------------------------
(* The theorems.                                                           *)

\* However the threads that write new entries interleave, and however often
\* the file is closed and opened, entries share no byte (_PD_pfm_getspace_t).
THEOREM OwnSpace == Spec => []Disjoint
<1>1. IInv => Disjoint
  <2> SUFFICES ASSUME IInv, NEW m \in Names, symtab[m] # Nowhere
               PROVE  /\ \A p \in Space(m) : p < addr
                      /\ \A n \in Names \ {m} : symtab[n] # Nowhere => Space(m) \cap Space(n) = {}
    BY DEF Disjoint
  <2>1. \A n \in Names : symtab[n] # Nowhere => symtab[n] \in Nat /\ Size[n] \in Nat
    BY Sizes DEF IInv, Typed, Address
  <2>2. addr \in Nat /\ symtab[m] + Size[m] =< addr
        /\ \A n \in Names \ {m} : symtab[n] # Nowhere => Apart(symtab[m], m, symtab[n], n)
    BY DEF IInv, Typed, Tables, Separate
  <2> QED
    BY <2>1, <2>2 DEF Space, Apart
<1> QED
  BY <1>1, Invariance, PTL

\* No two threads move the stream at a time, and the one that does reads or
\* writes at the place of its entry (_PD_pwrite, _PD_pread).
InItsPlace == \A t \in Threads : At(t, "transfer") =>
                /\ \A u \in Threads : At(u, "transfer") => u = t
                /\ ~Doing(t, "define") => pos = symtab[job[t].name]

THEOREM Transfers == Spec => []InItsPlace
<1>1. IInv => InItsPlace
  BY DEF IInv, Thread, Locked, Bound, InItsPlace, At
<1> QED
  BY <1>1, Invariance, PTL

\* A write changes no byte of another entry (_PD_wr_syment).
WritesItsOwn == \A t \in Threads : Write(t) =>
                  \A n \in Names \ {job[t].name} : symtab[n] # Nowhere =>
                    \A p \in Space(n) \cap Cells : bytes'[p] = bytes[p]

LEMMA OwnBytes == IInv => WritesItsOwn
<1> SUFFICES ASSUME IInv, NEW t \in Threads, Write(t),
                    NEW n \in Names \ {job[t].name}, symtab[n] # Nowhere,
                    NEW p \in Space(n) \cap Cells
             PROVE  bytes'[p] = bytes[p]
  BY DEF WritesItsOwn
<1> DEFINE m == job[t].name
<1>1. At(t, "transfer") /\ ~Doing(t, "define") /\ bytes' = Put(Data(m, job[t].val), pos)
  BY DEF Write, Doing
<1>2. m \in Names /\ Thread(t)
  BY <1>1, InCall DEF At
<1>3. pos = symtab[m] /\ pos \in Nat
  BY <1>1, <1>2 DEF Thread, Locked, Bound, At, IInv, Typed
<1>4. Apart(symtab[m], m, symtab[n], n) /\ symtab[n] \in Nat
  <2>1. symtab[m] # Nowhere /\ symtab[n] \in Nat
    BY <1>3, Sizes DEF IInv, Typed, Address
  <2> QED
    BY <2>1, <1>2 DEF IInv, Tables, Separate
<1>5. p - pos \notin DOMAIN Data(m, job[t].val)
  <2>1. DOMAIN Data(m, job[t].val) = 0 .. Size[m] - 1
    BY DEF Data
  <2>2. p \in symtab[n] .. symtab[n] + Size[n] - 1 /\ Size[n] \in Nat /\ Size[m] \in Nat
    BY <1>2, Sizes DEF Space
  <2> HIDE DEF m
  <2> QED
    BY <2>1, <2>2, <1>3, <1>4 DEF Apart
<1> QED
  BY <1>1, <1>5 DEF Put

THEOREM NoOverwrite == Spec => [][WritesItsOwn]_vars
BY OwnBytes, Invariance, PTL

-----------------------------------------------------------------------------
(* How much of the file is given out.                                      *)

\* The entries of a table, and those that have space.
Kept(tab) == {n \in Names : tab[n] # Nowhere}
Placed == Kept(symtab) \cup {job[t].name : t \in {u \in Threads : At(u, "install")}}

\* The end of the data is behind the bytes of the entries, and of nothing else.
Counted == /\ addr = Cardinality(Content(Placed))
           /\ saved.at = Cardinality(Content(Kept(saved.symtab)))

Local == /\ place \in [Threads -> Cells \cup {Nowhere}]
         /\ got \in [Threads -> Values \cup {NoValue}] /\ flushed \in BOOLEAN
         /\ mode \in {"open", "closed", "bad"}

Sized == Counted /\ Local

(* What is true when entries are defined by one thread alone.               *)

\* A definition is under way in a file that is to be flushed, and its thread,
\* which has reserved space, is at the end of the data.
Alone == \A t \in Threads : Doing(t, "define") =>
           /\ ~flushed
           /\ \A u \in Threads \ {t} : job[u] = NoJob
           /\ ~At(t, "seek") /\ (At(t, "lookup") => symtab[job[t].name] = Nowhere)
           /\ pc[t] \in {"install", "iolock", "transfer"} => disk[t] = addr

\* A write that has the place of its entry has cleared the flag.
Cleared == \A t \in Threads :
             Doing(t, "write") /\ pc[t] \in {"iolock", "transfer", "eod", "return"} => ~flushed

\* While the flag is set the tables in the file are those of the program, but
\* for entries whose write is about to clear it.
TablesCurrent ==
  flushed => /\ Readable
             /\ \A n \in Names : saved.symtab[n] # symtab[n] =>
                  LET t == Owner[n]
                  IN  At(t, "seek") /\ Doing(t, "write") /\ job[t].name = n

\* No bytes of an entry are in the file before it has its place there.
Unwritten == \A n \in Names : symtab[n] = Nowhere =>
               \A p \in Cells, v \in Values : bytes[p] # <<n, v, 0>>

Sound == /\ Alone /\ Cleared /\ TablesCurrent /\ Unwritten
         /\ mode # "bad" /\ (mode = "closed" => flushed)

\* Whatever entries there are, the tables fit behind them.
LEMMA Room ==
  ASSUME NEW S \in SUBSET Names
  PROVE  /\ IsFiniteSet(Content(S)) /\ Cardinality(Content(S)) \in Nat
         /\ Cardinality(Content(S)) + TableSize =< End
<1>1. Content(S) \in SUBSET Content(Names)
  BY DEF Content
<1>2. /\ IsFiniteSet(Content(S)) /\ Cardinality(Content(S)) =< Cardinality(Content(Names))
      /\ Cardinality(Content(Names)) \in Nat
  BY <1>1, BoundAssumption, FS_Subset, FS_CardinalityType
<1>3. Cardinality(Content(S)) \in Nat
  BY <1>2, FS_CardinalityType
<1> QED
  BY <1>2, <1>3, FileAssumption, BoundAssumption

\* An entry more takes its size.
LEMMA OneMore ==
  ASSUME NEW S \in SUBSET Names, NEW n \in Names \ S
  PROVE  Cardinality(Content(S \cup {n})) = Cardinality(Content(S)) + Size[n]
<1> DEFINE B == {n} \X (0 .. Size[n] - 1)
<1>1. IsFiniteSet(B) /\ Cardinality(B) = Size[n]
  <2>1. Size[n] \in Nat /\ Size[n] >= 1
    BY Sizes
  <2>2. IsFiniteSet(0 .. Size[n] - 1) /\ Cardinality(0 .. Size[n] - 1) = Size[n]
    BY <2>1, FS_Interval
  <2>3. IsFiniteSet({n}) /\ Cardinality({n}) = 1
    BY FS_Singleton
  <2>4. IsFiniteSet(B) /\ Cardinality(B) = Cardinality({n}) * Cardinality(0 .. Size[n] - 1)
    BY <2>2, <2>3, FS_Product
  <2> QED
    BY <2>1, <2>2, <2>3, <2>4
<1>2. Content(S \cup {n}) = Content(S) \cup B
  BY DEF Content
<1>3. Content(S) \cap B = {}
  BY DEF Content
<1>4. IsFiniteSet(Content(S)) /\ Cardinality(Content(S)) \in Nat
  BY Room
<1>5. Cardinality(Content(S) \cup B) = Cardinality(Content(S)) + Cardinality(B) - Cardinality({})
  BY <1>1, <1>3, <1>4, FS_Union
<1>6. Cardinality({}) = 0
  BY FS_EmptySet
<1>7. PICK c \in Nat : c = Cardinality(Content(S))
  BY <1>4
<1>8. Size[n] \in Nat
  BY Sizes
<1> HIDE DEF B
<1>9. Cardinality(Content(S) \cup B) = c + Size[n] - 0
  BY <1>1, <1>5, <1>6, <1>7
<1>10. c + Size[n] - 0 = c + Size[n]
  BY <1>8
<1> QED
  BY <1>2, <1>7, <1>9, <1>10, Zenon

\* The space given out fits, and so does what is given next.
LEMMA Fits ==
  ASSUME IInv, Sized
  PROVE  /\ addr \in Nat /\ addr + TableSize =< End
         /\ saved.at \in Nat /\ saved.at + TableSize =< End
         /\ Placed \in SUBSET Names
<1>1. Placed \in SUBSET Names
  <2>1. \A t \in Threads : At(t, "install") => job[t].name \in Names
    BY InCall DEF At
  <2> QED
    BY <2>1 DEF Placed, Kept
<1>2. Kept(saved.symtab) \in SUBSET Names
  BY DEF Kept
<1> QED
  BY <1>1, <1>2, Room DEF Sized, Counted

\* Install, lookups and transfers leave the count as it is.
LEMMA SameCount ==
  ASSUME Sized, UNCHANGED <<addr, saved>>, Placed' = Placed
  PROVE  Counted'
BY DEF Sized, Counted

LEMMA SamePlaced ==
  ASSUME IInv, NEW t \in Threads, UNCHANGED symtab,
         pc[t] # "install", pc'[t] # "install",
         \A u \in Threads \ {t} : pc'[u] = pc[u] /\ job'[u] = job[u]
  PROVE  Placed' = Placed
BY DEF Placed, At

LEMMA ReserveCount == ASSUME IInv, Sized, NEW t \in Threads, Reserve(t) PROVE Counted'
<1> DEFINE n == job[t].name
<1>1. pc[t] = "reserve" /\ addr' = addr + Size[n] /\ pc' = [pc EXCEPT ![t] = "install"]
      /\ UNCHANGED <<symtab, saved, job>>
  BY DEF Reserve, At, Goto
<1>2. n \in Names /\ Owner[n] = t /\ symtab[n] = Nowhere /\ pc \in [Threads -> PCs]
  <2>1. Thread(t)
    BY DEF IInv
  <2> QED
    BY <2>1, <1>1, InCall DEF Thread, Call, At, IInv, Typed
<1>3. pc'[t] = "install" /\ \A u \in Threads \ {t} : pc'[u] = pc[u]
  BY <1>1, <1>2
<1>4. n \notin Placed
  <2>1. ASSUME NEW u \in Threads, At(u, "install") PROVE job[u].name # n
    <3>1. Thread(u) /\ Owner[job[u].name] = u /\ u # t
      BY <2>1, <1>1, InCall DEF At, Thread, Call
    <3> QED
      BY <3>1, <1>2
  <2> QED
    BY <2>1, <1>2 DEF Placed, Kept
<1>5. Placed' = Placed \cup {n}
  BY <1>1, <1>3 DEF Placed, At
<1>6. Placed \in SUBSET Names
  BY Fits
<1>7. Cardinality(Content(Placed \cup {n})) = Cardinality(Content(Placed)) + Size[n]
  BY <1>2, <1>4, <1>6, OneMore
<1> QED
  BY <1>1, <1>5, <1>7 DEF Sized, Counted

LEMMA InstallCount == ASSUME IInv, Sized, NEW t \in Threads, Install(t) PROVE Counted'
<1> DEFINE n == job[t].name
<1>1. pc[t] = "install" /\ symtab' = [symtab EXCEPT ![n] = place[t]]
      /\ pc' = [pc EXCEPT ![t] = IF Doing(t, "define") THEN "iolock" ELSE "seek"]
      /\ UNCHANGED <<addr, saved, job>>
  BY DEF Install, At, Goto
<1>2. n \in Names /\ place[t] # Nowhere /\ pc \in [Threads -> PCs] /\ symtab \in [Names -> Address]
  <2>1. Thread(t)
    BY DEF IInv
  <2>2. place[t] \in Nat
    BY <2>1, <1>1 DEF Thread, At, Given
  <2> QED
    BY <2>2, <1>1, InCall, Sizes DEF At, IInv, Typed
<1>3. pc'[t] # "install" /\ \A u \in Threads \ {t} : pc'[u] = pc[u]
  BY <1>1, <1>2
<1>4. Kept(symtab') = Kept(symtab) \cup {n}
  BY <1>1, <1>2 DEF Kept
<1>5. Placed' = Placed
  BY <1>1, <1>3, <1>4 DEF Placed, At
<1> QED
  BY <1>1, <1>5, SameCount

LEMMA FlushCount == ASSUME IInv, Sized, Flush \/ Close PROVE Counted'
<1>1. Idle /\ Flushed /\ UNCHANGED <<symtab, pc, job>>
  BY DEF Flush, Close, threadVars
<1>2. Placed' = Placed /\ Placed = Kept(symtab)
  BY <1>1 DEF Placed, Idle, At
<1>3. addr' = addr /\ (saved' = saved \/ (saved'.at = addr /\ saved'.symtab = symtab))
  BY <1>1 DEF Flushed
<1> QED
  BY <1>2, <1>3 DEF Sized, Counted

LEMMA OpenCount == ASSUME IInv, Sized, Open PROVE Counted'
<1>1. Idle /\ UNCHANGED <<saved, pc, job>>
      /\ \/ symtab' = saved.symtab /\ addr' = saved.at
         \/ UNCHANGED <<symtab, addr>>
  BY DEF Open, IInv, Tables
<1>2. Placed' = Kept(symtab') /\ Placed = Kept(symtab)
  BY <1>1 DEF Placed, Idle, At, Kept
<1> QED
  BY <1>1, <1>2 DEF Sized, Counted, Kept

\* A thread that is not at "install", before or after its step.
LEMMA OtherCount ==
  ASSUME IInv, Sized, NEW t \in Threads, Begin(t) \/ Lookup(t) \/ ReadAddr(t) \/ Seek(t)
           \/ SeekStream(t) \/ Write(t) \/ Extend(t) \/ Read(t) \/ Eod(t) \/ Return(t)
  PROVE  Counted'
<1>1. PICK l \in PCs : pc[t] # "install" /\ l # "install" /\ pc' = [pc EXCEPT ![t] = l]
        /\ UNCHANGED <<symtab, addr, saved>>
  BY DEF Begin, Lookup, ReadAddr, Seek, SeekStream, Write, Extend, Read, Eod, Return,
         At, Goto, PCs, fileVars
<1>2. PICK j : job' = [job EXCEPT ![t] = j]
  BY DEF Begin, Lookup, ReadAddr, Seek, SeekStream, Write, Extend, Read, Eod, Return,
         IInv, Typed
<1>3. pc'[t] # "install" /\ \A u \in Threads \ {t} : pc'[u] = pc[u] /\ job'[u] = job[u]
  BY <1>1, <1>2 DEF IInv, Typed
<1> QED
  BY <1>1, <1>3, SamePlaced, SameCount

LEMMA InCells ==
  ASSUME IInv, Sized
  PROVE  addr \in Cells /\ \A n \in Names : symtab[n] \in Cells \cup {Nowhere}
<1>1. addr \in Nat /\ addr + TableSize =< End /\ TableSize >= 1 /\ TableSize \in Nat /\ End \in Nat
  BY Fits, FileAssumption
<1>2. addr \in Cells
  BY <1>1 DEF Cells
<1>3. ASSUME NEW n \in Names, symtab[n] # Nowhere PROVE symtab[n] \in Cells
  <2>1. symtab[n] \in Nat /\ symtab[n] + Size[n] =< addr /\ Size[n] \in Nat /\ Size[n] >= 1
    BY <1>3, Sizes DEF IInv, Typed, Address, Tables, Separate
  <2> QED
    BY <2>1, <1>1 DEF Cells
<1> QED
  BY <1>2, <1>3

LEMMA LocalStep == IInv /\ Sized /\ [Next]_vars => Local'
<1> SUFFICES ASSUME IInv, Sized, [Next]_vars PROVE Local'
  OBVIOUS
<1>1. Local /\ addr \in Cells /\ \A n \in Names : symtab[n] \in Cells \cup {Nowhere}
  BY InCells DEF Sized
<1>2. ASSUME NEW t \in Threads, Begin(t) \/ Step(t) PROVE Local'
  <2>1. flushed' \in BOOLEAN /\ mode' = mode
    BY <1>1, <1>2 DEF Local, Step, Begin, Lookup, ReadAddr, Reserve, Install, Seek, SeekStream,
       Write, Extend, Read, Eod, Return, fileVars
  <2>2. place' \in [Threads -> Cells \cup {Nowhere}]
    <3>1. CASE Lookup(t)
      <4>1. job[t].name \in Names
        BY <3>1, InCall DEF Lookup, At
      <4> QED
        BY <3>1, <4>1, <1>1 DEF Lookup, Local
    <3>2. CASE ~Lookup(t)
      BY <3>2, <1>1, <1>2 DEF Local, Step, Begin, ReadAddr, Reserve, Install, Seek, SeekStream,
         Write, Extend, Read, Eod, Return
    <3> QED
      BY <3>1, <3>2
  <2>3. got' \in [Threads -> Values \cup {NoValue}]
    <3>1. ValueAt(bytes, job[t].name, pos) \in Values \cup {NoValue}
      BY DEF ValueAt
    <3> QED
      BY <3>1, <1>1, <1>2 DEF Local, Step, Begin, Lookup, ReadAddr, Reserve, Install, Seek,
         SeekStream, Write, Extend, Read, Eod, Return
  <2> QED
    BY <2>1, <2>2, <2>3, <1>1 DEF Local
<1>3. CASE Flush \/ Close \/ Open
  BY <1>1, <1>3 DEF Local, Flush, Close, Open, Flushed, threadVars
<1>4. CASE UNCHANGED vars
  BY <1>1, <1>4 DEF Local, vars, fileVars, threadVars
<1> QED
  BY <1>2, <1>3, <1>4 DEF Next

LEMMA InitSized == Init => Sized
<1> SUFFICES ASSUME Init PROVE Sized
  OBVIOUS
<1>1. Placed = {} /\ Kept(saved.symtab) = {}
  BY DEF Init, Placed, Kept, At
<1>2. Content({}) = {} /\ Cardinality({}) = 0
  BY FS_EmptySet DEF Content
<1>3. Counted
  BY <1>1, <1>2 DEF Init, Counted
<1>4. Local
  BY DEF Init, Local
<1> QED
  BY <1>3, <1>4 DEF Sized

LEMMA StepSized == IInv /\ Sized /\ [Next]_vars => Sized'
<1> SUFFICES ASSUME IInv, Sized, [Next]_vars PROVE Counted'
  BY LocalStep DEF Sized
<1>1. ASSUME NEW t \in Threads, Begin(t) \/ Step(t) PROVE Counted'
  BY <1>1, ReserveCount, InstallCount, OtherCount DEF Step
<1>2. CASE Flush \/ Close \/ Open
  BY <1>2, FlushCount, OpenCount
<1>3. CASE UNCHANGED vars
  BY <1>3 DEF Sized, Counted, Placed, Kept, At, vars, fileVars, threadVars
<1> QED
  BY <1>1, <1>2, <1>3 DEF Next

\* The file holds its entries and its tables and grows no further, and no
\* thread has a place outside it (_PD_pfm_getspace_t, _PD_pfm_flush_file_t).
THEOREM TypeCorrect == Spec => []TypeOK
<1>1. IInv /\ Sized => TypeOK
  <2> SUFFICES ASSUME IInv, Sized PROVE TypeOK
    OBVIOUS
  <2>1. addr \in 0 .. End - TableSize
    BY Fits, FileAssumption
  <2>2. symtab \in [Names -> Cells \cup {Nowhere}]
    BY InCells DEF IInv, Typed
  <2> QED
    BY <2>1, <2>2 DEF TypeOK, IInv, Typed, Sized, Local
<1>2. Spec => [](IInv /\ Sized)
  BY InitInv, StepInv, InitSized, StepSized, PTL DEF Spec
<1> QED
  BY <1>1, <1>2, PTL

-----------------------------------------------------------------------------
(* The value of an entry.                                                  *)

LEMMA DataBytes ==
  ASSUME NEW n \in Names, NEW v
  PROVE  /\ DOMAIN Data(n, v) = 0 .. Size[n] - 1 /\ 0 \in DOMAIN Data(n, v)
         /\ \A k \in DOMAIN Data(n, v) : Data(n, v)[k] = <<n, v, k>>
BY Sizes DEF Data

\* It is the same as long as its bytes are.
LEMMA SameValue ==
  ASSUME NEW b, NEW c, NEW n \in Names, NEW a, \A k \in 0 .. Size[n] - 1 : c[a + k] = b[a + k]
  PROVE  ValueAt(c, n, a) = ValueAt(b, n, a)
<1>1. \A v \in Values : \A k \in DOMAIN Data(n, v) :
        (a + k \in Cells /\ c[a + k] = Data(n, v)[k])
          <=> (a + k \in Cells /\ b[a + k] = Data(n, v)[k])
  BY DataBytes
<1> DEFINE Of(d) == {v \in Values : \A k \in DOMAIN Data(n, v) :
                                      a + k \in Cells /\ d[a + k] = Data(n, v)[k]}
<1>2. Of(c) = Of(b)
  BY <1>1
<1>3. \A d : ValueAt(d, n, a) = IF Of(d) = {} THEN NoValue ELSE CHOOSE v \in Of(d) : TRUE
  BY Zenon DEF ValueAt
<1> HIDE DEF Of
<1> QED
  BY <1>2, <1>3

\* It is what has been written.
LEMMA WrittenValue ==
  ASSUME NEW n \in Names, NEW a \in Nat, NEW v \in Values, a + Size[n] =< End
  PROVE  ValueAt(Put(Data(n, v), a), n, a) = v
<1> DEFINE b == Put(Data(n, v), a)
<1>1. ASSUME NEW k \in 0 .. Size[n] - 1
      PROVE  a + k \in Cells /\ b[a + k] = <<n, v, k>>
  <2>1. a + k \in Cells /\ (a + k) - a = k
    BY Sizes, FileAssumption DEF Cells
  <2>2. k \in DOMAIN Data(n, v) /\ Data(n, v)[k] = <<n, v, k>>
    BY DataBytes
  <2> QED
    BY <2>1, <2>2 DEF Put
<1> HIDE DEF b
<1>2. ASSUME NEW w \in Values
      PROVE  (\A k \in DOMAIN Data(n, w) : a + k \in Cells /\ b[a + k] = Data(n, w)[k]) <=> w = v
  <2>1. DOMAIN Data(n, w) = 0 .. Size[n] - 1 /\ 0 \in 0 .. Size[n] - 1
        /\ \A k \in 0 .. Size[n] - 1 : Data(n, w)[k] = <<n, w, k>>
    BY DataBytes
  <2>2. <<n, w, 0>> = <<n, v, 0>> => w = v
    OBVIOUS
  <2> QED
    BY <1>1, <2>1, <2>2
<1>3. {w \in Values : \A k \in DOMAIN Data(n, w) :
                        a + k \in Cells /\ b[a + k] = Data(n, w)[k]} = {v}
  BY <1>2
<1>4. ValueAt(b, n, a) = v
  BY <1>3 DEF ValueAt
<1> QED
  BY <1>4 DEF b

\* It is none where the entry was never written.
LEMMA UnwrittenValue ==
  ASSUME NEW n \in Names, NEW a \in Nat, \A p \in Cells, v \in Values : bytes[p] # <<n, v, 0>>
  PROVE  ValueAt(bytes, n, a) = NoValue
<1>1. ASSUME NEW v \in Values
      PROVE  ~\A k \in DOMAIN Data(n, v) : a + k \in Cells /\ bytes[a + k] = Data(n, v)[k]
  BY DataBytes
<1>2. {v \in Values : \A k \in DOMAIN Data(n, v) :
                        a + k \in Cells /\ bytes[a + k] = Data(n, v)[k]} = {}
  BY <1>1
<1> QED
  BY <1>2 DEF ValueAt

-----------------------------------------------------------------------------
(* Entries defined by one thread alone: the steps.                         *)

LEMMA InitSound == Init => Sound
<1> SUFFICES ASSUME Init PROVE Sound
  OBVIOUS
<1>1. \A t \in Threads : \A op : ~Doing(t, op)
  BY DEF Init, Doing
<1>2. Unwritten
  <2>1. \A n : \A v : <<"none">> # <<n, v, 0>>
    OBVIOUS
  <2> QED
    BY <2>1 DEF Init, Unwritten
<1> QED
  BY <1>1, <1>2 DEF Init, Sound, Alone, Cleared, TablesCurrent

\* What is to be shown of a step of a thread in its call that leaves the space
\* of the file as it is.
LEMMA SoundStep ==
  ASSUME IInv, Sound, NEW t \in Threads, ~At(t, "idle"),
         UNCHANGED <<addr, symtab, saved, mode, job>>,
         \A u \in Threads \ {t} : pc'[u] = pc[u] /\ disk'[u] = disk[u],
         flushed' => flushed /\ bytes' = bytes,
         Unwritten',
         Doing(t, "define") => /\ pc'[t] \notin {"seek", "lookup"}
                               /\ pc'[t] \in {"install", "iolock", "transfer"} => disk'[t] = addr,
         Doing(t, "write") /\ pc'[t] \in {"iolock", "transfer", "eod", "return"} => ~flushed',
         At(t, "seek") /\ Doing(t, "write") => ~flushed'
  PROVE  Sound'
<1>1. job[t] # NoJob /\ mode = "open"
  BY InCall
<1>2. Alone'
  <2>1. ASSUME NEW u \in Threads \ {t} PROVE ~Doing(u, "define")
    BY <1>1 DEF Sound, Alone
  <2> QED
    BY <2>1 DEF Sound, Alone, Doing, At
<1>3. Cleared'
  BY DEF Sound, Cleared, Doing
<1>4. TablesCurrent'
  <2> SUFFICES ASSUME flushed' PROVE TablesCurrent'
    BY DEF TablesCurrent
  <2>1. Readable'
    BY DEF Sound, TablesCurrent, Readable
  <2>2. ASSUME NEW n \in Names, saved.symtab[n] # symtab[n]
        PROVE  LET u == Owner[n] IN At(u, "seek")' /\ Doing(u, "write") /\ job[u].name = n
    <3>1. At(Owner[n], "seek") /\ Doing(Owner[n], "write") /\ job[Owner[n]].name = n
      BY <2>2 DEF Sound, TablesCurrent
    <3>2. Owner[n] \in Threads \ {t}
      BY <3>1, FileAssumption
    <3> QED
      BY <3>1, <3>2 DEF At
  <2> QED
    BY <2>1, <2>2 DEF TablesCurrent, Doing, At
<1> QED
  BY <1>1, <1>2, <1>3, <1>4 DEF Sound

LEMMA BeginSound == ASSUME SafeDefine, IInv, Sound, NEW t \in Threads, Begin(t) PROVE Sound'
<1>1. PICK j \in Jobs[t] : Allowed(t, j) /\ job' = [job EXCEPT ![t] = j]
  BY DEF Begin
<1>2. /\ mode = "open" /\ pc[t] = "idle" /\ pc' = [pc EXCEPT ![t] = "lookup"]
      /\ ~\E u \in Threads : Doing(u, "define")
      /\ UNCHANGED <<fileVars, disk>>
  BY DEF Begin, At, Goto
<1>3. pc'[t] = "lookup" /\ job'[t] = j /\ job[t] = NoJob
      /\ \A u \in Threads \ {t} : pc'[u] = pc[u] /\ job'[u] = job[u]
  BY <1>1, <1>2 DEF IInv, Typed, Thread, Call, At
<1>4. Alone'
  <2>1. ASSUME NEW u \in Threads, Doing(u, "define")' PROVE u = t /\ j.op = "define"
    BY <2>1, <1>2, <1>3 DEF Doing
  <2>2. j.op = "define" =>
          symtab[j.name] = Nowhere /\ ~flushed /\ \A u \in Threads : job[u] = NoJob
    BY <1>1 DEF Allowed, Idle, IInv, Thread, Call
  <2> QED
    BY <2>1, <2>2, <1>2, <1>3 DEF Alone, At, fileVars
<1>5. Cleared'
  BY <1>2, <1>3 DEF Sound, Cleared, Doing, fileVars
<1>6. TablesCurrent'
  <2>1. \A n \in Names : Owner[n] \in Threads
    BY FileAssumption
  <2> QED
    BY <2>1, <1>2, <1>3 DEF Sound, TablesCurrent, Readable, Doing, At, fileVars
<1> QED
  BY <1>2, <1>4, <1>5, <1>6 DEF Sound, Unwritten, fileVars

\* Lookup, ReadAddr, Seek, SeekStream, Read and Eod.
LEMMA QuietSound ==
  ASSUME SafeDefine, IInv, Sound, NEW t \in Threads,
         Lookup(t) \/ ReadAddr(t) \/ Seek(t) \/ SeekStream(t) \/ Read(t) \/ Eod(t)
  PROVE  Sound'
<1>1. /\ ~At(t, "idle") /\ UNCHANGED <<addr, symtab, saved, mode, job, bytes>>
      /\ (flushed' => flushed)
  <2>1. ~At(t, "idle") /\ UNCHANGED <<addr, symtab, saved, mode, job, bytes>>
    BY DEF Lookup, ReadAddr, Seek, SeekStream, Read, Eod, At, fileVars
  <2>2. CASE Seek(t)
    BY <2>1, <2>2 DEF Seek
  <2>3. CASE ~Seek(t)
    <3>1. UNCHANGED flushed
      BY <2>3 DEF Lookup, ReadAddr, SeekStream, Read, Eod, fileVars
    <3> QED
      BY <2>1, <3>1
  <2> QED
    BY <2>2, <2>3
<1>2. pc \in [Threads -> PCs] /\ disk \in [Threads -> Nat] /\ job[t] # NoJob /\ place[t] \in Address
  BY <1>1, InCall DEF IInv, Typed
<1>3. \A u \in Threads \ {t} : pc'[u] = pc[u] /\ disk'[u] = disk[u]
  BY <1>2 DEF Lookup, ReadAddr, Seek, SeekStream, Read, Eod, At, Goto, Moved, fileVars
<1>4. Unwritten'
  BY <1>1 DEF Sound, Unwritten
<1>5. Doing(t, "define") => /\ pc'[t] \notin {"seek", "lookup"}
                            /\ pc'[t] \in {"install", "iolock", "transfer"} => disk'[t] = addr
  <2> SUFFICES ASSUME Doing(t, "define")
               PROVE  /\ pc'[t] \notin {"seek", "lookup"}
                      /\ pc'[t] \in {"install", "iolock", "transfer"} => disk'[t] = addr
    OBVIOUS
  <2>1. /\ ~At(t, "seek") /\ (At(t, "lookup") => symtab[job[t].name] = Nowhere)
        /\ (pc[t] \in {"install", "iolock", "transfer"} => disk[t] = addr)
    BY DEF Sound, Alone
  <2>2. ~Read(t)
    BY DEF Read, Doing
  <2> QED
    BY <2>1, <2>2, <1>2 DEF Lookup, ReadAddr, Seek, SeekStream, Eod, At, Goto
<1>6. Doing(t, "write") /\ pc'[t] \in {"iolock", "transfer", "eod", "return"} => ~flushed'
  <2> SUFFICES ASSUME Doing(t, "write"), pc'[t] \in {"iolock", "transfer", "eod", "return"}
               PROVE  ~flushed'
    OBVIOUS
  <2>1. CASE Seek(t)
    BY <2>1 DEF Seek
  <2>2. CASE ~Seek(t)
    <3>1. pc[t] \in {"iolock", "transfer", "eod", "return"}
      BY <2>2, <1>2 DEF Lookup, ReadAddr, SeekStream, Read, Eod, At, Goto
    <3> QED
      BY <3>1, <1>1 DEF Sound, Cleared
  <2> QED
    BY <2>1, <2>2
<1>7. At(t, "seek") /\ Doing(t, "write") => ~flushed'
  BY DEF Lookup, ReadAddr, Seek, SeekStream, Read, Eod, At
<1> QED
  BY <1>1, <1>3, <1>4, <1>5, <1>6, <1>7, SoundStep

\* The bytes of a write are those of an entry that has its place.
LEMMA WriteSound == ASSUME SafeDefine, IInv, Sound, NEW t \in Threads, Write(t) PROVE Sound'
<1> DEFINE n == job[t].name
<1>1. /\ pc[t] = "transfer" /\ Doing(t, "write") /\ bytes' = Put(Data(n, job[t].val), pos)
      /\ pc' = [pc EXCEPT ![t] = "eod"] /\ disk' = [disk EXCEPT ![t] = @ + Size[n]]
      /\ UNCHANGED <<addr, symtab, flushed, saved, mode, job>>
  BY DEF Write, Moved, At, Goto
<1>2. /\ pc \in [Threads -> PCs] /\ disk \in [Threads -> Nat] /\ n \in Names /\ Thread(t)
      /\ job[t].op = "write" /\ job[t] # NoJob
  BY <1>1, InCall DEF IInv, Typed, At, Doing
<1>3. symtab[n] \in Nat
  BY <1>1, <1>2 DEF Thread, Bound, Doing
<1>4. ~flushed
  BY <1>1 DEF Sound, Cleared
<1>5. Unwritten'
  <2> SUFFICES ASSUME NEW m \in Names, symtab[m] = Nowhere, NEW p \in Cells, NEW v \in Values
               PROVE  bytes'[p] # <<m, v, 0>>
    BY <1>1 DEF Unwritten
  <2>1. m # n
    BY <1>3, Sizes
  <2>2. bytes[p] # <<m, v, 0>>
    BY DEF Sound, Unwritten
  <2>3. \A k \in DOMAIN Data(n, job[t].val) : Data(n, job[t].val)[k] # <<m, v, 0>>
    BY <2>1, <1>2, DataBytes
  <2> QED
    BY <2>2, <2>3, <1>1 DEF Put
<1> QED
  BY <1>1, <1>2, <1>4, <1>5, SoundStep DEF At, Doing

LEMMA ExtendSound == ASSUME SafeDefine, IInv, Sound, NEW t \in Threads, Extend(t) PROVE Sound'
<1>1. /\ pc[t] = "transfer" /\ Doing(t, "define") /\ bytes' = Put(Blank, pos)
      /\ pc' = [pc EXCEPT ![t] = "return"] /\ disk' = [disk EXCEPT ![t] = @ + 1]
      /\ UNCHANGED <<addr, symtab, flushed, saved, mode, job>>
  BY DEF Extend, Moved, At, Goto
<1>2. pc \in [Threads -> PCs] /\ disk \in [Threads -> Nat]
  BY DEF IInv, Typed
<1>3. ~flushed
  BY <1>1 DEF Sound, Alone
<1>4. Unwritten'
  <2> SUFFICES ASSUME NEW m \in Names, symtab[m] = Nowhere, NEW p \in Cells, NEW v \in Values
               PROVE  bytes'[p] # <<m, v, 0>>
    BY <1>1 DEF Unwritten
  <2>1. bytes[p] # <<m, v, 0>> /\ <<"blank">> # <<m, v, 0>>
    BY DEF Sound, Unwritten
  <2> QED
    BY <2>1, <1>1 DEF Put, Blank
<1> QED
  BY <1>1, <1>2, <1>3, <1>4, SoundStep DEF At, Doing

\* Steps that give space to a thread or take its call away touch no definition
\* of another.
LEMMA OnlyDefiner ==
  ASSUME Alone, NEW t \in Threads, job[t] # NoJob, NEW u \in Threads \ {t}
  PROVE  ~Doing(u, "define")
BY DEF Alone, Doing

LEMMA ReserveSound == ASSUME SafeDefine, IInv, Sound, NEW t \in Threads, Reserve(t) PROVE Sound'
<1> DEFINE n == job[t].name
<1>1. /\ pc[t] = "reserve" /\ addr' = addr + Size[n] /\ pc' = [pc EXCEPT ![t] = "install"]
      /\ UNCHANGED <<symtab, flushed, bytes, saved, mode, job>>
      /\ disk' = [disk EXCEPT ![t] = IF Doing(t, "define") THEN place[t] + Size[n] ELSE place[t]]
  BY DEF Reserve, At, Goto
<1>2. /\ pc \in [Threads -> PCs] /\ disk \in [Threads -> Nat] /\ job[t] # NoJob /\ place[t] = addr
  <2>1. Thread(t)
    BY DEF IInv
  <2> QED
    BY <2>1, <1>1, InCall DEF IInv, Typed, At, Thread, Locked
<1>3. pc'[t] = "install" /\ \A u \in Threads \ {t} : pc'[u] = pc[u]
  BY <1>1, <1>2
<1>4. Doing(t, "define") => disk'[t] = addr'
  BY <1>1, <1>2
<1>5. Alone'
  <2>1. \A u \in Threads \ {t} : ~Doing(u, "define")
    BY <1>2, OnlyDefiner DEF Sound
  <2> QED
    BY <2>1, <1>1, <1>3, <1>4 DEF Sound, Alone, Doing, At
<1>6. Cleared'
  BY <1>1, <1>3 DEF Sound, Cleared, Doing
<1>7. TablesCurrent'
  BY <1>1, <1>3, FileAssumption DEF Sound, TablesCurrent, Readable, Doing, At
<1> QED
  BY <1>1, <1>5, <1>6, <1>7 DEF Sound, Unwritten

\* The entry is in the symbol table and not in the tables of the file, until
\* its thread clears the flag.
LEMMA InstallSound == ASSUME SafeDefine, IInv, Sound, NEW t \in Threads, Install(t) PROVE Sound'
<1> DEFINE n == job[t].name
<1>1. /\ pc[t] = "install" /\ symtab' = [symtab EXCEPT ![n] = place[t]]
      /\ pc' = [pc EXCEPT ![t] = IF Doing(t, "define") THEN "iolock" ELSE "seek"]
      /\ UNCHANGED <<addr, flushed, bytes, saved, mode, disk, job>>
  BY DEF Install, At, Goto
<1>2. /\ pc \in [Threads -> PCs] /\ symtab \in [Names -> Address] /\ n \in Names /\ job[t] # NoJob
      /\ Owner[n] = t /\ place[t] # Nowhere /\ (Doing(t, "define") \/ Doing(t, "write"))
  <2>1. Thread(t)
    BY DEF IInv
  <2>2. place[t] \in Nat /\ job[t].op # "read"
    BY <2>1, <1>1 DEF Thread, At, Given, Call
  <2> QED
    BY <2>2, <1>1, InCall, Sizes DEF IInv, Typed, At, Doing
<1>3. /\ pc'[t] = (IF Doing(t, "define") THEN "iolock" ELSE "seek")
      /\ \A u \in Threads \ {t} : pc'[u] = pc[u]
      /\ \A m \in Names \ {n} : symtab'[m] = symtab[m]
      /\ symtab'[n] # Nowhere
  BY <1>1, <1>2
<1>4. Alone'
  <2>1. \A u \in Threads \ {t} : ~Doing(u, "define")
    BY <1>2, OnlyDefiner DEF Sound
  <2> QED
    BY <2>1, <1>1, <1>3 DEF Sound, Alone, Doing, At
<1>5. Cleared'
  BY <1>1, <1>3 DEF Sound, Cleared, Doing
<1>6. TablesCurrent'
  <2> SUFFICES ASSUME flushed PROVE TablesCurrent'
    BY <1>1 DEF TablesCurrent
  <2>1. ~Doing(t, "define")
    BY DEF Sound, Alone
  <2>2. Readable'
    BY <1>1 DEF Sound, TablesCurrent, Readable
  <2>3. ASSUME NEW m \in Names, saved.symtab[m] # symtab'[m]
        PROVE  pc'[Owner[m]] = "seek" /\ Doing(Owner[m], "write") /\ job[Owner[m]].name = m
    <3>1. CASE m = n
      BY <3>1, <2>1, <1>2, <1>3
    <3>2. CASE m # n
      <4>1. pc[Owner[m]] = "seek" /\ Doing(Owner[m], "write") /\ job[Owner[m]].name = m
        BY <2>3, <3>2, <1>3 DEF Sound, TablesCurrent, At
      <4> QED
        BY <4>1, <1>1, <1>3, FileAssumption
    <3> QED
      BY <3>1, <3>2
  <2> QED
    BY <2>2, <2>3, <1>1 DEF TablesCurrent, At, Doing
<1>7. Unwritten'
  BY <1>1, <1>3 DEF Sound, Unwritten
<1> QED
  BY <1>1, <1>4, <1>5, <1>6, <1>7 DEF Sound

LEMMA ReturnSound == ASSUME SafeDefine, IInv, Sound, NEW t \in Threads, Return(t) PROVE Sound'
<1>1. /\ pc[t] = "return" /\ pc' = [pc EXCEPT ![t] = "idle"] /\ job' = [job EXCEPT ![t] = NoJob]
      /\ UNCHANGED <<fileVars, disk>>
  BY DEF Return, At, Goto
<1>2. /\ pc'[t] = "idle" /\ job'[t] = NoJob
      /\ \A u \in Threads \ {t} : pc'[u] = pc[u] /\ job'[u] = job[u]
  BY <1>1 DEF IInv, Typed
<1>3. Alone'
  <2>1. ASSUME NEW u \in Threads, Doing(u, "define")' PROVE u # t /\ Doing(u, "define")
    BY <2>1, <1>2 DEF Doing
  <2> QED
    BY <2>1, <1>1, <1>2 DEF Sound, Alone, At, fileVars
<1>4. Cleared'
  BY <1>1, <1>2 DEF Sound, Cleared, Doing, fileVars
<1>5. TablesCurrent'
  BY <1>1, <1>2, FileAssumption DEF Sound, TablesCurrent, Readable, Doing, At, fileVars
<1> QED
  BY <1>1, <1>3, <1>4, <1>5 DEF Sound, Unwritten, fileVars

\* No thread is in a call when the file is flushed, closed or opened.
LEMMA IdleSound ==
  ASSUME IInv, Idle, UNCHANGED job
  PROVE  Alone' /\ Cleared'
<1>1. \A t \in Threads : job[t] = NoJob
  BY DEF Idle, IInv, Thread, Call
<1> QED
  BY <1>1 DEF Alone, Cleared, Doing

LEMMA SavedWhenIdle ==
  ASSUME IInv, Sound, Idle, flushed
  PROVE  Readable /\ saved.symtab = symtab
<1>1. \A t \in Threads : job[t] = NoJob
  BY DEF Idle, IInv, Thread, Call
<1>2. \A n \in Names : saved.symtab[n] = symtab[n]
  BY <1>1, FileAssumption DEF Sound, TablesCurrent, Doing
<1> QED
  BY <1>2 DEF Sound, TablesCurrent, IInv, Typed

LEMMA TableWritten ==
  ASSUME NEW a \in Nat, a + TableSize =< End
  PROVE  \A k \in DOMAIN Table : a + k \in Cells /\ Put(Table, a)[a + k] = Table[k]
<1> SUFFICES ASSUME NEW k \in DOMAIN Table
             PROVE  a + k \in Cells /\ Put(Table, a)[a + k] = Table[k]
  OBVIOUS
<1>1. k \in 0 .. TableSize - 1
  BY DEF Table
<1>2. a + k \in Cells /\ (a + k) - a = k
  BY <1>1, FileAssumption DEF Cells
<1> QED
  BY <1>2 DEF Put

LEMMA FlushSound ==
  ASSUME SafeDefine, IInv, Sized, Sound, Flush \/ Close PROVE Sound'
<1>1. /\ Idle /\ Flushed /\ flushed' /\ UNCHANGED <<symtab, job>>
      /\ mode' # "bad"
  BY DEF Flush, Close, Flushed, threadVars
<1>2. Readable' /\ saved'.symtab = symtab
  <2>1. CASE flushed
    BY <2>1, <1>1, SavedWhenIdle DEF Flushed, Readable
  <2>2. CASE ~flushed
    <3>1. bytes' = Put(Table, addr) /\ saved'.at = addr /\ saved'.symtab = symtab
      BY <2>2, <1>1 DEF Flushed
    <3>2. \A k \in DOMAIN Table : addr + k \in Cells /\ Put(Table, addr)[addr + k] = Table[k]
      BY Fits, TableWritten
    <3> QED
      BY <3>1, <3>2 DEF Readable, Table, Cells
  <2> QED
    BY <2>1, <2>2
<1>3. Unwritten'
  <2> SUFFICES ASSUME NEW m \in Names, symtab[m] = Nowhere, NEW p \in Cells, NEW v \in Values
               PROVE  bytes'[p] # <<m, v, 0>>
    BY <1>1 DEF Unwritten
  <2>1. bytes[p] # <<m, v, 0>> /\ <<"table">> # <<m, v, 0>>
    BY DEF Sound, Unwritten
  <2>2. \A k \in DOMAIN Table : Table[k] = <<"table">>
    BY DEF Table
  <2> QED
    BY <2>1, <2>2, <1>1 DEF Flushed, Put
<1>4. TablesCurrent'
  BY <1>1, <1>2 DEF TablesCurrent
<1> QED
  BY <1>1, <1>3, <1>4, IdleSound DEF Sound

\* A file that was closed is opened with the entries it had.
LEMMA OpenSound ==
  ASSUME SafeDefine, IInv, Sound, Open PROVE Sound' /\ symtab' = symtab
<1>1. mode = "closed" /\ flushed' /\ UNCHANGED <<bytes, saved, pc, job>>
  BY DEF Open
<1>2. Idle /\ Readable /\ saved.symtab = symtab
  BY <1>1, SavedWhenIdle DEF IInv, Tables, Sound
<1>3. mode' = "open" /\ symtab' = symtab
  BY <1>2 DEF Open
<1>4. TablesCurrent'
  BY <1>1, <1>2, <1>3 DEF TablesCurrent, Readable
<1>5. Unwritten'
  BY <1>1, <1>3 DEF Sound, Unwritten
<1> QED
  BY <1>1, <1>2, <1>3, <1>4, <1>5, IdleSound DEF Sound

LEMMA StepSound == SafeDefine /\ IInv /\ Sized /\ Sound /\ [Next]_vars => Sound'
<1> SUFFICES ASSUME SafeDefine, IInv, Sized, Sound, [Next]_vars PROVE Sound'
  OBVIOUS
<1>1. ASSUME NEW t \in Threads, Begin(t) \/ Step(t) PROVE Sound'
  BY <1>1, BeginSound, QuietSound, ReserveSound, InstallSound, WriteSound, ExtendSound, ReturnSound
     DEF Step
<1>2. CASE Flush \/ Close \/ Open
  BY <1>2, FlushSound, OpenSound
<1>3. CASE UNCHANGED vars
  BY <1>3 DEF Sound, Alone, Cleared, TablesCurrent, Readable, Unwritten, Doing, At,
     vars, fileVars, threadVars
<1> QED
  BY <1>1, <1>2, <1>3 DEF Next

LEMMA SafeInvariance == SafeDefine => (Spec => [](IInv /\ Sized /\ Sound))
<1> SUFFICES ASSUME SafeDefine PROVE Spec => [](IInv /\ Sized /\ Sound)
  OBVIOUS
<1>1. Init => IInv /\ Sized /\ Sound
  BY InitInv, InitSized, InitSound
<1>2. IInv /\ Sized /\ Sound /\ [Next]_vars => (IInv /\ Sized /\ Sound)'
  BY StepInv, StepSized, StepSound
<1> QED
  BY <1>1, <1>2, PTL DEF Spec

\* As long as entries are defined by one thread alone and not directly after a
\* flush, a file that the library will not flush again has tables that describe
\* it (_PD_wr_syment clears file->flushed, _PD_pfm_flush_file_t looks at it).
THEOREM TablesSaved == SafeDefine => (Spec => []FlushedIsSaved)
<1> SUFFICES ASSUME SafeDefine PROVE Spec => []FlushedIsSaved
  OBVIOUS
<1>1. IInv /\ Sound => FlushedIsSaved
  BY SavedWhenIdle DEF FlushedIsSaved
<1> QED
  BY <1>1, SafeInvariance, PTL

-----------------------------------------------------------------------------
(* The file as one variable for each name.                                 *)

Store == [n \in Names |-> Stored(n)]

\* A step that leaves the entries their places and their bytes leaves them
\* their values.
LEMMA SameStored ==
  ASSUME NEW n \in Names, symtab'[n] = symtab[n],
         symtab[n] # Nowhere => \A k \in 0 .. Size[n] - 1 : bytes'[symtab[n] + k] = bytes[symtab[n] + k]
  PROVE  Stored(n)' = Stored(n)
<1>1. symtab[n] # Nowhere => ValueAt(bytes', n, symtab[n]) = ValueAt(bytes, n, symtab[n])
  BY SameValue
<1> QED
  BY <1>1 DEF Stored

\* Writing at the end of the data or behind it changes no entry.
LEMMA BehindData ==
  ASSUME IInv, Sized, NEW s, NEW a, a = addr, \A k \in DOMAIN s : k \in Nat,
         UNCHANGED symtab, bytes' = Put(s, a)
  PROVE  Store' = Store
<1>1. ASSUME NEW n \in Names, symtab[n] # Nowhere, NEW k \in 0 .. Size[n] - 1
      PROVE  bytes'[symtab[n] + k] = bytes[symtab[n] + k]
  <2>1. /\ symtab[n] \in Nat /\ symtab[n] + Size[n] =< addr /\ Size[n] \in Nat
        /\ addr \in Nat /\ addr + TableSize =< End /\ TableSize \in Nat /\ End \in Nat
    BY <1>1, Sizes, Fits, FileAssumption DEF IInv, Typed, Address, Tables, Separate
  <2>2. symtab[n] + k \in Cells /\ (symtab[n] + k) - addr \notin Nat
    BY <2>1 DEF Cells
  <2> QED
    BY <2>2 DEF Put
<1>2. \A n \in Names : Stored(n)' = Stored(n)
  BY <1>1, SameStored
<1> QED
  BY <1>2 DEF Store

LEMMA NoChange ==
  ASSUME UNCHANGED <<symtab, bytes>>
  PROVE  Store' = Store
<1>1. \A n \in Names : Stored(n)' = Stored(n)
  BY SameStored
<1> QED
  BY <1>1 DEF Store

\* A thread's acting is seen from where it is.
LEMMA ActedAt ==
  ASSUME NEW t \in Threads, NEW l, pc \in [Threads -> PCs], pc' = [pc EXCEPT ![t] = l]
  PROVE  /\ \A b \in BOOLEAN : (l \in {"eod", "return"}) = b => Acted' = [Acted EXCEPT ![t] = b]
         /\ (l \in {"eod", "return"}) = (pc[t] \in {"eod", "return"}) => Acted' = Acted
         /\ Acted[t] = (pc[t] \in {"eod", "return"})
<1>1. pc'[t] = l /\ \A u \in Threads : u # t => pc'[u] = pc[u]
  OBVIOUS
<1>2. ASSUME NEW b \in BOOLEAN, (l \in {"eod", "return"}) = b PROVE Acted' = [Acted EXCEPT ![t] = b]
  <2>1. \A u \in Threads : (pc'[u] \in {"eod", "return"}) = IF u = t THEN b ELSE Acted[u]
    BY <1>1, <1>2, Zenon DEF Acted
  <2>2. Acted' = [u \in Threads |-> IF u = t THEN b ELSE Acted[u]]
    BY <2>1, Zenon DEF Acted
  <2>3. DOMAIN Acted = Threads
    BY Zenon DEF Acted
  <2> QED
    BY <2>2, <2>3, Zenon
<1>3. ASSUME (l \in {"eod", "return"}) = (pc[t] \in {"eod", "return"}) PROVE Acted' = Acted
  <2>1. \A u \in Threads : (pc'[u] \in {"eod", "return"}) = (pc[u] \in {"eod", "return"})
    BY <1>1, <1>3, Zenon
  <2> QED
    BY <2>1, Zenon DEF Acted
<1>4. Acted[t] = (pc[t] \in {"eod", "return"})
  BY Zenon DEF Acted
<1> QED
  BY <1>2, <1>3, <1>4, Zenon

\* Before it acts, when it does, and after its return.
LEMMA ActedSteps ==
  ASSUME NEW t \in Threads, NEW l, pc \in [Threads -> PCs], pc' = [pc EXCEPT ![t] = l]
  PROVE  /\ pc[t] \notin {"eod", "return"} /\ l \notin {"eod", "return"} => Acted' = Acted
         /\ pc[t] \in {"eod", "return"} /\ l \in {"eod", "return"} => Acted' = Acted
         /\ pc[t] \notin {"eod", "return"} /\ l \in {"eod", "return"} =>
              Acted' = [Acted EXCEPT ![t] = TRUE] /\ ~Acted[t]
         /\ pc[t] \in {"eod", "return"} /\ l \notin {"eod", "return"} =>
              Acted' = [Acted EXCEPT ![t] = FALSE] /\ Acted[t]
<1> DEFINE new == l \in {"eod", "return"}
           old == pc[t] \in {"eod", "return"}
<1>1. /\ \A b \in BOOLEAN : new = b => Acted' = [Acted EXCEPT ![t] = b]
      /\ new = old => Acted' = Acted
      /\ Acted[t] = old
  BY ActedAt
<1>2. new \in BOOLEAN /\ old \in BOOLEAN
  OBVIOUS
<1> HIDE DEF new, old
<1>3. /\ ~old /\ ~new => Acted' = Acted
      /\ old /\ new => Acted' = Acted
      /\ ~old /\ new => Acted' = [Acted EXCEPT ![t] = TRUE] /\ ~Acted[t]
      /\ old /\ ~new => Acted' = [Acted EXCEPT ![t] = FALSE] /\ Acted[t]
  BY <1>1, <1>2
<1> QED
  BY <1>3 DEF new, old

LEMMA Stutter ==
  ASSUME Store' = Store, UNCHANGED <<job, got>>, Acted' = Acted
  PROVE  UNCHANGED EntryStore!vars
BY DEF EntryStore!vars, Store

LEMMA BeginStep ==
  ASSUME IInv, NEW t \in Threads, Begin(t) PROVE EntryStore!Begin(t)
<1>1. /\ pc[t] = "idle" /\ pc' = [pc EXCEPT ![t] = "lookup"] /\ UNCHANGED <<symtab, bytes, got>>
      /\ \E j \in Jobs[t] : job' = [job EXCEPT ![t] = j]
  BY DEF Begin, At, Goto, fileVars
<1>2. job[t] = NoJob /\ pc \in [Threads -> PCs]
  BY <1>1 DEF IInv, Typed, Thread, Call, At
<1>3. Store' = Store
  BY <1>1, NoChange
<1>4. Acted' = Acted
  BY <1>1, <1>2, ActedSteps
<1> QED
  BY <1>1, <1>2, <1>3, <1>4 DEF EntryStore!Begin, Store

LEMMA ReturnStep ==
  ASSUME IInv, NEW t \in Threads, Return(t) PROVE EntryStore!Return(t)
<1>1. /\ pc[t] = "return" /\ pc' = [pc EXCEPT ![t] = "idle"] /\ UNCHANGED <<symtab, bytes, got>>
      /\ job' = [job EXCEPT ![t] = NoJob]
  BY DEF Return, At, Goto, fileVars
<1>2. pc \in [Threads -> PCs]
  BY DEF IInv, Typed
<1>3. Store' = Store
  BY <1>1, NoChange
<1>4. Acted' = [Acted EXCEPT ![t] = FALSE] /\ Acted[t]
  <2>1. pc[t] \in {"eod", "return"} /\ "idle" \notin {"eod", "return"}
    BY <1>1
  <2> QED
    BY <2>1, <1>1, <1>2, ActedSteps
<1> QED
  BY <1>1, <1>3, <1>4 DEF EntryStore!Return, Store

\* A read takes effect when it transfers, and gives what is stored.
LEMMA ReadStep ==
  ASSUME IInv, NEW t \in Threads, Read(t) PROVE EntryStore!Act(t)
<1>0. PICK n : n = job[t].name
  OBVIOUS
<1>1. /\ pc[t] = "transfer" /\ pc' = [pc EXCEPT ![t] = "return"] /\ Doing(t, "read")
      /\ UNCHANGED <<symtab, bytes, job>> /\ got' = [got EXCEPT ![t] = ValueAt(bytes, n, pos)]
  BY <1>0 DEF Read, At, Goto
<1>2. pc \in [Threads -> PCs] /\ n \in Names /\ job[t] # NoJob /\ job[t].op = "read"
  BY <1>0, <1>1, InCall DEF IInv, Typed, At, Doing
<1>3. pos = symtab[n] /\ symtab[n] # Nowhere
  <2>1. Thread(t)
    BY DEF IInv
  <2> QED
    BY <2>1, <1>0, <1>1, <1>2 DEF Thread, Call, Locked, Bound, At, Doing
<1>4. Store' = Store /\ Acted' = [Acted EXCEPT ![t] = TRUE] /\ ~Acted[t]
  BY <1>1, <1>2, NoChange, ActedSteps
<1>5. Store[n] = ValueAt(bytes, n, pos)
  BY <1>2, <1>3 DEF Store, Stored
<1> QED
  BY <1>0, <1>1, <1>2, <1>4, <1>5 DEF EntryStore!Act, Store

\* A write takes effect when it transfers: the entry is what was written, and
\* the others are what they were.
LEMMA WriteStep ==
  ASSUME IInv, Sized, NEW t \in Threads, Write(t) PROVE EntryStore!Act(t)
<1>0. PICK n, v : n = job[t].name /\ v = job[t].val
  OBVIOUS
<1>1. /\ pc[t] = "transfer" /\ pc' = [pc EXCEPT ![t] = "eod"] /\ Doing(t, "write")
      /\ UNCHANGED <<symtab, job, got>> /\ bytes' = Put(Data(n, v), pos)
  BY <1>0 DEF Write, At, Goto
<1>2. /\ pc \in [Threads -> PCs] /\ n \in Names /\ job[t] # NoJob /\ job[t].op = "write"
      /\ job[t] \in Jobs[t]
  BY <1>0, <1>1, InCall DEF IInv, Typed, At, Doing
<1>3. pos = symtab[n] /\ pos \in Nat
  <2>1. Thread(t)
    BY DEF IInv
  <2> QED
    BY <2>1, <1>0, <1>1, <1>2 DEF Thread, Locked, Bound, At, Doing, IInv, Typed
<1>4. v \in Values
  BY <1>0, <1>2 DEF Jobs
<1>5. Stored(n)' = v
  <2>1. pos + Size[n] =< End
    <3>1. symtab[n] + Size[n] =< addr /\ addr + TableSize =< End /\ addr \in Nat
      BY <1>2, <1>3, Sizes, Fits DEF IInv, Tables, Separate
    <3> QED
      BY <3>1, <1>2, <1>3, Sizes, FileAssumption
  <2>2. ValueAt(bytes', n, pos) = v
    BY <2>1, <1>1, <1>2, <1>3, <1>4, WrittenValue
  <2> QED
    BY <2>2, <1>1, <1>3, Sizes DEF Stored
<1>6. \A m \in Names \ {n} : Stored(m)' = Stored(m)
  <2> SUFFICES ASSUME NEW m \in Names \ {n}, symtab[m] # Nowhere, NEW k \in 0 .. Size[m] - 1
               PROVE  bytes'[symtab[m] + k] = bytes[symtab[m] + k]
    BY <1>1, SameStored
  <2>1. symtab[m] + k \in Space(m) \cap Cells
    <3>1. /\ symtab[m] \in Nat /\ symtab[m] + Size[m] =< addr /\ Size[m] \in Nat
          /\ addr \in Nat /\ addr + TableSize =< End /\ TableSize \in Nat /\ End \in Nat
      BY Sizes, Fits, FileAssumption DEF IInv, Typed, Address, Tables, Separate
    <3> QED
      BY <3>1 DEF Cells, Space
  <2> QED
    BY <2>1, <1>0, OwnBytes DEF WritesItsOwn
<1>7. Store' = [Store EXCEPT ![n] = v]
  <2>1. \A m \in Names : Stored(m)' = IF m = n THEN v ELSE Stored(m)
    BY <1>5, <1>6
  <2> QED
    BY <2>1, <1>2 DEF Store
<1>8. Acted' = [Acted EXCEPT ![t] = TRUE] /\ ~Acted[t]
  BY <1>1, <1>2, ActedSteps
<1> QED
  BY <1>0, <1>1, <1>2, <1>7, <1>8 DEF EntryStore!Act, Store

\* A definition has no value, and its blank falls on no entry.
LEMMA ExtendStep ==
  ASSUME IInv, Sized, Sound, NEW t \in Threads, Extend(t) PROVE EntryStore!Act(t)
<1>1. /\ pc[t] = "transfer" /\ pc' = [pc EXCEPT ![t] = "return"] /\ Doing(t, "define")
      /\ UNCHANGED <<symtab, job, got>> /\ bytes' = Put(Blank, pos)
  BY DEF Extend, At, Goto
<1>2. /\ pc \in [Threads -> PCs] /\ job[t] # NoJob /\ job[t].op = "define"
  BY <1>1, InCall DEF IInv, Typed, At, Doing
<1>3. pos = addr
  BY <1>1 DEF IInv, Thread, Locked, At, Sound, Alone
<1>4. Store' = Store
  BY <1>1, <1>3, BehindData DEF Blank
<1>5. Acted' = [Acted EXCEPT ![t] = TRUE] /\ ~Acted[t]
  BY <1>1, <1>2, ActedSteps
<1> QED
  BY <1>1, <1>2, <1>4, <1>5 DEF EntryStore!Act, Store

\* An entry that gets its place has no value there.
LEMMA InstallStep ==
  ASSUME IInv, Sound, NEW t \in Threads, Install(t) PROVE UNCHANGED EntryStore!vars
<1>0. PICK n : n = job[t].name
  OBVIOUS
<1>1. /\ pc[t] = "install" /\ symtab' = [symtab EXCEPT ![n] = place[t]]
      /\ pc' = [pc EXCEPT ![t] = IF Doing(t, "define") THEN "iolock" ELSE "seek"]
      /\ UNCHANGED <<bytes, job, got>>
  BY <1>0 DEF Install, At, Goto
<1>2. /\ pc \in [Threads -> PCs] /\ symtab \in [Names -> Address] /\ n \in Names
      /\ place[t] \in Nat /\ symtab[n] = Nowhere
  <2>1. Thread(t)
    BY DEF IInv
  <2> QED
    BY <2>1, <1>0, <1>1, InCall DEF IInv, Typed, At, Thread, Given, Call
<1>3. Stored(n)' = NoValue /\ Stored(n) = NoValue
  <2>1. ValueAt(bytes, n, place[t]) = NoValue
    BY <1>2, UnwrittenValue DEF Sound, Unwritten
  <2> QED
    BY <2>1, <1>1, <1>2, Sizes DEF Stored
<1>4. \A m \in Names \ {n} : Stored(m)' = Stored(m)
  BY <1>1, <1>2, SameStored
<1>5. Store' = Store
  <2>1. \A m \in Names : Stored(m)' = Stored(m)
    BY <1>3, <1>4
  <2> QED
    BY <2>1 DEF Store
<1>6. Acted' = Acted
  BY <1>1, <1>2, ActedSteps
<1> QED
  BY <1>1, <1>5, <1>6, Stutter

\* Lookup, ReadAddr, Reserve, Seek, SeekStream and Eod.
LEMMA QuietStep ==
  ASSUME IInv, NEW t \in Threads,
         Lookup(t) \/ ReadAddr(t) \/ Reserve(t) \/ Seek(t) \/ SeekStream(t) \/ Eod(t)
  PROVE  UNCHANGED EntryStore!vars
<1>1. UNCHANGED <<symtab, bytes, job, got>>
  BY DEF Lookup, ReadAddr, Reserve, Seek, SeekStream, Eod, fileVars
<1>2. PICK l : /\ pc' = [pc EXCEPT ![t] = l]
               /\ \/ pc[t] \in {"eod", "return"} /\ l \in {"eod", "return"}
                  \/ pc[t] \notin {"eod", "return"} /\ l \notin {"eod", "return"}
  BY DEF Lookup, ReadAddr, Reserve, Seek, SeekStream, Eod, At, Goto
<1>3. Store' = Store /\ Acted' = Acted
  BY <1>1, <1>2, NoChange, ActedSteps DEF IInv, Typed
<1> QED
  BY <1>1, <1>3, Stutter

\* Flush, Close and Open.
LEMMA FileSteps ==
  ASSUME SafeDefine, IInv, Sized, Sound, Flush \/ Close \/ Open
  PROVE  UNCHANGED EntryStore!vars
<1>1. UNCHANGED <<symtab, pc, job, got>>
  BY OpenSound DEF Flush, Close, Open, threadVars
<1>2. Store' = Store
  <2>1. CASE UNCHANGED bytes
    BY <2>1, <1>1, NoChange
  <2>2. CASE bytes' = Put(Table, addr)
    <3>1. \A k \in DOMAIN Table : k \in Nat
      BY FileAssumption DEF Table
    <3> QED
      BY <3>1, <2>2, <1>1, BehindData
  <2> QED
    BY <2>1, <2>2 DEF Flush, Close, Open, Flushed
<1> QED
  BY <1>1, <1>2, Stutter DEF Acted

\* For its threads the file is one atomic variable for each name, also across
\* closing and opening (doc/pdb.h: the thread-safe version of PDBLib), as long
\* as entries are defined by one thread alone and not directly after a flush.
THEOREM OneVariableEach == SafeDefine => (Spec => ImplementsStore)
<1> SUFFICES ASSUME SafeDefine PROVE Spec => ImplementsStore
  OBVIOUS
<1>1. Init => EntryStore!Init
  <2> SUFFICES ASSUME Init PROVE EntryStore!Init
    OBVIOUS
  <2>1. \A n \in Names : Stored(n) = NoValue
    BY DEF Init, Stored
  <2>2. \A t \in Threads : (pc[t] \in {"eod", "return"}) = FALSE
    BY DEF Init
  <2>3. Acted = [t \in Threads |-> FALSE]
    BY <2>2, Zenon DEF Acted
  <2> QED
    BY <2>1, <2>3 DEF Init, EntryStore!Init
<1>2. IInv /\ Sized /\ Sound /\ [Next]_vars => [EntryStore!Next]_(EntryStore!vars)
  <2> SUFFICES ASSUME IInv, Sized, Sound, [Next]_vars
               PROVE  EntryStore!Next \/ UNCHANGED EntryStore!vars
    OBVIOUS
  <2>1. ASSUME NEW t \in Threads, Begin(t) \/ Step(t)
        PROVE  EntryStore!Next \/ UNCHANGED EntryStore!vars
    BY <2>1, BeginStep, ReturnStep, ReadStep, WriteStep, ExtendStep, InstallStep, QuietStep
       DEF Step, EntryStore!Next
  <2>2. CASE Flush \/ Close \/ Open
    BY <2>2, FileSteps
  <2>3. CASE UNCHANGED vars
    BY <2>3, NoChange, Stutter DEF vars, fileVars, threadVars, Acted
  <2> QED
    BY <2>1, <2>2, <2>3 DEF Next
<1> QED
  BY <1>1, <1>2, SafeInvariance, PTL DEF Spec, ImplementsStore, EntryStore!Spec
=============================================================================
