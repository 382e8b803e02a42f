------------------------------- MODULE ParFile -------------------------------
(***************************************************************************)
(* A PDB file shared by threads (PD_init_threads): each thread has a disk  *)
(* address of its own, the file manager gives out the space at the end of  *)
(* the file under one lock, and a transfer moves the position of the one   *)
(* stream under another.                                                   *)
(*                                                                         *)
(* Entries are direct types, written whole, in binary files; appended      *)
(* blocks, pointers, attributes and checksums are left out.  The symbol    *)
(* table is looked up and changed under its own lock, in one step.  The    *)
(* application follows doc/pdb.h: it flushes and closes while no thread    *)
(* reads or writes, and opens the file first.  Each name is written by one *)
(* thread, and read by others once it has been.                            *)
(***************************************************************************)
EXTENDS Integers, FiniteSets

CONSTANTS
  Threads,
  Names, Values,
  NoValue,      \* what is read where nothing was written
  Owner,        \* Owner[n]: the thread that defines and writes n
  Size,         \* Size[n]: the bytes of n
  TableSize,    \* the bytes of the chart, symbol table and extras
  End,          \* bound: the bytes of the file that are looked at
  MaxJobs,      \* bound: the reads and writes of a thread
  MaxOpens,     \* bound: how often the file is opened
  NoJob,
  Nowhere,      \* no address
  Nobody,       \* nobody holds the lock
  SafeDefine    \* TRUE: entries are defined by one thread alone, and not
                \* directly after a flush

ASSUME FileAssumption ==
  /\ Owner \in [Names -> Threads] /\ Size \in [Names -> Nat \ {0}]
  /\ TableSize \in Nat \ {0} /\ End \in Nat
  /\ MaxJobs \in Nat /\ MaxOpens \in Nat
\* the bytes of the entries S
Content(S) == UNION {{n} \X (0 .. Size[n] - 1) : n \in S}
\* the part of the file that is looked at has room for all
ASSUME BoundAssumption ==
  IsFiniteSet(Content(Names)) /\ Cardinality(Content(Names)) + TableSize =< End
ASSUME NoneAssumption ==
  Nowhere \notin Int /\ Nobody \notin Threads /\ NoValue \notin Values /\ SafeDefine \in BOOLEAN

Data(n, v) == [k \in 0 .. Size[n] - 1 |-> <<n, v, k>>]   \* the bytes of value v of n
Blank      == [k \in {0} |-> <<"blank">>]
Table      == [k \in 0 .. TableSize - 1 |-> <<"table">>]
Cells      == 0 .. End - 1

Own(t) == {n \in Names : Owner[n] = t}
Jobs   == [t \in Threads |-> [op : {"write"}, name : Own(t), val : Values]
                            \cup [op : {"define"}, name : Own(t), val : {NoValue}]
                            \cup [op : {"read"}, name : Names, val : {NoValue}]]

ASSUME NoJobAssumption == \A t \in Threads : NoJob \notin Jobs[t]

VARIABLES
  addr,      \* _PD_pfman[id].addr, the next free address
  pflock,    \* holder of pfmanager_lock_t
  iolock,    \* holder of PD_io_lock_t
  pos,       \* the position of the stream
  disk,      \* DISK(t), each thread's address in the file
  symtab,    \* the address of each entry, Nowhere if there is none
  flushed,   \* file->flushed
  bytes,     \* the file
  saved,     \* what the header and the tables say: the chart's address and the entries
  mode,      \* "open", "closed", or "bad" when its tables could not be read
  pc, job,   \* where each thread is, and in which call
  place,     \* its local variable addr
  got,       \* what it read last
  njobs,     \* its calls so far
  opens      \* how often the file has been opened

fileVars   == <<addr, pflock, iolock, pos, symtab, flushed, bytes, saved, mode, opens>>
threadVars == <<disk, pc, job, place, got, njobs>>
vars       == <<fileVars, threadVars>>

Init ==
  /\ addr = 0 /\ pflock = Nobody /\ iolock = Nobody /\ pos = 0
  /\ disk = [t \in Threads |-> 0]
  /\ symtab = [n \in Names |-> Nowhere]
  /\ flushed = FALSE
  /\ bytes = [p \in Cells |-> <<"none">>]
  /\ saved = [at |-> 0, symtab |-> symtab]
  /\ mode = "open"
  /\ pc = [t \in Threads |-> "idle"]
  /\ job = [t \in Threads |-> NoJob]
  /\ place = [t \in Threads |-> Nowhere]
  /\ got = [t \in Threads |-> NoValue]
  /\ njobs = [t \in Threads |-> 0]
  /\ opens = 1

At(t, l)   == pc[t] = l
Goto(t, l) == pc' = [pc EXCEPT ![t] = l]
Idle       == \A t \in Threads : At(t, "idle")
Doing(t, op) == job[t] # NoJob /\ job[t].op = op

\* the bytes with s put at address a
Put(s, a) == [p \in Cells |-> IF p - a \in DOMAIN s THEN s[p - a] ELSE bytes[p]]
\* what n holds when it is at address a of a file of bytes b
ValueAt(b, n, a) == LET vs == {v \in Values : \A k \in DOMAIN Data(n, v) :
                                                a + k \in Cells /\ b[a + k] = Data(n, v)[k]}
                    IN  IF vs = {} THEN NoValue ELSE CHOOSE v \in vs : TRUE

\* the value of an entry
Stored(n) == IF symtab[n] = Nowhere THEN NoValue ELSE ValueAt(bytes, n, symtab[n])

-----------------------------------------------------------------------------
(* A call: PD_write, PD_defent, PD_read *)

\* What the application may ask for: it defines an entry once, before it is
\* written, and reads what it knows to be written.
Allowed(t, j) ==
  CASE j.op = "write"  -> TRUE
    [] j.op = "define" -> /\ symtab[j.name] = Nowhere
                          /\ SafeDefine => Idle /\ ~flushed
    [] j.op = "read"   -> /\ Stored(j.name) # NoValue
                          /\ ~(Doing(Owner[j.name], "write") /\ job[Owner[j.name]].name = j.name)

Begin(t) ==
  /\ mode = "open" /\ At(t, "idle") /\ njobs[t] < MaxJobs
  /\ SafeDefine => ~\E u \in Threads : Doing(u, "define")
  /\ \E j \in Jobs[t] : Allowed(t, j) /\ job' = [job EXCEPT ![t] = j]
  /\ njobs' = [njobs EXCEPT ![t] = @ + 1]
  /\ Goto(t, "lookup")
  /\ UNCHANGED <<fileVars, disk, place, got>>

\* an entry that is there keeps its place; a new one is given space
Lookup(t) ==
  /\ At(t, "lookup")
  /\ place' = [place EXCEPT ![t] = symtab[job[t].name]]
  /\ Goto(t, IF symtab[job[t].name] = Nowhere THEN "space" ELSE "seek")
  /\ UNCHANGED <<fileVars, disk, job, got, njobs>>

\* mutant: the manager's lock is not waited for
ReadAddr_NoLock(t) ==
  /\ At(t, "space")
  /\ pflock' = t
  /\ place' = [place EXCEPT ![t] = addr]
  /\ Goto(t, "reserve")
  /\ UNCHANGED <<addr, iolock, pos, symtab, flushed, bytes, saved, mode, opens,
                 disk, job, got, njobs>>

\* _PD_pfm_getspace_t takes the lock and reads the address
ReadAddr(t) ==
  /\ At(t, "space") /\ pflock = Nobody
  /\ pflock' = t
  /\ place' = [place EXCEPT ![t] = addr]
  /\ Goto(t, "reserve")
  /\ UNCHANGED <<addr, iolock, pos, symtab, flushed, bytes, saved, mode, opens,
                 disk, job, got, njobs>>

\* and moves it on; a definition goes to the end of its space
Reserve(t) ==
  /\ At(t, "reserve")
  /\ addr' = addr + Size[job[t].name]
  /\ pflock' = Nobody
  /\ disk' = [disk EXCEPT ![t] = IF Doing(t, "define")
                                 THEN place[t] + Size[job[t].name] ELSE place[t]]
  /\ Goto(t, "install")
  /\ UNCHANGED <<iolock, pos, symtab, flushed, bytes, saved, mode, opens,
                 job, place, got, njobs>>

\* _PD_e_install
Install(t) ==
  /\ At(t, "install")
  /\ symtab' = [symtab EXCEPT ![job[t].name] = place[t]]
  /\ Goto(t, IF Doing(t, "define") THEN "iolock" ELSE "seek")
  /\ UNCHANGED <<addr, pflock, iolock, pos, flushed, bytes, saved, mode, opens,
                 disk, job, place, got, njobs>>

\* mutant: a write does not clear the flag
Seek_StillFlushed(t) ==
  /\ At(t, "seek")
  /\ disk' = [disk EXCEPT ![t] = place[t]]
  /\ Goto(t, "iolock")
  /\ UNCHANGED <<fileVars, job, place, got, njobs>>

\* to the entry's address; _PD_wr_syment then clears file->flushed
Seek(t) ==
  /\ At(t, "seek")
  /\ disk' = [disk EXCEPT ![t] = place[t]]
  /\ flushed' = (flushed /\ ~Doing(t, "write"))
  /\ Goto(t, "iolock")
  /\ UNCHANGED <<addr, pflock, iolock, pos, symtab, bytes, saved, mode, opens,
                 job, place, got, njobs>>

\* mutant: the io lock is not waited for
SeekStream_NoLock(t) ==
  /\ At(t, "iolock")
  /\ iolock' = t
  /\ pos' = disk[t]
  /\ Goto(t, "transfer")
  /\ UNCHANGED <<addr, pflock, symtab, flushed, bytes, saved, mode, opens,
                 disk, job, place, got, njobs>>

\* _PD_pwrite and _PD_pread position the stream
SeekStream(t) ==
  /\ At(t, "iolock") /\ iolock = Nobody
  /\ iolock' = t
  /\ pos' = disk[t]
  /\ Goto(t, "transfer")
  /\ UNCHANGED <<addr, pflock, symtab, flushed, bytes, saved, mode, opens,
                 disk, job, place, got, njobs>>

\* mutant: the io lock is not given back
Moved_Locked(t, n) ==
  /\ pos' = pos + n
  /\ disk' = [disk EXCEPT ![t] = @ + n]
  /\ UNCHANGED iolock

\* the stream and the thread's address move on, and the lock is given back
Moved(t, n) ==
  /\ pos' = pos + n
  /\ disk' = [disk EXCEPT ![t] = @ + n]
  /\ iolock' = Nobody

Write(t) ==
  /\ At(t, "transfer") /\ Doing(t, "write")
  /\ bytes' = Put(Data(job[t].name, job[t].val), pos)
  /\ Moved(t, Size[job[t].name])
  /\ Goto(t, "eod")
  /\ UNCHANGED <<addr, pflock, symtab, flushed, saved, mode, opens, job, place, got, njobs>>

\* _PD_pfm_extend_file_t writes one blank, so that the space is in the file
Extend(t) ==
  /\ At(t, "transfer") /\ Doing(t, "define")
  /\ bytes' = Put(Blank, pos)
  /\ Moved(t, 1)
  /\ Goto(t, "return")
  /\ UNCHANGED <<addr, pflock, symtab, flushed, saved, mode, opens, job, place, got, njobs>>

Read(t) ==
  /\ At(t, "transfer") /\ Doing(t, "read")
  /\ got' = [got EXCEPT ![t] = ValueAt(bytes, job[t].name, pos)]
  /\ Moved(t, Size[job[t].name])
  /\ Goto(t, "return")
  /\ UNCHANGED <<addr, pflock, symtab, flushed, bytes, saved, mode, opens, job, place, njobs>>

\* _PD_eod asks the manager for the end of the data, with its lock, and so
\* puts the thread's address there
Eod(t) ==
  /\ At(t, "eod") /\ pflock = Nobody
  /\ disk' = [disk EXCEPT ![t] = addr]
  /\ Goto(t, "return")
  /\ UNCHANGED <<fileVars, job, place, got, njobs>>

Return(t) ==
  /\ At(t, "return")
  /\ job' = [job EXCEPT ![t] = NoJob]
  /\ place' = [place EXCEPT ![t] = Nowhere]
  /\ Goto(t, "idle")
  /\ UNCHANGED <<fileVars, disk, got, njobs>>

-----------------------------------------------------------------------------
(* The whole file: PD_flush, PD_close, PD_open, while no call is under way *)

\* mutant: the tables are given their space by the manager
Flushed_Reserved ==
  /\ bytes' = IF flushed THEN bytes ELSE Put(Table, addr)
  /\ saved' = IF flushed THEN saved ELSE [at |-> addr, symtab |-> symtab]
  /\ addr' = IF flushed THEN addr ELSE addr + TableSize
  /\ flushed' = TRUE

\* _PD_pfm_flush_file_t: the tables go behind the data, and the header says where
Flushed ==
  /\ bytes' = IF flushed THEN bytes ELSE Put(Table, addr)
  /\ saved' = IF flushed THEN saved ELSE [at |-> addr, symtab |-> symtab]
  /\ flushed' = TRUE
  /\ UNCHANGED addr

Flush ==
  /\ mode = "open" /\ Idle
  /\ Flushed
  /\ UNCHANGED <<pflock, iolock, pos, symtab, mode, opens, threadVars>>

\* PD_close flushes first
Close ==
  /\ mode = "open" /\ Idle
  /\ Flushed
  /\ mode' = "closed"
  /\ UNCHANGED <<pflock, iolock, pos, symtab, opens, threadVars>>

\* the tables can be read back
Readable == \A k \in DOMAIN Table : saved.at + k \in Cells /\ bytes[saved.at + k] = Table[k]

\* PD_open for appending; the addresses the threads have in the file after it
\* are not used, as every call seeks first
Open ==
  /\ mode = "closed" /\ opens < MaxOpens
  /\ opens' = opens + 1
  /\ IF Readable
     THEN /\ mode' = "open"
          /\ symtab' = saved.symtab
          /\ addr' = saved.at
     ELSE /\ mode' = "bad"
          /\ UNCHANGED <<symtab, addr>>
  /\ flushed' = TRUE
  /\ disk' = [t \in Threads |-> 0]
  /\ UNCHANGED <<pflock, iolock, pos, bytes, saved, pc, job, place, got, njobs>>

-----------------------------------------------------------------------------

Step(t) == \/ Lookup(t) \/ ReadAddr(t) \/ Reserve(t) \/ Install(t) \/ Seek(t)
           \/ SeekStream(t) \/ Write(t) \/ Extend(t) \/ Read(t) \/ Eod(t) \/ Return(t)

Next == \/ \E t \in Threads : Begin(t) \/ Step(t)
        \/ Flush \/ Close \/ Open

Spec == Init /\ [][Next]_vars

\* A thread that is in a call keeps running.
FairSpec == Spec /\ \A t \in Threads : WF_vars(Step(t))

-----------------------------------------------------------------------------
(* Properties *)

PCs == {"idle", "lookup", "space", "reserve", "install", "seek", "iolock",
        "transfer", "eod", "return"}

\* Every variable ranges over what its comment says; in particular flushes
\* and openings give the file no more data than its entries have.
TypeOK ==
  /\ addr \in 0 .. End - TableSize
  /\ pflock \in Threads \cup {Nobody} /\ iolock \in Threads \cup {Nobody}
  /\ pos \in Nat /\ disk \in [Threads -> Nat]
  /\ symtab \in [Names -> Cells \cup {Nowhere}]
  /\ flushed \in BOOLEAN
  /\ mode \in {"open", "closed", "bad"}
  /\ pc \in [Threads -> PCs]
  /\ \A t \in Threads : job[t] \in Jobs[t] \cup {NoJob}
  /\ place \in [Threads -> Cells \cup {Nowhere}]
  /\ got \in [Threads -> Values \cup {NoValue}]

Space(n) == symtab[n] .. symtab[n] + Size[n] - 1

\* However the threads that write new entries interleave, each entry has a
\* part of the file of its own, before the end of the data.
Disjoint ==
  \A m \in Names : symtab[m] # Nowhere =>
    /\ \A p \in Space(m) : p < addr
    /\ \A n \in Names \ {m} : symtab[n] # Nowhere => Space(m) \cap Space(n) = {}

\* While the library takes the file for flushed, and will not flush it again
\* when it is closed, the tables in the file describe its entries.
FlushedIsSaved ==
  Idle /\ mode # "bad" /\ flushed => Readable /\ saved.symtab = symtab

Acted == [t \in Threads |-> pc[t] \in {"eod", "return"}]

EntryStore == INSTANCE EntryStore WITH
                store <- [n \in Names |-> Stored(n)],
                acted <- Acted

\* "The thread-safe version of PDBLib can be used by applications to read or
\* write the same file in parallel" (doc/pdb.h): for its threads the file is
\* one atomic variable for each name, also across closing and opening.
ImplementsStore == EntryStore!Spec

\* Every call returns: no thread waits for a lock nobody gives back.
JobsEnd == \A t \in Threads : At(t, "lookup") ~> At(t, "idle")

\* PD_close: "Close PDBfile FILE after writing out the symbol table and
\* structure chart."
CloseSavesTables == mode = "closed" => Readable /\ saved.symtab = symtab
=============================================================================
