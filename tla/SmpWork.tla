------------------------------- MODULE SmpWork -------------------------------
(***************************************************************************)
(* The thread work distribution of SCORE: SC_do_threads runs functions on  *)
(* new threads and collects what they return; SC_chunk_loop cuts a loop    *)
(* into chunks that the threads take with SC_chunk_split; SC_queue_work    *)
(* lets the threads ask for one item after another with                    *)
(* SC_queue_next_item.                                                     *)
(*                                                                         *)
(* The caller's calls follow one another; nested calls, which share        *)
(* _SC_tc and _SC_tq with the outer one, are left out, and so are thread   *)
(* creation that fails and the thread pool, which is not used.  The lock   *)
(* of _SC_tc and _SC_tq is the atomic one that ThreadLock implements.      *)
(***************************************************************************)
EXTENDS Integers, Sequences

CONSTANTS
  MaxThreads,   \* bound: SC_init_threads is asked for no more than these
  Iterations,   \* bound: the iterations and items of the calls below
  Calls,        \* the calls the caller makes
  MaxCalls,     \* bound: how many of them
  NoCall,
  NULL,
  Free          \* nobody holds the lock

\* What the worker functions do in a call: "chunk" is the body of a loop from
\* mn to mx, "queue" one that takes items below mx, "work" a set of functions,
\* nt[i] threads for the i-th, whose k-th invocation is iteration k.
CallType == [kind : {"chunk", "queue", "work"}, mn : Int, mx : Int,
             serial : BOOLEAN, nt : Seq(Nat)]

AtLeast1(n) == IF n < 1 THEN 1 ELSE n

\* the threads of the first i pieces of work
Before(work)  == LET b[i \in 0 .. Len(work)] ==
                       IF i = 0 THEN 0 ELSE b[i - 1] + work[i].n_thread
                 IN  b
Total(work)   == Before(work)[Len(work)]
PieceOf(work, k) == CHOOSE i \in 1 .. Len(work) :
                      Before(work)[i - 1] =< k /\ k < Before(work)[i]

\* _SC_init_thread_work
ThreadWork(nt) == [n_thread |-> AtLeast1(nt), ret |-> [j \in 0 .. AtLeast1(nt) |-> NULL]]

\* the iterations of call c
LoopOf(c) == IF c.kind = "work" THEN 0 .. Total([i \in DOMAIN c.nt |-> ThreadWork(c.nt[i])]) - 1
             ELSE c.mn .. c.mx - 1

\* A queue has the items below mx; a call has at least one function, as all
\* calls in the library and its tests have.
ASSUME CallsAssumption ==
  \A c \in Calls : /\ c \in CallType /\ c.mn =< c.mx
                   /\ c.kind = "queue" => c.mn = 0
                   /\ c.kind = "work"  => c.nt # <<>>

ASSUME BoundAssumption ==
  /\ MaxThreads \in Nat \ {0} /\ MaxCalls \in Nat
  /\ \A c \in Calls : /\ LoopOf(c) \subseteq Iterations
                      /\ c.kind = "work" => \A i \in LoopOf(c) : i < MaxThreads

ASSUME NoneAssumption == NoCall \notin Calls /\ NULL \notin Int /\ Free \notin Int

VARIABLES
  nthreads,   \* SC_n_threads, -1 before SC_init_threads
  call,       \* the call in progress, and how many there have been
  calls,
  mpc,        \* where the caller is
  tw,         \* the thread_work array: n_thread and ret of each piece of work
  made,       \* threads created
  joined,     \* threads joined
  wid, index, \* _SC_tc
  nxt,        \* _SC_tq
  holder,     \* who has the lock of _SC_tc or _SC_tq
  wpc,        \* where each thread is; thread 0 is the caller itself
  slot,       \* the chunk, or the item, a thread has taken
  piece,      \* the iterations it has still to do, from piece[1] to piece[2]
  times,      \* how often each iteration of the call has been done
  missed,     \* SC_chunk_loop has printed that a chunk was missed
  results     \* the array ret of SC_do_threads

callerVars == <<nthreads, call, calls, mpc, tw, made, joined, missed, results>>
sharedVars == <<wid, index, nxt, holder>>
workerVars == <<wpc, slot, piece, times>>
vars       == <<callerVars, sharedVars, workerVars>>

Workers == 0 .. MaxThreads

Init ==
  /\ nthreads = -1
  /\ call = NoCall /\ calls = 0
  /\ mpc = "idle"
  /\ tw = <<>> /\ made = 0 /\ joined = 0
  /\ wid = 0 /\ index = <<>> /\ nxt = 0 /\ holder = Free
  /\ wpc = [w \in Workers |-> "none"]
  /\ slot = [w \in Workers |-> NULL]
  /\ piece = [w \in Workers |-> <<0, 0>>]
  /\ times = [i \in Iterations |-> 0]
  /\ missed = FALSE
  /\ results = <<>>

-----------------------------------------------------------------------------
(* The caller *)

\* SC_init_threads sets the number of threads every time it is called.
InitThreads(n) ==
  /\ mpc = "idle"
  /\ nthreads' = n
  /\ UNCHANGED <<call, calls, mpc, tw, made, joined, missed, results,
                 sharedVars, workerVars>>

\* the limits of the chunks, the first of chunk j being index[j]
Index(mn, mx, nt) == [j \in 0 .. nt |-> IF j = nt THEN mx ELSE mn + j * ((mx - mn) \div nt)]

FirstWid_Kept == wid   \* mutant: wid is not reset
FirstWid == 0

\* SC_chunk_loop, SC_queue_work and SC_do_threads up to _SC_do_threads, which
\* gives one piece of work for one thread to the caller itself
Call(c) ==
  /\ mpc = "idle" /\ calls < MaxCalls
  /\ call' = c /\ calls' = calls + 1
  /\ nthreads' = IF nthreads < 0 /\ c.kind # "work" THEN 1 ELSE nthreads
  /\ LET nt == AtLeast1(IF c.serial THEN 1 ELSE nthreads')
     IN  /\ tw' = IF c.kind = "work" THEN [i \in DOMAIN c.nt |-> ThreadWork(c.nt[i])]
                                     ELSE <<ThreadWork(nt)>>
         /\ index' = IF c.kind = "chunk" THEN Index(c.mn, c.mx, nt) ELSE index
         /\ wid' = IF c.kind = "chunk" THEN FirstWid ELSE wid
         /\ nxt' = IF c.kind = "queue" THEN 0 ELSE nxt
  /\ times' = [i \in Iterations |-> 0]
  /\ mpc' = IF Total(tw') = 1 THEN "one" ELSE "create"
  /\ wpc' = [wpc EXCEPT ![0] = IF Total(tw') = 1 THEN "start" ELSE "none"]
  /\ UNCHANGED <<made, joined, missed, results, holder, slot, piece>>

\* _SC_do_new_threads creates thread k + 1 while the first ones are at work
Create ==
  /\ mpc = "create"
  /\ made' = made + 1
  /\ wpc' = [wpc EXCEPT ![made + 1] = "start"]
  /\ mpc' = IF made + 1 = Total(tw) THEN "join" ELSE "create"
  /\ UNCHANGED <<nthreads, call, calls, tw, joined, missed, results,
                 sharedVars, slot, piece, times>>

\* what a worker function returns: the address of its chunk, nothing, or, in
\* a "work" call, a value of its own
Value(w) == CASE call.kind = "chunk" -> slot[w]
              [] call.kind = "queue" -> NULL
              [] call.kind = "work"  -> slot[w]

\* r = &tw[i].ret[k], and k counts the threads of every piece of work: beyond
\* the first piece the value goes to another place of the array, or outside it
StoreAt(k) ==
  LET i == PieceOf(tw, k)
  IN  IF k \in DOMAIN tw[i].ret THEN [tw EXCEPT ![i].ret[k] = Value(k + 1)] ELSE tw

\* SC_THREAD_JOIN, in the order of creation
Join ==
  /\ mpc = "join"
  /\ wpc[joined + 1] = "ended"
  /\ joined' = joined + 1
  /\ tw' = StoreAt(joined)
  /\ mpc' = IF joined + 1 = Total(tw) THEN "check" ELSE "join"
  /\ wpc' = [wpc EXCEPT ![joined + 1] = "none"]
  /\ UNCHANGED <<nthreads, call, calls, made, missed, results,
                 sharedVars, slot, piece, times>>

\* _SC_one_thread: the caller has run the function itself
OneThread ==
  /\ mpc = "one"
  /\ wpc[0] = "ended"
  /\ tw' = [tw EXCEPT ![1].ret[0] = Value(0)]
  /\ mpc' = "check"
  /\ wpc' = [wpc EXCEPT ![0] = "none"]
  /\ UNCHANGED <<nthreads, call, calls, made, joined, missed, results,
                 sharedVars, slot, piece, times>>

\* the chunks the threads returned do not reach from mn to mx
Missing ==
  LET nt     == tw[1].n_thread
      chunks == {tw[1].ret[j] : j \in 0 .. nt - 1}
  IN  \/ \A s \in chunks : index[s] # call.mn
      \/ \E s \in chunks : index[s] < call.mn
      \/ \A s \in chunks : index[s + 1] # call.mx
      \/ \E s \in chunks : index[s + 1] > call.mx

\* the end of SC_chunk_loop, SC_queue_work or SC_do_threads
Return_KeepsJoined ==   \* mutant: the joins do not start from 0 again
  /\ mpc = "check"
  /\ IF call.kind = "chunk"
     THEN missed' = (missed \/ Missing) /\ index' = <<>>
     ELSE UNCHANGED <<missed, index>>
  /\ mpc' = "idle"
  /\ tw' = <<>> /\ made' = 0
  /\ UNCHANGED <<joined, results, nthreads, call, calls, wid, nxt, holder, workerVars>>

Return ==
  /\ mpc = "check"
  /\ IF call.kind = "chunk"
     THEN missed' = (missed \/ Missing) /\ index' = <<>>
     ELSE UNCHANGED <<missed, index>>
  /\ results' = IF call.kind = "work"
                THEN [k \in 0 .. Total(tw) - 1 |->
                        LET i == PieceOf(tw, k) IN tw[i].ret[k - Before(tw)[i - 1]]]
                ELSE <<>>
  /\ mpc' = "idle"
  /\ tw' = <<>> /\ made' = 0 /\ joined' = 0
  /\ UNCHANGED <<nthreads, call, calls, wid, nxt, holder, workerVars>>

-----------------------------------------------------------------------------
(* The worker functions *)

At(w, l)   == wpc[w] = l
Goto(w, l) == wpc' = [wpc EXCEPT ![w] = l]
Take(w, s) == slot' = [slot EXCEPT ![w] = s]

\* SC_LOCKON in SC_chunk_split and SC_queue_next_item
LockOn_Free(w) ==   \* mutant: no lock
  /\ At(w, "start") /\ call.kind \in {"chunk", "queue"}
  /\ holder' = w
  /\ Goto(w, "locked")
  /\ UNCHANGED <<callerVars, wid, index, nxt, slot, piece, times>>

LockOn(w) ==
  /\ At(w, "start") /\ call.kind \in {"chunk", "queue"}
  /\ holder = Free
  /\ holder' = w
  /\ Goto(w, "locked")
  /\ UNCHANGED <<callerVars, wid, index, nxt, slot, piece, times>>

\* SC_chunk_split
NextWid(w) ==
  /\ At(w, "locked") /\ call.kind = "chunk"
  /\ wid' = IF wid < nthreads THEN wid + 1 ELSE 1
  /\ Goto(w, "taken")
  /\ UNCHANGED <<callerVars, index, nxt, holder, slot, piece, times>>

TakeChunk(w) ==
  /\ At(w, "taken") /\ call.kind = "chunk"
  /\ Take(w, wid - 1)
  /\ Goto(w, "unlock")
  /\ UNCHANGED <<callerVars, sharedVars, piece, times>>

\* SC_queue_next_item
NextItem(w) ==
  /\ At(w, "locked") /\ call.kind = "queue"
  /\ Take(w, IF nxt >= call.mx THEN -1 ELSE nxt)
  /\ Goto(w, "taken")
  /\ UNCHANGED <<callerVars, sharedVars, piece, times>>

CountItem(w) ==
  /\ At(w, "taken") /\ call.kind = "queue"
  /\ nxt' = IF slot[w] = -1 THEN nxt ELSE slot[w] + 1
  /\ Goto(w, "unlock")
  /\ UNCHANGED <<callerVars, wid, index, holder, slot, piece, times>>

LockOff(w) ==
  /\ At(w, "unlock")
  /\ holder' = Free
  /\ Goto(w, "use")
  /\ UNCHANGED <<callerVars, wid, index, nxt, slot, piece, times>>

\* the limits of the chunk, read after the lock has been given back
UseChunk(w) ==
  /\ At(w, "use") /\ call.kind = "chunk"
  /\ piece' = [piece EXCEPT ![w] = <<index[slot[w]], index[slot[w] + 1]>>]
  /\ Goto(w, "run")
  /\ UNCHANGED <<callerVars, sharedVars, slot, times>>

UseItem_Again(w) ==   \* mutant: -1 does not end the loop
  /\ At(w, "use") /\ call.kind = "queue"
  /\ IF slot[w] = -1
     THEN Goto(w, "start") /\ UNCHANGED piece
     ELSE Goto(w, "run") /\ piece' = [piece EXCEPT ![w] = <<slot[w], slot[w] + 1>>]
  /\ UNCHANGED <<callerVars, sharedVars, slot, times>>

\* -1 ends the worker's loop
UseItem(w) ==
  /\ At(w, "use") /\ call.kind = "queue"
  /\ IF slot[w] = -1
     THEN Goto(w, "ended") /\ UNCHANGED piece
     ELSE Goto(w, "run") /\ piece' = [piece EXCEPT ![w] = <<slot[w], slot[w] + 1>>]
  /\ UNCHANGED <<callerVars, sharedVars, slot, times>>

\* a function of a "work" call; thread k + 1 is its k-th invocation
Invoke(w) ==
  /\ At(w, "start") /\ call.kind = "work"
  /\ LET k == IF w = 0 THEN 0 ELSE w - 1
     IN  Take(w, k) /\ piece' = [piece EXCEPT ![w] = <<k, k + 1>>]
  /\ Goto(w, "run")
  /\ UNCHANGED <<callerVars, sharedVars, times>>

\* one iteration
Run(w) ==
  /\ At(w, "run") /\ piece[w][1] < piece[w][2]
  /\ times' = [times EXCEPT ![piece[w][1]] = @ + 1]
  /\ piece' = [piece EXCEPT ![w][1] = @ + 1]
  /\ UNCHANGED <<callerVars, sharedVars, wpc, slot>>

RunEnds(w) ==
  /\ At(w, "run") /\ piece[w][1] >= piece[w][2]
  /\ Goto(w, IF call.kind = "queue" THEN "start" ELSE "ended")
  /\ UNCHANGED <<callerVars, sharedVars, slot, piece, times>>

-----------------------------------------------------------------------------

CallerStep == Create \/ Join \/ OneThread \/ Return

WorkerStep(w) == \/ LockOn(w) \/ LockOff(w) \/ NextWid(w) \/ TakeChunk(w) \/ UseChunk(w)
                 \/ NextItem(w) \/ CountItem(w) \/ UseItem(w)
                 \/ Invoke(w) \/ Run(w) \/ RunEnds(w)

Next == \/ \E n \in 0 .. MaxThreads : InitThreads(n)
        \/ \E c \in Calls : Call(c)
        \/ CallerStep
        \/ \E w \in Workers : WorkerStep(w)

Spec == Init /\ [][Next]_vars

\* Threads that can run do run; calls need not be made.
FairSpec == /\ Spec
            /\ WF_vars(CallerStep)
            /\ \A w \in Workers : WF_vars(WorkerStep(w))

-----------------------------------------------------------------------------
(* Properties *)

\* Every variable ranges over what its comment says.
TypeOK ==
  /\ nthreads \in -1 .. MaxThreads
  /\ call \in Calls \cup {NoCall}
  /\ mpc \in {"idle", "one", "create", "join", "check"}
  /\ made \in 0 .. MaxThreads /\ joined \in 0 .. made
  /\ wid \in 0 .. MaxThreads
  /\ nxt \in Nat
  /\ holder \in Workers \cup {Free}
  /\ wpc \in [Workers -> {"none", "start", "locked", "taken", "unlock", "use", "run", "ended"}]
  /\ times \in [Iterations -> Nat]
  /\ missed \in BOOLEAN

\* The chunk a thread has taken lies inside the array of limits, and the
\* array, which SC_chunk_loop frees at its end, is there as long as a thread
\* may read it.
IndexValid ==
  \A w \in Workers :
    call # NoCall /\ call.kind = "chunk" /\ wpc[w] \in {"unlock", "use"}
      => slot[w] \in DOMAIN index /\ slot[w] + 1 \in DOMAIN index

\* SC_chunk_loop never reports "MISSED CHUNK IN PARALLEL LOOP": what the
\* threads returned, found at the places the joins put it, reaches from mn to
\* mx, whatever order the threads came in.
NoChunkMissed == ~missed

\* The chunks of a loop are sound: taken inside the array of limits and, as
\* the joins find them, all of the range.
ChunksSound == IndexValid /\ NoChunkMissed

\* The caller inside a call, as ParallelLoop sees it.
Loop == INSTANCE ParallelLoop WITH
          busy  <- mpc # "idle",
          loop  <- IF call = NoCall THEN {} ELSE LoopOf(call),
          Loops <- {LoopOf(c) : c \in Calls}

\* However the threads interleave, whatever their number, and whatever calls
\* came before, each iteration, item or invocation of a call is done exactly
\* once, all before the call returns.
ImplementsLoop == Loop!Spec

\* Every call returns: no thread waits for a lock nobody gives back.
CallReturns == mpc # "idle" ~> mpc = "idle"

\* SC_do_threads: "ret: array to hold return values of all invocations of all
\* functions".  Invocation k of a call returned the value k.
ResultsReturned ==
  mpc = "idle" /\ call # NoCall /\ call.kind = "work"
    => \A k \in DOMAIN results : results[k] = k
=============================================================================
