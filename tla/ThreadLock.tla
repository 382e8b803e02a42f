----------------------------- MODULE ThreadLock -----------------------------
(***************************************************************************)
(* The re-entrant lock of score (SC_LOCKON / SC_LOCKOFF): the ownership    *)
(* record kept in SC_thread_lock around one system mutex.                  *)
(*                                                                         *)
(* The owner test of _SC_eth_lockon reads lock->active without holding     *)
(* anything, so every read and write of the record is a step of its own.   *)
(* The emulated lock (_SC_use_emu_lock) is never switched on and is left   *)
(* out.                                                                    *)
(***************************************************************************)
EXTENDS Integers

CONSTANTS Threads,    \* the threads that share the lock
          Main,       \* the thread that calls SC_init_threads
          NoThread,   \* SC_NULL_THREAD
          NThreads,   \* the number of threads SC_init_threads is asked for
          MaxDepth    \* bound on the nesting of one thread

ASSUME MainAssumption     == Main \in Threads
ASSUME NoThreadAssumption == NoThread \notin Threads
ASSUME NThreadsAssumption == NThreads \in Nat \ {0}
ASSUME MaxDepthAssumption == MaxDepth \in Nat \ {0}

VARIABLES
  active,       \* lock->active
  ref_count,    \* lock->ref_count
  sys,          \* holder of lock->sys, the system mutex
  n_threads,    \* SC_n_threads: -1 until SC_init_threads
  pc,           \* where each thread is in lockon / lockoff
  depth         \* lockons minus lockoffs of each thread, as its caller counts

vars == <<active, ref_count, sys, n_threads, pc, depth>>

Init == /\ active = NoThread
        /\ ref_count = 0
        /\ sys = NoThread
        /\ n_threads = -1
        /\ pc = [t \in Threads |-> "idle"]
        /\ depth = [t \in Threads |-> 0]

\* _SC_pth_lockon and _SC_pth_lockoff skip the mutex until this holds
MultiThreaded == n_threads >= 1

\* The main thread starts the thread system; it runs alone until then.
InitThreads ==
  /\ ~MultiThreaded
  /\ pc[Main] = "idle" /\ depth[Main] = 0
  /\ n_threads' = NThreads
  /\ UNCHANGED <<active, ref_count, sys, pc, depth>>

Running(t) == MultiThreaded \/ t = Main

At(t, label)   == pc[t] = label
Goto(t, label) == pc' = [pc EXCEPT ![t] = label]

-----------------------------------------------------------------------------
(* _SC_eth_lockon *)

CallOn(t) ==
  /\ At(t, "idle") /\ Running(t) /\ depth[t] < MaxDepth
  /\ Goto(t, "on_test")
  /\ UNCHANGED <<active, ref_count, sys, n_threads, depth>>

\* mutant: any owner counts as "already locked"
OnTest_AnyOwner(t) ==
  /\ At(t, "on_test")
  /\ Goto(t, IF active # NoThread THEN "on_count" ELSE "on_wait")
  /\ UNCHANGED <<active, ref_count, sys, n_threads, depth>>

\* mutant: no owner test
OnTest_NoTest(t) ==
  /\ At(t, "on_test")
  /\ Goto(t, "on_wait")
  /\ UNCHANGED <<active, ref_count, sys, n_threads, depth>>

\* the unlocked test: tid != lck->active
OnTest(t) ==
  /\ At(t, "on_test")
  /\ Goto(t, IF active = t THEN "on_count" ELSE "on_wait")
  /\ UNCHANGED <<active, ref_count, sys, n_threads, depth>>

\* mutant: the result of the lock call is ignored
OnWait_NoWait(t) ==
  /\ At(t, "on_wait")
  /\ sys' = IF MultiThreaded THEN t ELSE sys
  /\ Goto(t, "on_own")
  /\ UNCHANGED <<active, ref_count, n_threads, depth>>

OnWait(t) ==
  /\ At(t, "on_wait")
  /\ IF MultiThreaded
     THEN sys = NoThread /\ sys' = t
     ELSE UNCHANGED sys
  /\ Goto(t, "on_own")
  /\ UNCHANGED <<active, ref_count, n_threads, depth>>

OnOwn(t) ==
  /\ At(t, "on_own")
  /\ active' = t
  /\ Goto(t, "on_count")
  /\ UNCHANGED <<ref_count, sys, n_threads, depth>>

\* mutant: the first lockon is not counted
OnCount_NotFirst(t) ==
  /\ At(t, "on_count")
  /\ ref_count' = IF active = t /\ depth[t] > 0 THEN ref_count + 1 ELSE ref_count
  /\ depth' = [depth EXCEPT ![t] = @ + 1]
  /\ Goto(t, "idle")
  /\ UNCHANGED <<active, sys, n_threads>>

OnCount(t) ==
  /\ At(t, "on_count")
  /\ ref_count' = IF active = t THEN ref_count + 1 ELSE ref_count
  /\ depth' = [depth EXCEPT ![t] = @ + 1]
  /\ Goto(t, "idle")
  /\ UNCHANGED <<active, sys, n_threads>>

-----------------------------------------------------------------------------
(* _SC_eth_lockoff *)

CallOff(t) ==
  /\ At(t, "idle") /\ depth[t] > 0
  /\ Goto(t, "off_dec")
  /\ UNCHANGED <<active, ref_count, sys, n_threads, depth>>

OffDec(t) ==
  /\ At(t, "off_dec")
  /\ ref_count' = IF active = t THEN ref_count - 1 ELSE ref_count
  /\ depth' = [depth EXCEPT ![t] = @ - 1]
  /\ Goto(t, "off_test")
  /\ UNCHANGED <<active, sys, n_threads>>

OffTest(t) ==
  /\ At(t, "off_test")
  /\ Goto(t, IF ref_count < 1 THEN "off_clear" ELSE "idle")
  /\ UNCHANGED <<active, ref_count, sys, n_threads, depth>>

\* mutant: the record is reset to thread 0 instead of SC_NULL_THREAD
OffClear_ThreadZero(t) ==
  /\ At(t, "off_clear")
  /\ ref_count' = 0
  /\ active' = Main
  /\ Goto(t, "off_unlock")
  /\ UNCHANGED <<sys, n_threads, depth>>

OffClear(t) ==
  /\ At(t, "off_clear")
  /\ ref_count' = 0
  /\ active' = NoThread
  /\ Goto(t, "off_unlock")
  /\ UNCHANGED <<sys, n_threads, depth>>

\* mutant: the mutex is not given back
OffUnlock_Kept(t) ==
  /\ At(t, "off_unlock")
  /\ Goto(t, "idle")
  /\ UNCHANGED <<active, ref_count, sys, n_threads, depth>>

OffUnlock(t) ==
  /\ At(t, "off_unlock")
  /\ sys' = IF MultiThreaded THEN NoThread ELSE sys
  /\ Goto(t, "idle")
  /\ UNCHANGED <<active, ref_count, n_threads, depth>>

-----------------------------------------------------------------------------

LockOn(t)  == OnTest(t) \/ OnWait(t) \/ OnOwn(t) \/ OnCount(t)
LockOff(t) == OffDec(t) \/ OffTest(t) \/ OffClear(t) \/ OffUnlock(t)

Next == \/ InitThreads
        \/ \E t \in Threads : CallOn(t) \/ CallOff(t) \/ LockOn(t) \/ LockOff(t)

Spec == Init /\ [][Next]_vars

\* A thread that entered the lock code keeps running, and one that is inside
\* the lock sooner or later leaves it.
Fairness == \A t \in Threads : /\ WF_vars(LockOn(t) \/ LockOff(t))
                               /\ WF_vars(CallOff(t))

FairSpec == Spec /\ Fairness

-----------------------------------------------------------------------------
(* Properties *)

PCs == {"idle", "on_test", "on_wait", "on_own", "on_count",
        "off_dec", "off_test", "off_clear", "off_unlock"}

\* The values the record and the threads' counters range over.
TypeOK == /\ active \in Threads \cup {NoThread}
          /\ ref_count \in Nat
          /\ sys \in Threads \cup {NoThread}
          /\ n_threads \in {-1, NThreads}
          /\ pc \in [Threads -> PCs]
          /\ depth \in [Threads -> Nat]

\* A thread that has come back from lockon without a matching lockoff is the
\* only one: what every SC_LOCKON region of score relies on.
MutualExclusion ==
  \A t, u \in Threads : depth[t] > 0 /\ depth[u] > 0 => t = u

\* The holder's nesting is what ref_count says, also when other threads test
\* the record in the middle of it: "only the active thread manages the
\* reference count" (_SC_eth_lockon).
CountMatchesNesting ==
  \A t \in Threads : depth[t] > 0 => active = t /\ ref_count = depth[t]

\* When every thread has left as often as it entered, the mutex is free and
\* the record is blank: no order of nested releases leaks the lock.
NoLeak ==
  (\A t \in Threads : At(t, "idle") /\ depth[t] = 0)
     => sys = NoThread /\ active = NoThread /\ ref_count = 0

\* The lock record tells the truth: it names the one thread that is inside
\* and its nesting, and nobody when nobody is.
RecordIsTrue == MutualExclusion /\ CountMatchesNesting /\ NoLeak

\* The note in _SC_eth_lockon: "the outcome of this test cannot be effected by
\* any thread except the one that got through the lock to set lck->active".
\* While t is about to test, no step of another thread changes the answer.
RaceBenign ==
  [][\A t \in Threads : At(t, "on_test") => (active = t <=> active' = t)]_vars

Inside(t) == depth[t] > 0
Owner     == IF \E t \in Threads : Inside(t)
             THEN CHOOSE t \in Threads : Inside(t) ELSE NoThread
Count     == IF Owner = NoThread THEN 0 ELSE depth[Owner]

Monitor == INSTANCE Monitor WITH owner <- Owner, count <- Count

\* The lock record implements the re-entrant monitor its callers see.
ImplementsMonitor == Monitor!Spec

\* A thread never waits for itself: a nested lockon of the holder returns.
ReentryReturns ==
  \A t \in Threads : At(t, "on_test") /\ depth[t] > 0 ~> At(t, "idle")

\* A lock somebody waits for is sooner or later taken by somebody.
WaiterProgress ==
  (\E t \in Threads : At(t, "on_wait")) ~> (\E t \in Threads : depth[t] > 0)
=============================================================================
