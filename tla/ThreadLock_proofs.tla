-------------------------- MODULE ThreadLock_proofs --------------------------
(***************************************************************************)
(* The lock of score is a re-entrant monitor, for any number of threads    *)
(* and any nesting.  The invariant says which program points own the       *)
(* mutex, and ties the record to the owner.                                *)
(***************************************************************************)
EXTENDS ThreadLock, TLAPS

\* t got through the mutex and has not given it back
Owns(t) == \/ depth[t] > 0
           \/ pc[t] \in {"on_own", "on_count", "off_test", "off_clear", "off_unlock"}

\* t is the thread named by lock->active
Recorded(t) == \/ depth[t] > 0
               \/ pc[t] \in {"on_count", "off_test", "off_clear"}

MutexInv == IF MultiThreaded
            THEN \A t \in Threads : Owns(t) <=> sys = t
            ELSE /\ sys = NoThread
                 /\ \A t \in Threads \ {Main} : pc[t] = "idle" /\ depth[t] = 0

ActiveInv == \A t \in Threads : Recorded(t) <=> active = t

CountInv == /\ active = NoThread => ref_count = 0
            /\ \A t \in Threads : active = t => ref_count = depth[t]

DepthInv == \A t \in Threads :
  /\ pc[t] = "off_dec" => depth[t] > 0
  /\ pc[t] \in {"on_wait", "on_own", "off_clear", "off_unlock"} => depth[t] = 0

IInv == TypeOK /\ MutexInv /\ ActiveInv /\ CountInv /\ DepthInv
-----------------------------------------------------------------------------

\* Two threads that own the lock are one thread.
LEMMA OneOwner ==
  ASSUME IInv, NEW t \in Threads, NEW u \in Threads, Owns(t), Owns(u)
  PROVE  t = u
BY MainAssumption DEF IInv, TypeOK, MutexInv, Owns

\* Every thread the record names owns the mutex.
LEMMA RecordedOwns ==
  ASSUME NEW t \in Threads, Recorded(t)
  PROVE  Owns(t)
BY DEF Recorded, Owns

\* The invariant holds when the program starts.
LEMMA InitInv == Init => IInv
BY NoThreadAssumption, NThreadsAssumption, MainAssumption
DEF Init, IInv, TypeOK, MutexInv, ActiveInv, CountInv, DepthInv, MultiThreaded,
    Owns, Recorded, PCs

\* Every step of lockon, lockoff and SC_init_threads preserves it.
LEMMA StepInv == IInv /\ [Next]_vars => IInv'
<1> SUFFICES ASSUME IInv, [Next]_vars PROVE IInv'
  OBVIOUS
<1> USE NoThreadAssumption, NThreadsAssumption, MainAssumption
<1> USE DEF IInv, TypeOK
<1>0. CASE InitThreads
  <2>1. TypeOK'
    BY <1>0 DEF InitThreads
  <2>2. MutexInv'
    BY <1>0 DEF InitThreads, MutexInv, MultiThreaded, Owns
  <2>3. (ActiveInv /\ CountInv /\ DepthInv)'
    BY <1>0 DEF InitThreads, ActiveInv, CountInv, DepthInv, Recorded
  <2> QED
    BY <2>1, <2>2, <2>3
<1>1. ASSUME NEW t \in Threads, CallOn(t) PROVE IInv'
  <2>1. TypeOK'
    BY <1>1 DEF CallOn, At, Goto, PCs, MultiThreaded, DepthInv
  <2>2. MutexInv'
    BY <1>1 DEF CallOn, At, Goto, MutexInv, MultiThreaded, Owns, DepthInv, ActiveInv, Recorded, CountInv, Running
  <2>3. ActiveInv'
    BY <1>1 DEF CallOn, At, Goto, MutexInv, MultiThreaded, Owns, DepthInv, ActiveInv, Recorded, CountInv
  <2>4. CountInv'
    BY <1>1 DEF CallOn, At, Goto, MutexInv, MultiThreaded, Owns, DepthInv, ActiveInv, Recorded, CountInv
  <2>5. DepthInv'
    BY <1>1 DEF CallOn, At, Goto, DepthInv, ActiveInv, Recorded, CountInv
  <2> QED
    BY <2>1, <2>2, <2>3, <2>4, <2>5
<1>2. ASSUME NEW t \in Threads, CallOff(t) PROVE IInv'
  <2>1. TypeOK'
    BY <1>2 DEF CallOff, At, Goto, PCs, MultiThreaded, DepthInv
  <2>2. MutexInv'
    BY <1>2 DEF CallOff, At, Goto, MutexInv, MultiThreaded, Owns, DepthInv, ActiveInv, Recorded, CountInv, Running
  <2>3. ActiveInv'
    BY <1>2 DEF CallOff, At, Goto, MutexInv, MultiThreaded, Owns, DepthInv, ActiveInv, Recorded, CountInv
  <2>4. CountInv'
    BY <1>2 DEF CallOff, At, Goto, MutexInv, MultiThreaded, Owns, DepthInv, ActiveInv, Recorded, CountInv
  <2>5. DepthInv'
    BY <1>2 DEF CallOff, At, Goto, DepthInv, ActiveInv, Recorded, CountInv
  <2> QED
    BY <2>1, <2>2, <2>3, <2>4, <2>5
<1>3. ASSUME NEW t \in Threads, OnTest(t) PROVE IInv'
  <2>1. TypeOK'
    BY <1>3 DEF OnTest, At, Goto, PCs, MultiThreaded, DepthInv
  <2>2. MutexInv'
    BY <1>3 DEF OnTest, At, Goto, MutexInv, MultiThreaded, Owns, DepthInv, ActiveInv, Recorded, CountInv, Running
  <2>3. ActiveInv'
    BY <1>3 DEF OnTest, At, Goto, MutexInv, MultiThreaded, Owns, DepthInv, ActiveInv, Recorded, CountInv
  <2>4. CountInv'
    BY <1>3 DEF OnTest, At, Goto, MutexInv, MultiThreaded, Owns, DepthInv, ActiveInv, Recorded, CountInv
  <2>5. DepthInv'
    BY <1>3 DEF OnTest, At, Goto, DepthInv, ActiveInv, Recorded, CountInv
  <2> QED
    BY <2>1, <2>2, <2>3, <2>4, <2>5
<1>4. ASSUME NEW t \in Threads, OnWait(t) PROVE IInv'
  <2>1. TypeOK'
    BY <1>4 DEF OnWait, At, Goto, PCs, MultiThreaded, DepthInv
  <2>2. MutexInv'
    BY <1>4 DEF OnWait, At, Goto, MutexInv, MultiThreaded, Owns, DepthInv, ActiveInv, Recorded, CountInv, Running
  <2>3. ActiveInv'
    BY <1>4 DEF OnWait, At, Goto, MutexInv, MultiThreaded, Owns, DepthInv, ActiveInv, Recorded, CountInv
  <2>4. CountInv'
    BY <1>4 DEF OnWait, At, Goto, MutexInv, MultiThreaded, Owns, DepthInv, ActiveInv, Recorded, CountInv
  <2>5. DepthInv'
    BY <1>4 DEF OnWait, At, Goto, DepthInv, ActiveInv, Recorded, CountInv
  <2> QED
    BY <2>1, <2>2, <2>3, <2>4, <2>5
<1>5. ASSUME NEW t \in Threads, OnOwn(t) PROVE IInv'
  <2>1. TypeOK'
    BY <1>5 DEF OnOwn, At, Goto, PCs, MultiThreaded, DepthInv
  <2>2. MutexInv'
    BY <1>5 DEF OnOwn, At, Goto, MutexInv, MultiThreaded, Owns, DepthInv, ActiveInv, Recorded, CountInv, Running
  <2>3. ActiveInv'
    BY <1>5 DEF OnOwn, At, Goto, MutexInv, MultiThreaded, Owns, DepthInv, ActiveInv, Recorded, CountInv
  <2>4. CountInv'
    BY <1>5 DEF OnOwn, At, Goto, MutexInv, MultiThreaded, Owns, DepthInv, ActiveInv, Recorded, CountInv
  <2>5. DepthInv'
    BY <1>5 DEF OnOwn, At, Goto, DepthInv, ActiveInv, Recorded, CountInv
  <2> QED
    BY <2>1, <2>2, <2>3, <2>4, <2>5
<1>6. ASSUME NEW t \in Threads, OnCount(t) PROVE IInv'
  <2>1. TypeOK'
    BY <1>6 DEF OnCount, At, Goto, PCs, MultiThreaded, DepthInv
  <2>2. MutexInv'
    BY <1>6 DEF OnCount, At, Goto, MutexInv, MultiThreaded, Owns, DepthInv, ActiveInv, Recorded, CountInv, Running
  <2>3. ActiveInv'
    BY <1>6 DEF OnCount, At, Goto, MutexInv, MultiThreaded, Owns, DepthInv, ActiveInv, Recorded, CountInv
  <2>4. CountInv'
    BY <1>6 DEF OnCount, At, Goto, MutexInv, MultiThreaded, Owns, DepthInv, ActiveInv, Recorded, CountInv
  <2>5. DepthInv'
    BY <1>6 DEF OnCount, At, Goto, DepthInv, ActiveInv, Recorded, CountInv
  <2> QED
    BY <2>1, <2>2, <2>3, <2>4, <2>5
<1>7. ASSUME NEW t \in Threads, OffDec(t) PROVE IInv'
  <2>1. TypeOK'
    BY <1>7 DEF OffDec, At, Goto, PCs, DepthInv, CountInv, ActiveInv, Recorded
  <2>2. MutexInv'
    BY <1>7 DEF OffDec, At, Goto, MutexInv, MultiThreaded, Owns, DepthInv, ActiveInv, Recorded, CountInv, Running
  <2>3. ActiveInv'
    BY <1>7 DEF OffDec, At, Goto, MutexInv, MultiThreaded, Owns, DepthInv, ActiveInv, Recorded, CountInv
  <2>4. CountInv'
    BY <1>7 DEF OffDec, At, Goto, MutexInv, MultiThreaded, Owns, DepthInv, ActiveInv, Recorded, CountInv
  <2>5. DepthInv'
    BY <1>7 DEF OffDec, At, Goto, DepthInv, ActiveInv, Recorded, CountInv
  <2> QED
    BY <2>1, <2>2, <2>3, <2>4, <2>5
<1>8. ASSUME NEW t \in Threads, OffTest(t) PROVE IInv'
  <2>1. TypeOK'
    BY <1>8 DEF OffTest, At, Goto, PCs, MultiThreaded, DepthInv
  <2>2. MutexInv'
    BY <1>8 DEF OffTest, At, Goto, MutexInv, MultiThreaded, Owns, DepthInv, ActiveInv, Recorded, CountInv, Running
  <2>3. ActiveInv'
    BY <1>8 DEF OffTest, At, Goto, MutexInv, MultiThreaded, Owns, DepthInv, ActiveInv, Recorded, CountInv
  <2>4. CountInv'
    BY <1>8 DEF OffTest, At, Goto, MutexInv, MultiThreaded, Owns, DepthInv, ActiveInv, Recorded, CountInv
  <2>5. DepthInv'
    BY <1>8 DEF OffTest, At, Goto, DepthInv, ActiveInv, Recorded, CountInv
  <2> QED
    BY <2>1, <2>2, <2>3, <2>4, <2>5
<1>9. ASSUME NEW t \in Threads, OffClear(t) PROVE IInv'
  <2>1. TypeOK'
    BY <1>9 DEF OffClear, At, Goto, PCs, MultiThreaded, DepthInv
  <2>2. MutexInv'
    BY <1>9 DEF OffClear, At, Goto, MutexInv, MultiThreaded, Owns, DepthInv, ActiveInv, Recorded, CountInv, Running
  <2>3. ActiveInv'
    BY <1>9 DEF OffClear, At, Goto, MutexInv, MultiThreaded, Owns, DepthInv, ActiveInv, Recorded, CountInv
  <2>4. CountInv'
    BY <1>9 DEF OffClear, At, Goto, MutexInv, MultiThreaded, Owns, DepthInv, ActiveInv, Recorded, CountInv
  <2>5. DepthInv'
    BY <1>9 DEF OffClear, At, Goto, DepthInv, ActiveInv, Recorded, CountInv
  <2> QED
    BY <2>1, <2>2, <2>3, <2>4, <2>5
<1>10. ASSUME NEW t \in Threads, OffUnlock(t) PROVE IInv'
  <2>1. TypeOK'
    BY <1>10 DEF OffUnlock, At, Goto, PCs, MultiThreaded, DepthInv
  <2>2. MutexInv'
    BY <1>10 DEF OffUnlock, At, Goto, MutexInv, MultiThreaded, Owns, DepthInv, ActiveInv, Recorded, CountInv, Running
  <2>3. ActiveInv'
    BY <1>10 DEF OffUnlock, At, Goto, MutexInv, MultiThreaded, Owns, DepthInv, ActiveInv, Recorded, CountInv
  <2>4. CountInv'
    BY <1>10 DEF OffUnlock, At, Goto, MutexInv, MultiThreaded, Owns, DepthInv, ActiveInv, Recorded, CountInv
  <2>5. DepthInv'
    BY <1>10 DEF OffUnlock, At, Goto, DepthInv, ActiveInv, Recorded, CountInv
  <2> QED
    BY <2>1, <2>2, <2>3, <2>4, <2>5
<1>11. CASE UNCHANGED vars
  BY <1>11 DEF vars, MutexInv, MultiThreaded, Owns, ActiveInv, Recorded, CountInv, DepthInv
<1> QED
  BY <1>0, <1>1, <1>2, <1>3, <1>4, <1>5, <1>6, <1>7, <1>8, <1>9, <1>10, <1>11
  DEF Next, LockOn, LockOff
-----------------------------------------------------------------------------

\* The invariant holds in every reachable state.
THEOREM Invariance == Spec => []IInv
BY InitInv, StepInv, PTL DEF Spec

\* The lock record and the threads' nesting stay in their ranges.
THEOREM TypeCorrect == Spec => []TypeOK
<1>1. IInv => TypeOK
  BY DEF IInv
<1> QED
  BY <1>1, Invariance, PTL

\* At most one thread is inside the lock, whatever the interleaving of the
\* unlocked owner test with the other threads' steps.
THEOREM Exclusion == Spec => []MutualExclusion
<1>1. IInv => MutualExclusion
  BY OneOwner DEF MutualExclusion, Owns
<1> QED
  BY <1>1, Invariance, PTL

\* ref_count is the nesting of the thread inside.
THEOREM CountCorrect == Spec => []CountMatchesNesting
<1>1. IInv => CountMatchesNesting
  BY DEF IInv, CountMatchesNesting, ActiveInv, CountInv, Recorded
<1> QED
  BY <1>1, Invariance, PTL

\* The lock is free when no thread is inside it or in its code.
THEOREM Released == Spec => []NoLeak
<1>1. IInv => NoLeak
  BY NoThreadAssumption
  DEF IInv, TypeOK, NoLeak, At, MutexInv, ActiveInv, CountInv, Owns, Recorded
<1> QED
  BY <1>1, Invariance, PTL

\* The lock record names the thread inside and its nesting, and nobody when
\* nobody is inside.
THEOREM RecordTrue == Spec => []RecordIsTrue
<1>1. MutualExclusion /\ CountMatchesNesting /\ NoLeak => RecordIsTrue
  BY DEF RecordIsTrue
<1> QED
  BY <1>1, Exclusion, CountCorrect, Released, PTL

\* The race the comment in _SC_eth_lockon admits cannot change the outcome of
\* the owner test.
THEOREM RaceIsBenign == Spec => RaceBenign
<1> DEFINE Stable == \A t \in Threads : At(t, "on_test") => (active = t <=> active' = t)
<1>1. IInv /\ [Next]_vars => [Stable]_vars
  <2> SUFFICES ASSUME IInv, Next, NEW t \in Threads, At(t, "on_test")
               PROVE  active = t <=> active' = t
    OBVIOUS
  <2>1. ASSUME NEW u \in Threads, OnOwn(u) PROVE active = t <=> active' = t
    <3>1. u # t /\ Owns(u)
      BY <2>1 DEF OnOwn, At, Owns
    <3>2. active # t
      BY <3>1, OneOwner, RecordedOwns DEF IInv, ActiveInv
    <3> QED
      BY <3>1, <3>2, <2>1 DEF OnOwn
  <2>2. ASSUME NEW u \in Threads, OffClear(u) PROVE active = t <=> active' = t
    <3>1. u # t /\ active = u
      BY <2>2 DEF OffClear, At, IInv, ActiveInv, Recorded
    <3> QED
      BY <3>1, <2>2, NoThreadAssumption DEF OffClear
  <2> QED
    BY <2>1, <2>2 DEF Next, LockOn, LockOff, InitThreads, CallOn, CallOff, OnTest,
       OnWait, OnCount, OffDec, OffTest, OffUnlock
<1> QED
  BY <1>1, Invariance, PTL DEF RaceBenign, Spec
-----------------------------------------------------------------------------

\* The monitor's owner is the thread inside the lock, if there is one.
OwnerInv == /\ \A t \in Threads : Inside(t) => Owner = t /\ Count = depth[t]
            /\ (\A t \in Threads : ~Inside(t)) => Owner = NoThread /\ Count = 0

\* The invariant makes the monitor's owner unique.
LEMMA OwnerUnique == IInv => OwnerInv
<1> SUFFICES ASSUME IInv PROVE OwnerInv
  OBVIOUS
<1>1. ASSUME NEW t \in Threads, Inside(t) PROVE Owner = t /\ Count = depth[t]
  <2>1. \A u \in Threads : Inside(u) => u = t
    BY <1>1, OneOwner DEF Inside, Owns
  <2>2. Owner = t
    BY <1>1, <2>1 DEF Owner
  <2> QED
    BY <2>2, NoThreadAssumption DEF Count
<1>2. ASSUME \A t \in Threads : ~Inside(t) PROVE Owner = NoThread /\ Count = 0
  BY <1>2 DEF Owner, Count
<1> QED
  BY <1>1, <1>2 DEF OwnerInv

\* A step that leaves every thread's nesting alone is a step the callers
\* cannot see.
LEMMA Stutter ==
  ASSUME depth' = depth
  PROVE  UNCHANGED <<Owner, Count>>
BY DEF Owner, Count, Inside

\* While t is inside, or has the lock but not counted itself in yet, nobody
\* else is inside.
LEMMA Alone ==
  ASSUME IInv, NEW t \in Threads, Owns(t), NEW u \in Threads \ {t}
  PROVE  ~Inside(u)
BY OneOwner DEF Inside, Owns

\* The lock record implements the re-entrant monitor: lockon takes effect when
\* it counts, lockoff when it takes its count back, and no other step shows.
THEOREM Refinement == Spec => ImplementsMonitor
<1>1. Init => Monitor!Init
  BY InitInv, OwnerUnique DEF OwnerInv, Init, Monitor!Init, Inside
<1>2. IInv /\ IInv' /\ [Next]_vars => [Monitor!Next]_Monitor!vars
  <2> SUFFICES ASSUME IInv, IInv', [Next]_vars
               PROVE  Monitor!Next \/ UNCHANGED <<Owner, Count>>
    BY DEF Monitor!vars
  <2>0. OwnerInv /\ OwnerInv'
    BY OwnerUnique, PTL
  <2>1. ASSUME NEW t \in Threads, OnCount(t) PROVE Monitor!Enter(t)
    <3>1. depth[t] \in Nat /\ depth'[t] = depth[t] + 1
      BY <2>1 DEF OnCount, IInv, TypeOK
    <3>2. Owner' = t /\ Count' = depth[t] + 1
      <4>1. Inside(t)'
        BY <3>1 DEF Inside
      <4>2. Owner' = t /\ Count' = depth'[t]
        BY <4>1, <2>0 DEF OwnerInv
      <4> QED
        BY <4>2, <3>1
    <3>3. CASE Inside(t)
      BY <3>3, <3>2, <2>0 DEF Monitor!Enter, OwnerInv
    <3>4. CASE ~Inside(t)
      <4>1. Owns(t)
        BY <2>1 DEF OnCount, At, Owns
      <4>2. \A u \in Threads : ~Inside(u)
        BY <3>4, <4>1, Alone
      <4>3. Owner = NoThread /\ Count = 0
        BY <4>2, <2>0 DEF OwnerInv
      <4>4. depth[t] = 0
        BY <3>4, <3>1 DEF Inside
      <4> QED
        BY <4>3, <4>4, <3>2 DEF Monitor!Enter
    <3> QED
      BY <3>3, <3>4
  <2>2. ASSUME NEW t \in Threads, OffDec(t) PROVE Monitor!Exit(t)
    <3>1. depth[t] \in Nat /\ depth[t] > 0 /\ depth'[t] = depth[t] - 1
      BY <2>2 DEF OffDec, At, IInv, TypeOK, DepthInv
    <3>2. Owner = t /\ Count = depth[t]
      BY <3>1, <2>0 DEF OwnerInv, Inside
    <3>3. CASE depth[t] = 1
      <4>1. \A u \in Threads \ {t} : ~Inside(u)
        BY <3>1, Alone DEF Owns
      <4>2. \A u \in Threads : ~Inside(u)'
        BY <4>1, <3>1, <3>3, <2>2 DEF OffDec, Inside, IInv, TypeOK
      <4>3. Owner' = NoThread /\ Count' = 0
        BY <4>2, <2>0 DEF OwnerInv
      <4> QED
        BY <4>3, <3>2, <3>3 DEF Monitor!Exit
    <3>4. CASE depth[t] # 1
      <4>1. Inside(t)'
        BY <3>1, <3>4 DEF Inside
      <4>2. Owner' = t /\ Count' = depth'[t]
        BY <4>1, <2>0 DEF OwnerInv
      <4> QED
        BY <4>2, <3>1, <3>2, <3>4 DEF Monitor!Exit
    <3> QED
      BY <3>3, <3>4
  <2>3. CASE depth' = depth
    BY <2>3, Stutter
  <2>4. (\E t \in Threads : OnCount(t) \/ OffDec(t)) \/ depth' = depth
    BY DEF Next, LockOn, LockOff, InitThreads, CallOn, CallOff, OnTest, OnWait,
       OnOwn, OffTest, OffClear, OffUnlock, vars
  <2> QED
    BY <2>1, <2>2, <2>3, <2>4 DEF Monitor!Next
<1> QED
  BY <1>1, <1>2, Invariance, PTL DEF Spec, ImplementsMonitor, Monitor!Spec
=============================================================================
