-------------------------- MODULE JobServer_proofs --------------------------
(***************************************************************************)
(* For any jobs, any number of attempts and any directories: subtasks are  *)
(* attempted in order and no more often than they may be, the status       *)
(* reported is the one there is, jobs are answered once or lost, and, if   *)
(* cds name their target absolutely, run in their own directory.           *)
(*                                                                         *)
(* The invariant ties the two counts and the attempt count of a job to the *)
(* history of its attempts.  c is the number of the subtask at hand, the   *)
(* one whose process runs or the next one to be launched, and k the number *)
(* of attempts of it counted so far.                                       *)
(***************************************************************************)
EXTENDS JobServer, TLAPS

Statuses == {Ok, Failed, NotFinished}
Attempt  == [task : Nat, st : Statuses]

\* The last attempt is the highest.
Sorted(L) == \A n \in DOMAIN L : L[n].task <= L[Len(L)].task

\* A history after which subtask c is at hand, k attempts of it counted.
AtHand(L, c, k) ==
  /\ L = <<>> => c = 1
  /\ L # <<>> => Follows(L[Len(L)], c)
  /\ \A n \in DOMAIN L : L[n].task = c => Len(L) - n < k
  /\ L # <<>> /\ L[Len(L)].task = c => k < NA

\* The attempts counted were made of c, if nothing else was counted.
Counted(L, c, k) ==
  ~ignore /\ Opened(L) /\ k > 0 => k <= Len(L) /\ L[Len(L) - k + 1].task = c

InHand(L, c, k) == /\ AtHand(L, c, k) /\ Counted(L, c, k)
                   /\ ~ignore => DoneTo(L, c - 1)

Current(t) == IF t.pp = "none" THEN t.nl + 1 ELSE t.nl

Made(t) == IF t.pp = "none" THEN t.ia ELSE t.ia - 1

Finished(t, size) == t.pp = "none" /\ t.nl = size

\* What is so of a job that the program has in its list.
ListedInv(t, L, size) ==
  /\ t.pp # "none" => t.nc < t.nl /\ t.ia > 0
  /\ ~Finished(t, size) => InHand(L, Current(t), Made(t))
  /\ Finished(t, size) /\ driver = "server" => Honest(t.status, L, size)

AheadInv(t, L) == t.pp = "none" /\ t.nl = 0 /\ t.nc = 0 /\ t.ia = 0 /\ L = <<>>

\* What is so of a job with its history and its replies.
JobInv(t, L, r, size) ==
  /\ L \in Seq(Attempt) /\ InOrder(L) /\ Sorted(L)
  /\ t.place = "ahead" => AheadInv(t, L)
  /\ t.place = "listed" => ListedInv(t, L, size)
  /\ t.place # "gone" => r = <<>>
  /\ t.place = "gone" => /\ r \in Seq(Statuses) /\ Len(r) = 1
                         /\ driver = "server" => Honest(r[1], L, size)

JobsInv == \A j \in Jobs : JobInv(job[j], log[j], replies[j], Size(j))

BusyInv == /\ busy # Nobody => Listed(busy)
           /\ launching => driver = "SC_exec"

Histories == log \in [Jobs -> Seq(Attempt)] /\ replies \in [Jobs -> Seq(Statuses)]

IInv == TypeOK /\ Histories /\ BusyInv /\ JobsInv

USE DEF Ok, Failed, NotFinished
-----------------------------------------------------------------------------
(* Histories.                                                              *)

LEMMA Attempts == NA \in Nat /\ NA >= 1 /\ \A j \in Jobs : Size(j) \in Nat /\ Size(j) >= 1
BY JobAssumption DEF Size

LEMMA Places == Nobody \notin Jobs /\ Home \in Dirs /\ \A j \in Jobs : Start[j] \in Dirs
BY JobAssumption

\* What a history with one attempt more is.
LEMMA Appended ==
  ASSUME NEW L \in Seq(Attempt), NEW e \in Attempt
  PROVE  LET M == Append(L, e) IN
           /\ M \in Seq(Attempt) /\ Len(M) = Len(L) + 1 /\ Len(L) \in Nat
           /\ DOMAIN M = 1..Len(L) + 1 /\ DOMAIN L = 1..Len(L)
           /\ \A n \in 1..Len(L) : M[n] = L[n] /\ L[n] \in Attempt
           /\ M[Len(L) + 1] = e /\ M # <<>> /\ (L = <<>> <=> Len(L) = 0)
OBVIOUS

\* An attempt of the subtask at hand keeps the order of a history.
LEMMA Extended ==
  ASSUME NEW L \in Seq(Attempt), InOrder(L), Sorted(L),
         NEW c \in Nat, NEW k \in Nat, AtHand(L, c, k),
         NEW e \in Attempt, e.task = c
  PROVE  InOrder(Append(L, e)) /\ Sorted(Append(L, e))
<1> DEFINE M == Append(L, e)
<1>1. M \in Seq(Attempt) /\ Len(M) = Len(L) + 1 /\ Len(L) \in Nat
  BY Appended
<1>2. \A n \in 1..Len(L) : M[n] = L[n] /\ L[n] \in Attempt
  BY Appended
<1>3. M[Len(L) + 1] = e /\ M # <<>> /\ (L = <<>> <=> Len(L) = 0)
  BY Appended
<1>4. DOMAIN M = 1..Len(L) + 1 /\ DOMAIN L = 1..Len(L)
  BY Appended
<1> HIDE DEF M
<1>5. \A n \in 1..Len(L) : L[n].task <= c
  BY <1>2, <1>3, <1>4 DEF Sorted, AtHand, Follows, Attempt
<1>6. Sorted(M)
  <2>1. M[Len(M)] = e
    BY <1>1, <1>3
  <2>2. ASSUME NEW n \in DOMAIN M PROVE M[n].task <= c
    <3>1. CASE n = Len(L) + 1
      BY <3>1, <1>3
    <3>2. CASE n # Len(L) + 1
      BY <3>2, <1>1, <1>2, <1>4, <1>5
    <3> QED
      BY <3>1, <3>2
  <2> QED
    BY <2>1, <2>2 DEF Sorted
<1>7. M[1].task = 1
  BY <1>1, <1>2, <1>3 DEF InOrder, AtHand
<1>8. \A n \in 1..Len(M) - 1 : Follows(M[n], M[n + 1].task)
  <2> TAKE n \in 1..Len(M) - 1
  <2>1. CASE n = Len(L)
    BY <2>1, <1>1, <1>2, <1>3 DEF AtHand
  <2>2. CASE n # Len(L)
    BY <2>2, <1>1, <1>2 DEF InOrder
  <2> QED
    BY <2>1, <2>2
<1>9. \A n \in 1..Len(M) - NA : M[n + NA].task # M[n].task
  <2> TAKE n \in 1..Len(M) - NA
  <2>1. CASE n + NA = Len(M)
    <3>1. n \in 1..Len(L) /\ Len(L) - n = NA - 1
      BY <2>1, <1>1, Attempts
    <3>2. ASSUME L[n].task = c PROVE FALSE
      <4>1. L[Len(L)].task = c
        <5>1. c <= L[Len(L)].task
          BY <3>1, <3>2, <1>4 DEF Sorted
        <5>2. Len(L) \in 1..Len(L)
          BY <3>1, <1>1
        <5>3. L[Len(L)].task <= c /\ L[Len(L)] \in Attempt
          BY <5>2, <1>2, <1>5
        <5>4. L[Len(L)].task \in Nat
          BY <5>3 DEF Attempt
        <5> QED
          BY <5>1, <5>3, <5>4
      <4>2. Len(L) - n < k
        BY <3>1, <3>2, <1>4 DEF AtHand
      <4>3. k < NA
        BY <3>1, <4>1, <1>3 DEF AtHand
      <4> QED
        BY <3>1, <4>2, <4>3, <1>1, Attempts
    <3> QED
      BY <3>1, <3>2, <2>1, <1>1, <1>2, <1>3
  <2>2. CASE n + NA # Len(M)
    <3>1. n \in 1..Len(L) - NA /\ n \in 1..Len(L) /\ n + NA \in 1..Len(L)
      BY <2>2, <1>1, Attempts
    <3>2. L[n + NA].task # L[n].task
      BY <3>1 DEF InOrder
    <3> QED
      BY <3>1, <3>2, <1>2
  <2> QED
    BY <2>1, <2>2
<1> QED
  BY <1>6, <1>7, <1>8, <1>9 DEF InOrder, M

\* A failed attempt that is to be followed by another one.
LEMMA Again ==
  ASSUME NEW L \in Seq(Attempt), NEW c \in Nat, NEW k \in Nat, InHand(L, c, k),
         NEW e \in Attempt, e.task = c, e.st = Failed, k + 1 < NA
  PROVE  InHand(Append(L, e), c, k + 1)
<1> DEFINE M == Append(L, e)
<1>1. M \in Seq(Attempt) /\ Len(M) = Len(L) + 1 /\ Len(L) \in Nat
  BY Appended
<1>2. \A n \in 1..Len(L) : M[n] = L[n] /\ L[n] \in Attempt
  BY Appended
<1>3. M[Len(L) + 1] = e /\ M # <<>> /\ (L = <<>> <=> Len(L) = 0)
  BY Appended
<1>4. DOMAIN M = 1..Len(L) + 1 /\ DOMAIN L = 1..Len(L)
  BY Appended
<1> HIDE DEF M
<1>5. AtHand(M, c, k + 1)
  <2>1. \A n \in DOMAIN M : M[n].task = c => Len(M) - n < k + 1
    BY <1>1, <1>2, <1>3, <1>4 DEF InHand, AtHand
  <2> QED
    BY <2>1, <1>1, <1>3 DEF AtHand, Follows
<1>6. Counted(M, c, k + 1)
  <2> SUFFICES ASSUME ~ignore, Opened(M)
               PROVE  k + 1 <= Len(M) /\ M[Len(M) - (k + 1) + 1].task = c
    BY DEF Counted
  <2>1. Opened(L)
    BY <1>2, <1>4 DEF Opened
  <2>2. CASE k = 0
    BY <2>2, <1>1, <1>3
  <2>3. CASE k > 0
    BY <2>1, <2>3, <1>1, <1>2 DEF InHand, Counted
  <2> QED
    BY <2>2, <2>3
<1>7. ~ignore => DoneTo(M, c - 1)
  BY <1>2, <1>4 DEF InHand, DoneTo
<1> QED
  BY <1>5, <1>6, <1>7 DEF InHand, M

\* An attempt after which the next subtask is at hand.
LEMMA OnToNext ==
  ASSUME NEW L \in Seq(Attempt), Sorted(L),
         NEW c \in Nat, NEW k \in Nat, InHand(L, c, k),
         NEW e \in Attempt, e.task = c, e.st # Failed \/ ignore,
         NEW m \in Nat, m = 0 \/ ignore \/ e.st = NotFinished
  PROVE  InHand(Append(L, e), c + 1, m)
<1> DEFINE M == Append(L, e)
<1>1. M \in Seq(Attempt) /\ Len(M) = Len(L) + 1 /\ Len(L) \in Nat
  BY Appended
<1>2. \A n \in 1..Len(L) : M[n] = L[n] /\ L[n] \in Attempt
  BY Appended
<1>3. M[Len(L) + 1] = e /\ M # <<>> /\ (L = <<>> <=> Len(L) = 0)
  BY Appended
<1>4. DOMAIN M = 1..Len(L) + 1 /\ DOMAIN L = 1..Len(L)
  BY Appended
<1> HIDE DEF M
<1>5. \A n \in 1..Len(L) : L[n].task <= c
  BY <1>2, <1>3, <1>4 DEF Sorted, InHand, AtHand, Follows, Attempt
<1>6. AtHand(M, c + 1, m)
  <2>1. \A n \in DOMAIN M : M[n].task # c + 1
    BY <1>1, <1>2, <1>3, <1>4, <1>5 DEF Attempt
  <2>2. M[Len(M)] = e /\ Follows(e, c + 1)
    BY <1>1, <1>3 DEF Follows
  <2> QED
    BY <2>1, <2>2, <1>1, <1>3, <1>4 DEF AtHand
<1>7. Counted(M, c + 1, m)
  BY <1>1, <1>3, <1>4 DEF Counted, Opened
<1>8. ~ignore => DoneTo(M, c)
  <2> SUFFICES ASSUME ~ignore, NEW i \in 1..c
               PROVE  \E n \in DOMAIN M : M[n].task = i /\ M[n].st # Failed
    BY DEF DoneTo
  <2>1. CASE i = c
    BY <2>1, <1>1, <1>3, <1>4
  <2>2. CASE i # c
    BY <2>2, <1>2, <1>4 DEF InHand, DoneTo
  <2> QED
    BY <2>1, <2>2
<1> QED
  BY <1>6, <1>7, <1>8 DEF InHand, M

\* A job all of whose subtasks have been attempted, whose status is that of
\* the last attempt.
LEMMA AllAttempted ==
  ASSUME NEW L \in Seq(Attempt), NEW e \in Attempt, NEW c \in Nat, NEW m \in Nat,
         e.task = c, e.st # Failed \/ ignore, InHand(Append(L, e), c + 1, m)
  PROVE  Honest(e.st, Append(L, e), c)
<1> DEFINE M == Append(L, e)
<1>1. M # <<>> /\ Len(M) \in Nat /\ M[Len(M)] = e
  BY Appended
<1>2. ~ignore => DoneTo(M, c)
  BY DEF InHand
<1> HIDE DEF M
<1> QED
  BY <1>1, <1>2 DEF Honest, Last, M

\* A job given up.
LEMMA LastFailed ==
  ASSUME NEW L \in Seq(Attempt), Sorted(L),
         NEW c \in Nat, NEW k \in Nat, InHand(L, c, k),
         NEW e \in Attempt, e.task = c, e.st = Failed, k + 1 >= NA, ~ignore,
         NEW size \in Nat
  PROVE  Honest(Failed, Append(L, e), size)
<1> DEFINE M == Append(L, e)
<1>1. M \in Seq(Attempt) /\ Len(M) = Len(L) + 1 /\ Len(L) \in Nat
  BY Appended
<1>2. \A n \in 1..Len(L) : M[n] = L[n] /\ L[n] \in Attempt
  BY Appended
<1>3. M[Len(L) + 1] = e /\ M # <<>> /\ (L = <<>> <=> Len(L) = 0)
  BY Appended
<1>4. DOMAIN M = 1..Len(L) + 1 /\ DOMAIN L = 1..Len(L)
  BY Appended
<1> HIDE DEF M
<1>5. ASSUME Opened(M) PROVE NA <= Len(M) /\ M[Len(M) - NA + 1].task = c
  <2>1. Opened(L)
    BY <1>5, <1>2, <1>4 DEF Opened
  <2>2. CASE k = 0
    BY <2>2, <1>1, <1>3, Attempts
  <2>3. CASE k > 0
    <3>1. k <= Len(L) /\ L[Len(L) - k + 1].task = c
      BY <2>1, <2>3 DEF InHand, Counted
    <3>2. L # <<>> /\ Follows(L[Len(L)], c) /\ L[Len(L)] \in Attempt
      BY <3>1, <2>3, <1>1, <1>2, <1>3 DEF InHand, AtHand
    <3>3. c <= L[Len(L)].task
      BY <3>1, <2>3, <1>1, <1>4 DEF Sorted
    <3>4. L[Len(L)].task = c
      BY <3>2, <3>3 DEF Follows, Attempt
    <3>5. k < NA
      BY <3>2, <3>4 DEF InHand, AtHand
    <3>6. k + 1 = NA
      BY <3>5, Attempts
    <3>7. Len(L) - k + 1 \in 1..Len(L) /\ Len(M) - NA + 1 = Len(L) - k + 1
      BY <3>1, <3>6, <2>3, <1>1
    <3> QED
      BY <3>1, <3>6, <3>7, <1>1, <1>2
  <2> QED
    BY <2>2, <2>3
<1> QED
  BY <1>1, <1>3, <1>5 DEF Honest, Last, M
-----------------------------------------------------------------------------
(* One job.                                                                *)

\* The counts of a job as numbers.
LEMMA Counts ==
  ASSUME NEW t \in Task, NEW L, NEW size \in Nat, ListedInv(t, L, size), ~Finished(t, size),
         t.nl <= size
  PROVE  /\ Current(t) \in Nat /\ Made(t) \in Nat /\ InHand(L, Current(t), Made(t))
         /\ t.pp = "none" => Current(t) = t.nl + 1 /\ Made(t) = t.ia /\ t.nl < size
         /\ t.pp # "none" => Current(t) = t.nl /\ Made(t) = t.ia - 1 /\ t.nl > 0
<1>1. t.nl \in Nat /\ t.nc \in Nat /\ t.ia \in Nat
  BY DEF Task
<1> QED
  BY <1>1 DEF ListedInv, Finished, Current, Made

\* What an attempt makes of a job: the subtask is to be launched again (1),
\* is done with (2), or the job is given up (3).
LEMMA Attempted ==
  ASSUME NEW t \in Task, NEW u \in Task, NEW L, NEW size \in Nat, NEW e \in Attempt,
         JobInv(t, L, <<>>, size), t.place = "listed", ~Finished(t, size), t.nl <= size,
         e.task = Current(t), u.place = "listed", u.pp = "none",
         \/ e.st = Failed /\ Made(t) + 1 < NA /\ u.nl + 1 = Current(t) /\ u.nl < size
                          /\ u.ia = Made(t) + 1
         \/ (e.st # Failed \/ ignore) /\ u.nl = Current(t) /\ u.status = e.st
                                      /\ (u.ia = 0 \/ ignore \/ e.st = NotFinished)
         \/ e.st = Failed /\ ~ignore /\ Made(t) + 1 >= NA /\ u.nl = size
                          /\ u.status = Failed
  PROVE  JobInv(u, Append(L, e), <<>>, size)
<1>1. L \in Seq(Attempt) /\ InOrder(L) /\ Sorted(L) /\ ListedInv(t, L, size)
  BY DEF JobInv
<1>2. Current(t) \in Nat /\ Made(t) \in Nat /\ InHand(L, Current(t), Made(t))
  BY <1>1, Counts
<1>3. Append(L, e) \in Seq(Attempt)
  BY <1>1, Appended
<1>4. InOrder(Append(L, e)) /\ Sorted(Append(L, e))
  BY <1>1, <1>2, Extended DEF InHand
<1>5. Current(u) = u.nl + 1 /\ Made(u) = u.ia /\ u.nl \in Nat /\ u.ia \in Nat
  BY DEF Current, Made, Task
<1>6. ListedInv(u, Append(L, e), size)
  <2>1. CASE e.st = Failed /\ Made(t) + 1 < NA /\ u.nl + 1 = Current(t) /\ u.nl < size
               /\ u.ia = Made(t) + 1
    <3>1. InHand(Append(L, e), Current(t), Made(t) + 1)
      BY <2>1, <1>1, <1>2, Again
    <3>2. ~Finished(u, size)
      BY <2>1, <1>5 DEF Finished
    <3> QED
      BY <2>1, <3>1, <3>2, <1>5 DEF ListedInv
  <2>2. CASE (e.st # Failed \/ ignore) /\ u.nl = Current(t) /\ u.status = e.st
               /\ (u.ia = 0 \/ ignore \/ e.st = NotFinished)
    <3>1. InHand(Append(L, e), Current(t) + 1, u.ia)
      BY <2>2, <1>1, <1>2, <1>5, OnToNext
    <3>2. Honest(u.status, Append(L, e), Current(t))
      BY <2>2, <3>1, <1>1, <1>2, <1>5, AllAttempted
    <3>3. Finished(u, size) => Current(t) = size
      BY <2>2 DEF Finished
    <3> QED
      BY <2>2, <3>1, <3>2, <3>3, <1>5 DEF ListedInv
  <2>3. CASE e.st = Failed /\ ~ignore /\ Made(t) + 1 >= NA /\ u.nl = size /\ u.status = Failed
    <3>1. Honest(Failed, Append(L, e), size)
      BY <2>3, <1>1, <1>2, LastFailed
    <3>2. Finished(u, size)
      BY <2>3 DEF Finished
    <3> QED
      BY <2>3, <3>1, <3>2 DEF ListedInv
  <2> QED
    BY <2>1, <2>2, <2>3
<1> QED
  BY <1>3, <1>4, <1>6 DEF JobInv

\* The program does not change within a run.
LEMMA Kept ==
  ASSUME UNCHANGED <<driver, ignore>>,
         \A k \in Jobs : JobInv(job'[k], log'[k], replies'[k], Size(k))
  PROVE  JobsInv'
BY DEF JobsInv, JobInv, ListedInv, AheadInv, Finished, InHand, AtHand, Counted, Honest,
       DoneTo, InOrder, Opened, Follows, Sorted, Current, Made, Size

\* A step that changes one job.
LEMMA OneJob ==
  ASSUME JobsInv, UNCHANGED <<driver, ignore>>, NEW j \in Jobs,
         \A k \in Jobs \ {j} : /\ job'[k] = job[k] /\ log'[k] = log[k]
                               /\ replies'[k] = replies[k],
         JobInv(job'[j], log'[j], replies'[j], Size(j))
  PROVE  JobsInv'
<1>1. ASSUME NEW k \in Jobs PROVE JobInv(job'[k], log'[k], replies'[k], Size(k))
  <2>1. CASE k = j
    BY <2>1
  <2>2. CASE k # j
    BY <2>2 DEF JobsInv
  <2> QED
    BY <2>1, <2>2
<1> QED
  BY <1>1, Kept
-----------------------------------------------------------------------------
(* The steps.                                                              *)

LEMMA InitInv == Init => IInv
<1> SUFFICES ASSUME Init PROVE IInv
  OBVIOUS
<1>1. NewJob \in Task
  BY Places DEF NewJob, Task
<1>2. TypeOK
  <2>1. job \in [Jobs -> Task] /\ \A j \in Jobs : job[j] = NewJob
    BY <1>1 DEF Init
  <2>2. \A j \in Jobs : job[j].nc <= job[j].nl /\ job[j].nl <= Size(j)
    BY <2>1, Attempts DEF NewJob
  <2>3. busy = Nobody /\ cwd = Home /\ starts = 1 /\ driver \in Drivers
        /\ ignore \in BOOLEAN /\ launching = FALSE /\ done = FALSE /\ up = TRUE
    BY DEF Init
  <2>4. busy \in Jobs \cup {Nobody} /\ cwd \in Dirs /\ starts \in 1..NA
    BY <2>3, Places, Attempts
  <2> QED
    BY <2>1, <2>2, <2>3, <2>4 DEF TypeOK
<1>3. BusyInv
  BY DEF Init, BusyInv
<1>4. JobsInv
  <2> SUFFICES ASSUME NEW j \in Jobs PROVE JobInv(job[j], log[j], replies[j], Size(j))
    BY DEF JobsInv
  <2>1. log[j] = <<>> /\ replies[j] = <<>> /\ job[j] = NewJob
    BY DEF Init
  <2>2. InOrder(<<>>) /\ Sorted(<<>>)
    BY Attempts DEF InOrder, Sorted
  <2> QED
    BY <2>1, <2>2 DEF JobInv, AheadInv, NewJob
<1>5. Histories
  BY Places DEF Init, Histories
<1> QED
  BY <1>2, <1>3, <1>4, <1>5 DEF IInv

\* The job the program is at work on, or any other that is listed.
LEMMA AtWork ==
  ASSUME IInv, NEW j \in Jobs, Listed(j)
  PROVE  /\ job[j] \in Task /\ Size(j) \in Nat /\ Size(j) >= 1 /\ job[j].nl <= Size(j)
         /\ job[j].nc <= job[j].nl /\ job[j].nl \in Nat /\ job[j].nc \in Nat
         /\ job[j].ia \in Nat /\ NA \in Nat /\ NA >= 1 /\ job[j].place = "listed"
         /\ replies[j] = <<>> /\ JobInv(job[j], log[j], <<>>, Size(j))
         /\ ListedInv(job[j], log[j], Size(j))
<1>1. job[j] \in Task /\ job[j].nl <= Size(j) /\ job[j].nc <= job[j].nl
  BY DEF IInv, TypeOK
<1>2. JobInv(job[j], log[j], replies[j], Size(j)) /\ job[j].place = "listed"
  BY DEF IInv, JobsInv, Listed
<1>3. replies[j] = <<>> /\ ListedInv(job[j], log[j], Size(j))
  BY <1>2 DEF JobInv
<1> QED
  BY <1>1, <1>2, <1>3, Attempts DEF Task

\* What is to be shown of a step that changes one job.
LEMMA OneStep ==
  ASSUME IInv, NEW j \in Jobs, NEW u \in Task, u.nc <= u.nl, u.nl <= Size(j),
         job' = [job EXCEPT ![j] = u], UNCHANGED <<driver, ignore>>,
         busy' \in Jobs \cup {Nobody}, launching' \in BOOLEAN, cwd' \in Dirs,
         starts' \in 1..NA, done' \in BOOLEAN, up' \in BOOLEAN,
         \A k \in Jobs \ {j} : log'[k] = log[k] /\ replies'[k] = replies[k],
         JobInv(u, log'[j], replies'[j], Size(j)), BusyInv', Histories'
  PROVE  IInv'
<1>1. job'[j] = u /\ \A k \in Jobs \ {j} : job'[k] = job[k]
  BY DEF IInv, TypeOK
<1>2. job' \in [Jobs -> Task]
  BY DEF IInv, TypeOK
<1>3. \A k \in Jobs : job'[k].nc <= job'[k].nl /\ job'[k].nl <= Size(k)
  BY <1>1 DEF IInv, TypeOK
<1>4. TypeOK'
  BY <1>2, <1>3 DEF IInv, TypeOK, Size
<1>5. JobsInv'
  BY <1>1, OneJob DEF IInv
<1> QED
  BY <1>4, <1>5 DEF IInv

\* A step in which the program attempts the subtask at hand of the job it is
\* at work on, and which comes out as Attempted says.
LEMMA AttemptStep ==
  ASSUME IInv, NEW j \in Jobs, busy = j, NEW u \in Task, NEW e \in Attempt,
         ~Finished(job[j], Size(j)), e.task = Current(job[j]),
         u.place = "listed", u.pp = "none", u.nc <= u.nl, u.nl <= Size(j),
         \/ e.st = Failed /\ Made(job[j]) + 1 < NA /\ u.nl + 1 = Current(job[j])
                          /\ u.nl < Size(j) /\ u.ia = Made(job[j]) + 1
         \/ (e.st # Failed \/ ignore) /\ u.nl = Current(job[j]) /\ u.status = e.st
                                      /\ (u.ia = 0 \/ ignore \/ e.st = NotFinished)
         \/ e.st = Failed /\ ~ignore /\ Made(job[j]) + 1 >= NA /\ u.nl = Size(j)
                          /\ u.status = Failed,
         job' = [job EXCEPT ![j] = u], log' = [log EXCEPT ![j] = Append(@, e)],
         busy' \in {j, Nobody}, launching' \in BOOLEAN, launching' => launching,
         cwd' \in Dirs,
         UNCHANGED <<driver, ignore, starts, done, up, replies>>
  PROVE  IInv'
<1>1. Listed(j)
  BY Places DEF IInv, BusyInv
<1>2. job[j] \in Task /\ Size(j) \in Nat /\ replies[j] = <<>> /\ job[j].place = "listed"
      /\ job[j].nl <= Size(j) /\ JobInv(job[j], log[j], <<>>, Size(j))
  BY <1>1, AtWork
<1>3. log'[j] = Append(log[j], e) /\ \A k \in Jobs \ {j} : log'[k] = log[k]
  BY DEF IInv, Histories
<1>4. log[j] \in Seq(Attempt)
  BY DEF IInv, Histories
<1>5. Histories'
  <2>1. Append(log[j], e) \in Seq(Attempt)
    BY <1>4, Appended
  <2>2. log' \in [Jobs -> Seq(Attempt)]
    BY <2>1 DEF IInv, Histories
  <2> QED
    BY <2>2 DEF IInv, Histories
<1>6. JobInv(u, Append(log[j], e), <<>>, Size(j))
  BY <1>2, Attempted
<1>7. BusyInv'
  <2>1. job'[j] = u
    BY DEF IInv, TypeOK
  <2> QED
    BY <2>1, Places DEF IInv, BusyInv, Listed
<1>8. starts' \in 1..NA /\ done' \in BOOLEAN /\ up' \in BOOLEAN /\ busy' \in Jobs \cup {Nobody}
  BY DEF IInv, TypeOK
<1>9. JobInv(u, log'[j], replies'[j], Size(j))
  BY <1>2, <1>3, <1>6
<1>10. \A k \in Jobs \ {j} : log'[k] = log[k] /\ replies'[k] = replies[k]
  BY <1>3
<1> QED
  BY <1>5, <1>7, <1>8, <1>9, <1>10, OneStep

\* What there is to an attempt that is no process.
LEMMA AtTurn ==
  ASSUME IInv, NEW j \in Jobs, NEW kind, Turn(j, kind)
  PROVE  /\ busy = j /\ Listed(j) /\ ~Finished(job[j], Size(j))
         /\ Current(job[j]) = job[j].nl + 1 /\ Made(job[j]) = job[j].ia
         /\ job[j] \in Task /\ job[j].place = "listed" /\ job[j].pp = "none"
         /\ job[j].nl \in Nat /\ job[j].nc \in Nat /\ job[j].ia \in Nat /\ Size(j) \in Nat
         /\ job[j].nc <= job[j].nl /\ job[j].nl < Size(j) /\ NA \in Nat /\ NA >= 1
<1>1. busy = j /\ job[j].pp = "none" /\ job[j].nl < Size(j)
  BY DEF Turn
<1>2. Listed(j)
  BY <1>1, Places DEF IInv, BusyInv
<1>3. job[j] \in Task /\ job[j].place = "listed" /\ job[j].nl \in Nat /\ job[j].nc \in Nat
      /\ job[j].ia \in Nat /\ Size(j) \in Nat /\ job[j].nc <= job[j].nl /\ NA \in Nat /\ NA >= 1
  BY <1>2, AtWork
<1>4. ~Finished(job[j], Size(j)) /\ Current(job[j]) = job[j].nl + 1 /\ Made(job[j]) = job[j].ia
  BY <1>1, <1>3 DEF Finished, Current, Made
<1> QED
  BY <1>1, <1>2, <1>3, <1>4

LEMMA EchoInv == ASSUME IInv, NEW j \in Jobs, Echo(j) PROVE IInv'
<1> DEFINE t == job[j]
           u == [t EXCEPT !.nl = @ + 1, !.nc = @ + 1, !.ia = 0, !.status = Ok]
           e == [task |-> t.nl + 1, st |-> Ok]
<1>1. busy = j /\ ~Finished(t, Size(j)) /\ Current(t) = t.nl + 1
      /\ t \in Task /\ t.place = "listed" /\ t.pp = "none" /\ t.nl \in Nat /\ t.nc \in Nat
      /\ Size(j) \in Nat /\ t.nc <= t.nl /\ t.nl < Size(j)
  BY AtTurn DEF Echo
<1>2. t.nl + 1 \in Nat /\ t.nc + 1 \in Nat /\ t.nc + 1 <= t.nl + 1 /\ t.nl + 1 <= Size(j)
  BY <1>1
<1>3. u \in Task /\ u.nl = t.nl + 1 /\ u.nc = t.nc + 1 /\ u.ia = 0 /\ u.status = Ok
      /\ u.place = "listed" /\ u.pp = "none"
  BY <1>1, <1>2 DEF Task
<1>4. e \in Attempt /\ e.task = t.nl + 1 /\ e.st = Ok
  BY <1>2 DEF Attempt, Statuses
<1>5. job' = [job EXCEPT ![j] = u] /\ log' = [log EXCEPT ![j] = Append(@, e)]
  BY DEF Echo, Record
<1>6. busy' = busy /\ launching' = launching /\ launching' \in BOOLEAN /\ cwd' \in Dirs
  BY DEF Echo, GoOn, IInv, TypeOK, Histories
<1>7. UNCHANGED <<driver, ignore, starts, done, up, replies>>
  BY DEF Echo
<1> HIDE DEF t, u, e
<1> QED
  BY <1>1, <1>2, <1>3, <1>4, <1>5, <1>6, <1>7, AttemptStep DEF t

\* Where a cd leads to is a directory.
LEMMA Targets ==
  ASSUME NEW j \in Jobs, NEW i \in 1..Size(j), Command[j][i].kind = "cd", NEW d \in Dirs
  PROVE  Lookup[<<d, Command[j][i].name>>] \in Dirs \cup {Missing}
BY JobAssumption DEF Size

LEMMA CdSucceedsInv == ASSUME IInv, NEW j \in Jobs, CdSucceeds(j) PROVE IInv'
<1> DEFINE t == job[j]
           d == Target(j)
           u == [t EXCEPT !.nl = @ + 1, !.nc = @ + 1, !.ia = 0, !.status = Ok, !.dir = d]
           e == [task |-> t.nl + 1, st |-> Ok]
<1>1. busy = j /\ ~Finished(t, Size(j)) /\ Current(t) = t.nl + 1
      /\ t \in Task /\ t.place = "listed" /\ t.pp = "none" /\ t.nl \in Nat /\ t.nc \in Nat
      /\ Size(j) \in Nat /\ t.nc <= t.nl /\ t.nl < Size(j)
  BY AtTurn DEF CdSucceeds
<1>2. t.nl + 1 \in Nat /\ t.nc + 1 \in Nat /\ t.nc + 1 <= t.nl + 1 /\ t.nl + 1 <= Size(j)
      /\ t.nl + 1 \in 1..Size(j)
  BY <1>1
<1>3. d \in Dirs
  <2>1. Command[j][t.nl + 1].kind = "cd" /\ d # Missing /\ cwd \in Dirs
    BY DEF CdSucceeds, Turn, IInv, TypeOK
  <2> QED
    BY <2>1, <1>2, Targets DEF Target
<1>4. u \in Task /\ u.nl = t.nl + 1 /\ u.nc = t.nc + 1 /\ u.ia = 0 /\ u.status = Ok
      /\ u.place = "listed" /\ u.pp = "none"
  <2> HIDE DEF d
  <2> QED
    BY <1>1, <1>2, <1>3 DEF Task
<1>5. e \in Attempt /\ e.task = t.nl + 1 /\ e.st = Ok
  BY <1>2 DEF Attempt, Statuses
<1>6. job' = [job EXCEPT ![j] = u] /\ log' = [log EXCEPT ![j] = Append(@, e)]
  BY DEF CdSucceeds, Record
<1>7. busy' = busy /\ launching' = launching /\ launching' \in BOOLEAN /\ cwd' = d
  BY DEF CdSucceeds, GoOn, IInv, TypeOK
<1>8. UNCHANGED <<driver, ignore, starts, done, up, replies>>
  BY DEF CdSucceeds
<1> HIDE DEF t, u, e, d
<1> QED
  BY <1>1, <1>2, <1>3, <1>4, <1>5, <1>6, <1>7, <1>8, AttemptStep DEF t

LEMMA CdFailsInv == ASSUME IInv, NEW j \in Jobs, CdFails(j) PROVE IInv'
<1> DEFINE t == job[j]
           n == Size(j)
           again == t.ia + 1 < NA
           t1 == [t EXCEPT !.ia = @ + 1]
           over == GivenUp(t1, n, Failed)
           u == IF again THEN t1 ELSE [over EXCEPT !.ia = 1, !.nl = IF ignore THEN @ + 1 ELSE @]
           e == [task |-> t.nl + 1, st |-> Failed]
<1>1. busy = j /\ ~Finished(t, n) /\ Current(t) = t.nl + 1 /\ Made(t) = t.ia
      /\ t \in Task /\ t.place = "listed" /\ t.pp = "none" /\ t.nl \in Nat /\ t.nc \in Nat
      /\ t.ia \in Nat /\ n \in Nat /\ t.nc <= t.nl /\ t.nl < n /\ NA \in Nat
  BY AtTurn DEF CdFails
<1>2. t.nl + 1 \in Nat /\ t.nc + 1 \in Nat /\ t.nc + 1 <= t.nl + 1 /\ t.nl + 1 <= n
      /\ t.ia + 1 \in Nat /\ ignore \in BOOLEAN
  BY <1>1 DEF IInv, TypeOK
<1>3. u \in Task /\ u.place = "listed" /\ u.pp = "none"
      /\ (again => u.nl = t.nl /\ u.nc = t.nc /\ u.ia = t.ia + 1)
      /\ (~again /\ ignore => u.nl = t.nl + 1 /\ u.nc = t.nc + 1 /\ u.status = Failed)
      /\ (~again /\ ~ignore => u.nl = n /\ u.nc = n /\ u.status = Failed)
  <2> HIDE DEF n
  <2>1. CASE again
    BY <2>1, <1>1, <1>2 DEF Task
  <2>2. CASE ~again /\ ignore
    BY <2>2, <1>1, <1>2 DEF Task, GivenUp
  <2>3. CASE ~again /\ ~ignore
    BY <2>3, <1>1, <1>2 DEF Task, GivenUp
  <2> QED
    BY <2>1, <2>2, <2>3
<1>4. e \in Attempt /\ e.task = t.nl + 1 /\ e.st = Failed
  BY <1>2 DEF Attempt, Statuses
<1>5. log' = [log EXCEPT ![j] = Append(@, e)]
  BY DEF CdFails, Record
<1>6. job' = [job EXCEPT ![j] = u]
  <2>1. Retried(t1, Failed) <=> again
    BY <1>1 DEF Retried, Task
  <2>2. CASE again
    BY <2>1, <2>2 DEF CdFails
  <2>3. CASE ~again
    BY <2>1, <2>3 DEF CdFails
  <2> QED
    BY <2>2, <2>3
<1>7. busy' \in {j, Nobody} /\ launching' \in BOOLEAN /\ (launching' => launching)
      /\ cwd' \in Dirs
  BY <1>1 DEF CdFails, GoOn, Return, IInv, TypeOK, Histories
<1>8. UNCHANGED <<driver, ignore, starts, done, up, replies>>
  BY DEF CdFails
<1>9. u.nc <= u.nl /\ u.nl <= n
  BY <1>1, <1>2, <1>3
<1> HIDE DEF u, e
<1>10. \/ Made(t) + 1 < NA /\ u.nl + 1 = Current(t) /\ u.nl < n /\ u.ia = Made(t) + 1
       \/ ignore /\ u.nl = Current(t) /\ u.status = Failed
       \/ ~ignore /\ Made(t) + 1 >= NA /\ u.nl = n /\ u.status = Failed
  BY <1>1, <1>3
<1>11. e.st = Failed /\ e.task = Current(t)
  BY <1>1, <1>4
<1> HIDE DEF t, n, again
<1> QED
  BY <1>1, <1>3, <1>4, <1>5, <1>6, <1>7, <1>8, <1>9, <1>10, <1>11, AttemptStep DEF t, n

\* A step that leaves the histories of a listed job alone, and it listed.
LEMMA QuietStep ==
  ASSUME IInv, NEW j \in Jobs, Listed(j), NEW u \in Task,
         u.place = "listed", u.nc <= u.nl, u.nl <= Size(j),
         ListedInv(u, log[j], Size(j)), job' = [job EXCEPT ![j] = u],
         busy' \in {busy, Nobody}, launching' \in BOOLEAN, launching' => launching,
         cwd' \in Dirs, up' \in BOOLEAN,
         UNCHANGED <<driver, ignore, starts, done, log, replies>>
  PROVE  IInv'
<1>1. job'[j] = u /\ \A k \in Jobs \ {j} : job'[k] = job[k]
  BY DEF IInv, TypeOK
<1>2. JobInv(u, log[j], replies[j], Size(j))
  BY AtWork DEF JobInv
<1>3. BusyInv'
  BY <1>1, Places DEF IInv, BusyInv, Listed
<1>4. Histories'
  BY DEF IInv, Histories
<1>5. busy' \in Jobs \cup {Nobody} /\ starts' \in 1..NA /\ done' \in BOOLEAN
  BY DEF IInv, TypeOK
<1> QED
  BY <1>2, <1>3, <1>4, <1>5, OneStep

LEMMA ExecInv == ASSUME IInv, NEW j \in Jobs, NEW opened \in BOOLEAN, Exec(j, opened) PROVE IInv'
<1> DEFINE t == job[j]
           u == [t EXCEPT !.nl = @ + 1, !.ia = @ + 1, !.status = NotFinished, !.finished = FALSE,
                          !.pp = IF opened THEN "running" ELSE @, !.at = t.dir]
           e == [task |-> t.nl + 1, st |-> NotFinished]
<1>1. busy = j /\ Listed(j) /\ ~Finished(t, Size(j)) /\ Current(t) = t.nl + 1 /\ Made(t) = t.ia
      /\ t \in Task /\ t.place = "listed" /\ t.pp = "none" /\ t.nl \in Nat /\ t.nc \in Nat
      /\ t.ia \in Nat /\ Size(j) \in Nat /\ t.nc <= t.nl /\ t.nl < Size(j) /\ t.dir \in Dirs
  BY AtTurn DEF Exec, Task
<1>2. t.nl + 1 \in Nat /\ t.ia + 1 \in Nat /\ t.nc <= t.nl + 1 /\ t.nl + 1 <= Size(j)
  BY <1>1
<1>3. u \in Task /\ u.place = "listed" /\ u.nl = t.nl + 1 /\ u.nc = t.nc /\ u.ia = t.ia + 1
      /\ u.status = NotFinished /\ u.pp = IF opened THEN "running" ELSE "none"
  BY <1>1, <1>2 DEF Task
<1>4. e \in Attempt /\ e.task = t.nl + 1 /\ e.st = NotFinished
  BY <1>2 DEF Attempt, Statuses
<1>5. cwd' = t.dir /\ busy' = Nobody /\ launching' = FALSE
  BY DEF Exec, Return, Workdir
<1>6. job' = [job EXCEPT ![j] = u]
  BY <1>5 DEF Exec
<1>7. UNCHANGED <<driver, ignore, starts, done, up, replies>>
  BY DEF Exec
<1>8. CASE opened
  <2>1. log' = log
    BY <1>8 DEF Exec
  <2>2. ListedInv(t, log[j], Size(j))
    BY <1>1, AtWork
  <2>3. InHand(log[j], t.nl + 1, t.ia)
    BY <2>2, <1>1 DEF ListedInv
  <2> HIDE DEF t, u, e
  <2>4. Current(u) = t.nl + 1 /\ Made(u) = t.ia /\ ~Finished(u, Size(j))
    BY <1>1, <1>3, <1>8 DEF Current, Made, Finished
  <2>5. ListedInv(u, log[j], Size(j))
    BY <2>3, <2>4, <1>1, <1>3, <1>8 DEF ListedInv
  <2>6. up' \in BOOLEAN
    BY <1>7 DEF IInv, TypeOK
  <2> QED
    BY <2>1, <2>5, <2>6, <1>1, <1>2, <1>3, <1>5, <1>6, <1>7, QuietStep
<1>9. CASE ~opened
  <2>1. log' = [log EXCEPT ![j] = Append(@, e)]
    BY <1>9 DEF Exec, Record
  <2> HIDE DEF u, e
  <2>2. u.pp = "none" /\ u.nc <= u.nl /\ u.nl <= Size(j)
    BY <1>2, <1>3, <1>9
  <2>3. e.st # Failed /\ u.nl = Current(t) /\ u.status = e.st /\ e.task = Current(t)
    BY <1>1, <1>3, <1>4
  <2> HIDE DEF t
  <2> QED
    BY <2>1, <2>2, <2>3, <1>1, <1>3, <1>4, <1>5, <1>6, <1>7, AttemptStep DEF t
<1> QED
  BY <1>8, <1>9

LEMMA CloseInv == ASSUME IInv, NEW j \in Jobs, Close(j) PROVE IInv'
<1> DEFINE n == Size(j)
           t == [job[j] EXCEPT !.pp = "none"]
           st == IF job[j].pp = "succeeded" THEN Ok ELSE Failed
           again == st # Ok /\ t.ia < NA
           u == IF again THEN [t EXCEPT !.nl = @ - 1] ELSE GivenUp(t, n, st)
           e == [task |-> t.nl, st |-> st]
<1>1. busy = j /\ job[j].pp \in {"succeeded", "failed"} /\ Listed(j)
  BY Places DEF Close, IInv, BusyInv
<1>2. job[j] \in Task /\ n \in Nat /\ n >= 1 /\ job[j].nl <= n /\ job[j].place = "listed"
      /\ ListedInv(job[j], log[j], n) /\ job[j].nl \in Nat /\ job[j].nc \in Nat
      /\ job[j].ia \in Nat /\ NA \in Nat /\ ignore \in BOOLEAN
  BY <1>1, AtWork DEF IInv, TypeOK
<1>3. ~Finished(job[j], n) /\ Current(job[j]) = job[j].nl /\ Made(job[j]) = job[j].ia - 1
      /\ job[j].nc < job[j].nl /\ job[j].ia > 0
  BY <1>1, <1>2 DEF Finished, Current, Made, ListedInv
<1>4. t \in Task /\ t.nl = job[j].nl /\ t.nc = job[j].nc /\ t.ia = job[j].ia
      /\ t.place = "listed" /\ t.pp = "none"
  BY <1>2 DEF Task
<1>5. st \in {Ok, Failed}
  OBVIOUS
<1>6. job' = [job EXCEPT ![j] = u] /\ log' = [log EXCEPT ![j] = Append(@, e)]
  BY DEF Close, Retried
<1>7. busy' = busy /\ launching' = launching /\ launching' \in BOOLEAN /\ cwd' \in Dirs
      /\ UNCHANGED <<driver, ignore, starts, done, up, replies>>
  BY DEF Close, GoOn, IInv, TypeOK
<1>8. e \in Attempt /\ e.task = Current(job[j]) /\ e.st = st
  BY <1>2, <1>3, <1>4, <1>5 DEF Attempt, Statuses
<1> HIDE DEF t, st, n
<1>9. u \in Task /\ u.place = "listed" /\ u.pp = "none"
      /\ (again => u.nl = t.nl - 1 /\ u.nc = t.nc /\ u.ia = t.ia)
      /\ (~again /\ (st = Ok \/ ignore) =>
            u.nl = t.nl /\ u.nc = t.nc + 1 /\ u.status = st /\ u.ia = 0)
      /\ (~again /\ ~(st = Ok \/ ignore) => u.nl = n /\ u.nc = n /\ u.status = Failed)
  <2>1. CASE again
    <3>1. t.nl - 1 \in Nat
      BY <1>2, <1>3, <1>4
    <3> QED
      BY <2>1, <3>1, <1>4 DEF Task
  <2>2. CASE ~again /\ (st = Ok \/ ignore)
    <3>1. u = [t EXCEPT !.nc = @ + 1, !.ia = 0, !.status = st]
      BY <2>2 DEF GivenUp
    <3>2. t.nc + 1 \in Nat /\ st \in {Ok, Failed, NotFinished}
      BY <1>2, <1>4, <1>5
    <3> HIDE DEF u, again
    <3> QED
      BY <2>2, <3>1, <3>2, <1>4 DEF Task
  <2>3. CASE ~again /\ ~(st = Ok \/ ignore)
    BY <2>3, <1>2, <1>4, <1>5 DEF Task, GivenUp
  <2> QED
    BY <2>1, <2>2, <2>3
<1>10. u.nc <= u.nl /\ u.nl <= n
  BY <1>2, <1>3, <1>4, <1>9
<1> HIDE DEF u, e
<1>11. \/ e.st = Failed /\ Made(job[j]) + 1 < NA /\ u.nl + 1 = Current(job[j]) /\ u.nl < n
                        /\ u.ia = Made(job[j]) + 1
       \/ (e.st # Failed \/ ignore) /\ u.nl = Current(job[j]) /\ u.status = e.st /\ u.ia = 0
       \/ e.st = Failed /\ ~ignore /\ Made(job[j]) + 1 >= NA /\ u.nl = n /\ u.status = Failed
  BY <1>2, <1>3, <1>4, <1>5, <1>8, <1>9
<1> HIDE DEF again
<1> QED
  BY <1>1, <1>2, <1>3, <1>6, <1>7, <1>8, <1>9, <1>10, <1>11, AttemptStep DEF n

LEMMA EndsInv == ASSUME IInv, NEW j \in Jobs, Ends(j) PROVE IInv'
<1> PICK st \in {Ok, Failed} : ProcessEnds(j, st)
  BY DEF Ends
<1> DEFINE t == job[j]
           u == [t EXCEPT !.pp = IF st = Ok THEN "succeeded" ELSE "failed"]
<1>1. t \in Task /\ t.nc <= t.nl /\ t.nl <= Size(j) /\ t.pp = "running"
      /\ JobInv(t, log[j], replies[j], Size(j))
  BY DEF ProcessEnds, IInv, TypeOK, JobsInv
<1>2. job' = [job EXCEPT ![j] = u] /\ UNCHANGED <<driver, ignore, busy, launching, cwd, starts,
        done, up, log, shell, replies>>
  BY DEF ProcessEnds
<1>3. u \in Task /\ u.nl = t.nl /\ u.nc = t.nc /\ u.ia = t.ia /\ u.place = t.place
      /\ u.pp # "none"
  BY <1>1 DEF Task
<1> HIDE DEF t, u
<1>4. ListedInv(t, log[j], Size(j)) => ListedInv(u, log[j], Size(j))
  BY <1>1, <1>3 DEF ListedInv, Finished, Current, Made
<1>5. JobInv(u, log[j], replies[j], Size(j))
  BY <1>1, <1>3, <1>4 DEF JobInv, AheadInv
<1>6. BusyInv'
  <2>1. \A k \in Jobs : job'[k].place = job[k].place
    BY <1>2, <1>3 DEF t, IInv, TypeOK
  <2> QED
    BY <2>1, <1>2, Places DEF IInv, BusyInv, Listed, TypeOK
<1>7. Histories'
  BY <1>2 DEF IInv, Histories
<1>8. busy' \in Jobs \cup {Nobody} /\ launching' \in BOOLEAN /\ cwd' \in Dirs
      /\ starts' \in 1..NA /\ done' \in BOOLEAN /\ up' \in BOOLEAN
  BY <1>2 DEF IInv, TypeOK
<1> QED
  BY <1>1, <1>2, <1>3, <1>5, <1>6, <1>7, <1>8, OneStep

\* What there is to a job that is over.
LEMMA AtEnd ==
  ASSUME IInv, NEW j \in Jobs, Over(j)
  PROVE  /\ busy = j /\ Listed(j) /\ Finished(job[j], Size(j))
         /\ job[j] \in Task /\ job[j].place = "listed" /\ job[j].pp = "none"
         /\ job[j].nc <= job[j].nl /\ job[j].nl <= Size(j)
         /\ replies[j] = <<>> /\ JobInv(job[j], log[j], <<>>, Size(j))
         /\ ListedInv(job[j], log[j], Size(j))
<1>1. Listed(j) /\ busy = j /\ job[j].pp = "none" /\ job[j].nl >= Size(j)
  BY Places DEF Over, IInv, BusyInv
<1>2. job[j] \in Task /\ Size(j) \in Nat /\ job[j].nl <= Size(j) /\ job[j].nl \in Nat
  BY <1>1, AtWork
<1>3. Finished(job[j], Size(j))
  BY <1>1, <1>2 DEF Finished
<1> QED
  BY <1>1, <1>3, AtWork

LEMMA CompleteInv == ASSUME IInv, NEW j \in Jobs, Complete(j) PROVE IInv'
<1> DEFINE t == job[j]
           u == [t EXCEPT !.place = "gone"]
           r == Append(replies[j], t.status)
<1>1. Finished(t, Size(j)) /\ t \in Task /\ t.place = "listed" /\ t.nc <= t.nl
      /\ t.nl <= Size(j) /\ replies[j] = <<>> /\ JobInv(t, log[j], <<>>, Size(j))
      /\ ListedInv(t, log[j], Size(j))
  BY AtEnd DEF Complete
<1>2. job' = [job EXCEPT ![j] = u] /\ replies' = [replies EXCEPT ![j] = Append(@, t.status)]
      /\ UNCHANGED <<driver, ignore, cwd, starts, done, log, shell>>
      /\ busy' = Nobody /\ launching' = FALSE /\ up' = (driver = "server")
  BY DEF Complete, Reply, Return
<1>3. u \in Task /\ u.place = "gone" /\ u.nl = t.nl /\ u.nc = t.nc
      /\ t.status \in Statuses
  BY <1>1 DEF Task, Statuses
<1>4. r = <<t.status>> /\ r \in Seq(Statuses) /\ Len(r) = 1 /\ r[1] = t.status
  BY <1>1, <1>3
<1>5. replies'[j] = r /\ \A k \in Jobs \ {j} : replies'[k] = replies[k]
  BY <1>2 DEF IInv, Histories
<1>6. Histories'
  <2> HIDE DEF r, t
  <2>1. replies' = [replies EXCEPT ![j] = r]
    BY <1>2 DEF r
  <2> QED
    BY <2>1, <1>2, <1>4 DEF IInv, Histories
<1>7. JobInv(u, log[j], r, Size(j))
  <2> HIDE DEF r, u, t
  <2> QED
    BY <1>1, <1>3, <1>4 DEF JobInv, ListedInv
<1>8. BusyInv'
  BY <1>2 DEF BusyInv
<1>9. busy' \in Jobs \cup {Nobody} /\ launching' \in BOOLEAN /\ cwd' \in Dirs
      /\ starts' \in 1..NA /\ done' \in BOOLEAN /\ up' \in BOOLEAN
  BY <1>2 DEF IInv, TypeOK
<1> HIDE DEF r, u, t
<1> QED
  BY <1>1, <1>2, <1>3, <1>5, <1>6, <1>7, <1>8, <1>9, OneStep

LEMMA OverAtLaunchInv == ASSUME IInv, NEW j \in Jobs, OverAtLaunch(j) PROVE IInv'
<1> DEFINE t == job[j]
           u == [t EXCEPT !.status = Ok]
<1>1. Finished(t, Size(j)) /\ t \in Task /\ t.place = "listed" /\ t.pp = "none" /\ t.nc <= t.nl
      /\ t.nl <= Size(j) /\ Listed(j)
  BY AtEnd DEF OverAtLaunch
<1>2. job' = [job EXCEPT ![j] = u] /\ busy' = Nobody /\ launching' = FALSE
      /\ UNCHANGED <<driver, ignore, cwd, starts, done, up, log, shell, replies>>
  BY DEF OverAtLaunch, Return
<1>3. u \in Task /\ u.place = "listed" /\ u.nl = t.nl /\ u.nc = t.nc /\ u.pp = "none"
  BY <1>1 DEF Task
<1>4. driver = "SC_exec"
  BY DEF OverAtLaunch, IInv, BusyInv
<1>5. ListedInv(u, log[j], Size(j))
  <2> HIDE DEF t, u
  <2> QED
    BY <1>1, <1>3, <1>4 DEF ListedInv, Finished
<1>6. cwd' \in Dirs /\ up' \in BOOLEAN
  BY <1>2 DEF IInv, TypeOK
<1> HIDE DEF t, u
<1> QED
  BY <1>1, <1>2, <1>3, <1>5, <1>6, QuietStep

LEMMA AcceptInv == ASSUME IInv, NEW j \in Jobs, Accept(j) PROVE IInv'
<1> DEFINE t == job[j]
           d == IF driver = "server" THEN Start[j] ELSE cwd
           u == [t EXCEPT !.place = "listed", !.dir = d]
<1>1. t \in Task /\ t.place = "ahead" /\ t.nc <= t.nl /\ t.nl <= Size(j)
      /\ JobInv(t, log[j], replies[j], Size(j)) /\ log[j] = <<>> /\ replies[j] = <<>>
      /\ t.pp = "none" /\ t.nl = 0 /\ t.nc = 0 /\ t.ia = 0
  BY DEF Accept, IInv, TypeOK, JobsInv, JobInv, AheadInv
<1>2. d \in Dirs
  BY Places DEF IInv, TypeOK
<1>3. job' = [job EXCEPT ![j] = u] /\ cwd' = job'[j].dir /\ busy' = j
      /\ launching' = (driver = "SC_exec")
      /\ UNCHANGED <<driver, ignore, starts, done, up, log, replies>>
  BY DEF Accept
<1> HIDE DEF d
<1>4. u \in Task /\ u.place = "listed" /\ u.dir = d /\ u.nl = 0 /\ u.nc = 0 /\ u.ia = 0
      /\ u.pp = "none"
  BY <1>1, <1>2 DEF Task
<1>5. Size(j) \in Nat /\ Size(j) >= 1
  BY Attempts
<1> HIDE DEF t, u
<1>6. job'[j] = u
  BY <1>3 DEF IInv, TypeOK
<1>7. InHand(<<>>, 1, 0)
  BY DEF InHand, AtHand, Counted, DoneTo
<1>8. Current(u) = 1 /\ Made(u) = 0 /\ ~Finished(u, Size(j))
  BY <1>4, <1>5 DEF Current, Made, Finished
<1>9. ListedInv(u, <<>>, Size(j))
  BY <1>4, <1>7, <1>8 DEF ListedInv
<1>10. JobInv(u, log[j], replies[j], Size(j))
  BY <1>1, <1>4, <1>9 DEF JobInv
<1>11. BusyInv'
  BY <1>3, <1>4, <1>6 DEF BusyInv, Listed
<1>12. Histories'
  BY <1>3 DEF IInv, Histories
<1>13. busy' \in Jobs \cup {Nobody} /\ launching' \in BOOLEAN /\ cwd' \in Dirs
       /\ starts' \in 1..NA /\ done' \in BOOLEAN /\ up' \in BOOLEAN
  BY <1>2, <1>3, <1>4, <1>6 DEF IInv, TypeOK
<1>14. u.nc <= u.nl /\ u.nl <= Size(j)
  BY <1>4, <1>5
<1> QED
  BY <1>3, <1>4, <1>10, <1>11, <1>12, <1>13, <1>14, OneStep

\* The steps that leave the jobs alone.
LEMMA CalmStep ==
  ASSUME IInv, UNCHANGED <<driver, ignore, job, launching, log, replies>>,
         busy' # busy => busy' \in Jobs /\ Listed(busy'),
         cwd' \in Dirs, starts' \in 1..NA, done' \in BOOLEAN, up' \in BOOLEAN
  PROVE  IInv'
<1>1. TypeOK'
  BY DEF IInv, TypeOK, Size
<1>2. Histories' /\ BusyInv'
  BY DEF IInv, Histories, BusyInv, Listed
<1>3. JobsInv'
  BY Kept DEF IInv, JobsInv
<1> QED
  BY <1>1, <1>2, <1>3 DEF IInv

LEMMA CheckInv == ASSUME IInv, NEW j \in Jobs, Check(j) PROVE IInv'
<1>1. cwd' \in Dirs /\ starts' \in 1..NA /\ done' \in BOOLEAN /\ up' \in BOOLEAN
  BY DEF Check, IInv, TypeOK
<1> QED
  BY <1>1, CalmStep DEF Check

LEMMA ExitInv == ASSUME IInv, AskExit \/ ServerExit PROVE IInv'
<1>1. cwd' \in Dirs /\ starts' \in 1..NA /\ done' \in BOOLEAN /\ up' \in BOOLEAN
  BY DEF AskExit, ServerExit, IInv, TypeOK
<1> QED
  BY <1>1, CalmStep DEF AskExit, ServerExit

LEMMA SignalInv == ASSUME IInv, NEW restart \in BOOLEAN, Signal(restart) PROVE IInv'
<1>1. ASSUME NEW k \in Jobs
      PROVE  /\ job'[k] \in Task /\ job'[k].nl = job[k].nl /\ job'[k].nc = job[k].nc
             /\ JobInv(job'[k], log[k], replies[k], Size(k))
  <2>1. job'[k] = IF Listed(k) THEN [job[k] EXCEPT !.place = "lost"] ELSE job[k]
    BY DEF Signal, Forget
  <2>2. job[k] \in Task /\ JobInv(job[k], log[k], replies[k], Size(k))
    BY DEF IInv, TypeOK, JobsInv
  <2>3. CASE Listed(k)
    <3>1. job'[k] \in Task /\ job'[k].nl = job[k].nl /\ job'[k].nc = job[k].nc
          /\ job'[k].place = "lost" /\ job[k].place = "listed"
      BY <2>1, <2>2, <2>3 DEF Task, Listed
    <3> QED
      BY <2>2, <3>1 DEF JobInv
  <2>4. CASE ~Listed(k)
    BY <2>1, <2>2, <2>4
  <2> QED
    BY <2>3, <2>4
<1>2. busy' = Nobody /\ launching' = FALSE /\ UNCHANGED <<driver, ignore, log, replies>>
      /\ DOMAIN job' = Jobs /\ job' = [k \in Jobs |-> job'[k]]
  BY DEF Signal, Forget
<1>3. cwd' \in Dirs /\ starts' \in 1..NA /\ done' \in BOOLEAN /\ up' \in BOOLEAN
  <2>1. CASE restart /\ starts < NA
    <3>1. starts' = starts + 1 /\ cwd' = Home /\ done' = FALSE /\ up' = up
      BY <2>1 DEF Signal
    <3>2. starts \in 1..NA /\ up \in BOOLEAN
      BY DEF IInv, TypeOK
    <3>3. starts + 1 \in 1..NA
      BY <2>1, <3>2, Attempts
    <3> QED
      BY <3>1, <3>2, <3>3, Places
  <2>2. CASE ~(restart /\ starts < NA)
    BY <2>2 DEF Signal, IInv, TypeOK
  <2> QED
    BY <2>1, <2>2
<1>4. job' \in [Jobs -> Task] /\ \A k \in Jobs : job'[k].nc <= job'[k].nl /\ job'[k].nl <= Size(k)
  BY <1>1, <1>2 DEF IInv, TypeOK
<1>5. TypeOK'
  BY <1>2, <1>3, <1>4 DEF IInv, TypeOK, Size
<1>6. Histories' /\ BusyInv'
  BY <1>2 DEF IInv, Histories, BusyInv
<1>7. JobsInv'
  BY <1>1, <1>2, Kept
<1> QED
  BY <1>5, <1>6, <1>7 DEF IInv

LEMMA StepInv == IInv /\ [Next]_vars => IInv'
<1> SUFFICES ASSUME IInv, [Next]_vars PROVE IInv'
  OBVIOUS
<1>1. ASSUME NEW j \in Jobs, Accept(j) \/ Check(j) \/ Work(j) \/ Ends(j) PROVE IInv'
  BY <1>1, AcceptInv, CheckInv, EndsInv, EchoInv, CdSucceedsInv, CdFailsInv, CloseInv,
     CompleteInv, OverAtLaunchInv, ExecInv DEF Work
<1>2. ASSUME AskExit \/ ServerExit \/ \E restart \in BOOLEAN : Signal(restart) PROVE IInv'
  BY <1>2, ExitInv, SignalInv
<1>3. CASE UNCHANGED vars
  <2>1. cwd' \in Dirs /\ starts' \in 1..NA /\ done' \in BOOLEAN /\ up' \in BOOLEAN
    BY <1>3 DEF vars, IInv, TypeOK
  <2> QED
    BY <1>3, <2>1, CalmStep DEF vars
<1> QED
  BY <1>1, <1>2, <1>3 DEF Next
-----------------------------------------------------------------------------
(* The theorems.                                                           *)

LEMMA Invariance == Spec => []IInv
<1>1. Init /\ [][Next]_vars => []IInv
  BY InitInv, StepInv, PTL
<1> QED
  BY <1>1, PTL DEF Spec

\* The counts of a job keep their order and stay within its subtasks.
THEOREM TypeCorrect == Spec => []TypeOK
<1>1. IInv => TypeOK
  BY DEF IInv
<1> QED
  BY <1>1, Invariance, PTL

\* The subtasks of a job are attempted in their order, each no more often
\* than it may be, and none behind a failure that is not to be ignored
\* (_SC_run_next_task, _SC_task_done).
THEOREM InScript == Spec => []ScriptFollowed
<1>1. IInv => ScriptFollowed
  BY DEF IInv, JobsInv, JobInv, ScriptFollowed
<1> QED
  BY <1>1, Invariance, PTL

\* The server reports what came of the last attempt, success only of a job
\* that was done to its end (_SC_server_complete).
THEOREM HonestReports == Spec => []HonestReport
<1>1. IInv => HonestReport
  <2> SUFFICES ASSUME IInv, NEW j \in Jobs, replies[j] # <<>>, driver = "server"
               PROVE  Honest(replies[j][1], log[j], Size(j))
    BY DEF HonestReport
  <2>1. JobInv(job[j], log[j], replies[j], Size(j))
    BY DEF IInv, JobsInv
  <2> QED
    BY <2>1 DEF JobInv
<1> QED
  BY <1>1, Invariance, PTL
-----------------------------------------------------------------------------
(* Directories.                                                            *)

\* Every cd leads to the same place wherever the program is.
Absolute == \A j \in Jobs : \A i \in 1..Size(j) : Command[j][i].kind = "cd" =>
              \A a, b \in Dirs : Lookup[<<a, Command[j][i].name>>] = Lookup[<<b, Command[j][i].name>>]

InPlace(t, d) == /\ d \in Dirs
                 /\ t.place = "listed" => t.dir = d
                 /\ t.pp # "none" => t.at = d

DirInv == shell \in [Jobs -> Dirs] /\ \A j \in Jobs : InPlace(job[j], shell[j])

LEMMA DirInit == Init => DirInv
BY Places DEF Init, DirInv, InPlace, NewJob

\* The steps that take no job to another directory.
LEMMA SameDir ==
  ASSUME IInv, DirInv, UNCHANGED shell,
         \A k \in Jobs : /\ job'[k].dir = job[k].dir /\ job'[k].at = job[k].at
                         /\ job'[k].place = "listed" => job[k].place = "listed"
                         /\ job'[k].pp # "none" => job[k].pp # "none"
  PROVE  DirInv'
BY DEF DirInv, InPlace

LEMMA DirStay ==
  ASSUME IInv, DirInv, NEW j \in Jobs,
         Echo(j) \/ CdFails(j) \/ Close(j) \/ Complete(j) \/ OverAtLaunch(j) \/ Ends(j)
  PROVE  DirInv'
<1> DEFINE Same(t, u) == /\ u.dir = t.dir /\ u.at = t.at
                         /\ u.place = "listed" => t.place = "listed"
                         /\ u.pp # "none" => t.pp # "none"
<1>1. job[j] \in Task /\ \A k \in Jobs : Same(job[k], job[k])
  BY DEF IInv, TypeOK
<1>2. UNCHANGED shell
  BY DEF Echo, CdFails, Close, Complete, OverAtLaunch, Ends, ProcessEnds
<1>3. \A k \in Jobs \ {j} : job'[k] = job[k]
  BY DEF Echo, CdFails, Close, Complete, Reply, OverAtLaunch, Ends, ProcessEnds, IInv, TypeOK
<1>4. Same(job[j], job'[j])
  <2>1. CASE Echo(j)
    BY <2>1, <1>1 DEF Echo, IInv, TypeOK, Task
  <2>2. CASE CdFails(j)
    BY <2>2, <1>1 DEF CdFails, GivenUp, IInv, TypeOK, Task
  <2>3. CASE Close(j)
    BY <2>3, <1>1 DEF Close, GivenUp, IInv, TypeOK, Task
  <2>4. CASE Complete(j)
    BY <2>4, <1>1 DEF Complete, Reply, IInv, TypeOK, Task
  <2>5. CASE OverAtLaunch(j)
    BY <2>5, <1>1 DEF OverAtLaunch, IInv, TypeOK, Task
  <2>6. CASE Ends(j)
    BY <2>6, <1>1 DEF Ends, ProcessEnds, IInv, TypeOK, Task
  <2> QED
    BY <2>1, <2>2, <2>3, <2>4, <2>5, <2>6
<1>5. \A k \in Jobs : Same(job[k], job'[k])
  BY <1>1, <1>3, <1>4
<1> QED
  BY <1>2, <1>5, SameDir

LEMMA DirSignal ==
  ASSUME IInv, DirInv, NEW restart \in BOOLEAN, Signal(restart) PROVE DirInv'
<1>1. ASSUME NEW k \in Jobs
      PROVE  /\ job'[k].dir = job[k].dir /\ job'[k].at = job[k].at
             /\ job'[k].place = "listed" => job[k].place = "listed"
             /\ job'[k].pp # "none" => job[k].pp # "none"
  <2>1. job'[k] = IF Listed(k) THEN [job[k] EXCEPT !.place = "lost"] ELSE job[k]
    BY DEF Signal, Forget
  <2>2. job[k] \in Task
    BY DEF IInv, TypeOK
  <2> QED
    BY <2>1, <2>2 DEF Task
<1> QED
  BY <1>1, SameDir DEF Signal

LEMMA DirMove ==
  ASSUME Absolute, IInv, DirInv, NEW j \in Jobs,
         CdSucceeds(j) \/ Accept(j) \/ \E opened \in BOOLEAN : Exec(j, opened)
  PROVE  DirInv'
<1>1. job[j] \in Task /\ shell \in [Jobs -> Dirs] /\ InPlace(job[j], shell[j]) /\ cwd \in Dirs
      /\ job \in [Jobs -> Task]
  BY DEF IInv, TypeOK, DirInv
<1>2. shell' \in [Jobs -> Dirs] /\ InPlace(job'[j], shell'[j])
  <2>1. CASE CdSucceeds(j)
    <3> DEFINE d == Target(j)
               to == Lookup[<<shell[j], Command[j][job[j].nl + 1].name>>]
    <3>1. job[j].nl + 1 \in 1..Size(j) /\ Command[j][job[j].nl + 1].kind = "cd" /\ d # Missing
          /\ job[j].pp = "none"
      <4>1. Turn(j, "cd")
        BY <2>1 DEF CdSucceeds
      <4> QED
        BY <2>1, <4>1, AtTurn DEF CdSucceeds, Turn
    <3>2. d \in Dirs /\ to = d
      BY <3>1, <1>1, Targets DEF Target, Absolute
    <3>3. shell' = [shell EXCEPT ![j] = to]
      BY <2>1 DEF CdSucceeds
    <3>4. job'[j].dir = d /\ job'[j].pp = job[j].pp
      BY <2>1, <1>1 DEF CdSucceeds, Task
    <3> HIDE DEF d, to
    <3> QED
      BY <1>1, <3>1, <3>2, <3>3, <3>4 DEF InPlace
  <2>2. CASE Accept(j)
    <3> DEFINE d == IF driver = "server" THEN Start[j] ELSE cwd
    <3>1. d \in Dirs /\ job[j].pp = "none"
      BY <2>2, <1>1, Places DEF Accept, IInv, JobsInv, JobInv, AheadInv
    <3>2. job'[j].dir = d /\ job'[j].pp = job[j].pp
      BY <2>2, <1>1 DEF Accept, Task
    <3>3. shell' = [shell EXCEPT ![j] = job'[j].dir]
      BY <2>2 DEF Accept
    <3> HIDE DEF d
    <3> QED
      BY <1>1, <3>1, <3>2, <3>3 DEF InPlace
  <2>3. CASE \E opened \in BOOLEAN : Exec(j, opened)
    <3> PICK opened \in BOOLEAN : Exec(j, opened)
      BY <2>3
    <3>1. Turn(j, "exec") /\ cwd' = job[j].dir /\ shell' = shell
      BY DEF Exec, Workdir
    <3>2. job[j].place = "listed" /\ job[j].dir = shell[j] /\ shell[j] \in Dirs
      BY <3>1, <1>1, AtTurn DEF InPlace
    <3>3. job'[j].dir = job[j].dir /\ job'[j].at = cwd'
      BY <1>1 DEF Exec, Task
    <3> QED
      BY <1>1, <3>1, <3>2, <3>3 DEF InPlace
  <2> QED
    BY <2>1, <2>2, <2>3
<1>3. \A k \in Jobs \ {j} : job'[k] = job[k] /\ shell'[k] = shell[k]
  BY <1>1 DEF CdSucceeds, Accept, Exec
<1> QED
  BY <1>2, <1>3 DEF DirInv

LEMMA DirStep == Absolute /\ IInv /\ DirInv /\ [Next]_vars => DirInv'
<1> SUFFICES ASSUME Absolute, IInv, DirInv, [Next]_vars PROVE DirInv'
  OBVIOUS
<1>1. ASSUME NEW j \in Jobs, Accept(j) \/ Work(j) \/ Ends(j) PROVE DirInv'
  BY <1>1, DirStay, DirMove DEF Work
<1>2. ASSUME NEW j \in Jobs, Check(j) PROVE DirInv'
  BY <1>2 DEF Check, DirInv, InPlace
<1>3. CASE AskExit \/ ServerExit \/ UNCHANGED vars
  BY <1>3 DEF AskExit, ServerExit, vars, DirInv, InPlace
<1>4. CASE \E restart \in BOOLEAN : Signal(restart)
  BY <1>4, DirSignal
<1> QED
  BY <1>1, <1>2, <1>3, <1>4 DEF Next

\* If cds name their targets absolutely, every process of a job runs in the
\* directory to which the job's own cds lead, whatever other jobs the server
\* is at work on (_SC_cmnd_exec).
THEOREM Directory == ASSUME Absolute PROVE Spec => []OwnDirectory
<1>1. DirInv => OwnDirectory
  BY DEF DirInv, InPlace, OwnDirectory
<1>2. IInv /\ DirInv /\ [Next]_vars => DirInv'
  BY DirStep
<1> QED
  BY <1>1, <1>2, DirInit, Invariance, PTL DEF Spec
-----------------------------------------------------------------------------
(* Every step is one of the site, or none.                                 *)

LEMMA SiteInit == Init => Site!Init
BY DEF Init, Site!Init, Fate, FateOf, NewJob

LEMMA Fates == /\ Fate = [j \in Jobs |-> FateOf(j)]
               /\ Fate' = [j \in Jobs |-> FateOf(j)']
BY DEF Fate

\* What has the place and the replies it had has the fate it had.
LEMMA FateKept ==
  ASSUME IInv, NEW j \in Jobs, job'[j].place = job[j].place, replies'[j] = replies[j]
  PROVE  FateOf(j)' = FateOf(j)
<1>1. job[j] \in Task
  BY DEF IInv, TypeOK
<1>2. job[j].place \in {"ahead", "listed", "gone", "lost"}
  BY <1>1 DEF Task
<1> QED
  BY <1>2 DEF FateOf

LEMMA SameFate ==
  ASSUME IInv, \A j \in Jobs : job'[j].place = job[j].place /\ replies'[j] = replies[j]
  PROVE  UNCHANGED Fate
BY Fates, FateKept

LEMMA SiteStep == IInv /\ [Next]_vars => [Site!Next]_Fate
<1> SUFFICES ASSUME IInv, [Next]_vars PROVE [Site!Next]_Fate
  OBVIOUS
<1> USE DEF TypeOK
<1>1. ASSUME NEW j \in Jobs, Accept(j) PROVE Site!Next
  <2>1. job[j].place = "ahead" /\ job'[j].place = "listed" /\ replies' = replies
        /\ \A k \in Jobs \ {j} : job'[k] = job[k]
    BY <1>1 DEF Accept, IInv, Task
  <2>2. FateOf(j) = "unknown" /\ FateOf(j)' = "accepted"
    BY <2>1 DEF FateOf
  <2>3. \A k \in Jobs \ {j} : FateOf(k)' = FateOf(k)
    BY <2>1, FateKept
  <2>4. Fate[j] = "unknown" /\ Fate' = [Fate EXCEPT ![j] = "accepted"]
    BY <2>2, <2>3, Fates
  <2> QED
    BY <2>4 DEF Site!Next, Site!Accept
<1>2. ASSUME NEW j \in Jobs, Complete(j) PROVE Site!Next
  <2>1. job[j].place = "listed" /\ job[j].status \in Statuses /\ replies[j] = <<>>
    BY <1>2, AtEnd DEF Complete, Task, Statuses
  <2>2. replies'[j] = Append(<<>>, job[j].status) /\ job'[j].place = "gone"
        /\ \A k \in Jobs \ {j} : job'[k] = job[k] /\ replies'[k] = replies[k]
    BY <1>2, <2>1 DEF Complete, Reply, IInv, Histories
  <2>3. Last(Append(<<>>, job[j].status)) = job[j].status
    BY <2>1 DEF Last
  <2>4. FateOf(j) = "accepted" /\ FateOf(j)' = job[j].status
    BY <2>1, <2>2, <2>3 DEF FateOf
  <2>5. \A k \in Jobs \ {j} : FateOf(k)' = FateOf(k)
    BY <2>2, FateKept
  <2>6. Fate[j] = "accepted" /\ Fate' = [Fate EXCEPT ![j] = job[j].status]
    BY <2>4, <2>5, Fates
  <2> QED
    BY <2>1, <2>6 DEF Site!Next, Site!Report, Statuses
<1>3. ASSUME NEW j \in Jobs, Check(j) \/ Ends(j) \/ Echo(j) \/ CdSucceeds(j) \/ CdFails(j)
               \/ Close(j) \/ OverAtLaunch(j) \/ \E opened \in BOOLEAN : Exec(j, opened)
      PROVE  UNCHANGED Fate
  <2>1. replies' = replies
    BY <1>3 DEF Check, Ends, ProcessEnds, Echo, CdSucceeds, CdFails, Close, OverAtLaunch, Exec
  <2>2. \A k \in Jobs \ {j} : job'[k] = job[k]
    BY <1>3 DEF Check, Ends, ProcessEnds, Echo, CdSucceeds, CdFails, Close, OverAtLaunch, Exec,
                IInv
  <2>3. job[j] \in Task
    BY DEF IInv
  <2>4. job'[j].place = job[j].place
    <3>1. CASE CdFails(j)
      BY <3>1, <2>3 DEF CdFails, GivenUp, IInv, Task
    <3>2. CASE Close(j)
      BY <3>2, <2>3 DEF Close, GivenUp, IInv, Task
    <3>3. CASE Check(j) \/ Ends(j) \/ Echo(j) \/ OverAtLaunch(j)
      BY <3>3, <2>3 DEF Check, Ends, ProcessEnds, Echo, OverAtLaunch, IInv, Task
    <3>4. CASE CdSucceeds(j)
      BY <3>4, <2>3 DEF CdSucceeds, IInv, Task
    <3>5. ASSUME NEW opened \in BOOLEAN, Exec(j, opened)
          PROVE  job'[j].place = job[j].place
      BY <3>5, <2>3 DEF Exec, IInv, Task
    <3> QED
      BY <1>3, <3>1, <3>2, <3>3, <3>4, <3>5
  <2> QED
    BY <2>1, <2>2, <2>4, SameFate
<1>4. ASSUME NEW restart \in BOOLEAN, Signal(restart) PROVE Site!Next
  <2>1. \A k \in Jobs : replies'[k] = replies[k] /\ job[k] \in Task
    BY <1>4 DEF Signal, IInv
  <2>2. \A k \in Jobs : job'[k].place = IF job[k].place = "listed" THEN "lost" ELSE job[k].place
    BY <1>4, <2>1 DEF Signal, Forget, Listed, Task
  <2>3. ASSUME NEW k \in Jobs
        PROVE  FateOf(k)' = IF FateOf(k) = "accepted" THEN "lost" ELSE FateOf(k)
    <3>1. JobInv(job[k], log[k], replies[k], Size(k))
      BY DEF IInv, JobsInv
    <3>2. job[k].place = "gone" => Last(replies[k]) \in Statuses
      BY <3>1 DEF JobInv, Last
    <3>3. job[k].place \in {"ahead", "listed", "gone", "lost"}
      BY <2>1 DEF Task
    <3>4. CASE job[k].place = "listed"
      BY <3>4, <2>2 DEF FateOf
    <3>5. CASE job[k].place # "listed"
      <4>1. FateOf(k) # "accepted"
        BY <3>2, <3>3, <3>5 DEF FateOf, Statuses
      <4>2. FateOf(k)' = FateOf(k)
        BY <3>5, <2>1, <2>2, FateKept
      <4> QED
        BY <4>1, <4>2
    <3> QED
      BY <3>4, <3>5
  <2>4. Fate' = [k \in Jobs |-> IF Fate[k] = "accepted" THEN "lost" ELSE Fate[k]]
    BY <2>3, Fates
  <2> QED
    BY <2>4 DEF Site!Next, Site!Lose
<1>5. CASE AskExit \/ ServerExit \/ UNCHANGED vars
  BY <1>5, SameFate DEF AskExit, ServerExit, vars
<1> QED
  BY <1>1, <1>2, <1>3, <1>4, <1>5 DEF Next, Work

\* A job is answered once or lost, and what was answered is not taken back:
\* the safety part of ImplementsSite.
THEOREM Refinement == Spec => Site!Init /\ [][Site!Next]_Fate
BY SiteInit, SiteStep, Invariance, PTL DEF Spec
=============================================================================
