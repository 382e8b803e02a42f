--------------------------- MODULE SmpWork_proofs ---------------------------
(***************************************************************************)
(* For any number of threads, any loops, queues and sets of functions and  *)
(* any number of calls: the work distribution does every iteration once,   *)
(* before the call returns, and no chunk is missed.                        *)
(*                                                                         *)
(* The invariant says what has been given to whom.  Front is the first     *)
(* iteration given to nobody; Hand(w) are the iterations that thread w has *)
(* been given and has not done.  The iterations below Front that are in no *)
(* hand have been done once, all others not at all, and no iteration is in *)
(* two hands.  That all of a loop has been given to someone when the call  *)
(* returns follows for chunks from their number, wid being the number of   *)
(* threads that have come for one, and for a queue from its end, which a   *)
(* thread that has ended has seen.                                         *)
(***************************************************************************)
EXTENDS SmpWork, FiniteSets, FiniteSetTheorems, SequenceTheorems,
        WellFoundedInduction, TLAPS

Size == Total(tw)
Busy == mpc # "idle"

\* The caller runs the function itself.
Solo == mpc = "one" \/ (mpc = "check" /\ made = 0)

\* The threads of the call, and those of them that are not joined.
Crew == IF Solo THEN {0} ELSE 1 .. made
Working == IF mpc = "one" THEN {0} ELSE joined + 1 .. made

\* The pieces of work, with the values their threads returned.
Rets == UNION {[0 .. n -> Int \cup {NULL}] : n \in Nat}
Pieces == [n_thread : Nat \ {0}, ret : Rets]

\* What the variables range over; TypeOK has less of it.
Typed ==
  /\ nthreads \in -1 .. MaxThreads
  /\ call \in Calls \cup {NoCall}
  /\ mpc \in {"idle", "one", "create", "join", "check"}
  /\ made \in 0 .. MaxThreads /\ joined \in 0 .. made
  /\ wid \in 0 .. MaxThreads
  /\ nxt \in Nat
  /\ holder \in Workers \cup {Free}
  /\ wpc \in [Workers -> {"none", "start", "locked", "taken", "unlock", "use", "run", "ended"}]
  /\ slot \in [Workers -> Int \cup {NULL}]
  /\ piece \in [Workers -> Int \X Int]
  /\ times \in [Iterations -> Nat]
  /\ missed \in BOOLEAN

\* The caller goes through its call in order, and who works has a place.
Phase ==
  /\ mpc = "idle"   => made = 0 /\ joined = 0
  /\ mpc = "one"    => Size = 1 /\ made = 0 /\ joined = 0
  /\ mpc = "create" => made < Size /\ joined = 0
  /\ mpc = "join"   => made = Size /\ joined < Size
  /\ mpc = "check"  => joined = made /\ (made = Size \/ (made = 0 /\ Size = 1))
  /\ \A w \in Workers : wpc[w] # "none" <=> w \in Working

\* The pieces of work are those of the call.
Team ==
  /\ call \in Calls /\ tw \in Seq(Pieces) /\ Size \in 1 .. MaxThreads
  /\ call.kind = "work" => /\ Len(tw) = Len(call.nt)
                           /\ \A i \in 1 .. Len(tw) : tw[i].n_thread = AtLeast1(call.nt[i])
  /\ call.kind # "work" => /\ Len(tw) = 1 /\ nthreads >= 0
                           /\ tw[1].n_thread = AtLeast1(IF call.serial THEN 1 ELSE nthreads)

\* Who is between lock and unlock has the lock.
Locked == \A w \in Workers : wpc[w] \in {"locked", "taken", "unlock"} <=> holder = w

\* The threads of a loop that have come for their chunk.
Takers == {w \in Crew : wpc[w] \notin {"start", "locked"}}

\* They have taken the first chunks, one each, and the joins have put the
\* numbers of their chunks where SC_chunk_loop looks for them.
Chunks == call.kind = "chunk" =>
  /\ index = Index(call.mn, call.mx, Size)
  /\ DOMAIN tw[1].ret = 0 .. Size
  /\ wid = Cardinality(Takers)
  /\ \A w \in Takers : At(w, "taken") \/ slot[w] \in 0 .. wid - 1
  /\ \A s \in 0 .. wid - 1 : \E w \in Takers : IF At(w, "taken") THEN s = wid - 1 ELSE slot[w] = s
  /\ \A w \in Crew \ Working : tw[1].ret[IF w = 0 THEN 0 ELSE w - 1] = slot[w]

\* The items below nxt are taken; who has ended has found no other.
Items == call.kind = "queue" =>
  /\ nxt \in 0 .. call.mx
  /\ \A w \in Crew :
       /\ At(w, "taken") => IF nxt = call.mx THEN slot[w] = -1 ELSE slot[w] = nxt
       /\ wpc[w] \in {"unlock", "use"} => slot[w] \in 0 .. nxt - 1 \/ (slot[w] = -1 /\ nxt = call.mx)
       /\ wpc[w] \in {"ended", "none"} => nxt = call.mx

Calling == call.kind = "work" => \A w \in Crew : wpc[w] \in {"none", "start", "run", "ended"}

Rank(w) == IF w = 0 THEN 0 ELSE w - 1
Span(s) == index[s] .. index[s + 1] - 1

\* The iterations given to thread w that it has not done.
Hand(w) ==
  CASE At(w, "run")                                             -> piece[w][1] .. piece[w][2] - 1
    [] call.kind = "chunk" /\ At(w, "taken")                    -> Span(wid - 1)
    [] call.kind = "chunk" /\ (At(w, "unlock") \/ At(w, "use")) -> Span(slot[w])
    [] call.kind = "queue" /\ (At(w, "unlock") \/ At(w, "use")) -> {slot[w]} \ {-1}
    [] call.kind = "work"  /\ At(w, "start")                    -> {Rank(w)}
    [] OTHER                                                    -> {}

\* The first iteration that was given to nobody.
Front == CASE call.kind = "chunk" -> index[wid]
           [] call.kind = "queue" -> nxt
           [] call.kind = "work"  -> IF Solo THEN 1 ELSE made

\* No iteration is in two hands, and none beyond Front in one.
Hands ==
  /\ \A w \in Crew : \A i \in Hand(w) : i \in LoopOf(call) /\ i < Front
  /\ \A u, w \in Crew : u # w => Hand(u) \cap Hand(w) = {}

\* The iterations given to a thread that are in no hand are done, once.
Done == \A i \in LoopOf(call) :
          times[i] = IF i < Front /\ \A w \in Crew : i \notin Hand(w) THEN 1 ELSE 0

InCall == Team /\ Chunks /\ Items /\ Calling /\ Hands /\ Done

IInv == Typed /\ Phase /\ Locked /\ ~missed /\ (Busy => InCall)

-----------------------------------------------------------------------------
(* Numbers and sums.                                                       *)

\* A set of natural numbers that is not empty has a least element: the
\* intervals that end in the set are finite, so one of them has no other below.
LEMMA Least ==
  ASSUME NEW S \in SUBSET Nat, S # {}
  PROVE  \E m \in S : \A k \in S : m =< k
<1> DEFINE T == {0 .. k : k \in S}
           R == StrictSubsetOrdering(Nat)
<1>1. IsWellFoundedOn(R, FiniteSubsetsOf(Nat))
  BY FS_StrictSubsetOrderingWellFounded
<1>2. T \subseteq FiniteSubsetsOf(Nat) /\ T # {}
  <2>1. \A k \in S : 0 .. k \subseteq Nat /\ IsFiniteSet(0 .. k)
    BY FS_Interval
  <2> QED BY <2>1 DEF FiniteSubsetsOf
<1>3. \E x \in T : \A y \in T : ~(<<y, x>> \in R)
  <2> HIDE DEF T, R
  <2> QED BY <1>1, <1>2, WFMin
<1>4. PICK m \in S : \A k \in S : <<0 .. k, 0 .. m>> \notin R
  BY <1>3
<1>5. \A k \in S : k < m => <<0 .. k, 0 .. m>> \in R
  <2> SUFFICES ASSUME NEW k \in S, k < m PROVE <<0 .. k, 0 .. m>> \in R
    OBVIOUS
  <2>1. 0 .. k \subseteq 0 .. m /\ m \in 0 .. m /\ m \notin 0 .. k /\ 0 .. m \subseteq Nat
    OBVIOUS
  <2> QED BY <2>1 DEF StrictSubsetOrdering
<1>6. \A k \in S : ~(k < m)
  BY <1>4, <1>5
<1> HIDE DEF T, R
<1>7. \A k \in S : m =< k
  BY <1>6
<1> QED BY <1>7

\* b holds the threads of the first pieces of work, up to n.
Sums(work, b, n) == b = [i \in 0 .. n |-> IF i = 0 THEN 0 ELSE b[i - 1] + work[i].n_thread]

LEMMA SumsExist == ASSUME NEW work, NEW n \in Nat PROVE \E b : Sums(work, b, n)
<1> DEFINE Bad == {m \in Nat : ~\E b : Sums(work, b, m)}
<1> SUFFICES ASSUME Bad # {} PROVE FALSE
  OBVIOUS
<1>1. PICK m \in Bad : \A k \in Bad : m =< k
  BY Least
<1>2. m \in Nat /\ ~\E b : Sums(work, b, m)
  OBVIOUS
<1>3. CASE m = 0
  <2>1. Sums(work, [i \in 0..0 |-> 0], 0)
    BY DEF Sums
  <2> QED BY <2>1, <1>2, <1>3
<1>4. CASE m # 0
  <2>1. m - 1 \in Nat /\ m - 1 \notin Bad
    BY <1>1, <1>2, <1>4
  <2>2. PICK b : Sums(work, b, m - 1)
    BY <2>1
  <2> DEFINE c == [i \in 0 .. m |-> IF i = 0 THEN 0 ELSE b[i - 1] + work[i].n_thread]
  <2>3. \A i \in 0 .. m - 1 : b[i] = IF i = 0 THEN 0 ELSE b[i - 1] + work[i].n_thread
    BY <2>2 DEF Sums
  <2>4. \A i \in 0 .. m : c[i] = IF i = 0 THEN 0 ELSE b[i - 1] + work[i].n_thread
    OBVIOUS
  <2>5. c = [i \in 0 .. m |-> c[i]]
    OBVIOUS
  <2>6. \A i \in 0 .. m : c[i] = IF i = 0 THEN 0 ELSE c[i - 1] + work[i].n_thread
    <3> HIDE DEF c
    <3> TAKE i \in 0 .. m
    <3>1. i # 0 => i - 1 \in 0 .. m - 1 /\ i - 1 \in 0 .. m
      BY <1>2
    <3>2. i # 0 => c[i - 1] = b[i - 1]
      BY <3>1, <2>3, <2>4
    <3> QED BY <3>2, <2>4
  <2>7. Sums(work, c, m)
    <3> HIDE DEF c
    <3> QED BY <2>5, <2>6 DEF Sums
  <2> QED BY <2>7, <1>2
<1> QED BY <1>3, <1>4

LEMMA BeforeDef ==
  ASSUME NEW work, Len(work) \in Nat
  PROVE  Before(work) = [i \in 0 .. Len(work) |->
                           IF i = 0 THEN 0 ELSE Before(work)[i - 1] + work[i].n_thread]
<1>1. \E b : Sums(work, b, Len(work))
  BY SumsExist
<1>2. Sums(work, CHOOSE b : Sums(work, b, Len(work)), Len(work))
  BY <1>1
<1>3. Before(work) = CHOOSE b : Sums(work, b, Len(work))
  BY DEF Before, Sums
<1> QED BY <1>2, <1>3 DEF Sums

LEMMA BeforeFirst ==
  ASSUME NEW work, Len(work) = 1, work[1].n_thread \in Nat
  PROVE  /\ Before(work)[0] = 0 /\ Before(work)[1] = work[1].n_thread
         /\ Total(work) = work[1].n_thread
         /\ \A k \in 0 .. Total(work) - 1 : PieceOf(work, k) = 1
<1> DEFINE B == Before(work)
<1>1. B = [i \in 0 .. 1 |-> IF i = 0 THEN 0 ELSE B[i - 1] + work[i].n_thread]
  BY BeforeDef
<1>2. B[0] = 0 /\ B[1] = work[1].n_thread
  <2> HIDE DEF B
  <2>1. 0 \in 0 .. 1 /\ 1 \in 0 .. 1 /\ 1 - 1 = 0
    OBVIOUS
  <2>2. B[0] = 0
    BY <1>1, <2>1
  <2>3. B[1] = B[0] + work[1].n_thread
    BY <1>1, <2>1
  <2> QED BY <2>2, <2>3
<1>3. \A k \in 0 .. Total(work) - 1 : PieceOf(work, k) = 1
  BY <1>2 DEF PieceOf, Total
<1> QED BY <1>2, <1>3 DEF Total

\* The sums depend on the numbers of threads only.
LEMMA SameTotal ==
  ASSUME NEW v, NEW w, Len(v) \in Nat, Len(w) = Len(v),
         \A i \in 1 .. Len(v) : v[i].n_thread = w[i].n_thread
  PROVE  Total(v) = Total(w)
<1>1. \A b : Sums(v, b, Len(v)) <=> Sums(w, b, Len(w))
  <2> TAKE b
  <2>1. \A i \in 0 .. Len(v) : (IF i = 0 THEN 0 ELSE b[i - 1] + v[i].n_thread)
                             = (IF i = 0 THEN 0 ELSE b[i - 1] + w[i].n_thread)
    OBVIOUS
  <2>2. [i \in 0 .. Len(v) |-> IF i = 0 THEN 0 ELSE b[i - 1] + v[i].n_thread]
      = [i \in 0 .. Len(w) |-> IF i = 0 THEN 0 ELSE b[i - 1] + w[i].n_thread]
    BY <2>1
  <2> QED BY <2>2 DEF Sums
<1>2. (CHOOSE b : Sums(v, b, Len(v))) = (CHOOSE b : Sums(w, b, Len(w)))
  BY <1>1, Zenon
<1>3. Before(v) = Before(w)
  BY <1>2 DEF Before, Sums
<1> QED BY <1>3 DEF Total

\* A team has a thread at least.
LEMMA TotalPositive ==
  ASSUME NEW work, Len(work) \in Nat \ {0},
         \A i \in 1 .. Len(work) : work[i].n_thread \in Nat \ {0}
  PROVE  Total(work) \in Nat \ {0}
<1> DEFINE B == Before(work)
           n == Len(work)
           Bad == {i \in 1 .. n : B[i] \notin Nat \ {0}}
<1>1. \A i \in 0 .. n : B[i] = IF i = 0 THEN 0 ELSE B[i - 1] + work[i].n_thread
  <2>1. B = [i \in 0 .. n |-> IF i = 0 THEN 0 ELSE B[i - 1] + work[i].n_thread]
    BY BeforeDef
  <2> HIDE DEF B, n
  <2> QED BY <2>1
<1>2. Bad = {}
  <2> SUFFICES ASSUME Bad # {} PROVE FALSE
    OBVIOUS
  <2> HIDE DEF B
  <2>1. Bad \subseteq Nat
    OBVIOUS
  <2>2. PICK m \in Bad : \A k \in Bad : m =< k
    BY <2>1, Least
  <2>3. m \in 1 .. n /\ B[m] \notin Nat \ {0} /\ m - 1 \in 0 .. n - 1 /\ n \in Nat
    OBVIOUS
  <2>4. m - 1 = 0 \/ B[m - 1] \in Nat \ {0}
    BY <2>2, <2>3
  <2>5. B[m - 1] \in Nat
    BY <2>3, <2>4, <1>1
  <2>6. B[m] = B[m - 1] + work[m].n_thread /\ work[m].n_thread \in Nat \ {0}
    BY <2>3, <1>1
  <2> QED BY <2>3, <2>5, <2>6
<1> QED BY <1>2 DEF Total

\* Division rounds down.
LEMMA Division ==
  ASSUME NEW a \in Nat, NEW n \in Nat \ {0}
  PROVE  a \div n \in Nat /\ n * (a \div n) =< a
OBVIOUS
\* The limits of the chunks go up from mn to mx.
LEMMA Limits ==
  ASSUME NEW mn \in Int, NEW mx \in Int, mn =< mx, NEW n \in Nat \ {0}
  PROVE  LET x == Index(mn, mx, n)
         IN  /\ DOMAIN x = 0 .. n
             /\ x[0] = mn /\ x[n] = mx
             /\ \A j \in 0 .. n : x[j] \in mn .. mx
             /\ \A j \in 0 .. n - 1 : x[j] =< x[j + 1]
<1> DEFINE x == Index(mn, mx, n)
           d == (mx - mn) \div n
<1>1. d \in Nat /\ n * d =< mx - mn
  BY Division
<1>2. DOMAIN x = 0 .. n /\ \A j \in 0 .. n : x[j] = IF j = n THEN mx ELSE mn + j * d
  BY DEF Index
<1> HIDE DEF x, d
<1>3. \A j \in 0 .. n : 0 =< j * d /\ j * d =< n * d
  <2> TAKE j \in 0 .. n
  <2>1. n = j + (n - j) /\ n - j \in Nat /\ j \in Nat
    OBVIOUS
  <2>2. n * d = j * d + (n - j) * d
    BY <2>1, <1>1
  <2>3. j * d \in Nat /\ (n - j) * d \in Nat
    BY <2>1, <1>1
  <2> QED BY <2>2, <2>3
<1>4. \A j \in 0 .. n - 1 : (j + 1) * d = j * d + d
  BY <1>1
<1>5. \A j \in 0 .. n : j * d \in Int
  BY <1>1
<1>6. x[0] = mn /\ x[n] = mx
  BY <1>2, <1>1
<1>7. \A j \in 0 .. n : x[j] \in mn .. mx
  <2> TAKE j \in 0 .. n
  <2>1. x[j] = mx \/ x[j] = mn + j * d
    BY <1>2
  <2>2. j * d \in Int /\ 0 =< j * d /\ j * d =< mx - mn
    <3>1. n * d \in Int
      BY <1>1
    <3> QED BY <3>1, <1>1, <1>3, <1>5
  <2> QED BY <2>1, <2>2
<1>8. \A j \in 0 .. n - 1 : x[j] =< x[j + 1]
  <2> TAKE j \in 0 .. n - 1
  <2>1. j \in 0 .. n /\ j + 1 \in 0 .. n /\ j # n
    OBVIOUS
  <2>2. x[j] = mn + j * d
    BY <2>1, <1>2
  <2>3. CASE j + 1 = n
    BY <2>3, <2>1, <2>2, <1>6, <1>7
  <2>4. CASE j + 1 # n
    <3>1. x[j + 1] = mn + (j + 1) * d
      BY <2>1, <2>4, <1>2
    <3> QED BY <3>1, <2>2, <1>4, <1>1, <1>5, <2>1
  <2> QED BY <2>3, <2>4
<1> QED BY <1>2, <1>6, <1>7, <1>8 DEF x

-----------------------------------------------------------------------------
(* Who works.                                                              *)

LEMMA Bounds == MaxThreads \in Nat \ {0} /\ \A w \in Workers : w \in Nat /\ w =< MaxThreads
BY BoundAssumption DEF Workers

LEMMA SizeNat == ASSUME Team PROVE Size \in Nat \ {0} /\ Size =< MaxThreads
BY Bounds DEF Team

\* Who works is in the crew; a thread works in a call only.
LEMMA WorkingInCrew ==
  ASSUME Typed, Phase
  PROVE  /\ Working \subseteq Crew /\ Crew \subseteq Workers
         /\ ~Busy => Working = {}
<1>1. Crew \subseteq Workers
  BY Bounds DEF Typed, Crew, Solo, Workers
<1>2. Working \subseteq Crew
  BY DEF Typed, Phase, Crew, Solo, Working
<1>3. ~Busy => Working = {}
  BY DEF Phase, Working, Busy
<1> QED BY <1>1, <1>2, <1>3

\* The step of a worker: it is one of the crew, and moves nobody else.
LEMMA WorkerFrame ==
  ASSUME Typed, Phase, NEW w \in Workers, WorkerStep(w)
  PROVE  /\ w \in Crew /\ w \in Working /\ Busy
         /\ UNCHANGED <<callerVars, Crew, Working, Size, Busy, Solo>>
         /\ wpc' \in [Workers -> {"none", "start", "locked", "taken", "unlock", "use", "run", "ended"}]
         /\ wpc'[w] # "none"
         /\ \A v \in Workers \ {w} : wpc'[v] = wpc[v] /\ slot'[v] = slot[v] /\ piece'[v] = piece[v]
<1>1. wpc[w] # "none" /\ UNCHANGED callerVars
  BY DEF WorkerStep, LockOn, LockOff, NextWid, TakeChunk, UseChunk, NextItem, CountItem, UseItem,
         Invoke, Run, RunEnds, At, callerVars
<1>2. w \in Working
  BY <1>1 DEF Phase
<1>3. w \in Crew /\ Busy
  BY <1>2, WorkingInCrew
<1>4. UNCHANGED <<callerVars, Crew, Working, Size, Busy, Solo>>
  BY <1>1 DEF callerVars, Crew, Working, Size, Busy, Solo
<1>5. \E l \in {"start", "locked", "taken", "unlock", "use", "run", "ended"} :
         wpc' = [wpc EXCEPT ![w] = l]
  BY <1>1 DEF WorkerStep, LockOn, LockOff, NextWid, TakeChunk, UseChunk, NextItem, CountItem, UseItem,
         Invoke, Run, RunEnds, At, Goto, Typed
<1>6. /\ wpc' \in [Workers -> {"none", "start", "locked", "taken", "unlock", "use", "run", "ended"}]
      /\ wpc'[w] # "none"
      /\ \A v \in Workers \ {w} : wpc'[v] = wpc[v]
  BY <1>5 DEF Typed
<1>7. /\ UNCHANGED slot \/ (\E s : slot' = [slot EXCEPT ![w] = s])
      /\ UNCHANGED piece \/ (\E s : piece' = [piece EXCEPT ![w] = s])
  BY DEF WorkerStep, LockOn, LockOff, NextWid, TakeChunk, UseChunk, NextItem, CountItem, UseItem,
         Invoke, Run, RunEnds, Take, sharedVars
<1>8. \A v \in Workers \ {w} : slot'[v] = slot[v] /\ piece'[v] = piece[v]
  BY <1>7 DEF Typed
<1> QED BY <1>2, <1>3, <1>4, <1>6, <1>7, <1>8

\* The limits of the chunks in a loop.
LEMMA ChunkLimits ==
  ASSUME Team, Chunks, call.kind = "chunk"
  PROVE  /\ call.mn \in Int /\ call.mx \in Int /\ LoopOf(call) = call.mn .. call.mx - 1
         /\ DOMAIN index = 0 .. Size
         /\ index[0] = call.mn /\ index[Size] = call.mx
         /\ \A j \in 0 .. Size : index[j] \in call.mn .. call.mx
         /\ \A j \in 0 .. Size - 1 : index[j] =< index[j + 1]
<1>1. call.mn \in Int /\ call.mx \in Int /\ call.mn =< call.mx
  BY CallsAssumption DEF Team, CallType
<1>2. index = Index(call.mn, call.mx, Size) /\ Size \in Nat \ {0}
  BY SizeNat DEF Chunks
<1>3. LoopOf(call) = call.mn .. call.mx - 1
  BY DEF LoopOf
<1> DEFINE x == Index(call.mn, call.mx, Size)
<1>4. /\ DOMAIN x = 0 .. Size
      /\ x[0] = call.mn /\ x[Size] = call.mx
      /\ \A j \in 0 .. Size : x[j] \in call.mn .. call.mx
      /\ \A j \in 0 .. Size - 1 : x[j] =< x[j + 1]
  <2> HIDE DEF x
  <2> QED BY <1>1, <1>2, Limits DEF x
<1> HIDE DEF x
<1>5. index = x
  BY <1>2 DEF x
<1> QED BY <1>1, <1>3, <1>4, <1>5

LEMMA Crowd ==
  ASSUME Typed, Phase, Busy, Team
  PROVE  IsFiniteSet(Crew) /\ Cardinality(Crew) =< Size
<1>1. CASE Solo
  <2>1. Crew = {0}
    BY <1>1 DEF Crew
  <2> QED BY <2>1, FS_Singleton, SizeNat
<1>2. CASE ~Solo
  <2>1. Crew = 1 .. made /\ made \in Nat
    BY <1>2 DEF Crew, Typed
  <2>2. made =< Size
    BY <1>2, SizeNat DEF Phase, Busy, Solo, Typed
  <2>3. IsFiniteSet(1 .. made) /\ Cardinality(1 .. made) = made
    BY <2>1, FS_Interval
  <2> QED BY <2>1, <2>2, <2>3
<1> QED BY <1>1, <1>2

\* Fewer chunks are taken than there are while a thread still wants one.
LEMMA Taken ==
  ASSUME Typed, Phase, Busy, Team, Chunks, call.kind = "chunk"
  PROVE  /\ IsFiniteSet(Takers) /\ wid \in 0 .. Size
         /\ \A w \in Crew \ Takers : wid < Size
         /\ \A w \in Takers : wid >= 1
         /\ Takers = Crew /\ Cardinality(Crew) = Size => wid = Size
<1>1. IsFiniteSet(Crew) /\ Cardinality(Crew) =< Size /\ Size \in Nat \ {0} /\ Takers \subseteq Crew
  BY Crowd, SizeNat DEF Takers
<1>2. /\ IsFiniteSet(Takers) /\ Cardinality(Takers) =< Cardinality(Crew)
      /\ Cardinality(Crew) = Cardinality(Takers) => Crew = Takers
  BY <1>1, FS_Subset
<1>3. wid = Cardinality(Takers) /\ wid \in Nat /\ Cardinality(Crew) \in Nat
  BY <1>1, <1>2, FS_CardinalityType DEF Chunks
<1>4. \A w \in Takers : wid >= 1
  BY <1>2, <1>3, FS_EmptySet
<1> QED BY <1>1, <1>2, <1>3, <1>4

LEMMA WorkerTyped ==
  ASSUME Typed, Phase, Team, Chunks, Items, NEW w \in Workers, WorkerStep(w)
  PROVE  Typed' /\ Phase' /\ Team'
<1> USE WorkerFrame
<1>1. Typed'
  <2>0. /\ wpc' \in [Workers -> {"none", "start", "locked", "taken", "unlock", "use", "run", "ended"}]
        /\ UNCHANGED callerVars
    OBVIOUS
  <2>1. UNCHANGED wid \/ wid' \in 0 .. MaxThreads
    <3>1. CASE NextWid(w)
      BY <3>1, Bounds DEF NextWid, Typed
    <3> QED BY <3>1 DEF WorkerStep, LockOn, LockOff, TakeChunk, UseChunk, NextItem, CountItem, UseItem,
         Invoke, Run, RunEnds, sharedVars
  <2>2. nxt' \in Nat
    <3>1. CASE CountItem(w)
      <4>1. call.mx \in Int
        BY CallsAssumption DEF Team, CallType
      <4>2. slot[w] = -1 \/ slot[w] = nxt
        BY <3>1, WorkerFrame DEF CountItem, Items
      <4> QED BY <4>2, <3>1 DEF CountItem, Typed
    <3> QED BY <3>1 DEF WorkerStep, LockOn, LockOff, TakeChunk, UseChunk, NextItem, NextWid, UseItem,
         Invoke, Run, RunEnds, sharedVars, Typed
  <2>3. holder' \in Workers \cup {Free}
    BY DEF WorkerStep, LockOn, LockOff, NextWid, TakeChunk, UseChunk, NextItem, CountItem, UseItem,
         Invoke, Run, RunEnds, sharedVars, Typed
  <2>4. slot' \in [Workers -> Int \cup {NULL}]
    <3>1. wid - 1 \in Int /\ nxt \in Int /\ w \in Int /\ w - 1 \in Int
      BY Bounds DEF Typed
    <3> QED BY <3>1 DEF WorkerStep, LockOn, LockOff, NextWid, TakeChunk, UseChunk, NextItem, CountItem, UseItem,
         Invoke, Run, RunEnds, sharedVars, Typed, Take
  <2>5. piece' \in [Workers -> Int \X Int]
    <3>1. CASE UseChunk(w)
      <4>1. slot[w] \in 0 .. wid - 1 /\ wid \in 0 .. Size
        BY <3>1, Taken, WorkerFrame DEF UseChunk, Chunks, Takers, At
      <4>2. slot[w] \in 0 .. Size /\ slot[w] + 1 \in 0 .. Size
        BY <4>1, SizeNat
      <4>3. index[slot[w]] \in Int /\ index[slot[w] + 1] \in Int
        BY <4>2, <3>1, ChunkLimits DEF UseChunk
      <4> QED BY <4>3, <3>1 DEF UseChunk, Typed
    <3>2. CASE UseItem(w)
      <4>1. call.mx \in Int
        BY CallsAssumption DEF Team, CallType
      <4>2. slot[w] \in Int
        BY <3>2, WorkerFrame DEF UseItem, Items, At, Typed
      <4> QED BY <4>2, <3>2 DEF UseItem, Typed
    <3>3. CASE Invoke(w)
      <4>1. w \in Nat
        BY Bounds
      <4> QED BY <4>1, <3>3 DEF Invoke, Typed
    <3>4. CASE Run(w)
      BY <3>4 DEF Run, Typed
    <3> QED BY <3>1, <3>2, <3>3, <3>4 DEF WorkerStep, LockOn, LockOff, TakeChunk, NextItem, NextWid,
         CountItem, RunEnds, sharedVars, Typed
  <2>6. times' \in [Iterations -> Nat]
    BY DEF WorkerStep, LockOn, LockOff, NextWid, TakeChunk, UseChunk, NextItem, CountItem, UseItem,
         Invoke, Run, RunEnds, sharedVars, Typed
  <2>7. wid' \in 0 .. MaxThreads
    BY <2>1 DEF Typed
  <2> QED BY <2>0, <2>7, <2>2, <2>3, <2>4, <2>5, <2>6 DEF Typed, callerVars
<1>2. Phase'
  <2>1. /\ UNCHANGED <<callerVars, Working, Size>> /\ w \in Working
        /\ wpc'[w] # "none" /\ \A v \in Workers \ {w} : wpc'[v] = wpc[v]
    OBVIOUS
  <2>2. \A v \in Workers : wpc'[v] # "none" <=> v \in Working'
    BY <2>1 DEF Phase
  <2> QED BY <2>1, <2>2 DEF Phase, callerVars
<1>3. Team'
  BY DEF Team, callerVars
<1> QED BY <1>1, <1>2, <1>3

\* One thread at a time is inside the lock.
LEMMA WorkerLocked ==
  ASSUME Typed, Phase, Locked, Busy => Team, NEW w \in Workers, WorkerStep(w)
  PROVE  Locked'
<1> USE WorkerFrame DEF Locked
<1>1. \A v \in Workers \ {w} : wpc'[v] = wpc[v]
  OBVIOUS
<1>2. Free \notin Workers
  BY NoneAssumption DEF Workers
<1>3. CASE LockOn(w)
  BY <1>1, <1>2, <1>3 DEF LockOn, At, Goto, Typed
<1>4. CASE LockOff(w)
  BY <1>1, <1>2, <1>4 DEF LockOff, At, Goto, Typed
<1>5. CASE ~LockOn(w) /\ ~LockOff(w)
  <2>1. /\ holder' = holder
        /\ wpc[w] \in {"locked", "taken", "unlock"} <=> wpc'[w] \in {"locked", "taken", "unlock"}
    BY <1>5 DEF WorkerStep, NextWid, TakeChunk, UseChunk, NextItem, CountItem, UseItem,
         Invoke, Run, RunEnds, sharedVars, At, Goto, Typed
  <2> QED BY <2>1, <1>1
<1> QED BY <1>3, <1>4, <1>5

LEMMA WorkerCalling ==
  ASSUME Typed, Phase, Team, Calling, NEW w \in Workers, WorkerStep(w)
  PROVE  Calling'
<1>1. /\ w \in Crew /\ UNCHANGED <<callerVars, Crew>> /\ Crew \subseteq Workers
      /\ \A v \in Workers \ {w} : wpc'[v] = wpc[v]
  BY WorkerFrame, WorkingInCrew
<1>2. call.kind = "work" => wpc'[w] \in {"none", "start", "run", "ended"}
  BY <1>1 DEF WorkerStep, LockOn, LockOff, NextWid, TakeChunk, UseChunk, NextItem, CountItem, UseItem,
         Invoke, Run, RunEnds, sharedVars, At, Goto, Typed, Calling
<1> QED BY <1>1, <1>2 DEF Calling, callerVars

\* The threads of a queue take its items one by one until none is left.
LEMMA WorkerItems ==
  ASSUME Typed, Phase, Locked, Team, Items, NEW w \in Workers, WorkerStep(w)
  PROVE  Items'
<1> SUFFICES ASSUME call.kind = "queue" PROVE Items'
  BY WorkerFrame DEF Items, callerVars
<1>1. /\ w \in Crew /\ UNCHANGED <<callerVars, Crew>> /\ Crew \subseteq Workers
      /\ \A v \in Workers \ {w} : wpc'[v] = wpc[v] /\ slot'[v] = slot[v]
  BY WorkerFrame, WorkingInCrew
<1>2. call.mx \in Int /\ call' = call
  BY <1>1, CallsAssumption DEF Team, CallType, callerVars
<1>3. nxt \in 0 .. call.mx
  BY DEF Items
<1>4. CASE CountItem(w)
  <2>1. \A v \in Crew \ {w} : ~At(v, "taken")
    BY <1>1, <1>4 DEF Locked, CountItem, At
  <2>2. IF nxt = call.mx THEN slot[w] = -1 ELSE slot[w] = nxt
    BY <1>1, <1>4 DEF Items, CountItem
  <2>3. nxt' = IF nxt = call.mx THEN nxt ELSE nxt + 1
    BY <2>2, <1>4, <1>3 DEF CountItem
  <2>4. slot' = slot /\ wpc'[w] = "unlock"
    BY <1>1, <1>4 DEF CountItem, Goto, Typed
  <2>5. nxt' \in 0 .. call.mx /\ (nxt = call.mx => nxt' = call.mx)
    BY <2>3, <1>2, <1>3
  <2>6. \A v \in Crew \ {w} :
          /\ ~At(v, "taken")'
          /\ wpc'[v] \in {"unlock", "use"} => slot'[v] \in 0 .. nxt' - 1 \/ (slot'[v] = -1 /\ nxt' = call.mx)
          /\ wpc'[v] \in {"ended", "none"} => nxt' = call.mx
    BY <2>1, <2>3, <2>4, <2>5, <1>1, <1>2, <1>3 DEF Items, At
  <2>7. slot'[w] \in 0 .. nxt' - 1 \/ (slot'[w] = -1 /\ nxt' = call.mx)
    BY <2>2, <2>3, <2>4, <1>2, <1>3
  <2> QED BY <2>4, <2>5, <2>6, <2>7, <1>1, <1>2 DEF Items, At
<1>5. CASE ~CountItem(w)
  <2>1. nxt' = nxt
    BY <1>5 DEF WorkerStep, LockOn, LockOff, NextWid, TakeChunk, UseChunk, NextItem, UseItem,
         Invoke, Run, RunEnds, sharedVars
  <2>2. /\ At(w, "taken")' => IF nxt = call.mx THEN slot'[w] = -1 ELSE slot'[w] = nxt
        /\ wpc'[w] \in {"unlock", "use"} => slot'[w] \in 0 .. nxt - 1 \/ (slot'[w] = -1 /\ nxt = call.mx)
        /\ wpc'[w] \in {"ended", "none"} => nxt = call.mx
    <3>1. CASE NextItem(w)
      <4>1. wpc'[w] = "taken" /\ slot'[w] = IF nxt >= call.mx THEN -1 ELSE nxt
        BY <3>1 DEF NextItem, Goto, Take, Typed
      <4> QED BY <4>1, <1>2, <1>3 DEF At
    <3>2. CASE UseItem(w)
      <4>1. wpc[w] = "use" /\ wpc' = [wpc EXCEPT ![w] = IF slot[w] = -1 THEN "ended" ELSE "run"]
        BY <3>2 DEF UseItem, At, Goto
      <4>2. slot[w] = -1 => nxt = call.mx
        BY <4>1, <1>1, <1>3 DEF Items
      <4>3. wpc'[w] = IF slot[w] = -1 THEN "ended" ELSE "run"
        BY <4>1 DEF Typed
      <4> QED BY <4>2, <4>3 DEF At
    <3>3. CASE ~NextItem(w) /\ ~UseItem(w)
      <4>1. /\ ~At(w, "taken")' /\ wpc'[w] \notin {"ended", "none"}
            /\ slot'[w] = slot[w]
            /\ wpc'[w] \in {"unlock", "use"} => wpc[w] \in {"unlock", "use"}
        BY <3>3, <1>5, <1>1 DEF WorkerStep, LockOn, LockOff, NextWid, TakeChunk, UseChunk,
         Invoke, Run, RunEnds, sharedVars, At, Goto, Typed
      <4> QED BY <4>1, <1>1 DEF Items
    <3> QED BY <3>1, <3>2, <3>3
  <2> QED BY <2>1, <2>2, <1>1, <1>2 DEF Items, At
<1> QED BY <1>4, <1>5

\* Each thread that asks for a chunk gets the next one.
LEMMA WorkerChunks ==
  ASSUME Typed, Phase, Locked, Busy, Team, Chunks, NEW w \in Workers, WorkerStep(w)
  PROVE  Chunks'
<1> SUFFICES ASSUME call.kind = "chunk" PROVE Chunks'
  BY WorkerFrame DEF Chunks, callerVars
<1>1. /\ w \in Crew /\ w \in Working /\ UNCHANGED <<callerVars, Crew, Working, Size>>
      /\ Crew \subseteq Workers
      /\ \A v \in Workers \ {w} : wpc'[v] = wpc[v] /\ slot'[v] = slot[v]
  BY WorkerFrame, WorkingInCrew
<1>2. call' = call /\ tw' = tw /\ nthreads' = nthreads
  BY <1>1 DEF callerVars
<1>3. wid \in 0 .. Size /\ Size \in Nat \ {0} /\ IsFiniteSet(Takers)
  BY Taken, SizeNat
<1>4. index' = index
  BY DEF WorkerStep, LockOn, LockOff, NextWid, TakeChunk, UseChunk, NextItem, CountItem, UseItem,
         Invoke, Run, RunEnds, sharedVars
<1>5. index' = Index(call.mn, call.mx, Size) /\ DOMAIN tw[1].ret = 0 .. Size
  BY <1>4 DEF Chunks
<1>6. \A v \in Crew \ Working : tw[1].ret[IF v = 0 THEN 0 ELSE v - 1] = slot'[v]
  BY <1>1 DEF Chunks
<1>7. /\ wid' = Cardinality(Takers')
      /\ \A v \in Takers' : At(v, "taken")' \/ slot'[v] \in 0 .. wid' - 1
      /\ \A s \in 0 .. wid' - 1 : \E v \in Takers' : IF At(v, "taken")' THEN s = wid' - 1 ELSE slot'[v] = s
  <2>1. CASE NextWid(w)
    <3>1. w \in Crew \ Takers /\ wpc'[w] = "taken" /\ slot' = slot /\ wpc[w] = "locked"
      BY <2>1, <1>1 DEF NextWid, At, Goto, Takers, Typed
    <3>2. wid < Size
      BY <3>1, Taken
    <3>3. wid' = wid + 1
      <4>1. Size = AtLeast1(IF call.serial THEN 1 ELSE nthreads) /\ nthreads \in Nat
        <5>1. /\ Len(tw) = 1 /\ nthreads >= 0
              /\ tw[1].n_thread = AtLeast1(IF call.serial THEN 1 ELSE nthreads)
          BY DEF Team
        <5>2. nthreads \in Int
          BY DEF Typed
        <5>3. tw[1].n_thread \in Nat
          BY <5>1, <5>2 DEF AtLeast1
        <5> QED BY <5>1, <5>2, <5>3, BeforeFirst DEF Size
      <4> QED BY <4>1, <3>2, <2>1, <1>3 DEF NextWid, AtLeast1
    <3>4. Takers' = Takers \cup {w}
      BY <3>1, <1>1 DEF Takers
    <3>5. Cardinality(Takers') = wid + 1
      BY <3>1, <3>4, <1>3, FS_AddElement DEF Chunks
    <3>6. \A v \in Takers : v # w /\ ~At(v, "taken") /\ ~At(v, "taken")'
      BY <3>1, <1>1 DEF Locked, Takers, At
    <3>7. \A v \in Takers : slot'[v] \in 0 .. wid' - 1
      BY <3>1, <3>3, <3>6, <1>3 DEF Chunks
    <3>8. \A s \in 0 .. wid' - 1 : \E v \in Takers' : IF At(v, "taken")' THEN s = wid' - 1 ELSE slot'[v] = s
      <4> TAKE s \in 0 .. wid' - 1
      <4>1. CASE s = wid
        BY <4>1, <3>1, <3>3, <3>4, <1>3 DEF At
      <4>2. CASE s # wid
        <5>1. s \in 0 .. wid - 1
          BY <4>2, <3>3, <1>3
        <5>2. PICK v \in Takers : IF At(v, "taken") THEN s = wid - 1 ELSE slot[v] = s
          BY <5>1 DEF Chunks
        <5> QED BY <5>2, <3>6, <3>1, <3>4
      <4> QED BY <4>1, <4>2
    <3> QED BY <3>1, <3>3, <3>4, <3>5, <3>7, <3>8 DEF At
  <2>2. CASE TakeChunk(w)
    <3>1. /\ wpc[w] = "taken" /\ wpc'[w] = "unlock" /\ slot'[w] = wid - 1 /\ wid' = wid /\ w \in Takers
      BY <2>2, <1>1 DEF TakeChunk, At, Goto, Takers, Take, sharedVars, Typed
    <3>2. Takers' = Takers
      BY <3>1, <1>1 DEF Takers
    <3>3. wid >= 1
      BY <3>1, Taken
    <3>4. \A v \in Takers \ {w} : ~At(v, "taken") /\ ~At(v, "taken")' /\ slot'[v] = slot[v]
      BY <3>1, <1>1 DEF Locked, At, Takers
    <3>5. ~At(w, "taken")' /\ slot'[w] \in 0 .. wid - 1
      BY <3>1, <3>3, <1>3 DEF At
    <3>6. \A v \in Takers : slot'[v] \in 0 .. wid - 1
      BY <3>4, <3>5 DEF Chunks
    <3>7. \A s \in 0 .. wid - 1 : \E v \in Takers : slot'[v] = s
      <4> TAKE s \in 0 .. wid - 1
      <4>1. PICK v \in Takers : IF At(v, "taken") THEN s = wid - 1 ELSE slot[v] = s
        BY DEF Chunks
      <4> QED BY <4>1, <3>1, <3>4 DEF At
    <3> QED BY <3>1, <3>2, <3>4, <3>5, <3>6, <3>7 DEF Chunks
  <2>3. CASE ~NextWid(w) /\ ~TakeChunk(w)
    <3>1. /\ wid' = wid /\ slot'[w] = slot[w]
          /\ ~At(w, "taken") /\ ~At(w, "taken")'
          /\ wpc[w] \in {"start", "locked"} <=> wpc'[w] \in {"start", "locked"}
      BY <2>3, <1>1 DEF WorkerStep, LockOn, LockOff, UseChunk, NextItem, CountItem, UseItem,
         Invoke, Run, RunEnds, sharedVars, At, Goto, Typed
    <3>2. Takers' = Takers
      BY <3>1, <1>1 DEF Takers
    <3>3. \A v \in Takers : slot'[v] = slot[v] /\ (At(v, "taken")' <=> At(v, "taken"))
      BY <3>1, <1>1 DEF Takers, At
    <3> QED BY <3>1, <3>2, <3>3 DEF Chunks
  <2> QED BY <2>1, <2>2, <2>3
<1> QED BY <1>1, <1>2, <1>5, <1>6, <1>7 DEF Chunks

-----------------------------------------------------------------------------
(* What is given to whom.                                                  *)

\* The pieces of work of a call have between one thread and MaxThreads.
LEMMA WorkTotal ==
  ASSUME NEW c \in Calls, c.kind = "work"
  PROVE  LET t == [i \in DOMAIN c.nt |-> ThreadWork(c.nt[i])]
         IN  /\ t \in Seq(Pieces) /\ Len(t) = Len(c.nt)
             /\ \A i \in 1 .. Len(t) : t[i].n_thread = AtLeast1(c.nt[i])
             /\ Total(t) \in 1 .. MaxThreads
             /\ LoopOf(c) = 0 .. Total(t) - 1
<1> DEFINE t == [i \in DOMAIN c.nt |-> ThreadWork(c.nt[i])]
<1>1. c.nt \in Seq(Nat) /\ c.nt # <<>> /\ Len(c.nt) \in Nat \ {0} /\ DOMAIN c.nt = 1 .. Len(c.nt)
  BY CallsAssumption DEF CallType
<1>2. \A n \in Nat : /\ ThreadWork(n) \in Pieces /\ ThreadWork(n).n_thread = AtLeast1(n)
                     /\ AtLeast1(n) \in Nat \ {0}
  <2> TAKE n \in Nat
  <2>1. AtLeast1(n) \in Nat \ {0}
    BY DEF AtLeast1
  <2>2. [j \in 0 .. AtLeast1(n) |-> NULL] \in Rets
    BY <2>1 DEF Rets
  <2> QED BY <2>1, <2>2 DEF ThreadWork, Pieces
<1>3. \A i \in 1 .. Len(c.nt) : c.nt[i] \in Nat /\ t[i] = ThreadWork(c.nt[i])
  BY <1>1
<1>4. t \in Seq(Pieces) /\ Len(t) = Len(c.nt)
  <2>1. DOMAIN t = 1 .. Len(c.nt) /\ t \in [1 .. Len(c.nt) -> Pieces]
    BY <1>1, <1>2, <1>3
  <2> HIDE DEF t
  <2>2. t \in Seq(Pieces)
    BY <2>1, <1>1, SeqDef
  <2>3. DOMAIN t = 1 .. Len(t) /\ Len(t) \in Nat
    BY <2>2, LenProperties
  <2>4. Len(t) = Len(c.nt)
    <3>1. \A n \in Nat \ {0} : n \in 1 .. n
      OBVIOUS
    <3>2. Len(c.nt) \in 1 .. Len(t)
      BY <2>1, <2>3, <3>1, <1>1
    <3>3. Len(t) \in 1 .. Len(c.nt)
      BY <2>1, <2>3, <3>1, <3>2
    <3> QED BY <3>2, <3>3, <2>3, <1>1
  <2> QED BY <2>2, <2>4
<1> HIDE DEF t
<1>5. \A i \in 1 .. Len(t) : t[i].n_thread = AtLeast1(c.nt[i]) /\ t[i].n_thread \in Nat \ {0}
  <2> TAKE i \in 1 .. Len(t)
  <2>1. i \in 1 .. Len(c.nt)
    BY <1>4
  <2>2. c.nt[i] \in Nat /\ t[i] = ThreadWork(c.nt[i])
    BY <2>1, <1>3
  <2> QED BY <2>2, <1>2
<1>6. Total(t) \in Nat \ {0}
  BY <1>1, <1>4, <1>5, TotalPositive
<1>7. LoopOf(c) = 0 .. Total(t) - 1
  BY DEF LoopOf, t
<1>8. Total(t) - 1 < MaxThreads
  <2>1. Total(t) - 1 \in LoopOf(c)
    BY <1>6, <1>7
  <2> QED BY <2>1, BoundAssumption
<1>9. Total(t) \in 1 .. MaxThreads
  BY <1>6, <1>8, Bounds
<1> QED BY <1>4, <1>5, <1>7, <1>9 DEF t

LEMMA WorkLoop == ASSUME Team, call.kind = "work" PROVE LoopOf(call) = 0 .. Size - 1
<1> DEFINE t == [i \in DOMAIN call.nt |-> ThreadWork(call.nt[i])]
<1>1. /\ t \in Seq(Pieces) /\ Len(t) = Len(call.nt)
      /\ \A i \in 1 .. Len(t) : t[i].n_thread = AtLeast1(call.nt[i])
      /\ LoopOf(call) = 0 .. Total(t) - 1
  BY WorkTotal DEF Team
<1> HIDE DEF t
<1>2. Len(tw) = Len(t) /\ Len(tw) \in Nat /\ \A i \in 1 .. Len(tw) : tw[i].n_thread = t[i].n_thread
  BY <1>1, LenProperties DEF Team
<1>3. Size = Total(t)
  BY <1>2, SameTotal DEF Size
<1> QED BY <1>1, <1>3

LEMMA Turns == ASSUME Team PROVE LoopOf(call) \subseteq Int /\ LoopOf(call) \subseteq Iterations
<1>1. LoopOf(call) \subseteq Iterations
  BY BoundAssumption DEF Team
<1>2. CASE call.kind = "work"
  <2> DEFINE t == [i \in DOMAIN call.nt |-> ThreadWork(call.nt[i])]
  <2>1. LoopOf(call) = 0 .. Total(t) - 1 /\ Total(t) \in Int
    BY <1>2, WorkTotal, Bounds DEF Team
  <2> QED BY <2>1, <1>1
<1>3. CASE call.kind # "work"
  <2>1. call.mn \in Int /\ call.mx \in Int
    BY CallsAssumption DEF Team, CallType
  <2> QED BY <1>1, <1>3, <2>1 DEF LoopOf
<1> QED BY <1>2, <1>3

LEMMA FrontInt ==
  ASSUME Typed, Phase, Busy, Team, Chunks, Items
  PROVE  Front \in Int
<1>1. call.kind \in {"chunk", "queue", "work"}
  BY CallsAssumption DEF Team, CallType
<1>2. call.kind = "chunk" => index[wid] \in Int
  BY ChunkLimits, Taken
<1>3. nxt \in Int /\ made \in Int
  BY DEF Typed
<1> QED BY <1>1, <1>2, <1>3 DEF Front

\* Nothing is given and nothing done.
LEMMA Stays ==
  ASSUME Hands, Done, call' = call, Crew' = Crew, Front' = Front, times' = times,
         \A v \in Crew : Hand(v)' = Hand(v)
  PROVE  Hands' /\ Done'
BY DEF Hands, Done

\* The next iterations, from Front on, are given to thread w, whose hand was
\* empty or who was not there.
LEMMA Gives ==
  ASSUME Hands, Done, call' = call, times' = times, LoopOf(call) \subseteq Int,
         NEW f \in Int, NEW g \in Int, f =< g, Front = f, Front' = g,
         NEW w, Crew' = Crew \cup {w}, w \in Crew => Hand(w) = {},
         Hand(w)' = f .. g - 1, Hand(w)' \subseteq LoopOf(call),
         \A v \in Crew \ {w} : Hand(v)' = Hand(v)
  PROVE  Hands' /\ Done'
<1>0. \A i \in Hand(w)' : i \in LoopOf(call) /\ i \in Int /\ i < g /\ ~(i < f)
  <2>1. \A i \in f .. g - 1 : i \in Int /\ i < g /\ ~(i < f)
    OBVIOUS
  <2> QED BY <2>1
<1>1. \A v \in Crew' : \A i \in Hand(v)' : i \in LoopOf(call)' /\ i < g
  <2> TAKE v \in Crew'
  <2>1. CASE v = w
    BY <2>1, <1>0
  <2>2. CASE v # w
    <3>1. v \in Crew /\ Hand(v)' = Hand(v)
      BY <2>2
    <3>2. \A i \in Hand(v) : i \in LoopOf(call) /\ i < f /\ i \in Int
      BY <3>1 DEF Hands
    <3> QED BY <3>1, <3>2
  <2> QED BY <2>1, <2>2
<1>2. \A u, v \in Crew' : u # v => Hand(u)' \cap Hand(v)' = {}
  <2>1. \A v \in Crew' \ {w} : Hand(w)' \cap Hand(v)' = {}
    BY <1>0 DEF Hands
  <2>2. \A u, v \in Crew' \ {w} : u # v => Hand(u)' \cap Hand(v)' = {}
    BY DEF Hands
  <2> QED BY <2>1, <2>2
<1>3. \A i \in LoopOf(call) : (i < g /\ \A v \in Crew' : i \notin Hand(v)')
                          <=> (i < f /\ \A v \in Crew : i \notin Hand(v))
  <2> TAKE i \in LoopOf(call)
  <2>1. i \in Int
    OBVIOUS
  <2>2. CASE i < f
    <3>1. i < g /\ i \notin Hand(w)'
      BY <2>1, <2>2, <1>0
    <3>2. (\A v \in Crew' : i \notin Hand(v)') <=> (\A v \in Crew : i \notin Hand(v))
      BY <3>1
    <3> QED BY <2>2, <3>1, <3>2
  <2>3. CASE ~(i < f)
    <3>1. i < g => i \in Hand(w)' /\ w \in Crew'
      BY <2>1, <2>3
    <3> QED BY <2>3, <3>1
  <2> QED BY <2>2, <2>3
<1>4. Done'
  BY <1>3 DEF Done
<1> QED BY <1>1, <1>2, <1>4 DEF Hands

\* Thread w does the first iteration of its hand.
LEMMA Does ==
  ASSUME Hands, Done, call' = call, Crew' = Crew, Front' = Front,
         times \in [Iterations -> Nat], LoopOf(call) \subseteq Iterations,
         NEW w \in Crew, NEW i \in Hand(w),
         times' = [times EXCEPT ![i] = @ + 1],
         Hand(w)' = Hand(w) \ {i},
         \A v \in Crew \ {w} : Hand(v)' = Hand(v)
  PROVE  Hands' /\ Done'
<1>1. i \in LoopOf(call) /\ i < Front /\ times[i] = 0
  BY DEF Hands, Done
<1>2. \A v \in Crew : v # w => i \notin Hand(v)
  BY DEF Hands
<1>3. Hands'
  BY DEF Hands
<1>4. \A v \in Crew : i \notin Hand(v)'
  BY <1>2
<1>5. times'[i] = 1 /\ \A j \in LoopOf(call) \ {i} : times'[j] = times[j]
  BY <1>1
<1>6. \A j \in LoopOf(call) \ {i} : (\A v \in Crew' : j \notin Hand(v)') <=> (\A v \in Crew : j \notin Hand(v))
  OBVIOUS
<1>7. Done'
  BY <1>1, <1>4, <1>5, <1>6 DEF Done
<1> QED BY <1>3, <1>7

LEMMA OthersKeep ==
  ASSUME Typed, Phase, Locked, NEW w \in Workers, WorkerStep(w), NEW v \in Crew \ {w}
  PROVE  Hand(v)' = Hand(v)
<1>1. /\ w \in Crew /\ UNCHANGED <<callerVars, Crew>> /\ Crew \subseteq Workers
      /\ wpc'[v] = wpc[v] /\ slot'[v] = slot[v] /\ piece'[v] = piece[v]
  BY WorkerFrame, WorkingInCrew
<1>2. index' = index
  BY DEF WorkerStep, LockOn, LockOff, NextWid, TakeChunk, UseChunk, NextItem, CountItem, UseItem,
         Invoke, Run, RunEnds, sharedVars
<1>3. wid' = wid \/ ~At(v, "taken")
  <2>1. NextWid(w) => ~At(v, "taken")
    BY <1>1 DEF Locked, NextWid, At
  <2>2. ~NextWid(w) => wid' = wid
    BY DEF WorkerStep, LockOn, LockOff, TakeChunk, UseChunk, NextItem, CountItem, UseItem,
         Invoke, Run, RunEnds, sharedVars
  <2> QED BY <2>1, <2>2
<1>4. call' = call
  BY <1>1 DEF callerVars
<1> QED BY <1>1, <1>2, <1>3, <1>4 DEF Hand, Span, At

LEMMA WorkerHands ==
  ASSUME Typed, Phase, Locked, Busy, Team, Chunks, Items, Calling, Hands, Done,
         NEW w \in Workers, WorkerStep(w)
  PROVE  Hands' /\ Done'
<1>1. /\ w \in Crew /\ UNCHANGED <<callerVars, Crew, Size, Solo>> /\ Crew \subseteq Workers
      /\ \A v \in Crew \ {w} : Hand(v)' = Hand(v)
  BY WorkerFrame, WorkingInCrew, OthersKeep
<1>2. call' = call /\ made' = made /\ LoopOf(call) \subseteq Int /\ LoopOf(call) \subseteq Iterations
  BY <1>1, Turns DEF callerVars
<1>3. Front \in Int
  BY FrontInt
<1>4. index' = index
  BY DEF WorkerStep, LockOn, LockOff, NextWid, TakeChunk, UseChunk, NextItem, CountItem, UseItem,
         Invoke, Run, RunEnds, sharedVars
<1>5. CASE NextWid(w)
  <2>1. /\ call.kind = "chunk" /\ wpc[w] = "locked" /\ wpc'[w] = "taken" /\ times' = times
        /\ w \in Crew \ Takers
    BY <1>5, <1>1 DEF NextWid, At, Goto, Takers, Typed
  <2>2. wid < Size /\ wid \in Nat /\ Size \in Nat
    BY <2>1, Taken, SizeNat
  <2>3. wid' = wid + 1
    <3>1. /\ Len(tw) = 1 /\ nthreads >= 0 /\ nthreads \in Int
          /\ tw[1].n_thread = AtLeast1(IF call.serial THEN 1 ELSE nthreads)
      BY <2>1 DEF Team, Typed
    <3>2. tw[1].n_thread \in Nat
      BY <3>1 DEF AtLeast1
    <3>3. Size = AtLeast1(IF call.serial THEN 1 ELSE nthreads)
      BY <3>1, <3>2, BeforeFirst DEF Size
    <3> QED BY <3>1, <3>3, <2>2, <1>5 DEF NextWid, AtLeast1
  <2>4. /\ index[wid] \in call.mn .. call.mx /\ index[wid + 1] \in call.mn .. call.mx
        /\ index[wid] =< index[wid + 1] /\ LoopOf(call) = call.mn .. call.mx - 1
        /\ call.mn \in Int /\ call.mx \in Int
    BY <2>1, <2>2, ChunkLimits
  <2>5. Front = index[wid] /\ Front' = index[wid + 1]
    BY <2>1, <2>3, <1>2, <1>4 DEF Front
  <2>6. Hand(w) = {} /\ Hand(w)' = index[wid] .. index[wid + 1] - 1
    BY <2>1, <2>2, <2>3, <1>2, <1>4 DEF Hand, Span, At
  <2>7. Hand(w)' \subseteq LoopOf(call)
    BY <2>4, <2>6
  <2>8. Crew' = Crew \cup {w}
    BY <1>1
  <2>9. Front \in Int /\ Front' \in Int /\ Front =< Front' /\ Hand(w)' = Front .. Front' - 1
    BY <2>4, <2>5, <2>6
  <2> QED BY <2>1, <2>6, <2>7, <2>8, <2>9, <1>1, <1>2, Gives
<1>6. CASE CountItem(w)
  <2>1. /\ call.kind = "queue" /\ wpc[w] = "taken" /\ wpc'[w] = "unlock" /\ times' = times /\ slot' = slot
        /\ nxt' = IF slot[w] = -1 THEN nxt ELSE slot[w] + 1
    BY <1>6 DEF CountItem, At, Goto, Typed
  <2>2. nxt \in 0 .. call.mx /\ (IF nxt = call.mx THEN slot[w] = -1 ELSE slot[w] = nxt)
    BY <2>1, <1>1 DEF Items, At
  <2>3. call.mx \in Int /\ call.mn = 0 /\ LoopOf(call) = call.mn .. call.mx - 1
    BY <2>1, CallsAssumption DEF Team, CallType, LoopOf
  <2>4. Front = nxt /\ Front' = nxt'
    BY <2>1, <1>2 DEF Front
  <2>5. Hand(w) = {} /\ Hand(w)' = {slot[w]} \ {-1}
    BY <2>1, <1>2 DEF Hand, At
  <2>6. /\ Front \in Int /\ Front' \in Int /\ Front =< Front' /\ Hand(w)' = Front .. Front' - 1
        /\ Hand(w)' \subseteq LoopOf(call)
    BY <2>1, <2>2, <2>3, <2>4, <2>5
  <2>7. Crew' = Crew \cup {w}
    BY <1>1
  <2> QED BY <2>1, <2>5, <2>6, <2>7, <1>1, <1>2, Gives
<1>7. CASE Run(w)
  <2> DEFINE i == piece[w][1]
  <2>1. /\ wpc[w] = "run" /\ wpc' = wpc /\ i < piece[w][2]
        /\ times' = [times EXCEPT ![i] = @ + 1]
        /\ piece' = [piece EXCEPT ![w][1] = @ + 1] /\ UNCHANGED sharedVars
    BY <1>7 DEF Run, At
  <2>2. i \in Int /\ piece[w][2] \in Int /\ piece'[w][1] = i + 1 /\ piece'[w][2] = piece[w][2]
    BY <2>1 DEF Typed
  <2>3. Hand(w) = i .. piece[w][2] - 1 /\ Hand(w)' = i + 1 .. piece[w][2] - 1
    BY <2>1, <2>2 DEF Hand, At
  <2>4. i \in Hand(w) /\ Hand(w)' = Hand(w) \ {i}
    BY <2>1, <2>2, <2>3
  <2>5. Front' = Front
    BY <2>1, <1>1, <1>2 DEF Front, sharedVars
  <2>6. times \in [Iterations -> Nat]
    BY DEF Typed
  <2> QED BY <2>1, <2>4, <2>5, <2>6, <1>1, <1>2, Does
<1>8. CASE ~NextWid(w) /\ ~CountItem(w) /\ ~Run(w)
  <2>1. wid' = wid /\ nxt' = nxt /\ times' = times
    BY <1>8 DEF WorkerStep, LockOn, LockOff, TakeChunk, UseChunk, NextItem, UseItem,
         Invoke, RunEnds, sharedVars
  <2>2. Front' = Front
    BY <2>1, <1>1, <1>2, <1>4 DEF Front
  <2>3. Hand(w)' = Hand(w)
    <3>1. CASE LockOn(w)
      BY <3>1, <1>2 DEF LockOn, Hand, At, Goto, Typed
    <3>2. CASE LockOff(w)
      <4>1. wpc[w] = "unlock" /\ wpc'[w] = "use" /\ slot' = slot
        BY <3>2 DEF LockOff, At, Goto, Typed
      <4> QED BY <4>1, <1>2, <1>4 DEF Hand, Span, At
    <3>3. CASE TakeChunk(w)
      <4>1. wpc[w] = "taken" /\ wpc'[w] = "unlock" /\ slot'[w] = wid - 1 /\ call.kind = "chunk"
        BY <3>3 DEF TakeChunk, At, Goto, Take, Typed
      <4> QED BY <4>1, <1>2, <1>4 DEF Hand, Span, At
    <3>4. CASE UseChunk(w)
      <4>1. /\ wpc[w] = "use" /\ wpc'[w] = "run" /\ call.kind = "chunk"
            /\ piece'[w] = <<index[slot[w]], index[slot[w] + 1]>>
        BY <3>4 DEF UseChunk, At, Goto, Typed
      <4> QED BY <4>1, <1>2 DEF Hand, Span, At
    <3>5. CASE NextItem(w)
      <4>1. wpc[w] = "locked" /\ wpc'[w] = "taken" /\ call.kind = "queue"
        BY <3>5 DEF NextItem, At, Goto, Typed
      <4> QED BY <4>1, <1>2 DEF Hand, At
    <3>6. CASE UseItem(w)
      <4>1. wpc[w] = "use" /\ call.kind = "queue" /\ nxt \in Int
        BY <3>6 DEF UseItem, At, Typed
      <4>2. slot[w] \in Int
        BY <4>1, <1>1 DEF Items
      <4>3. IF slot[w] = -1 THEN wpc'[w] = "ended"
                            ELSE wpc'[w] = "run" /\ piece'[w] = <<slot[w], slot[w] + 1>>
        BY <3>6 DEF UseItem, Goto, Typed
      <4>4. CASE slot[w] = -1
        BY <4>1, <4>3, <4>4, <1>2 DEF Hand, At
      <4>5. CASE slot[w] # -1
        <5>1. Hand(w) = {slot[w]}
          BY <4>1, <4>5 DEF Hand, At
        <5>2. Hand(w)' = piece'[w][1] .. piece'[w][2] - 1
          BY <4>3, <4>5 DEF Hand, At
        <5>3. piece'[w][1] = slot[w] /\ piece'[w][2] = slot[w] + 1
          BY <4>3, <4>5
        <5> QED BY <5>1, <5>2, <5>3, <4>2
      <4> QED BY <4>4, <4>5
    <3>7. CASE Invoke(w)
      <4>1. wpc[w] = "start" /\ call.kind = "work" /\ wpc'[w] = "run" /\ piece'[w] = <<Rank(w), Rank(w) + 1>>
        BY <3>7 DEF Invoke, At, Goto, Typed, Rank
      <4>2. Rank(w) \in Int
        BY Bounds DEF Rank
      <4>3. Hand(w) = {Rank(w)}
        BY <4>1 DEF Hand, At
      <4>4. Hand(w)' = piece'[w][1] .. piece'[w][2] - 1
        BY <4>1 DEF Hand, At
      <4>5. piece'[w][1] = Rank(w) /\ piece'[w][2] = Rank(w) + 1
        BY <4>1
      <4> QED BY <4>2, <4>3, <4>4, <4>5
    <3>8. CASE RunEnds(w)
      <4>1. /\ wpc[w] = "run" /\ piece[w][1] >= piece[w][2] /\ piece[w][1] \in Int /\ piece[w][2] \in Int
            /\ wpc'[w] = IF call.kind = "queue" THEN "start" ELSE "ended"
        BY <3>8 DEF RunEnds, At, Goto, Typed
      <4>2. Hand(w) = {}
        BY <4>1 DEF Hand, At
      <4>3. Hand(w)' = {}
        BY <4>1, <1>2 DEF Hand, At
      <4> QED BY <4>2, <4>3
    <3> QED BY <1>8, <3>1, <3>2, <3>3, <3>4, <3>5, <3>6, <3>7, <3>8 DEF WorkerStep
  <2> QED BY <2>1, <2>2, <2>3, <1>1, <1>2, Stays
<1> QED BY <1>5, <1>6, <1>7, <1>8

-----------------------------------------------------------------------------
(* The caller.                                                             *)

PutIn(t, i, k, v) == [t EXCEPT ![i].ret[k] = v]

\* The pieces of work u are for the same threads as t.
Alike(t, u) == /\ u \in Seq(Pieces) /\ Len(u) = Len(t)
               /\ \A j \in 1 .. Len(t) : u[j].n_thread = t[j].n_thread

\* What is put into the array of one piece of work leaves the rest.
LEMMA Put ==
  ASSUME NEW t \in Seq(Pieces), NEW i, NEW k, NEW v \in Int \cup {NULL}
  PROVE  /\ Alike(t, PutIn(t, i, k, v))
         /\ i \in 1 .. Len(t) => PutIn(t, i, k, v)[i].ret = [t[i].ret EXCEPT ![k] = v]
<1> DEFINE u == PutIn(t, i, k, v)
<1> USE DEF PutIn, Alike
<1>1. t \in [1 .. Len(t) -> Pieces] /\ Len(t) \in Nat
  BY LenProperties
<1>2. CASE i \notin 1 .. Len(t)
  <2>1. u = t
    BY <1>1, <1>2
  <2> QED BY <2>1, <1>2
<1>3. CASE i \in 1 .. Len(t)
  <2> DEFINE r == [t[i].ret EXCEPT ![k] = v]
             p == [t[i] EXCEPT !.ret = r]
  <2>1. t[i] \in Pieces /\ t[i].ret \in Rets
    BY <1>1, <1>3 DEF Pieces
  <2>2. r \in Rets
    BY <2>1 DEF Rets
  <2>3. p \in Pieces /\ p.n_thread = t[i].n_thread /\ p.ret = r
    BY <2>1, <2>2 DEF Pieces
  <2>4. u = [t EXCEPT ![i] = p]
    OBVIOUS
  <2> HIDE DEF u, p
  <2>5. /\ u \in Seq(Pieces) /\ Len(u) = Len(t)
        /\ \A j \in 1 .. Len(t) : u[j] = IF j = i THEN p ELSE t[j]
    BY <2>3, <2>4, <1>3, ExceptSeq
  <2> QED BY <2>3, <2>5, <1>3 DEF u
<1> QED BY <1>2, <1>3

LEMMA Stored ==
  ASSUME Typed, Phase, Team, Chunks, NEW k \in Nat, k + 1 \in Workers
  PROVE  /\ Alike(tw, StoreAt(k))
         /\ call.kind = "chunk" /\ k < Size => StoreAt(k)[1].ret = [tw[1].ret EXCEPT ![k] = slot[k + 1]]
<1>0. call.kind \in {"chunk", "queue", "work"} /\ slot[k + 1] \in Int \cup {NULL}
  BY CallsAssumption DEF Team, CallType, Typed
<1>1. Value(k + 1) \in Int \cup {NULL}
  BY <1>0 DEF Value
<1>2. tw \in Seq(Pieces)
  BY DEF Team
<1>3. CASE call.kind = "chunk" /\ k < Size
  <2>0. Len(tw) = 1 /\ DOMAIN tw[1].ret = 0 .. Size
    BY <1>3 DEF Team, Chunks
  <2>1. tw[1] \in Pieces /\ tw[1].n_thread \in Nat
    <3>1. tw[1] \in Pieces
      BY <2>0, <1>2, ElementOfSeq
    <3> QED BY <3>1 DEF Pieces
  <2>2. k \in 0 .. Size - 1
    BY <1>3, SizeNat
  <2>3. PieceOf(tw, k) = 1
    BY <2>0, <2>1, <2>2, BeforeFirst DEF Size
  <2>4. StoreAt(k) = [tw EXCEPT ![1].ret[k] = slot[k + 1]]
    BY <2>0, <2>2, <2>3, <1>3, SizeNat DEF StoreAt, Value
  <2>5. StoreAt(k) = PutIn(tw, 1, k, slot[k + 1])
    BY <2>4 DEF PutIn
  <2>6. Alike(tw, PutIn(tw, 1, k, slot[k + 1]))
    BY <1>0, <1>2, Put
  <2>7. PutIn(tw, 1, k, slot[k + 1])[1].ret = [tw[1].ret EXCEPT ![k] = slot[k + 1]]
    <3>1. tw \in [1 .. 1 -> Pieces]
      BY <1>2, <2>0, LenProperties
    <3> QED BY <3>1 DEF PutIn, Pieces
  <2> QED BY <2>5, <2>6, <2>7
<1>4. CASE ~(call.kind = "chunk" /\ k < Size)
  <2>1. CASE StoreAt(k) = tw
    BY <2>1, <1>2, <1>4 DEF Alike
  <2>2. CASE StoreAt(k) = [tw EXCEPT ![PieceOf(tw, k)].ret[k] = Value(k + 1)]
    <3>1. StoreAt(k) = PutIn(tw, PieceOf(tw, k), k, Value(k + 1))
      BY <2>2 DEF PutIn
    <3>2. Alike(tw, PutIn(tw, PieceOf(tw, k), k, Value(k + 1)))
      BY <1>1, <1>2, Put
    <3> QED BY <3>1, <3>2, <1>4
  <2> QED BY <2>1, <2>2 DEF StoreAt
<1> QED BY <1>3, <1>4

\* A team keeps its size whatever its members return.
LEMMA TeamKept ==
  ASSUME Team, call' = call, nthreads' = nthreads, Alike(tw, tw')
  PROVE  Team' /\ Size' = Size
<1>1. Len(tw) \in Nat
  BY LenProperties DEF Team
<1>2. Size' = Size
  <2>1. PICK t : t = tw'
    OBVIOUS
  <2>2. Total(tw) = Total(t)
    BY <2>1, <1>1, SameTotal DEF Alike
  <2> QED BY <2>1, <2>2 DEF Size
<1> QED BY <1>1, <1>2 DEF Team, Alike

LEMMA CreateStep == ASSUME IInv, Create PROVE IInv'
<1>0. PICK w : w = made + 1
  OBVIOUS
<1>1. /\ Typed /\ Phase /\ Locked /\ ~missed /\ Busy /\ Team /\ Chunks /\ Items /\ Calling /\ Hands /\ Done
  BY DEF IInv, InCall, Create, Busy
<1>2. /\ made \in Nat /\ joined = 0 /\ made < Size /\ Size \in Nat \ {0} /\ Size =< MaxThreads
      /\ MaxThreads \in Nat /\ mpc = "create"
  BY <1>1, SizeNat, Bounds DEF Typed, Phase, Create
<1>3. /\ Crew = 1 .. made /\ Working = 1 .. made
  BY <1>2 DEF Crew, Working, Solo
<1>4. /\ made' = w /\ mpc' = (IF w = Size THEN "join" ELSE "create")
      /\ UNCHANGED <<nthreads, call, calls, tw, joined, missed, results, sharedVars, slot, piece, times>>
      /\ Size' = Size /\ call' = call /\ tw' = tw
  BY <1>0 DEF Create, Size
<1>5. w \in Workers /\ w \in Nat /\ w \notin Crew /\ w =< Size
  BY <1>0, <1>2, <1>3 DEF Workers
<1>6. /\ wpc' = [wpc EXCEPT ![w] = "start"] /\ wpc'[w] = "start" /\ wpc[w] = "none"
      /\ \A v \in Workers \ {w} : wpc'[v] = wpc[v]
  BY <1>0, <1>1, <1>3, <1>5 DEF Create, Typed, Phase
<1>7. /\ Crew' = 1 .. w /\ Working' = 1 .. w
      /\ ~Solo /\ ~Solo' /\ Busy'
  BY <1>2, <1>4 DEF Crew, Working, Solo, Busy
<1>8. Crew' = Crew \cup {w} /\ Working' = Working \cup {w} /\ Crew \subseteq Workers
  BY <1>0, <1>1, <1>2, <1>3, <1>7, WorkingInCrew
<1>9. Typed'
  <2>1. wpc' \in [Workers -> {"none", "start", "locked", "taken", "unlock", "use", "run", "ended"}]
    BY <1>1, <1>6 DEF Typed
  <2>2. made' \in 0 .. MaxThreads /\ joined' \in 0 .. made'
    BY <1>2, <1>4, <1>5
  <2>3. mpc' \in {"idle", "one", "create", "join", "check"}
    BY <1>4
  <2> QED BY <2>1, <2>2, <2>3, <1>1, <1>4 DEF Typed, sharedVars
<1>10. Phase'
  <2>1. \A v \in Workers : wpc'[v] # "none" <=> v \in Working'
    BY <1>1, <1>6, <1>8 DEF Phase
  <2>2. CASE w = Size
    BY <2>1, <2>2, <1>2, <1>4 DEF Phase
  <2>3. CASE w # Size
    <3>1. w < Size
      BY <2>3, <1>5, <1>2
    <3> QED BY <2>1, <2>3, <3>1, <1>2, <1>4 DEF Phase
  <2> QED BY <2>2, <2>3
<1>11. Locked'
  BY <1>1, <1>4, <1>6 DEF Locked, sharedVars
<1>12. Team'
  BY <1>1, <1>4 DEF Team
<1>13. Chunks'
  <2> SUFFICES ASSUME call.kind = "chunk" PROVE Chunks'
    BY <1>4 DEF Chunks
  <2>1. Takers' = Takers
    BY <1>5, <1>6, <1>8 DEF Takers
  <2>2. \A v \in Takers : (At(v, "taken")' <=> At(v, "taken")) /\ slot'[v] = slot[v]
    BY <1>4, <1>5, <1>6, <1>8 DEF Takers, At
  <2>3. Crew' \ Working' = {}
    BY <1>7
  <2> QED BY <1>1, <1>4, <2>1, <2>2, <2>3 DEF Chunks, sharedVars
<1>14. Items'
  BY <1>1, <1>4, <1>5, <1>6, <1>8 DEF Items, sharedVars, At
<1>15. Calling'
  BY <1>1, <1>4, <1>6, <1>8 DEF Calling
<1>16. Hands' /\ Done'
  <2>1. LoopOf(call) \subseteq Int /\ Front \in Int
    BY <1>1, Turns, FrontInt
  <2>2. \A v \in Crew \ {w} : Hand(v)' = Hand(v)
    BY <1>4, <1>6, <1>8 DEF Hand, Span, At, sharedVars
  <2>3. CASE call.kind = "work"
    <3>1. Front = made /\ Front' = w
      BY <2>3, <1>4, <1>7 DEF Front
    <3>2. Hand(w)' = {made}
      BY <1>0, <2>3, <1>2, <1>4, <1>6 DEF Hand, Rank, At
    <3>3. made .. w - 1 = {made}
      BY <1>0, <1>2
    <3>4. made \in LoopOf(call)
      BY <2>3, <1>1, <1>2, WorkLoop
    <3>5. Hand(w)' = made .. w - 1 /\ Hand(w)' \subseteq LoopOf(call)
      BY <3>2, <3>3, <3>4
    <3>6. made \in Int /\ w \in Int /\ made =< w
      BY <1>0, <1>2
    <3> QED BY <3>1, <3>5, <3>6, <2>1, <2>2, <1>1, <1>4, <1>5, <1>8, Gives
  <2>4. CASE call.kind # "work"
    <3>1. Front' = Front
      BY <2>4, <1>1, <1>4, CallsAssumption DEF Front, sharedVars, Team, CallType
    <3>2. Hand(w)' = {}
      BY <2>4, <1>4, <1>6 DEF Hand, At
    <3>3. PICK f \in Int : f = Front
      BY <2>1
    <3>4. f .. f - 1 = {} /\ f =< f
      OBVIOUS
    <3>5. Hand(w)' = f .. f - 1 /\ Hand(w)' \subseteq LoopOf(call) /\ Front' = f
      BY <3>1, <3>2, <3>3, <3>4
    <3> QED BY <3>3, <3>4, <3>5, <2>1, <2>2, <1>1, <1>4, <1>5, <1>8, Gives
  <2> QED BY <2>3, <2>4
<1> QED BY <1>1, <1>4, <1>9, <1>10, <1>11, <1>12, <1>13, <1>14, <1>15, <1>16 DEF IInv, InCall

\* A thread that has ended leaves the crew's hands as they are.
LEMMA HandsKept ==
  ASSUME Hands, Done, Crew' = Crew, Front' = Front, NEW w,
         UNCHANGED <<call, sharedVars, slot, piece, times>>,
         \A v \in Crew \ {w} : wpc'[v] = wpc[v], wpc[w] = "ended", wpc'[w] = "none"
  PROVE  Hands' /\ Done'
<1>1. \A v \in Crew : Hand(v)' = Hand(v)
  <2> TAKE v \in Crew
  <2>1. CASE v = w
    BY <2>1 DEF Hand, At
  <2>2. CASE v # w
    BY <2>2 DEF Hand, Span, At, sharedVars
  <2> QED BY <2>1, <2>2
<1> QED BY <1>1, Stays

LEMMA JoinStep == ASSUME IInv, Join PROVE IInv'
<1>0. PICK w : w = joined + 1
  OBVIOUS
<1>1. /\ Typed /\ Phase /\ Locked /\ ~missed /\ Busy /\ Team /\ Chunks /\ Items /\ Calling /\ Hands /\ Done
  BY DEF IInv, InCall, Join, Busy
<1>2. /\ made = Size /\ joined \in Nat /\ joined < Size /\ Size \in Nat \ {0} /\ Size =< MaxThreads
      /\ MaxThreads \in Nat /\ mpc = "join"
  BY <1>1, SizeNat, Bounds DEF Typed, Phase, Join
<1>3. /\ Crew = 1 .. made /\ Working = w .. made
  BY <1>0, <1>2 DEF Crew, Working, Solo
<1>4. /\ joined' = w /\ mpc' = (IF w = Size THEN "check" ELSE "join") /\ tw' = StoreAt(joined)
      /\ UNCHANGED <<nthreads, call, calls, made, missed, results, sharedVars, slot, piece, times>>
  BY <1>0 DEF Join, Size
<1>5. w \in Workers /\ w \in Crew /\ w \in Nat /\ w =< Size
  BY <1>0, <1>2, <1>3 DEF Workers
<1>6. /\ wpc' = [wpc EXCEPT ![w] = "none"] /\ wpc'[w] = "none" /\ wpc[w] = "ended"
      /\ \A v \in Workers \ {w} : wpc'[v] = wpc[v]
  BY <1>0, <1>1, <1>5 DEF Join, Typed
<1>7. Alike(tw, tw') /\ (call.kind = "chunk" => tw'[1].ret = [tw[1].ret EXCEPT ![joined] = slot[w]])
  BY <1>0, <1>1, <1>2, <1>4, <1>5, Stored
<1>8. Team' /\ Size' = Size
  BY <1>1, <1>4, <1>7, TeamKept
<1>9. /\ Crew' = Crew /\ Working' = Working \ {w} /\ Crew \subseteq Workers /\ ~Solo /\ ~Solo' /\ Busy'
  <2>1. ~Solo /\ ~Solo' /\ Busy' /\ Crew' = 1 .. made /\ Working' = w + 1 .. made
    BY <1>2, <1>4 DEF Solo, Busy, Crew, Working
  <2>2. w + 1 .. made = (w .. made) \ {w}
    BY <1>2, <1>5
  <2> QED BY <2>1, <2>2, <1>1, <1>3, WorkingInCrew
<1>10. Typed'
  <2>1. wpc' \in [Workers -> {"none", "start", "locked", "taken", "unlock", "use", "run", "ended"}]
    BY <1>1, <1>6 DEF Typed
  <2>2. joined' \in 0 .. made'
    BY <1>2, <1>4, <1>5
  <2>3. mpc' \in {"idle", "one", "create", "join", "check"}
    BY <1>4
  <2> QED BY <2>1, <2>2, <2>3, <1>1, <1>4 DEF Typed, sharedVars
<1>11. Phase'
  <2>1. \A v \in Workers : wpc'[v] # "none" <=> v \in Working'
    BY <1>1, <1>6, <1>9 DEF Phase
  <2>2. CASE w = Size
    BY <2>1, <2>2, <1>2, <1>4, <1>8 DEF Phase
  <2>3. CASE w # Size
    <3>1. w < Size
      BY <2>3, <1>5, <1>2
    <3> QED BY <2>1, <2>3, <3>1, <1>2, <1>4, <1>8 DEF Phase
  <2> QED BY <2>2, <2>3
<1>12. Locked'
  BY <1>1, <1>4, <1>6 DEF Locked, sharedVars
<1>13. Chunks'
  <2> SUFFICES ASSUME call.kind = "chunk" PROVE Chunks'
    BY <1>4 DEF Chunks
  <2>1. Takers' = Takers
    BY <1>5, <1>6, <1>9 DEF Takers
  <2>2. \A v \in Takers : (At(v, "taken")' <=> At(v, "taken")) /\ slot'[v] = slot[v]
    BY <1>4, <1>5, <1>6, <1>9 DEF Takers, At
  <2>3. tw'[1].ret = [tw[1].ret EXCEPT ![joined] = slot[w]] /\ DOMAIN tw[1].ret = 0 .. Size
    BY <1>1, <1>7 DEF Chunks
  <2>4. DOMAIN tw'[1].ret = 0 .. Size'
    BY <2>3, <1>8
  <2>5. \A v \in Crew' \ Working' : tw'[1].ret[IF v = 0 THEN 0 ELSE v - 1] = slot'[v]
    <3> TAKE v \in Crew' \ Working'
    <3>1. v \in 1 .. made /\ slot'[v] = slot[v]
      BY <1>3, <1>4, <1>9
    <3>2. v # 0 /\ v - 1 \in 0 .. Size
      BY <3>1, <1>2
    <3>3. CASE v = w
      BY <1>0, <3>1, <3>2, <3>3, <2>3, <1>2
    <3>4. CASE v # w
      <4>1. v \in Crew \ Working
        BY <3>4, <1>9
      <4>2. tw[1].ret[v - 1] = slot[v]
        BY <4>1, <3>2, <1>1 DEF Chunks
      <4>3. v - 1 # joined
        BY <1>0, <3>1, <3>4, <1>2
      <4> QED BY <4>2, <4>3, <3>1, <3>2, <2>3
    <3> QED BY <3>3, <3>4
  <2>6. /\ index' = Index(call.mn, call.mx, Size) /\ wid' = Cardinality(Takers)
        /\ \A v \in Takers : At(v, "taken") \/ slot[v] \in 0 .. wid - 1
        /\ \A s \in 0 .. wid - 1 : \E v \in Takers : IF At(v, "taken") THEN s = wid - 1 ELSE slot[v] = s
        /\ wid' = wid
    BY <1>1, <1>4 DEF Chunks, sharedVars
  <2> QED BY <1>4, <1>8, <2>1, <2>2, <2>4, <2>5, <2>6 DEF Chunks
<1>14. Items'
  <2>1. \A v \in Crew : wpc'[v] = wpc[v] \/ (wpc[v] = "ended" /\ wpc'[v] = "none")
    BY <1>6, <1>9
  <2> QED BY <2>1, <1>1, <1>4, <1>9 DEF Items, sharedVars, At
<1>15. Calling'
  BY <1>1, <1>4, <1>6, <1>9 DEF Calling
<1>16. Hands' /\ Done'
  <2>1. Front' = Front
    BY <1>4, <1>9 DEF Front, sharedVars
  <2> QED BY <2>1, <1>1, <1>4, <1>6, <1>9, HandsKept
<1> QED BY <1>1, <1>4, <1>8, <1>10, <1>11, <1>12, <1>13, <1>14, <1>15, <1>16 DEF IInv, InCall

LEMMA OneThreadStep == ASSUME IInv, OneThread PROVE IInv'
<1>1. /\ Typed /\ Phase /\ Locked /\ ~missed /\ Busy /\ Team /\ Chunks /\ Items /\ Calling /\ Hands /\ Done
  BY DEF IInv, InCall, OneThread, Busy
<1>2. /\ Size = 1 /\ made = 0 /\ joined = 0 /\ mpc = "one" /\ Solo /\ Crew = {0} /\ Working = {0}
      /\ 0 \in Workers
  BY <1>1, Bounds DEF Phase, OneThread, Solo, Crew, Working, Workers
<1>3. /\ mpc' = "check" /\ tw' = PutIn(tw, 1, 0, Value(0))
      /\ UNCHANGED <<nthreads, call, calls, made, joined, missed, results, sharedVars, slot, piece, times>>
  BY DEF OneThread, PutIn
<1>4. /\ wpc' = [wpc EXCEPT ![0] = "none"] /\ wpc'[0] = "none" /\ wpc[0] = "ended"
      /\ \A v \in Workers \ {0} : wpc'[v] = wpc[v]
  BY <1>1, <1>2 DEF OneThread, Typed
<1>5. Alike(tw, tw')
  <2>1. Value(0) \in Int \cup {NULL}
    BY <1>1, <1>2, CallsAssumption DEF Value, Team, CallType, Typed
  <2>2. tw \in Seq(Pieces)
    BY <1>1 DEF Team
  <2>3. Alike(tw, PutIn(tw, 1, 0, Value(0)))
    BY <2>1, <2>2, Put
  <2> QED BY <2>3, <1>3
<1>6. Team' /\ Size' = Size
  BY <1>1, <1>3, <1>5, TeamKept
<1>7. Crew' = Crew /\ Working' = {} /\ Solo' /\ Busy'
  BY <1>2, <1>3 DEF Solo, Crew, Working, Busy
<1>8. Typed'
  <2>1. wpc' \in [Workers -> {"none", "start", "locked", "taken", "unlock", "use", "run", "ended"}]
    BY <1>1, <1>4 DEF Typed
  <2> QED BY <2>1, <1>1, <1>3 DEF Typed, sharedVars
<1>9. Phase'
  <2>1. \A v \in Workers : wpc'[v] = "none"
    BY <1>1, <1>2, <1>4 DEF Phase
  <2> QED BY <2>1, <1>2, <1>3, <1>6, <1>7 DEF Phase
<1>10. Locked'
  BY <1>1, <1>3, <1>4 DEF Locked, sharedVars
<1>11. Chunks'
  <2> SUFFICES ASSUME call.kind = "chunk" PROVE Chunks'
    BY <1>3 DEF Chunks
  <2>1. Takers = {0} /\ Takers' = {0}
    BY <1>2, <1>4, <1>7 DEF Takers
  <2>2. ~At(0, "taken") /\ ~At(0, "taken")' /\ slot' = slot /\ wid' = wid /\ index' = index
    BY <1>3, <1>4 DEF At, sharedVars
  <2>3. tw'[1].ret = [tw[1].ret EXCEPT ![0] = slot[0]] /\ DOMAIN tw[1].ret = 0 .. Size
    <3>1. tw \in [1 .. 1 -> Pieces] /\ Len(tw) = 1
      <4>1. Len(tw) = 1 /\ tw \in Seq(Pieces)
        BY <1>1 DEF Team
      <4> QED BY <4>1, LenProperties
    <3>2. Value(0) = slot[0]
      BY DEF Value
    <3> QED BY <3>1, <3>2, <1>1, <1>3 DEF PutIn, Pieces, Chunks
  <2>4. DOMAIN tw'[1].ret = 0 .. Size'
    BY <2>3, <1>6
  <2>5. 0 \in 0 .. Size /\ tw'[1].ret[0] = slot[0]
    BY <2>3, <1>2
  <2>6. \A v \in Crew' \ Working' : tw'[1].ret[IF v = 0 THEN 0 ELSE v - 1] = slot'[v]
    BY <2>2, <2>5, <1>2, <1>7
  <2>7. /\ index = Index(call.mn, call.mx, Size) /\ wid = Cardinality(Takers)
        /\ slot[0] \in 0 .. wid - 1
        /\ \A s \in 0 .. wid - 1 : slot[0] = s
    BY <1>1, <2>1, <2>2 DEF Chunks
  <2> QED BY <1>3, <1>6, <2>1, <2>2, <2>4, <2>6, <2>7 DEF Chunks
<1>12. Items'
  BY <1>1, <1>2, <1>3, <1>4, <1>7 DEF Items, sharedVars, At
<1>13. Calling'
  BY <1>1, <1>2, <1>3, <1>4, <1>7 DEF Calling
<1>14. Hands' /\ Done'
  <2>1. Front' = Front
    BY <1>2, <1>3, <1>7 DEF Front, sharedVars
  <2>2. \A v \in Crew \ {0} : wpc'[v] = wpc[v]
    BY <1>2
  <2> QED BY <2>1, <2>2, <1>1, <1>3, <1>4, <1>7, HandsKept
<1> QED BY <1>1, <1>3, <1>6, <1>8, <1>9, <1>10, <1>11, <1>12, <1>13, <1>14 DEF IInv, InCall

\* When the call returns every thread is through.
LEMMA AllJoined ==
  ASSUME IInv, mpc = "check"
  PROVE  /\ Working = {} /\ \A w \in Workers : wpc[w] = "none"
         /\ Cardinality(Crew) = Size
         /\ \A w \in Crew : Hand(w) = {}
         /\ call.kind = "chunk" => wid = Size /\ Takers = Crew
         /\ call.kind = "queue" => Front = call.mx
         /\ call.kind # "queue" => \A i \in LoopOf(call) : i < Front
<1>1. /\ Typed /\ Phase /\ Busy /\ Team /\ Chunks /\ Items /\ Calling
  BY DEF IInv, InCall, Busy
<1>2. Working = {} /\ Size \in Nat \ {0} /\ made \in Nat
  BY <1>1, SizeNat DEF Phase, Working, Typed
<1>3. \A w \in Workers : wpc[w] = "none"
  BY <1>1, <1>2 DEF Phase
<1>4. Crew \subseteq Workers
  BY <1>1, WorkingInCrew
<1>5. \A w \in Crew : Hand(w) = {} /\ wpc[w] = "none"
  BY <1>3, <1>4 DEF Hand, At
<1>6. Cardinality(Crew) = Size
  <2>1. CASE made = 0
    <3>1. Crew = {0} /\ Size = 1
      BY <2>1, <1>1, <1>2 DEF Crew, Solo, Phase
    <3> QED BY <3>1, FS_Singleton
  <2>2. CASE made # 0
    <3>1. Crew = 1 .. made /\ Size = made
      BY <2>2, <1>1 DEF Crew, Solo, Phase
    <3> QED BY <3>1, <1>2, FS_Interval
  <2> QED BY <2>1, <2>2
<1>7. call.kind = "chunk" => wid = Size /\ Takers = Crew
  <2>1. Takers = Crew
    BY <1>5 DEF Takers
  <2> QED BY <2>1, <1>1, <1>6, Taken
<1>8. call.kind = "queue" => Front = call.mx
  <2> SUFFICES ASSUME call.kind = "queue" PROVE nxt = call.mx
    BY DEF Front
  <2>1. \E w : w \in Crew
    <3>1. Crew # {}
      BY <1>2, <1>6, FS_EmptySet
    <3> QED BY <3>1
  <2>2. \A w \in Crew : wpc[w] \in {"ended", "none"} => nxt = call.mx
    BY <1>1 DEF Items
  <2> QED BY <2>1, <2>2, <1>5
<1>9. call.kind # "queue" => \A i \in LoopOf(call) : i < Front
  <2>1. CASE call.kind = "chunk"
    <3>1. Front = index[Size] /\ index[Size] = call.mx /\ call.mx \in Int /\ call.mn \in Int
      BY <2>1, <1>1, <1>7, ChunkLimits DEF Front
    <3>2. LoopOf(call) = call.mn .. call.mx - 1
      BY <2>1, <1>1, ChunkLimits
    <3> QED BY <3>1, <3>2
  <2>2. CASE call.kind = "work"
    <3>1. Front = Size
      BY <2>2, <1>1, <1>2 DEF Front, Solo, Phase
    <3>2. LoopOf(call) = 0 .. Size - 1
      BY <2>2, <1>1, WorkLoop
    <3> QED BY <3>1, <3>2, <1>2
  <2> QED BY <2>1, <2>2, <1>1, CallsAssumption DEF Team, CallType
<1> QED BY <1>2, <1>3, <1>5, <1>6, <1>7, <1>8, <1>9

\* All iterations are done when the call returns.
LEMMA AllDone ==
  ASSUME IInv, mpc = "check"
  PROVE  \A i \in LoopOf(call) : times[i] = 1
<1>1. Done /\ Team
  BY DEF IInv, InCall, Busy
<1>2. \A i \in LoopOf(call) : i < Front
  <2>1. CASE call.kind = "queue"
    <3>1. LoopOf(call) = call.mn .. call.mx - 1 /\ call.mn \in Int /\ call.mx \in Int
      BY <2>1, <1>1, CallsAssumption DEF LoopOf, Team, CallType
    <3> QED BY <2>1, <3>1, AllJoined
  <2> QED BY <2>1, AllJoined
<1> QED BY <1>1, <1>2, AllJoined DEF Done

\* The threads of a loop have returned chunks that reach from mn to mx.
LEMMA NothingMissing ==
  ASSUME IInv, mpc = "check", call.kind = "chunk"
  PROVE  ~Missing
<1>1. /\ Typed /\ Phase /\ Busy /\ Team /\ Chunks
  BY DEF IInv, InCall, Busy
<1>2. /\ Working = {} /\ wid = Size /\ Takers = Crew /\ Size \in Nat \ {0}
      /\ \A w \in Crew : ~At(w, "taken")
  <2>1. Crew \subseteq Workers
    BY <1>1, WorkingInCrew
  <2> QED BY <2>1, <1>1, AllJoined, SizeNat DEF At
<1>3. tw[1].n_thread = Size
  <2>1. Len(tw) = 1 /\ tw[1] \in Pieces
    <3>1. Len(tw) = 1 /\ tw \in Seq(Pieces)
      BY <1>1 DEF Team
    <3> QED BY <3>1, ElementOfSeq
  <2> QED BY <2>1, BeforeFirst DEF Size, Pieces
<1> DEFINE ret == tw[1].ret
           chunks == {ret[j] : j \in 0 .. Size - 1}
           At0(w) == IF w = 0 THEN 0 ELSE w - 1
<1>4. \A w \in Crew : ret[At0(w)] = slot[w] /\ slot[w] \in 0 .. Size - 1
  BY <1>1, <1>2 DEF Chunks
<1>5. /\ \A w \in Crew : At0(w) \in 0 .. Size - 1
      /\ \A j \in 0 .. Size - 1 : \E w \in Crew : At0(w) = j
  <2>1. CASE made = 0
    <3>1. Crew = {0} /\ Size = 1
      BY <2>1, <1>1, <1>2 DEF Crew, Solo, Phase
    <3> QED BY <3>1
  <2>2. CASE made # 0
    <3>1. Crew = 1 .. made /\ Size = made
      BY <2>2, <1>1 DEF Crew, Solo, Phase
    <3>2. \A j \in 0 .. Size - 1 : j + 1 \in Crew /\ At0(j + 1) = j
      BY <3>1, <1>2
    <3> QED BY <3>1, <3>2, <1>2
  <2> QED BY <2>1, <2>2
<1>6. chunks = 0 .. Size - 1
  <2>1. \A s \in 0 .. Size - 1 : \E w \in Crew : slot[w] = s
    BY <1>1, <1>2 DEF Chunks
  <2>2. \A s \in 0 .. Size - 1 : s \in chunks
    BY <2>1, <1>4, <1>5
  <2>3. \A j \in 0 .. Size - 1 : ret[j] \in 0 .. Size - 1
    BY <1>4, <1>5
  <2> QED BY <2>2, <2>3
<1>7. /\ index[0] = call.mn /\ index[Size] = call.mx /\ call.mn \in Int /\ call.mx \in Int
      /\ \A j \in 0 .. Size : index[j] \in call.mn .. call.mx
  BY <1>1, ChunkLimits
<1> HIDE DEF chunks
<1>8. 0 \in chunks /\ Size - 1 \in chunks /\ Size - 1 + 1 = Size
  BY <1>2, <1>6
<1>9. \A s \in chunks : s \in 0 .. Size /\ s + 1 \in 0 .. Size
  BY <1>2, <1>6
<1>10. \A s \in chunks : ~(index[s] < call.mn) /\ ~(index[s + 1] > call.mx)
  BY <1>7, <1>9
<1>11. Missing <=> \/ \A s \in chunks : index[s] # call.mn
                   \/ \E s \in chunks : index[s] < call.mn
                   \/ \A s \in chunks : index[s + 1] # call.mx
                   \/ \E s \in chunks : index[s + 1] > call.mx
  BY <1>3 DEF Missing, chunks
<1> QED BY <1>7, <1>8, <1>10, <1>11

LEMMA ReturnStep == ASSUME IInv, Return PROVE IInv'
<1>1. /\ Typed /\ Phase /\ Locked /\ ~missed /\ mpc = "check"
      /\ Working = {} /\ \A w \in Workers : wpc[w] = "none"
  BY AllJoined DEF IInv, Return
<1>2. mpc' = "idle" /\ made' = 0 /\ joined' = 0
      /\ UNCHANGED <<nthreads, call, calls, wid, nxt, holder, workerVars>>
  BY DEF Return
<1>3. missed' = missed
  <2>1. CASE call.kind = "chunk"
    <3>1. missed' = (missed \/ Missing) /\ ~Missing
      BY <2>1, <1>1, NothingMissing DEF Return
    <3>2. missed = FALSE
      BY <1>1 DEF Typed
    <3> QED BY <3>1, <3>2
  <2>2. CASE call.kind # "chunk"
    BY <2>2 DEF Return
  <2> QED BY <2>1, <2>2
<1>4. Typed'
  <2>1. made' \in 0 .. MaxThreads /\ joined' \in 0 .. made'
    BY <1>2, Bounds
  <2> QED BY <2>1, <1>1, <1>2, <1>3 DEF Typed, workerVars
<1>5. Phase'
  <2>1. Working' = {}
    BY <1>2 DEF Working
  <2> QED BY <2>1, <1>1, <1>2 DEF Phase, workerVars
<1>6. Locked'
  BY <1>1, <1>2 DEF Locked, workerVars
<1> QED BY <1>1, <1>2, <1>3, <1>4, <1>5, <1>6 DEF IInv, Busy

LEMMA InitThreadsStep == ASSUME IInv, NEW n \in 0 .. MaxThreads, InitThreads(n) PROVE IInv'
<1>1. mpc = "idle" /\ nthreads' = n /\ Typed /\ Phase /\ Locked /\ ~missed
      /\ UNCHANGED <<call, calls, mpc, tw, made, joined, missed, sharedVars, workerVars>>
  BY DEF InitThreads, IInv
<1>2. Typed'
  BY <1>1 DEF Typed, sharedVars, workerVars
<1>3. Phase'
  BY <1>1 DEF Phase, workerVars, Working
<1>4. Locked'
  BY <1>1 DEF Locked, sharedVars, workerVars
<1> QED BY <1>1, <1>2, <1>3, <1>4 DEF IInv, Busy

\* The team of a new call.
LEMMA NewTeam ==
  ASSUME Typed, mpc = "idle", NEW c \in Calls, Call(c)
  PROVE  /\ Team' /\ nthreads' \in -1 .. MaxThreads
         /\ c.kind = "chunk" => index' = Index(c.mn, c.mx, Size') /\ wid' = 0
         /\ c.kind # "work" => DOMAIN tw'[1].ret = 0 .. Size'
         /\ c.kind = "work" => LoopOf(c) = 0 .. Size' - 1
<1>1. /\ call' = c /\ nthreads \in -1 .. MaxThreads
      /\ nthreads' = IF nthreads < 0 /\ c.kind # "work" THEN 1 ELSE nthreads
  BY DEF Call, Typed
<1>2. PICK n : n = nthreads'
  OBVIOUS
<1>3. n \in -1 .. MaxThreads /\ (c.kind # "work" => n >= 0)
  BY <1>1, <1>2, Bounds
<1>4. CASE c.kind = "work"
  <2> DEFINE t == [i \in DOMAIN c.nt |-> ThreadWork(c.nt[i])]
  <2>1. tw' = t
    BY <1>4 DEF Call
  <2>2. /\ t \in Seq(Pieces) /\ Len(t) = Len(c.nt)
        /\ \A i \in 1 .. Len(t) : t[i].n_thread = AtLeast1(c.nt[i])
        /\ Total(t) \in 1 .. MaxThreads
        /\ LoopOf(c) = 0 .. Total(t) - 1
    BY <1>4, WorkTotal
  <2> HIDE DEF t
  <2>3. Size' = Total(t)
    BY <2>1 DEF Size
  <2>4. Team'
    BY <2>1, <2>2, <2>3, <1>1, <1>4 DEF Team
  <2> QED BY <2>2, <2>3, <2>4, <1>2, <1>3, <1>4
<1>5. CASE c.kind # "work"
  <2> DEFINE nt == AtLeast1(IF c.serial THEN 1 ELSE n)
             p  == ThreadWork(nt)
  <2>1. /\ tw' = <<p>>
        /\ c.kind = "chunk" => index' = Index(c.mn, c.mx, nt) /\ wid' = 0
    BY <1>2, <1>5 DEF Call, FirstWid
  <2>2. nt \in 1 .. MaxThreads /\ nt \in Nat \ {0}
    BY <1>3, <1>5, Bounds DEF AtLeast1
  <2> HIDE DEF nt
  <2>3. AtLeast1(nt) = nt
    BY <2>2 DEF AtLeast1
  <2>4. p = [n_thread |-> nt, ret |-> [j \in 0 .. nt |-> NULL]]
    BY <2>3 DEF ThreadWork
  <2>5. [j \in 0 .. nt |-> NULL] \in Rets
    BY <2>2 DEF Rets
  <2>6. p \in Pieces /\ p.n_thread = nt /\ DOMAIN p.ret = 0 .. nt
    BY <2>2, <2>4, <2>5 DEF Pieces
  <2> HIDE DEF p
  <2>7. Len(<<p>>) = 1 /\ <<p>>[1] = p /\ <<p>> \in Seq(Pieces)
    BY <2>6
  <2>8. Total(<<p>>) = nt
    BY <2>2, <2>6, <2>7, BeforeFirst
  <2>9. Size' = nt
    BY <2>1, <2>8 DEF Size
  <2>10. Team'
    <3>1. tw'[1].n_thread = AtLeast1(IF call'.serial THEN 1 ELSE nthreads')
      BY <2>1, <2>6, <2>7, <1>1, <1>2 DEF nt
    <3>2. nthreads' >= 0
      BY <1>2, <1>3, <1>5
    <3> QED BY <3>1, <3>2, <2>1, <2>2, <2>7, <2>9, <1>1, <1>5 DEF Team
  <2> QED BY <2>1, <2>6, <2>7, <2>9, <2>10, <1>2, <1>3, <1>5
<1> QED BY <1>4, <1>5

LEMMA CallStep == ASSUME IInv, NEW c \in Calls, Call(c) PROVE IInv'
<1>1. Typed /\ Phase /\ Locked /\ ~missed /\ mpc = "idle" /\ Working = {} /\ made = 0 /\ joined = 0
  <2>1. Typed /\ Phase /\ Locked /\ ~missed /\ mpc = "idle"
    BY DEF IInv, Call
  <2> QED BY <2>1, WorkingInCrew DEF Busy, Phase
<1>2. /\ call' = c /\ times' = [i \in Iterations |-> 0]
      /\ mpc' = (IF Size' = 1 THEN "one" ELSE "create")
      /\ wpc' = [wpc EXCEPT ![0] = IF Size' = 1 THEN "start" ELSE "none"]
      /\ nxt' = (IF c.kind = "queue" THEN 0 ELSE nxt)
      /\ UNCHANGED <<made, joined, missed, holder, slot, piece>>
  BY DEF Call, Size
<1>3. /\ Team' /\ nthreads' \in -1 .. MaxThreads
      /\ c.kind = "chunk" => index' = Index(c.mn, c.mx, Size') /\ wid' = 0
      /\ c.kind # "work" => DOMAIN tw'[1].ret = 0 .. Size'
      /\ c.kind = "work" => LoopOf(c) = 0 .. Size' - 1
  BY <1>1, NewTeam
<1>4. PICK s : s = Size'
  OBVIOUS
<1>5. s \in Nat \ {0}
  BY <1>3, <1>4, Bounds DEF Team
<1>6. 0 \in Workers /\ wpc \in [Workers -> {"none"}]
  BY <1>1, Bounds DEF Workers, Phase, Typed
<1>7. /\ wpc'[0] = (IF s = 1 THEN "start" ELSE "none")
      /\ \A v \in Workers \ {0} : wpc'[v] = "none"
      /\ wpc' \in [Workers -> {"none", "start", "locked", "taken", "unlock", "use", "run", "ended"}]
  BY <1>2, <1>4, <1>6
<1>8. /\ Busy' /\ mpc' = (IF s = 1 THEN "one" ELSE "create")
      /\ Crew' = IF s = 1 THEN {0} ELSE {}
      /\ Working' = Crew'
      /\ Solo' <=> s = 1
  BY <1>1, <1>2, <1>4 DEF Busy, Crew, Working, Solo
<1>9. /\ c.kind \in {"chunk", "queue", "work"} /\ c.mn \in Int /\ c.mx \in Int /\ c.mn =< c.mx
      /\ (c.kind = "queue" => c.mn = 0)
  BY CallsAssumption DEF CallType
<1>10. Typed'
  <2>1. wid' \in 0 .. MaxThreads
    BY <1>1, Bounds DEF Call, FirstWid, Typed
  <2>2. nxt' \in Nat
    BY <1>1, <1>2 DEF Typed
  <2>3. times' \in [Iterations -> Nat]
    BY <1>2
  <2> QED BY <2>1, <2>2, <2>3, <1>1, <1>2, <1>3, <1>7 DEF Typed
<1>11. Phase'
  <2>1. \A v \in Workers : wpc'[v] # "none" <=> v \in Working'
    BY <1>7, <1>8
  <2> QED BY <2>1, <1>1, <1>2, <1>4, <1>5, <1>8 DEF Phase
<1>12. Locked'
  BY <1>1, <1>2, <1>6, <1>7 DEF Locked
<1>13. Chunks'
  <2> SUFFICES ASSUME c.kind = "chunk" PROVE Chunks'
    BY <1>2 DEF Chunks
  <2>1. Takers' = {}
    BY <1>7, <1>8 DEF Takers
  <2>2. wid' = Cardinality(Takers') /\ 0 .. wid' - 1 = {}
    BY <2>1, <1>3, FS_EmptySet
  <2> QED BY <2>1, <2>2, <1>2, <1>3, <1>8 DEF Chunks
<1>14. Items'
  <2> SUFFICES ASSUME c.kind = "queue" PROVE Items'
    BY <1>2 DEF Items
  <2>1. nxt' = 0 /\ 0 \in 0 .. c.mx
    BY <1>2, <1>9
  <2> QED BY <2>1, <1>2, <1>7, <1>8 DEF Items, At
<1>15. Calling'
  BY <1>7, <1>8 DEF Calling
<1>16. Hands' /\ Done'
  <2>1. \A w \in Crew' : Hand(w)' = IF c.kind = "work" THEN {0} ELSE {}
    <3> TAKE w \in Crew'
    <3>1. w = 0 /\ wpc'[w] = "start"
      BY <1>7, <1>8
    <3>2. Hand(w)' = IF c.kind = "work" THEN {Rank(w)} ELSE {}
      BY <3>1, <1>2 DEF Hand, At
    <3> QED BY <3>1, <3>2 DEF Rank
  <2>2. \A i \in LoopOf(c) : i \in Iterations
    BY BoundAssumption
  <2>3. CASE c.kind = "work"
    <3>1. LoopOf(c) = 0 .. s - 1
      BY <2>3, <1>3, <1>4
    <3>2. Front' = IF s = 1 THEN 1 ELSE 0
      BY <2>3, <1>1, <1>2, <1>8 DEF Front
    <3> QED BY <2>1, <2>2, <2>3, <3>1, <3>2, <1>2, <1>5, <1>8 DEF Hands, Done
  <2>4. CASE c.kind # "work"
    <3>1. \A i \in LoopOf(c) : ~(i < Front')
      <4>1. LoopOf(c) = c.mn .. c.mx - 1
        BY <2>4 DEF LoopOf
      <4>2. Front' = c.mn
        <5>1. CASE c.kind = "chunk"
          <6>1. Index(c.mn, c.mx, s)[0] = c.mn
            BY <1>5, <1>9, Limits
          <6> QED BY <5>1, <6>1, <1>2, <1>3, <1>4 DEF Front
        <5>2. CASE c.kind = "queue"
          BY <5>2, <1>2, <1>9 DEF Front
        <5> QED BY <5>1, <5>2, <2>4, <1>9
      <4> QED BY <4>1, <4>2, <1>9
    <3>2. \A w \in Crew' : Hand(w)' = {}
      BY <2>1, <2>4
    <3> QED BY <2>2, <3>1, <3>2, <1>2 DEF Hands, Done
  <2> QED BY <2>3, <2>4
<1> QED BY <1>1, <1>2, <1>3, <1>10, <1>11, <1>12, <1>13, <1>14, <1>15, <1>16 DEF IInv, InCall

-----------------------------------------------------------------------------
(* The invariant.                                                          *)

LEMMA WorkerInv == ASSUME IInv, NEW w \in Workers, WorkerStep(w) PROVE IInv'
<1>1. /\ Typed /\ Phase /\ Locked /\ ~missed /\ Busy
      /\ Team /\ Chunks /\ Items /\ Calling /\ Hands /\ Done
  <2>1. Typed /\ Phase /\ Locked /\ ~missed
    BY DEF IInv
  <2>2. Busy
    BY <2>1, WorkerFrame
  <2> QED BY <2>1, <2>2 DEF IInv, InCall
<1>2. missed' = missed
  BY <1>1, WorkerFrame DEF callerVars
<1>3. Typed' /\ Phase' /\ Team'
  BY <1>1, WorkerTyped
<1>4. Locked' /\ Calling'
  BY <1>1, WorkerLocked, WorkerCalling
<1>5. Chunks' /\ Items'
  BY <1>1, WorkerChunks, WorkerItems
<1>6. Hands' /\ Done'
  BY <1>1, WorkerHands
<1> QED BY <1>1, <1>2, <1>3, <1>4, <1>5, <1>6 DEF IInv, InCall

LEMMA Start == Init => IInv
<1> SUFFICES ASSUME Init PROVE IInv
  OBVIOUS
<1>1. Typed
  <2>1. nthreads \in -1 .. MaxThreads /\ made \in 0 .. MaxThreads /\ wid \in 0 .. MaxThreads
    BY Bounds DEF Init
  <2>2. joined \in 0 .. made
    BY DEF Init
  <2>3. /\ piece \in [Workers -> Int \X Int] /\ slot \in [Workers -> Int \cup {NULL}]
        /\ times \in [Iterations -> Nat] /\ nxt \in Nat
    BY DEF Init
  <2>4. wpc \in [Workers -> {"none", "start", "locked", "taken", "unlock", "use", "run", "ended"}]
    BY DEF Init
  <2> QED BY <2>1, <2>2, <2>3, <2>4 DEF Init, Typed
<1>2. Phase
  BY DEF Init, Phase, Working
<1>3. Locked
  BY NoneAssumption DEF Init, Locked, Workers
<1> QED BY <1>1, <1>2, <1>3 DEF Init, IInv, Busy

LEMMA Step == IInv /\ [Next]_vars => IInv'
<1> SUFFICES ASSUME IInv, [Next]_vars PROVE IInv'
  OBVIOUS
<1>1. ASSUME NEW n \in 0 .. MaxThreads, InitThreads(n) PROVE IInv'
  BY <1>1, InitThreadsStep
<1>2. ASSUME NEW c \in Calls, Call(c) PROVE IInv'
  BY <1>2, CallStep
<1>3. ASSUME CallerStep PROVE IInv'
  BY <1>3, CreateStep, JoinStep, OneThreadStep, ReturnStep DEF CallerStep
<1>4. ASSUME NEW w \in Workers, WorkerStep(w) PROVE IInv'
  BY <1>4, WorkerInv
<1>5. ASSUME UNCHANGED vars PROVE IInv'
  <2> USE <1>5 DEF vars, callerVars, sharedVars, workerVars
  <2>1. UNCHANGED <<Busy, Size, Crew, Working, Takers, Front>>
    BY DEF Busy, Size, Crew, Working, Solo, Takers, Front
  <2>2. Typed' <=> Typed
    BY DEF Typed
  <2>3. /\ Phase' <=> Phase
        /\ Locked' <=> Locked
        /\ Team' <=> Team
    BY <2>1 DEF Phase, Locked, Team
  <2>4. Chunks' <=> Chunks
    BY <2>1 DEF Chunks, At
  <2>5. (Items' <=> Items) /\ (Calling' <=> Calling)
    BY <2>1 DEF Items, Calling, At
  <2>6. \A v \in Crew : Hand(v)' = Hand(v)
    BY DEF Hand, Span, At
  <2>7. Hands /\ Done => Hands' /\ Done'
    BY <2>1, <2>6, Stays
  <2> QED BY <2>1, <2>2, <2>3, <2>4, <2>5, <2>7 DEF IInv, InCall
<1> QED BY <1>1, <1>2, <1>3, <1>4, <1>5 DEF Next

LEMMA Invariance == Spec => []IInv
BY Start, Step, PTL DEF Spec

\* Whatever the number of threads and the calls, every variable of the work
\* distribution ranges over what its comment says; _SC_tc and _SC_tq count no
\* further than there are threads and items.
THEOREM TypeCorrect == Spec => []TypeOK
<1>1. IInv => TypeOK
  BY DEF IInv, Typed, TypeOK
<1> QED BY <1>1, Invariance, PTL

\* Whatever the number of threads and the order they come in, a thread takes
\* a chunk SC_chunk_loop has made, while it is there, and the chunks returned
\* reach from mn to mx.
THEOREM ChunkSafety == Spec => []ChunksSound
<1>1. IInv => ChunksSound
  <2> SUFFICES ASSUME IInv PROVE ChunksSound
    OBVIOUS
  <2>1. Typed /\ Phase /\ ~missed /\ (Busy => InCall)
    BY DEF IInv
  <2>2. ASSUME NEW w \in Workers, call.kind = "chunk", wpc[w] \in {"unlock", "use"}
        PROVE  slot[w] \in DOMAIN index /\ slot[w] + 1 \in DOMAIN index
    <3>1. w \in Crew /\ Busy
      BY <2>1, <2>2, WorkingInCrew DEF Phase
    <3>2. Team /\ Chunks
      BY <2>1, <3>1 DEF InCall
    <3>3. w \in Takers
      BY <2>2, <3>1 DEF Takers
    <3>4. slot[w] \in 0 .. wid - 1
      BY <2>2, <3>2, <3>3 DEF Chunks, At
    <3>5. wid \in 0 .. Size /\ Size \in Nat \ {0} /\ DOMAIN index = 0 .. Size
      BY <2>1, <2>2, <3>1, <3>2, Taken, SizeNat, ChunkLimits
    <3> QED BY <3>4, <3>5
  <2> QED BY <2>1, <2>2 DEF ChunksSound, IndexValid, NoChunkMissed
<1> QED BY <1>1, Invariance, PTL

-----------------------------------------------------------------------------
(* The work distribution implements ParallelLoop.                          *)

LEMMA CallTyped ==
  ASSUME IInv, Busy PROVE call \in Calls /\ call # NoCall
BY NoneAssumption DEF IInv, InCall, Team

\* One iteration.
LEMMA RunDoes ==
  ASSUME IInv, NEW w \in Workers, Run(w)
  PROVE  Loop!Next
<1>1. /\ Typed /\ Phase /\ Busy /\ Team /\ Hands /\ Done /\ w \in Crew
      /\ UNCHANGED callerVars
  <2>1. Typed /\ Phase /\ WorkerStep(w)
    BY DEF IInv, WorkerStep
  <2>2. Busy /\ w \in Crew /\ UNCHANGED callerVars
    BY <2>1, WorkerFrame
  <2> QED BY <2>1, <2>2 DEF IInv, InCall
<1>2. PICK i : i = piece[w][1]
  OBVIOUS
<1>3. /\ wpc[w] = "run" /\ i < piece[w][2] /\ i \in Int /\ piece[w][2] \in Int
      /\ times' = [times EXCEPT ![i] = @ + 1]
  BY <1>1, <1>2 DEF Run, At, Typed
<1>4. i \in Hand(w)
  BY <1>2, <1>3 DEF Hand, At
<1>5. i \in LoopOf(call) /\ times[i] = 0
  BY <1>1, <1>4 DEF Hands, Done
<1>6. i \in Iterations
  BY <1>1, <1>5, Turns
<1>7. times' = [times EXCEPT ![i] = 1]
  BY <1>1, <1>3, <1>5, <1>6 DEF Typed
<1>8. call' = call /\ mpc' = mpc /\ call # NoCall
  BY <1>1, CallTyped DEF callerVars
<1>9. Loop!Do(i)
  BY <1>1, <1>5, <1>7, <1>8 DEF Loop!Do, Busy
<1> QED BY <1>6, <1>9 DEF Loop!Next

LEMMA StepImplements ==
  ASSUME IInv, [Next]_vars PROVE [Loop!Next]_(Loop!vars)
<1> USE DEF Loop!vars
<1>1. ASSUME NEW n \in 0 .. MaxThreads, InitThreads(n) PROVE UNCHANGED Loop!vars
  BY <1>1 DEF InitThreads, workerVars
<1>2. ASSUME NEW c \in Calls, Call(c) PROVE Loop!Call
  <2>1. call' = c /\ mpc' \in {"one", "create"} /\ mpc = "idle" /\ times' = [i \in Iterations |-> 0]
    BY <1>2 DEF Call
  <2>2. c # NoCall
    BY NoneAssumption
  <2> QED BY <2>1, <2>2 DEF Loop!Call
<1>3. ASSUME Create \/ Join \/ OneThread PROVE UNCHANGED Loop!vars
  BY <1>3 DEF Create, Join, OneThread
<1>4. ASSUME Return PROVE Loop!Return
  <2>1. mpc = "check" /\ mpc' = "idle" /\ UNCHANGED <<call, times>>
    BY <1>4 DEF Return, workerVars
  <2>2. \A i \in LoopOf(call) : times[i] = 1
    BY <2>1, AllDone
  <2>3. call # NoCall
    BY <2>1, CallTyped DEF Busy
  <2> QED BY <2>1, <2>2, <2>3 DEF Loop!Return
<1>5. ASSUME NEW w \in Workers, WorkerStep(w), ~Run(w) PROVE UNCHANGED Loop!vars
  BY <1>5 DEF WorkerStep, LockOn, LockOff, NextWid, TakeChunk, UseChunk, NextItem, CountItem, UseItem,
     Invoke, RunEnds, callerVars, sharedVars
<1>6. ASSUME UNCHANGED vars PROVE UNCHANGED Loop!vars
  BY <1>6 DEF vars, callerVars, workerVars
<1>7. ASSUME NEW w \in Workers, Run(w) PROVE Loop!Next
  BY <1>7, RunDoes
<1> QED BY <1>1, <1>2, <1>3, <1>4, <1>5, <1>6, <1>7 DEF Next, CallerStep, Loop!Next

\* Whatever the number of threads and the calls, every iteration, item or
\* invocation of a call is done exactly once, all before the call returns.
THEOREM OnceEach == Spec => ImplementsLoop
<1>1. Init => Loop!Init
  BY DEF Init, Loop!Init
<1> QED BY <1>1, StepImplements, Invariance, PTL DEF Spec, ImplementsLoop, Loop!Spec
=============================================================================
