------------------------- MODULE BufferedFile_proofs -------------------------
(***************************************************************************)
(* For any sizes, bytes, seeks and files: under the rule of Discipline     *)
(* no buffer is stale, and a buffered file is a plain file.                *)
(***************************************************************************)
EXTENDS BufferedFile, FiniteSetTheorems, SequenceTheorems, WellFoundedInduction, TLAPS
-----------------------------------------------------------------------------
(* What is true of the frames.                                             *)

Byte == Bytes \cup {0}

Files == [disk : Seq(Byte), pos : Nat, sz : Nat, curr : Nat, stack : Seq(Frame)]

\* A frame that was read stands for a whole buffer of the file.
Span(f) == IF f.kind = "read" THEN BufSz ELSE f.nb

Apart(f, g) == f.addr + Span(f) < g.addr \/ g.addr + Span(g) < f.addr

Spread(st) == \A i, j \in DOMAIN st : i # j => Apart(st[i], st[j])

\* What was read is in the file, and is cut off only by its end.
Fresh(f, d) == /\ f.kind = "read" /\ f.addr + f.nb =< Len(d)
               /\ f.nb < BufSz => f.addr + f.nb = Len(d)
               /\ \A i \in 1 .. f.nb : f.bf[i] = d[f.addr + i]

\* A full frame does not wait.
Unsaved(f) == f.kind = "write" /\ f.nb < BufSz

Reading(s) == \A f \in ToSet(s.stack) : Fresh(f, s.disk)
Writing(s) == \A f \in ToSet(s.stack) : Unsaved(f)

\* c is what the file d will be when the frames of F have been written.
Shows(F, d, c) ==
  /\ Len(d) =< Len(c)
  /\ \A f \in F : f.nb > 0 => f.addr + f.nb =< Len(c)
  /\ Len(c) = Len(d) \/ \E f \in F : f.nb > 0 /\ f.addr + f.nb = Len(c)
  /\ \A i \in 1 .. Len(c) :
       /\ \A f \in F : Covers(f, i) => c[i] = f.bf[i - f.addr]
       /\ (\A f \in F : ~Covers(f, i)) => c[i] = IF i =< Len(d) THEN d[i] ELSE 0

ToWrite(s) == {f \in ToSet(s.stack) : f.kind = "write"}

Sound(s, c) == /\ s \in Files /\ Spread(s.stack)
               /\ c \in Seq(Byte) /\ Shows(ToWrite(s), s.disk, c)

-----------------------------------------------------------------------------
(* Where the descriptor is: at the caller's place, or a frame has that     *)
(* place in it or ends there.                                              *)

ReadPlace(s) == s.pos = s.curr \/ \E f \in ToSet(s.stack) : f.addr =< s.curr /\ s.curr =< f.addr + f.nb

WritePlace(s) == s.pos = s.curr \/ \E f \in ToSet(s.stack) : Covers(f, s.curr)

Phases(s, l) ==
  /\ l \in {"none", "flush"} => s.stack = <<>>
  /\ l = "none"  => s.pos = s.curr
  /\ l = "read"  => Reading(s) /\ ReadPlace(s)
  /\ l = "write" => Writing(s) /\ WritePlace(s)

\* What ungetc relies on.
Ungettable ==
  call = [name |-> "fread", n |-> 1] /\ result # <<>> =>
    /\ curr >= 1 /\ last = "read"
    /\ buffered => \E f \in ToSet(stack) : Covers(f, curr)

\* A file at s that is to be c, after a transfer l; b: it has buffers.
Holding(s, c, l, b) ==
  /\ Sound(s, c) /\ Phases(s, l)
  /\ b \in BOOLEAN /\ l \in {"none", "read", "write", "flush"}
  /\ b => s.sz = Len(c)
  /\ ~b => s.stack = <<>> /\ s.pos = s.curr

IInv == Holding(State, Content, last, buffered) /\ Ungettable
-----------------------------------------------------------------------------
(* Numbers and sequences.                                                  *)

LEMMA MaxTwo ==
  ASSUME NEW a \in Int, NEW b \in Int
  PROVE  Max({a, b}) = IF a >= b THEN a ELSE b
<1>1. PICK m \in {a, b} : m = IF a >= b THEN a ELSE b
  OBVIOUS
<1>2. m \in Int /\ \A y \in {a, b} : m >= y
  BY <1>1
<1>3. PICK x : x = Max({a, b})
  OBVIOUS
<1>4. x \in {a, b} /\ \A y \in {a, b} : x >= y
  BY <1>2, <1>3 DEF Max
<1>5. x >= m /\ m >= x /\ x \in Int
  BY <1>1, <1>2, <1>4
<1> QED
  BY <1>1, <1>3, <1>5

LEMMA MinTwo ==
  ASSUME NEW a \in Int, NEW b \in Int
  PROVE  Min({a, b}) = IF a =< b THEN a ELSE b
<1>1. PICK m \in {a, b} : m = IF a =< b THEN a ELSE b
  OBVIOUS
<1>2. m \in Int /\ \A y \in {a, b} : m =< y
  BY <1>1
<1>3. PICK x : x = Min({a, b})
  OBVIOUS
<1>4. x \in {a, b} /\ \A y \in {a, b} : x =< y
  BY <1>2, <1>3 DEF Min
<1>5. x >= m /\ m >= x /\ x \in Int
  BY <1>1, <1>2, <1>4
<1> QED
  BY <1>1, <1>3, <1>5

\* A set of natural numbers that is not empty has a least element: the
\* intervals that end in the set are finite, so one of them has no other below.
LEMMA Least ==
  ASSUME NEW S \in SUBSET Nat, S # {}
  PROVE  \E m \in S : \A k \in S : m =< k
<1> DEFINE T == {0 .. k : k \in S}
           R == StrictSubsetOrdering(Nat)
<1>1. IsWellFoundedOn(R, FiniteSubsetsOf(Nat))
  BY FS_StrictSubsetOrderingWellFounded
<1>2. T \subseteq FiniteSubsetsOf(Nat) /\ T # {}
  <2>1. \A k \in S : 0 .. k \subseteq Nat /\ IsFiniteSet(0 .. k)
    BY FS_Interval
  <2> QED BY <2>1 DEF FiniteSubsetsOf
<1>3. \E x \in T : \A y \in T : ~(<<y, x>> \in R)
  <2> HIDE DEF T, R
  <2> QED BY <1>1, <1>2, WFMin
<1>4. PICK m \in S : \A k \in S : <<0 .. k, 0 .. m>> \notin R
  BY <1>3
<1>5. \A k \in S : k < m => <<0 .. k, 0 .. m>> \in R
  <2> SUFFICES ASSUME NEW k \in S, k < m PROVE <<0 .. k, 0 .. m>> \in R
    OBVIOUS
  <2>1. 0 .. k \subseteq 0 .. m /\ m \in 0 .. m /\ m \notin 0 .. k /\ 0 .. m \subseteq Nat
    OBVIOUS
  <2> QED BY <2>1 DEF StrictSubsetOrdering
<1>6. \A k \in S : ~(k < m)
  BY <1>4, <1>5
<1> HIDE DEF T, R
<1>7. \A k \in S : m =< k
  BY <1>6
<1> QED BY <1>7

LEMMA ArraySeq ==
  ASSUME NEW S, NEW n \in Nat, NEW f \in [1 .. n -> S]
  PROVE  f \in Seq(S) /\ Len(f) = n /\ DOMAIN f = 1 .. n
OBVIOUS

LEMMA SameSeq ==
  ASSUME NEW S, NEW a \in Seq(S), NEW b \in Seq(S), Len(a) = Len(b),
         \A i \in 1 .. Len(a) : a[i] = b[i]
  PROVE  a = b
OBVIOUS

\* A stretch of a sequence.
LEMMA Stretch ==
  ASSUME NEW S, NEW s \in Seq(S), NEW a \in Nat, NEW b \in Int, b =< Len(s)
  PROVE  LET t == SubSeq(s, a + 1, b)
         IN  /\ t \in Seq(S)
             /\ Len(t) = IF a =< b THEN b - a ELSE 0
             /\ \A i \in 1 .. Len(t) : t[i] = s[a + i]
<1>1. \A i \in a + 1 .. b : i \in 1 .. Len(s)
  BY LenProperties
<1>2. \A i \in a + 1 .. b : s[i] \in S
  BY <1>1, LenProperties
<1>3. PICK t : t = SubSeq(s, a + 1, b)
  OBVIOUS
<1>4. /\ t \in Seq(S) /\ Len(t) = IF a + 1 =< b THEN b - (a + 1) + 1 ELSE 0
      /\ \A i \in 1 .. b - (a + 1) + 1 : t[i] = s[(a + 1) + i - 1]
  BY <1>2, <1>3, SubSeqProperties
<1>5. Len(t) = IF a =< b THEN b - a ELSE 0
  BY <1>4
<1>6. \A i \in 1 .. Len(t) : i \in 1 .. b - (a + 1) + 1 /\ (a + 1) + i - 1 = a + i
  BY <1>5
<1> QED
  BY <1>3, <1>4, <1>5, <1>6

LEMMA Prefix ==
  ASSUME NEW S, NEW s \in Seq(S), NEW n \in Nat, n =< Len(s)
  PROVE  /\ SubSeq(s, 1, n) \in Seq(S) /\ Len(SubSeq(s, 1, n)) = n
         /\ \A i \in 1 .. n : SubSeq(s, 1, n)[i] = s[i]
<1>1. PICK t : t = SubSeq(s, 0 + 1, n)
  OBVIOUS
<1>2. /\ t \in Seq(S) /\ Len(t) = (IF 0 =< n THEN n - 0 ELSE 0)
      /\ \A i \in 1 .. Len(t) : t[i] = s[0 + i]
  BY <1>1, Stretch
<1>3. 0 =< n /\ n - 0 = n /\ 0 + 1 = 1
  OBVIOUS
<1>4. t = SubSeq(s, 1, n) /\ Len(t) = n
  BY <1>1, <1>2, <1>3
<1>5. \A i \in 1 .. n : t[i] = s[i]
  BY <1>2, <1>4
<1> QED
  BY <1>2, <1>4, <1>5

LEMMA SeqAppend ==
  ASSUME NEW S, NEW s \in Seq(S), NEW e \in S
  PROVE  LET t == Append(s, e)
         IN  /\ t \in Seq(S) /\ Len(t) = Len(s) + 1 /\ DOMAIN t = 1 .. Len(s) + 1
             /\ \A j \in DOMAIN s : t[j] = s[j]
             /\ t[Len(s) + 1] = e /\ Len(s) \in Nat /\ DOMAIN s = 1 .. Len(s)
             /\ ToSet(t) = ToSet(s) \cup {e}
<1>1. PICK t : t = Append(s, e)
  OBVIOUS
<1>2. PICK n \in Nat : n = Len(s) /\ DOMAIN s = 1 .. n
  BY LenProperties
<1>3. /\ t \in Seq(S) /\ Len(t) = n + 1 /\ DOMAIN t = 1 .. n + 1
      /\ \A j \in 1 .. n : t[j] = s[j]
      /\ t[n + 1] = e
  BY <1>1, <1>2
<1>4. ToSet(t) = ToSet(s) \cup {e}
  <2>1. ASSUME NEW x \in ToSet(t) PROVE x \in ToSet(s) \cup {e}
    <3>1. PICK j \in 1 .. n + 1 : x = t[j]
      BY <1>3 DEF ToSet
    <3>2. j \in 1 .. n \/ j = n + 1
      OBVIOUS
    <3> QED
      BY <3>1, <3>2, <1>2, <1>3 DEF ToSet
  <2>2. ASSUME NEW x \in ToSet(s) \cup {e} PROVE x \in ToSet(t)
    <3>1. n + 1 \in DOMAIN t /\ \A j \in 1 .. n : j \in DOMAIN t
      BY <1>3
    <3> QED
      BY <3>1, <1>2, <1>3 DEF ToSet
  <2> QED
    BY <2>1, <2>2
<1> QED
  BY <1>1, <1>2, <1>3, <1>4
-----------------------------------------------------------------------------
(* Stacks from which a frame is taken.                                     *)

LEMMA Removal ==
  ASSUME NEW S, NEW s \in Seq(S), NEW i \in DOMAIN s
  PROVE  LET t == RemoveAt(s, i)
         IN  /\ t \in Seq(S) /\ Len(t) = Len(s) - 1 /\ DOMAIN t = 1 .. Len(s) - 1
             /\ \A j \in DOMAIN t : t[j] = s[IF j < i THEN j ELSE j + 1]
             /\ DOMAIN s = 1 .. Len(s) /\ Len(s) \in Nat
<1>1. PICK n \in Nat : n = Len(s) /\ DOMAIN s = 1 .. n
  BY LenProperties
<1>2. PICK m \in 1 .. n : m = i
  BY <1>1
<1>3. PICK a : a = SubSeq(s, 1, m - 1)
  OBVIOUS
<1>4. PICK b : b = SubSeq(s, m + 1, n)
  OBVIOUS
<1>5. a \in Seq(S) /\ Len(a) = m - 1 /\ \A j \in 1 .. m - 1 : a[j] = s[j]
  <2>1. \A j \in 1 .. m - 1 : s[j] \in S /\ 1 + j - 1 = j
    BY <1>1
  <2> QED
    BY <2>1, <1>3, SubSeqProperties
<1>6. b \in Seq(S) /\ Len(b) = n - m /\ \A j \in 1 .. n - m : b[j] = s[m + j]
  <2>1. \A j \in m + 1 .. n : s[j] \in S
    BY <1>1
  <2>2. b \in Seq(S) /\ Len(b) = IF m + 1 =< n THEN n - (m + 1) + 1 ELSE 0
    BY <2>1, <1>4, SubSeqProperties
  <2>3. \A j \in 1 .. n - (m + 1) + 1 : b[j] = s[(m + 1) + j - 1]
    BY <2>1, <1>4, SubSeqProperties
  <2> QED
    BY <2>2, <2>3
<1>7. RemoveAt(s, i) = a \o b
  BY <1>1, <1>2, <1>3, <1>4 DEF RemoveAt
<1>8. PICK t : t = a \o b
  OBVIOUS
<1>9. /\ t \in Seq(S) /\ Len(t) = n - 1
      /\ \A j \in 1 .. n - 1 : t[j] = IF j =< m - 1 THEN a[j] ELSE b[j - (m - 1)]
  <2>1. /\ t \in Seq(S) /\ Len(t) = Len(a) + Len(b)
        /\ \A j \in 1 .. Len(a) + Len(b) : t[j] = IF j =< Len(a) THEN a[j] ELSE b[j - Len(a)]
    BY <1>5, <1>6, <1>8, ConcatProperties
  <2> QED
    BY <2>1, <1>5, <1>6, SMTT(30)
<1>10. ASSUME NEW j \in 1 .. n - 1 PROVE t[j] = s[IF j < m THEN j ELSE j + 1]
  <2>1. CASE j < m
    BY <2>1, <1>5, <1>9
  <2>2. CASE ~(j < m)
    <3>1. PICK k \in 1 .. n - m : k = j - (m - 1) /\ m + k = j + 1
      BY <2>2
    <3> QED
      BY <2>2, <3>1, <1>6, <1>9, SMTT(30)
  <2> QED
    BY <2>1, <2>2
<1>11. DOMAIN t = 1 .. n - 1
  BY <1>9, LenProperties
<1> QED
  BY <1>1, <1>2, <1>7, <1>8, <1>9, <1>10, <1>11

\* What is left of a stack are its other frames, as far apart as before.
LEMMA Taken ==
  ASSUME NEW S, NEW s \in Seq(S), NEW i \in DOMAIN s
  PROVE  LET t == RemoveAt(s, i)
         IN  /\ \A j \in DOMAIN s : j # i => s[j] \in ToSet(t)
             /\ \A f \in ToSet(t) : \E j \in DOMAIN s : j # i /\ f = s[j]
             /\ ToSet(t) \subseteq ToSet(s)
             /\ ToSet(s) = ToSet(t) \cup {s[i]}
             /\ Spread(s) => /\ Spread(t)
                             /\ \A f \in ToSet(t) : Apart(f, s[i])
<1>1. PICK t : t = RemoveAt(s, i)
  OBVIOUS
<1>2. PICK n \in Nat : n = Len(s) /\ DOMAIN s = 1 .. n /\ DOMAIN t = 1 .. n - 1
  BY <1>1, Removal
<1>3. \A j \in 1 .. n - 1 : t[j] = s[IF j < i THEN j ELSE j + 1]
  BY <1>1, <1>2, Removal
<1>4. PICK m \in 1 .. n : m = i
  BY <1>2
<1>5. ASSUME NEW j \in 1 .. n, j # m PROVE s[j] \in ToSet(t)
  <2>1. PICK k \in 1 .. n - 1 : j = IF k < m THEN k ELSE k + 1
    <3>1. CASE j < m
      <4>1. j \in 1 .. n - 1
        BY <3>1
      <4> QED
        BY <4>1, <3>1
    <3>2. CASE j > m
      <4>1. j - 1 \in 1 .. n - 1 /\ ~(j - 1 < m) /\ j = j - 1 + 1
        BY <3>2
      <4> QED
        BY <4>1
    <3> QED
      BY <3>1, <3>2, <1>5
  <2> QED
    BY <2>1, <1>2, <1>3, <1>4 DEF ToSet
<1>6. ASSUME NEW f \in ToSet(t) PROVE \E j \in 1 .. n : j # m /\ f = s[j]
  <2>1. PICK k \in 1 .. n - 1 : f = t[k]
    BY <1>2 DEF ToSet
  <2>2. PICK j \in 1 .. n : j = (IF k < m THEN k ELSE k + 1) /\ j # m
    OBVIOUS
  <2> QED
    BY <2>1, <2>2, <1>3, <1>4
<1>7. ToSet(t) \subseteq ToSet(s) /\ ToSet(s) = ToSet(t) \cup {s[i]}
  <2>1. \A f \in ToSet(t) : f \in ToSet(s)
    BY <1>2, <1>6 DEF ToSet
  <2>2. s[m] \in ToSet(s) /\ s[i] = s[m]
    BY <1>2, <1>4 DEF ToSet
  <2>3. ASSUME NEW f \in ToSet(s) PROVE f \in ToSet(t) \cup {s[i]}
    <3>1. PICK j \in 1 .. n : f = s[j]
      BY <1>2 DEF ToSet
    <3> QED
      BY <3>1, <2>2, <1>5
  <2> QED
    BY <2>1, <2>2, <2>3
<1>8. ASSUME Spread(s) PROVE Spread(t) /\ \A f \in ToSet(t) : Apart(f, s[i])
  <2>1. ASSUME NEW j \in 1 .. n - 1, NEW k \in 1 .. n - 1, j # k PROVE Apart(t[j], t[k])
    <3>1. PICK p \in 1 .. n : p = IF j < m THEN j ELSE j + 1
      OBVIOUS
    <3>2. PICK q \in 1 .. n : q = IF k < m THEN k ELSE k + 1
      OBVIOUS
    <3>3. p # q
      BY <3>1, <3>2, <2>1
    <3> QED
      BY <3>1, <3>2, <3>3, <1>2, <1>3, <1>4, <1>8, SMTT(30) DEF Spread
  <2>2. \A f \in ToSet(t) : Apart(f, s[i])
    BY <1>2, <1>4, <1>6, <1>8 DEF Spread
  <2> QED
    BY <2>1, <2>2, <1>2 DEF Spread
<1> QED
  BY <1>1, <1>2, <1>4, <1>5, <1>6, <1>7, <1>8

LEMMA Added ==
  ASSUME NEW S, NEW s \in Seq(S), NEW e \in S,
         Spread(s), \A f \in ToSet(s) : Apart(f, e)
  PROVE  Spread(Append(s, e))
<1>1. PICK t : t = Append(s, e)
  OBVIOUS
<1>2. PICK n \in Nat : /\ n = Len(s) /\ DOMAIN s = 1 .. n /\ DOMAIN t = 1 .. n + 1
                       /\ t[n + 1] = e /\ \A j \in 1 .. n : t[j] = s[j]
  BY <1>1, SeqAppend
<1>3. \A j \in 1 .. n : Apart(s[j], e) /\ Apart(e, s[j])
  BY <1>2 DEF ToSet, Apart
<1>4. ASSUME NEW j \in 1 .. n + 1, NEW k \in 1 .. n + 1, j # k PROVE Apart(t[j], t[k])
  <2>1. CASE j = n + 1
    BY <2>1, <1>2, <1>3, <1>4
  <2>2. CASE k = n + 1
    BY <2>2, <1>2, <1>3, <1>4
  <2>3. CASE j # n + 1 /\ k # n + 1
    <3>1. j \in 1 .. n /\ k \in 1 .. n
      BY <2>3
    <3> QED
      BY <3>1, <1>2, <1>4 DEF Spread
  <2> QED
    BY <2>1, <2>2, <2>3
<1> QED
  BY <1>1, <1>2, <1>4 DEF Spread
-----------------------------------------------------------------------------
(* Bytes laid over others.                                                 *)

\* A frame in hand may be empty.
Framed == [addr : Nat, nb : 0..BufSz, kind : {"read", "write", "empty"}, bf : [1..BufSz -> Byte]]

LEMMA OverFacts ==
  ASSUME NEW b \in Seq(Byte), NEW at \in Nat, NEW new \in Seq(Byte)
  PROVE  LET o == Over(b, at, new)
         IN  /\ o \in Seq(Byte)
             /\ Len(o) = IF Len(b) >= at + Len(new) THEN Len(b) ELSE at + Len(new)
             /\ \A i \in 1 .. Len(o) :
                  o[i] = IF at < i /\ i =< at + Len(new) THEN new[i - at]
                         ELSE IF i =< Len(b) THEN b[i] ELSE 0
<1>1. PICK k \in Nat : k = Len(b)
  OBVIOUS
<1>2. PICK l \in Nat : l = Len(new)
  OBVIOUS
<1>3. PICK m \in Nat : m = IF k >= at + l THEN k ELSE at + l
  OBVIOUS
<1>4. Max({k, at + l}) = m
  BY <1>3, MaxTwo
<1>5. PICK o : o = [i \in 1 .. m |-> IF at < i /\ i =< at + l THEN new[i - at]
                                     ELSE IF i =< k THEN b[i] ELSE 0]
  OBVIOUS
<1>6. Over(b, at, new) = o
  <2>1. \A i \in 1 .. m :
          (CASE i > at /\ i <= at + l -> new[i - at]
             [] ~(i > at /\ i <= at + l) /\ i <= k -> b[i]
             [] OTHER -> 0)
          = IF at < i /\ i =< at + l THEN new[i - at] ELSE IF i =< k THEN b[i] ELSE 0
    OBVIOUS
  <2> QED
    BY <1>1, <1>2, <1>4, <1>5, <2>1 DEF Over
<1>7. ASSUME NEW i \in 1 .. m PROVE o[i] \in Byte
  <2>1. CASE at < i /\ i =< at + l
    <3>1. i - at \in 1 .. l
      BY <2>1
    <3>2. new[i - at] \in Byte
      BY <3>1, <1>2
    <3> QED
      BY <2>1, <3>2, <1>5
  <2>2. CASE ~(at < i /\ i =< at + l)
    <3>1. i =< k => b[i] \in Byte
      BY <1>1
    <3>2. 0 \in Byte
      BY DEF Byte
    <3> QED
      BY <2>2, <3>1, <3>2, <1>5
  <2> QED
    BY <2>1, <2>2
<1>8. o \in [1 .. m -> Byte]
  BY <1>5, <1>7
<1>9. o \in Seq(Byte) /\ Len(o) = m
  BY <1>8, ArraySeq
<1> QED
  BY <1>1, <1>2, <1>3, <1>5, <1>6, <1>9

LEMMA ValidFacts ==
  ASSUME NEW f \in Framed
  PROVE  /\ Valid(f) \in Seq(Byte) /\ Len(Valid(f)) = f.nb
         /\ \A i \in 1 .. f.nb : Valid(f)[i] = f.bf[i]
         /\ f.addr \in Nat /\ f.nb \in 0 .. BufSz /\ BufSz \in Nat /\ BufSz > 0
<1>1. BufSz \in Nat /\ BufSz > 0
  BY FileAssumption
<1>2. PICK b \in [1 .. BufSz -> Byte] : b = f.bf
  BY DEF Framed
<1>3. PICK n \in 0 .. BufSz : n = f.nb
  BY DEF Framed
<1>4. b \in Seq(Byte) /\ Len(b) = BufSz
  BY <1>1, <1>2, ArraySeq
<1>5. PICK v : v = SubSeq(b, 0 + 1, n)
  OBVIOUS
<1>6. v \in Seq(Byte) /\ Len(v) = (IF 0 =< n THEN n - 0 ELSE 0) /\ \A i \in 1 .. Len(v) : v[i] = b[0 + i]
  <2>1. n =< Len(b)
    BY <1>1, <1>4
  <2> QED
    BY <2>1, <1>1, <1>4, <1>5, Stretch
<1>7. Len(v) = n /\ \A i \in 1 .. n : v[i] = b[i]
  BY <1>1, <1>6
<1>8. Valid(f) = v
  BY <1>2, <1>3, <1>5 DEF Valid
<1> QED
  BY <1>1, <1>2, <1>3, <1>6, <1>7, <1>8 DEF Framed

-----------------------------------------------------------------------------
(* What the file will be.                                                  *)

LEMMA NothingToWrite ==
  ASSUME NEW d \in Seq(Byte), NEW c \in Seq(Byte)
  PROVE  Shows({}, d, d) /\ (Shows({}, d, c) => c = d)
<1>1. Shows({}, d, d)
  BY DEF Shows
<1>2. ASSUME Shows({}, d, c) PROVE c = d
  <2>1. Len(c) = Len(d) /\ \A i \in 1 .. Len(c) : c[i] = IF i =< Len(d) THEN d[i] ELSE 0
    BY <1>2 DEF Shows
  <2>2. \A i \in 1 .. Len(c) : c[i] = d[i]
    BY <2>1
  <2> QED
    BY <2>1, <2>2, SameSeq
<1> QED
  BY <1>1, <1>2

\* Writing a frame to the file brings nothing new.
LEMMA Saving ==
  ASSUME NEW F \in SUBSET Framed, NEW f \in Framed, f.nb > 0,
         NEW d \in Seq(Byte), NEW c \in Seq(Byte), Shows(F \cup {f}, d, c)
  PROVE  Over(d, f.addr, Valid(f)) \in Seq(Byte) /\ Shows(F, Over(d, f.addr, Valid(f)), c)
<1>1. PICK a \in Nat, p \in Nat : a = f.addr /\ p = f.nb /\ p > 0
  BY ValidFacts
<1>2. PICK v \in Seq(Byte) : v = Valid(f) /\ Len(v) = p /\ \A i \in 1 .. p : v[i] = f.bf[i]
  BY <1>1, ValidFacts
<1>3. PICK o \in Seq(Byte) :
        /\ o = Over(d, a, v)
        /\ Len(o) = IF Len(d) >= a + p THEN Len(d) ELSE a + p
        /\ \A i \in 1 .. Len(o) : o[i] = IF a < i /\ i =< a + p THEN v[i - a]
                                         ELSE IF i =< Len(d) THEN d[i] ELSE 0
  BY <1>2, OverFacts
<1>4. PICK k \in Nat, m \in Nat, n \in Nat : k = Len(d) /\ m = Len(c) /\ n = Len(o)
  OBVIOUS
<1>5. /\ k =< m /\ a + p =< m /\ \A h \in F : h.nb > 0 => h.addr + h.nb =< m
      /\ m = k \/ m = a + p \/ \E h \in F : h.nb > 0 /\ h.addr + h.nb = m
  BY <1>1, <1>4 DEF Shows
<1>6. \A i \in 1 .. m :
        /\ \A h \in F : Covers(h, i) => c[i] = h.bf[i - h.addr]
        /\ a < i /\ i =< a + p => c[i] = f.bf[i - a]
        /\ (\A h \in F : ~Covers(h, i)) /\ ~(a < i /\ i =< a + p) => c[i] = IF i =< k THEN d[i] ELSE 0
  BY <1>1, <1>4 DEF Shows, Covers
<1>7. n =< m /\ (m = n \/ \E h \in F : h.nb > 0 /\ h.addr + h.nb = m)
  BY <1>1, <1>3, <1>4, <1>5
<1>8. ASSUME NEW i \in 1 .. m, \A h \in F : ~Covers(h, i)
      PROVE  c[i] = IF i =< n THEN o[i] ELSE 0
  <2>1. CASE a < i /\ i =< a + p
    <3>1. i =< n /\ i - a \in 1 .. p
      BY <2>1, <1>3, <1>4
    <3>2. o[i] = v[i - a]
      BY <2>1, <3>1, <1>3, <1>4
    <3> QED
      BY <2>1, <3>1, <3>2, <1>2, <1>6
  <2>2. CASE ~(a < i /\ i =< a + p)
    <3>1. c[i] = IF i =< k THEN d[i] ELSE 0
      BY <2>2, <1>6, <1>8
    <3>2. i =< n => o[i] = IF i =< k THEN d[i] ELSE 0
      BY <2>2, <1>3, <1>4
    <3>3. k =< n
      BY <1>3, <1>4
    <3> QED
      BY <3>1, <3>2, <3>3
  <2> QED
    BY <2>1, <2>2
<1>9. Shows(F, o, c)
  BY <1>4, <1>5, <1>6, <1>7, <1>8 DEF Shows
<1> QED
  BY <1>1, <1>2, <1>3, <1>9
-----------------------------------------------------------------------------
(* Bytes put into a frame, and the content of a file with buffers.         *)

\* The bytes fit into frame f, whose valid bytes they continue or replace.
Fits(f, at, new) == /\ f.addr =< at /\ at =< f.addr + f.nb
                    /\ Len(new) > 0 /\ at + Len(new) =< f.addr + BufSz

LEMMA PutFacts ==
  ASSUME NEW f \in Framed, NEW at \in Nat, NEW new \in Seq(Byte), Fits(f, at, new)
  PROVE  LET g == Put(f, at, new)
         IN  /\ g \in Framed /\ g.addr = f.addr /\ g.kind = "write" /\ g.nb > 0
             /\ g.nb >= f.nb /\ f.addr + g.nb >= at + Len(new)
             /\ g.nb = f.nb \/ f.addr + g.nb = at + Len(new)
             /\ \A i \in 1 .. BufSz :
                  g.bf[i] = IF at < f.addr + i /\ f.addr + i =< at + Len(new)
                            THEN new[f.addr + i - at] ELSE f.bf[i]
<1>1. PICK a \in Nat, p \in Nat : a = f.addr /\ p = f.nb /\ p =< BufSz
  BY ValidFacts
<1>2. BufSz \in Nat
  BY FileAssumption
<1>3. PICK b \in [1 .. BufSz -> Byte] : b = f.bf
  BY DEF Framed
<1>4. PICK l \in Nat : l = Len(new)
  OBVIOUS
<1>5. PICK r \in Nat : r = at - a /\ r =< p /\ r + l =< BufSz /\ l > 0 /\ at = a + r
  <2>1. a =< at /\ at =< a + p /\ l > 0 /\ at + l =< a + BufSz
    BY <1>1, <1>4 DEF Fits
  <2>2. at - a \in Nat /\ at - a =< p /\ at - a + l =< BufSz /\ at = a + (at - a)
    BY <2>1, <1>2
  <2> QED
    BY <2>1, <2>2
<1>6. PICK q \in Nat : q =< BufSz /\ q = IF p >= r + l THEN p ELSE r + l
  <2>1. r + l \in Nat /\ r + l =< BufSz
    BY <1>2, <1>5
  <2> QED
    BY <2>1, <1>1
<1>7. PICK o : o = Over(b, r, new)
  OBVIOUS
<1>8. b \in Seq(Byte) /\ Len(b) = BufSz
  BY <1>2, <1>3, ArraySeq
<1>9. /\ o \in Seq(Byte) /\ Len(o) = BufSz
      /\ \A i \in 1 .. BufSz : o[i] = IF r < i /\ i =< r + l THEN new[i - r]
                                      ELSE IF i =< BufSz THEN b[i] ELSE 0
  <2>1. /\ o \in Seq(Byte) /\ Len(o) = IF Len(b) >= r + Len(new) THEN Len(b) ELSE r + Len(new)
        /\ \A i \in 1 .. Len(o) : o[i] = IF r < i /\ i =< r + Len(new) THEN new[i - r]
                                         ELSE IF i =< Len(b) THEN b[i] ELSE 0
    BY <1>7, <1>8, OverFacts, ZenonT(30)
  <2>2. Len(o) = BufSz
    BY <2>1, <1>2, <1>4, <1>5, <1>8
  <2> QED
    BY <2>1, <2>2, <1>4, <1>8
<1>10. o \in [1 .. BufSz -> Byte]
  BY <1>9, LenProperties
<1>11. Max({p, r + l}) = q
  BY <1>6, MaxTwo
<1>12. PICK g : g = [f EXCEPT !.bf = o, !.kind = "write", !.nb = q]
  OBVIOUS
<1>13. Put(f, at, new) = g
  BY <1>1, <1>3, <1>4, <1>5, <1>7, <1>11, <1>12 DEF Put
<1>14. g \in Framed /\ g.addr = a /\ g.kind = "write" /\ g.nb = q /\ g.bf = o
  <2>1. q \in 0 .. BufSz
    BY <1>2, <1>6
  <2> QED
    BY <2>1, <1>1, <1>10, <1>12 DEF Framed
<1>15. \A i \in 1 .. BufSz : o[i] = IF at < a + i /\ a + i =< at + l THEN new[a + i - at] ELSE b[i]
  <2> TAKE i \in 1 .. BufSz
  <2>1. i - r = a + i - at /\ (at < a + i <=> r < i) /\ (a + i =< at + l <=> i =< r + l)
    BY <1>5
  <2>2. o[i] = IF r < i /\ i =< r + l THEN new[i - r] ELSE IF i =< BufSz THEN b[i] ELSE 0
    BY <1>9
  <2>3. i =< BufSz
    BY <1>2
  <2> QED
    BY <2>1, <2>2, <2>3
<1>16. /\ g.nb > 0 /\ g.nb >= f.nb /\ f.addr + g.nb >= at + Len(new)
       /\ g.nb = f.nb \/ f.addr + g.nb = at + Len(new)
  <2>1. q > 0 /\ q >= p /\ a + q >= at + l /\ (q = p \/ a + q = at + l)
    BY <1>5, <1>6
  <2> QED
    BY <2>1, <1>1, <1>4, <1>14
<1>17. \A i \in 1 .. BufSz :
         g.bf[i] = IF at < f.addr + i /\ f.addr + i =< at + Len(new)
                   THEN new[f.addr + i - at] ELSE f.bf[i]
  BY <1>1, <1>3, <1>4, <1>14, <1>15
<1> QED
  BY <1>1, <1>13, <1>14, <1>16, <1>17

\* The frames of F keep out of the way.
Clear(F, f, at, l) == \A h \in F : \/ h.addr + h.nb =< f.addr
                                   \/ at + l =< h.addr /\ f.addr + f.nb =< h.addr

\* Bytes put into a frame are bytes of the file to be.
LEMMA Putting ==
  ASSUME NEW F \in SUBSET Framed, NEW f \in Framed,
         NEW d \in Seq(Byte), NEW c \in Seq(Byte), Shows(F \cup {f}, d, c),
         NEW at \in Nat, NEW new \in Seq(Byte), Fits(f, at, new), Clear(F, f, at, Len(new))
  PROVE  /\ Over(c, at, new) \in Seq(Byte)
         /\ Shows(F \cup {Put(f, at, new)}, d, Over(c, at, new))
<1>1. PICK a \in Nat, p \in Nat : a = f.addr /\ p = f.nb /\ p =< BufSz
  BY ValidFacts
<1>2. BufSz \in Nat
  BY FileAssumption
<1>3. PICK l \in Nat : l = Len(new) /\ l > 0 /\ a =< at /\ at =< a + p /\ at + l =< a + BufSz
  BY <1>1 DEF Fits
<1>4. PICK g : g = Put(f, at, new)
  OBVIOUS
<1>5. g \in Framed /\ g.addr = a
  BY <1>1, <1>4, PutFacts
<1>6. PICK q \in Nat : /\ q =< BufSz /\ q = g.nb /\ q > 0 /\ q >= p /\ a + q >= at + l
                       /\ q = p \/ a + q = at + l
  <2>1. PICK q \in Nat : q = g.nb /\ q =< BufSz
    BY <1>5, ValidFacts
  <2>2. /\ q > 0 /\ q >= p /\ a + q >= at + l
        /\ q = p \/ a + q = at + l
    BY <2>1, <1>1, <1>3, <1>4, PutFacts, SMTT(30)
  <2> QED
    BY <2>1, <2>2
<1>7. \A i \in 1 .. BufSz : g.bf[i] = IF at < a + i /\ a + i =< at + l
                                      THEN new[a + i - at] ELSE f.bf[i]
  BY <1>1, <1>3, <1>4, PutFacts, SMTT(30)
<1>8. PICK o \in Seq(Byte) :
        /\ o = Over(c, at, new)
        /\ Len(o) = IF Len(c) >= at + l THEN Len(c) ELSE at + l
        /\ \A i \in 1 .. Len(o) : o[i] = IF at < i /\ i =< at + l THEN new[i - at]
                                         ELSE IF i =< Len(c) THEN c[i] ELSE 0
  BY <1>3, OverFacts
<1>9. PICK k \in Nat, m \in Nat, n \in Nat : k = Len(d) /\ m = Len(c) /\ n = Len(o)
  OBVIOUS
<1>10. /\ k =< m /\ (p > 0 => a + p =< m) /\ \A h \in F : h.nb > 0 => h.addr + h.nb =< m
       /\ m = k \/ (p > 0 /\ m = a + p) \/ \E h \in F : h.nb > 0 /\ h.addr + h.nb = m
  BY <1>1, <1>9 DEF Shows
<1>11. \A i \in 1 .. m :
        /\ \A h \in F : Covers(h, i) => c[i] = h.bf[i - h.addr]
        /\ a < i /\ i =< a + p => c[i] = f.bf[i - a]
        /\ (\A h \in F : ~Covers(h, i)) /\ ~(a < i /\ i =< a + p) => c[i] = IF i =< k THEN d[i] ELSE 0
  BY <1>1, <1>9 DEF Shows, Covers
<1>12. n = (IF m >= at + l THEN m ELSE at + l) /\ m =< n
  BY <1>8, <1>9
<1>13. a + q =< n /\ k =< n
  <2>1. (p > 0 => a + p =< m) /\ k =< m
    BY <1>10
  <2> QED
    BY <2>1, <1>6, <1>12, SMTT(30)
<1>14. \A h \in F : h.nb > 0 => h.addr + h.nb =< n
  <2>1. \A h \in F : h.addr \in Nat /\ h.nb \in Nat
    BY DEF Framed
  <2> QED
    BY <2>1, <1>10, <1>12
<1>15. n = k \/ n = a + q \/ \E h \in F : h.nb > 0 /\ h.addr + h.nb = n
  <2>1. CASE n = at + l
    <3>1. n = a + q
      <4>1. a + q >= n /\ a + q =< n
        BY <2>1, <1>6, <1>13
      <4> QED
        BY <4>1
    <3> QED
      BY <3>1
  <2>2. CASE n = m
    <3>1. ASSUME p > 0, m = a + p PROVE n = a + q
      <4>1. a + q >= n /\ a + q =< n
        BY <2>2, <3>1, <1>6, <1>13
      <4> QED
        BY <4>1
    <3> QED
      BY <2>2, <3>1, <1>10
  <2> QED
    BY <2>1, <2>2, <1>12
<1>16. ASSUME NEW i \in 1 .. n, NEW h \in F, Covers(h, i) PROVE o[i] = h.bf[i - h.addr]
  <2>1. PICK x \in Nat, y \in Nat : x = h.addr /\ y = h.nb /\ x < i /\ i =< x + y
    BY <1>16 DEF Framed, Covers
  <2>2. x + y =< a \/ (at + l =< x /\ a + p =< x)
    BY <2>1, <1>1, <1>3 DEF Clear
  <2>3. ~(at < i /\ i =< at + l)
    <3>1. a =< at
      BY <1>1, <1>3
    <3>2. CASE x + y =< a
      BY <3>1, <3>2, <2>1
    <3>3. CASE at + l =< x
      BY <3>3, <2>1
    <3> QED
      BY <3>2, <3>3, <2>2
  <2>4. i \in 1 .. m
    <3>1. y > 0 /\ x + y =< m
      BY <2>1, <1>10
    <3> QED
      BY <2>1, <3>1
  <2> QED
    BY <2>3, <2>4, <1>8, <1>9, <1>11, <1>16
<1>17. ASSUME NEW i \in 1 .. n, a < i, i =< a + q PROVE o[i] = g.bf[i - a]
  <2>1. PICK j \in 1 .. BufSz : j = i - a /\ a + j = i
    <3>1. i - a > 0 /\ i - a =< BufSz /\ a + (i - a) = i
      BY <1>17, <1>2, <1>6, SMTT(30)
    <3> QED
      BY <3>1, <1>2
  <2>2. CASE at < i /\ i =< at + l
    <3>1. o[i] = new[i - at]
      BY <2>2, <1>8, <1>9
    <3>2. g.bf[j] = new[a + j - at]
      BY <2>1, <2>2, <1>7
    <3> QED
      BY <2>1, <3>1, <3>2, SMTT(30)
  <2>3. CASE ~(at < i /\ i =< at + l)
    <3>1. i =< a + p
      BY <2>3, <1>3, <1>6, <1>17, SMTT(30)
    <3>2. i \in 1 .. m
      BY <3>1, <1>10, <1>17
    <3>3. o[i] = c[i] /\ c[i] = f.bf[i - a]
      BY <2>3, <3>1, <3>2, <1>8, <1>9, <1>11, <1>17
    <3> QED
      BY <2>1, <2>3, <3>3, <1>7
  <2> QED
    BY <2>2, <2>3
<1>18. ASSUME NEW i \in 1 .. n, \A h \in F : ~Covers(h, i), ~(a < i /\ i =< a + q)
       PROVE  o[i] = IF i =< k THEN d[i] ELSE 0
  <2>1. ~(at < i /\ i =< at + l) /\ ~(a < i /\ i =< a + p)
    BY <1>3, <1>6, <1>18, SMTT(30)
  <2>2. o[i] = IF i =< m THEN c[i] ELSE 0
    BY <2>1, <1>8, <1>9
  <2>3. i =< m => c[i] = IF i =< k THEN d[i] ELSE 0
    <3> SUFFICES ASSUME i =< m PROVE c[i] = IF i =< k THEN d[i] ELSE 0
      OBVIOUS
    <3>1. i \in 1 .. m
      OBVIOUS
    <3> QED
      BY <3>1, <2>1, <1>11, <1>18
  <2> QED
    BY <2>2, <2>3, <1>10
<1>19. Shows(F \cup {g}, d, o)
  <2>1. Len(d) =< Len(o)
    BY <1>9, <1>13
  <2>2. \A h \in F \cup {g} : h.nb > 0 => h.addr + h.nb =< Len(o)
    BY <1>5, <1>6, <1>9, <1>13, <1>14
  <2>3. Len(o) = Len(d) \/ \E h \in F \cup {g} : h.nb > 0 /\ h.addr + h.nb = Len(o)
    BY <1>5, <1>6, <1>9, <1>15
  <2>4. ASSUME NEW i \in 1 .. Len(o)
        PROVE  /\ \A h \in F \cup {g} : Covers(h, i) => o[i] = h.bf[i - h.addr]
               /\ (\A h \in F \cup {g} : ~Covers(h, i)) => o[i] = IF i =< Len(d) THEN d[i] ELSE 0
    <3>1. i \in 1 .. n /\ (Covers(g, i) <=> a < i /\ i =< a + q)
      BY <1>5, <1>6, <1>9 DEF Covers
    <3>2. \A h \in F : Covers(h, i) => o[i] = h.bf[i - h.addr]
      BY <3>1, <1>16
    <3>3. Covers(g, i) => o[i] = g.bf[i - g.addr]
      BY <3>1, <1>5, <1>17
    <3>4. (\A h \in F : ~Covers(h, i)) /\ ~Covers(g, i) => o[i] = IF i =< Len(d) THEN d[i] ELSE 0
      BY <3>1, <1>9, <1>18
    <3> QED
      BY <3>2, <3>3, <3>4
  <2> QED
    BY <2>1, <2>2, <2>3, <2>4 DEF Shows
<1> QED
  BY <1>4, <1>8, <1>19

\* Frames that lie apart determine what the file will be.
LEMMA LaidIs ==
  ASSUME NEW st \in Seq(Frame), Spread(st), NEW d \in Seq(Byte), NEW c \in Seq(Byte),
         Shows({f \in ToSet(st) : f.kind = "write"}, d, c)
  PROVE  Laid(d, st) = c
<1> DEFINE Pending   == {k \in DOMAIN st : st[k].kind = "write"}
           Ends      == {st[k].addr + st[k].nb : k \in Pending}
           Owners(i) == {k \in Pending : Covers(st[k], i)}
<1>1. PICK n \in Nat : n = Len(c)
  OBVIOUS
<1>2. PICK l \in Nat : l = Len(d)
  OBVIOUS
<1>3. \A k \in DOMAIN st : st[k] \in Frame /\ st[k] \in ToSet(st) /\ k \in Nat
  BY LenProperties DEF ToSet
<1>4. \A k \in DOMAIN st : st[k].addr \in Nat /\ st[k].nb \in Nat /\ st[k].nb > 0
  BY <1>3, FileAssumption DEF Frame
<1>5. l =< n /\ \A e \in Ends : e =< n /\ e \in Nat
  BY <1>1, <1>2, <1>3, <1>4 DEF Shows
<1>6. n \in {l} \cup Ends
  <2>1. CASE n = l
    BY <2>1
  <2>2. CASE n # l
    <3>1. PICK f \in ToSet(st) : f.kind = "write" /\ f.addr + f.nb = n
      BY <2>2, <1>1, <1>2 DEF Shows
    <3>2. PICK k \in DOMAIN st : f = st[k]
      BY <3>1 DEF ToSet
    <3> QED
      BY <3>1, <3>2
  <2> QED
    BY <2>1, <2>2
<1>7. Max({l} \cup Ends) = n
  <2>1. PICK x : x = Max({l} \cup Ends)
    OBVIOUS
  <2>2. \A y \in {l} \cup Ends : n >= y /\ y \in Nat
    BY <1>5
  <2>3. x \in {l} \cup Ends /\ \A y \in {l} \cup Ends : x >= y
    BY <2>1, <2>2, <1>6 DEF Max
  <2>4. x >= n /\ n >= x /\ x \in Nat
    BY <2>2, <2>3, <1>6
  <2> QED
    BY <2>1, <2>4
<1>8. ASSUME NEW i \in 1 .. n, Owners(i) # {}
      PROVE  c[i] = st[Max(Owners(i))].bf[i - st[Max(Owners(i))].addr]
  <2>1. PICK k \in Owners(i) : TRUE
    BY <1>8
  <2>2. k \in Nat /\ \A j \in Owners(i) : j = k
    <3>1. ASSUME NEW j \in Owners(i), j # k PROVE FALSE
      <4>1. Covers(st[j], i) /\ Covers(st[k], i) /\ Span(st[j]) = st[j].nb /\ Span(st[k]) = st[k].nb
        BY <2>1 DEF Span
      <4>2. Apart(st[j], st[k])
        BY <3>1, <2>1 DEF Spread
      <4> QED
        BY <4>1, <4>2, <1>4, <2>1, SMTT(30) DEF Apart, Covers
    <3> QED
      BY <3>1, <2>1, <1>3
  <2>3. Max(Owners(i)) = k
    BY <2>1, <2>2 DEF Max
  <2>4. st[k] \in {f \in ToSet(st) : f.kind = "write"} /\ Covers(st[k], i)
    BY <2>1, <1>3
  <2> QED
    BY <2>3, <2>4, <1>1 DEF Shows
<1>9. ASSUME NEW i \in 1 .. n, Owners(i) = {}
      PROVE  c[i] = IF i =< l THEN d[i] ELSE 0
  <2>1. ASSUME NEW f \in ToSet(st), f.kind = "write" PROVE ~Covers(f, i)
    <3>1. PICK k \in DOMAIN st : f = st[k]
      BY DEF ToSet
    <3> QED
      BY <3>1, <2>1, <1>9
  <2> QED
    BY <2>1, <1>1, <1>2 DEF Shows
<1>10. PICK o : o = [i \in 1 .. n |->
                      IF Owners(i) # {} THEN st[Max(Owners(i))].bf[i - st[Max(Owners(i))].addr]
                      ELSE IF i =< l THEN d[i] ELSE 0]
  OBVIOUS
<1>11. Laid(d, st) = o
  BY <1>2, <1>7, <1>10 DEF Laid
<1>12. \A i \in 1 .. n : o[i] = c[i]
  BY <1>8, <1>9, <1>10
<1>13. o = [i \in 1 .. n |-> o[i]] /\ c = [i \in 1 .. n |-> c[i]]
  BY <1>1, <1>10, LenProperties
<1> QED
  BY <1>11, <1>12, <1>13
-----------------------------------------------------------------------------
(* The descriptor and the caller's place.                                  *)

LEMMA FileFields ==
  ASSUME NEW s \in Files
  PROVE  /\ s.disk \in Seq(Byte) /\ s.pos \in Nat /\ s.sz \in Nat /\ s.curr \in Nat
         /\ s.stack \in Seq(Frame)
         /\ BufSz \in Nat /\ BufSz > 0
BY FileAssumption DEF Files

LEMMA FrameFields ==
  ASSUME NEW st \in Seq(Frame), NEW f \in ToSet(st)
  PROVE  /\ f \in Frame /\ f \in Framed /\ f.addr \in Nat /\ f.nb \in Nat
         /\ f.nb > 0 /\ f.nb =< BufSz /\ f.kind \in {"read", "write"}
<1>1. f \in Frame
  BY DEF ToSet
<1>2. BufSz \in Nat
  BY FileAssumption
<1>3. f.addr \in Nat /\ f.nb \in 1 .. BufSz /\ f.kind \in {"read", "write"}
  BY <1>1 DEF Frame
<1>4. f.nb \in Nat /\ f.nb > 0 /\ f.nb =< BufSz
  BY <1>2, <1>3
<1>5. f \in Framed
  <2>1. f.nb \in 0 .. BufSz
    BY <1>2, <1>4
  <2> QED
    BY <2>1, <1>1 DEF Frame, Framed, Byte
<1> QED
  BY <1>1, <1>3, <1>4, <1>5

LEMMA NotHeld ==
  ASSUME NEW s \in Files, NEW addr \in Nat,
         \A f \in ToSet(s.stack) : f.kind = "write" \/ ~Covers(f, addr + 1)
  PROVE  ~Held(s, addr)
BY DEF Held, ToSet

LEMMA SeekSet ==
  ASSUME NEW s \in Files, NEW addr \in Nat, NEW reading \in BOOLEAN
  PROVE  LET t == Seek(s, addr, "SEEK_SET", reading)
         IN  /\ t \in Files /\ t.disk = s.disk /\ t.sz = s.sz /\ t.stack = s.stack
             /\ t.curr = addr
             /\ (addr # s.curr \/ reading) /\ ~Held(s, addr) => t.pos = addr
             /\ ~((addr # s.curr \/ reading) /\ ~Held(s, addr)) => t.pos = s.pos
<1>1. Max({0, addr}) = addr /\ Max({addr, 0}) = addr
  BY MaxTwo
<1>2. PICK u : u = [s EXCEPT !.pos = addr]
  OBVIOUS
<1>3. u.pos = addr /\ [u EXCEPT !.curr = addr] = [s EXCEPT !.pos = addr, !.curr = addr]
  BY <1>2 DEF Files
<1>4. LSeek(s, addr, "SEEK_SET") = u
  BY <1>2 DEF LSeek
<1>5. Seek(s, addr, "SEEK_SET", reading) =
        IF (addr # s.curr \/ reading) /\ ~Held(s, addr)
        THEN [s EXCEPT !.pos = addr, !.curr = addr] ELSE [s EXCEPT !.curr = addr]
  BY <1>1, <1>3, <1>4 DEF Seek
<1>6. PICK v : v = [s EXCEPT !.pos = addr, !.curr = addr]
  OBVIOUS
<1>7. v \in Files /\ v.disk = s.disk /\ v.sz = s.sz /\ v.stack = s.stack /\ v.curr = addr /\ v.pos = addr
  BY <1>6 DEF Files
<1>8. PICK w : w = [s EXCEPT !.curr = addr]
  OBVIOUS
<1>9. w \in Files /\ w.disk = s.disk /\ w.sz = s.sz /\ w.stack = s.stack /\ w.curr = addr /\ w.pos = s.pos
  BY <1>8 DEF Files
<1> QED
  BY <1>5, <1>6, <1>7, <1>8, <1>9

LEMMA WriteOut ==
  ASSUME NEW s \in Files, NEW bytes \in Seq(Byte)
  PROVE  LET t == OsWrites(s, bytes)
         IN  /\ t \in Files /\ t.disk = Over(s.disk, s.pos, bytes)
             /\ t.pos = s.pos + Len(bytes) /\ t.sz = s.sz /\ t.curr = s.curr
             /\ t.stack = s.stack
<1>1. PICK d \in Seq(Byte) : d = s.disk
  BY FileFields
<1>2. PICK p \in Nat : p = s.pos
  BY FileFields
<1>3. PICK o : o = Over(d, p, bytes)
  OBVIOUS
<1>4. o \in Seq(Byte)
  BY <1>3, OverFacts
<1>5. PICK q \in Nat : q = p + Len(bytes)
  OBVIOUS
<1>6. OsWrites(s, bytes) = [s EXCEPT !.disk = o, !.pos = q]
  BY <1>1, <1>2, <1>3, <1>5 DEF OsWrites
<1>7. PICK t : t = [s EXCEPT !.disk = o, !.pos = q]
  OBVIOUS
<1>8. t \in Files /\ t.disk = o /\ t.pos = q /\ t.sz = s.sz /\ t.curr = s.curr /\ t.stack = s.stack
  BY <1>4, <1>7 DEF Files
<1> QED
  BY <1>1, <1>2, <1>3, <1>5, <1>6, <1>7, <1>8

\* What is read at a place of the file, or at its end.
LEMMA ReadIn ==
  ASSUME NEW s \in Files, NEW n \in Nat
  PROVE  /\ OsRead(s, n) \in Seq(Byte) /\ Len(OsRead(s, n)) =< n
         /\ s.pos =< Len(s.disk) =>
              /\ s.pos + Len(OsRead(s, n)) =< Len(s.disk)
              /\ Len(OsRead(s, n)) = n \/ s.pos + Len(OsRead(s, n)) = Len(s.disk)
         /\ s.pos > Len(s.disk) => OsRead(s, n) = <<>>
         /\ \A i \in 1 .. Len(OsRead(s, n)) : OsRead(s, n)[i] = s.disk[s.pos + i]
         /\ LET t == OsReads(s, n)
            IN  /\ t \in Files /\ t.pos = s.pos + Len(OsRead(s, n))
                /\ t.disk = s.disk /\ t.sz = s.sz /\ t.curr = s.curr /\ t.stack = s.stack
<1>1. PICK d \in Seq(Byte) : d = s.disk
  BY FileFields
<1>2. PICK p \in Nat : p = s.pos
  BY FileFields
<1>3. PICK l \in Nat : l = Len(d)
  OBVIOUS
<1>4. PICK b \in Nat : b = Min({p + n, l}) /\ b =< l /\ b =< p + n /\ (b = l \/ b = p + n)
  BY MinTwo
<1>5. PICK r : r = SubSeq(d, p + 1, b)
  OBVIOUS
<1>6. OsRead(s, n) = r
  BY <1>1, <1>2, <1>3, <1>4, <1>5 DEF OsRead
<1>7. /\ r \in Seq(Byte) /\ Len(r) = (IF p =< b THEN b - p ELSE 0)
      /\ \A i \in 1 .. Len(r) : r[i] = d[p + i]
  <2>1. b =< Len(d)
    BY <1>3, <1>4
  <2> QED
    BY <2>1, <1>5, Stretch
<1>8. PICK k \in Nat : k = Len(r) /\ (p =< b => p + k = b) /\ (p > b => k = 0)
  BY <1>7
<1>9. k =< n /\ (p =< l => p + k =< l /\ (k = n \/ p + k = l))
  <2>1. k =< n
    BY <1>4, <1>8
  <2>2. ASSUME p =< l PROVE p + k =< l /\ (k = n \/ p + k = l)
    <3>1. p =< b
      BY <2>2, <1>4
    <3>2. p + k = b
      BY <3>1, <1>8
    <3>3. CASE b = l
      BY <3>2, <3>3
    <3>4. CASE b = p + n
      <4>1. k >= n
        BY <3>2, <3>4
      <4> QED
        BY <4>1, <2>1, <3>2, <1>4
    <3> QED
      BY <3>3, <3>4, <1>4
  <2> QED
    BY <2>1, <2>2
<1>10. p > l => r = <<>>
  <2> SUFFICES ASSUME p > l PROVE r = <<>>
    OBVIOUS
  <2>1. p + 1 \in Int /\ b \in Int /\ b < p + 1
    BY <1>4
  <2> QED
    BY <2>1, <1>5, SubSeqEmpty
<1>11. PICK q \in Nat : q = p + k
  OBVIOUS
<1>12. PICK t : t = [s EXCEPT !.pos = q]
  OBVIOUS
<1>13. t \in Files /\ t.pos = q /\ t.disk = s.disk /\ t.sz = s.sz /\ t.curr = s.curr /\ t.stack = s.stack
  BY <1>12 DEF Files
<1>14. OsReads(s, n) = t
  BY <1>2, <1>6, <1>8, <1>11, <1>12 DEF OsReads
<1> QED
  BY <1>1, <1>2, <1>3, <1>6, <1>7, <1>8, <1>9, <1>10, <1>11, <1>13, <1>14

LEMMA Addressed ==
  ASSUME NEW s \in Files, NEW addr \in Nat
  PROVE  LET t == SetAddr(s, addr)
         IN  /\ t \in Files /\ t.curr = addr /\ t.sz >= addr /\ t.sz >= s.sz
             /\ t.sz = addr \/ t.sz = s.sz
             /\ t.disk = s.disk /\ t.pos = s.pos /\ t.stack = s.stack
<1>1. PICK z \in Nat : z = s.sz
  BY FileFields
<1>2. PICK m \in Nat : m = Max({z, addr}) /\ m >= addr /\ m >= z /\ (m = z \/ m = addr)
  BY MaxTwo
<1>3. Max({addr, 0}) = addr
  BY MaxTwo
<1>4. PICK t : t = [s EXCEPT !.curr = addr, !.sz = m]
  OBVIOUS
<1>5. /\ t \in Files /\ t.curr = addr /\ t.sz = m
      /\ t.disk = s.disk /\ t.pos = s.pos /\ t.stack = s.stack
  BY <1>4 DEF Files
<1>6. SetAddr(s, addr) = t
  BY <1>1, <1>2, <1>3, <1>4 DEF SetAddr
<1> QED
  BY <1>1, <1>2, <1>5, <1>6
-----------------------------------------------------------------------------
(* Removing a frame.                                                       *)

LEMMA Removing ==
  ASSUME NEW s \in Files, NEW i \in DOMAIN s.stack, NEW flush \in BOOLEAN, NEW back \in BOOLEAN
  PROVE  LET t == RemoveFrame(s, i, flush, back)
             f == s.stack[i]
         IN  /\ t \in Files /\ t.stack = RemoveAt(s.stack, i)
             /\ f.kind = "read" \/ ~flush =>
                  /\ t.disk = s.disk /\ t.pos = s.pos /\ t.sz = s.sz /\ t.curr = s.curr
             /\ f.kind = "write" /\ flush /\ (\A g \in ToSet(s.stack) : g.kind = "write")
                /\ (f.addr = s.curr => s.pos = s.curr /\ ~back) =>
                  /\ t.disk = Over(s.disk, f.addr, Valid(f)) /\ t.pos = t.curr
                  /\ back  => t.curr = s.curr /\ t.sz = s.sz
                  /\ ~back => t.sz = s.sz \/ (t.sz = f.addr + f.nb /\ t.sz >= s.sz)
<1>1. PICK f : f = s.stack[i]
  OBVIOUS
<1>2. f \in ToSet(s.stack) /\ s.stack \in Seq(Frame)
  BY <1>1, FileFields DEF ToSet
<1>3. f \in Framed /\ f.addr \in Nat /\ f.nb \in Nat /\ f.nb > 0 /\ f.kind \in {"read", "write"}
  BY <1>2, FrameFields
<1>4. PICK a \in Nat, n \in Nat : a = f.addr /\ n = f.nb
  BY <1>3
<1>5. PICK v \in Seq(Byte) : v = Valid(f) /\ Len(v) = n
  BY <1>3, <1>4, ValidFacts
<1>6. PICK x \in Nat : x = s.curr
  BY FileFields
<1>7. PICK there : there = Seek(s, a, "SEEK_SET", FALSE)
  OBVIOUS
<1>8. /\ there \in Files /\ there.disk = s.disk /\ there.sz = s.sz /\ there.stack = s.stack
      /\ there.curr = a
      /\ a # x /\ ~Held(s, a) => there.pos = a
      /\ a = x => there.pos = s.pos
  BY <1>6, <1>7, SeekSet
<1>9. PICK saved : saved = OsWrites(there, v)
  OBVIOUS
<1>10. /\ saved \in Files /\ saved.disk = Over(s.disk, there.pos, v) /\ saved.pos = there.pos + n
       /\ saved.sz = s.sz /\ saved.curr = a /\ saved.stack = s.stack
  BY <1>5, <1>8, <1>9, WriteOut
<1>11. PICK ahead : ahead = Seek(saved, x, "SEEK_SET", FALSE)
  OBVIOUS
<1>12. /\ ahead \in Files /\ ahead.disk = saved.disk /\ ahead.sz = s.sz /\ ahead.stack = s.stack
       /\ ahead.curr = x
       /\ x # a /\ ~Held(saved, x) => ahead.pos = x
  BY <1>10, <1>11, SeekSet
<1>13. PICK behind : behind = SetAddr(saved, a + n)
  OBVIOUS
<1>14. /\ behind \in Files /\ behind.disk = saved.disk /\ behind.pos = saved.pos
       /\ behind.stack = s.stack /\ behind.curr = a + n
       /\ behind.sz = s.sz \/ (behind.sz = a + n /\ behind.sz >= s.sz)
  <2>1. PICK e \in Nat : e = a + n
    OBVIOUS
  <2>2. behind = SetAddr(saved, e)
    BY <2>1, <1>13
  <2>3. /\ behind \in Files /\ behind.disk = saved.disk /\ behind.pos = saved.pos
        /\ behind.stack = saved.stack /\ behind.curr = e
        /\ behind.sz >= saved.sz /\ (behind.sz = e \/ behind.sz = saved.sz)
    BY <2>2, <1>10, Addressed
  <2> QED
    BY <2>1, <2>3, <1>10
<1>15. PICK u : u = IF f.kind = "write" /\ flush THEN (IF back THEN ahead ELSE behind) ELSE s
  OBVIOUS
<1>16. u \in Files /\ u.stack = s.stack
  BY <1>12, <1>14, <1>15
<1>17. RemoveFrame(s, i, flush, back) = [u EXCEPT !.stack = RemoveAt(@, i)]
  BY <1>1, <1>4, <1>5, <1>6, <1>7, <1>9, <1>11, <1>13, <1>15 DEF RemoveFrame
<1>18. PICK st \in Seq(Frame) : st = RemoveAt(s.stack, i)
  BY <1>2, Removal
<1>19. PICK t : t = [u EXCEPT !.stack = st]
  OBVIOUS
<1>20. /\ t \in Files /\ t.stack = st
       /\ t.disk = u.disk /\ t.pos = u.pos /\ t.sz = u.sz /\ t.curr = u.curr
  BY <1>16, <1>19 DEF Files
<1>21. RemoveFrame(s, i, flush, back) = t
  BY <1>16, <1>17, <1>18, <1>19
<1>22. ASSUME f.kind = "write", flush, \A g \in ToSet(s.stack) : g.kind = "write",
              f.addr = s.curr => s.pos = s.curr /\ ~back
       PROVE  /\ t.disk = Over(s.disk, a, v) /\ t.pos = t.curr
              /\ back  => t.curr = s.curr /\ t.sz = s.sz
              /\ ~back => t.sz = s.sz \/ (t.sz = a + n /\ t.sz >= s.sz)
  <2>1. ~Held(s, a) /\ ~Held(saved, x)
    BY <1>22, <1>10, NotHeld
  <2>2. there.pos = a
    BY <2>1, <1>4, <1>6, <1>8, <1>22
  <2>3. CASE back
    BY <2>1, <2>2, <2>3, <1>4, <1>6, <1>10, <1>12, <1>15, <1>20, <1>22
  <2>4. CASE ~back
    BY <2>2, <2>4, <1>10, <1>14, <1>15, <1>20, <1>22
  <2> QED
    BY <2>3, <2>4
<1>23. f.kind = "read" \/ ~flush => u = s
  BY <1>15
<1> QED
  BY <1>1, <1>4, <1>5, <1>18, <1>20, <1>21, <1>22, <1>23

-----------------------------------------------------------------------------
(* Loops through the stack.                                                *)

\* The records of a loop through the stack, after each of m turns.
Sweeps(d, m, s, those, flush, back) ==
  d = [k \in 0 .. m |-> IF k = 0 THEN [s |-> s, i |-> 1] ELSE Sweep(d[k - 1], those, flush, back)]

\* A loop has such records: one more turn than the least number for which it
\* had none would be possible.
LEMMA SweepsExist ==
  ASSUME NEW s, NEW those, NEW flush, NEW back, NEW l \in Nat
  PROVE  \E d : Sweeps(d, l, s, those, flush, back)
<1> DEFINE Bad == {k \in Nat : ~\E d : Sweeps(d, k, s, those, flush, back)}
<1> SUFFICES ASSUME Bad # {} PROVE FALSE
  OBVIOUS
<1>1. PICK m \in Bad : \A k \in Bad : m =< k
  BY Least
<1>2. m \in Nat /\ ~\E d : Sweeps(d, m, s, those, flush, back)
  OBVIOUS
<1>3. PICK r : r = [s |-> s, i |-> 1]
  OBVIOUS
<1>4. CASE m = 0
  <2>1. Sweeps([k \in 0 .. 0 |-> r], 0, s, those, flush, back)
    BY <1>3 DEF Sweeps
  <2> QED
    BY <2>1, <1>2, <1>4
<1>5. CASE m # 0
  <2>1. m - 1 \in Nat /\ m - 1 \notin Bad
    BY <1>1, <1>2, <1>5
  <2>2. PICK d : Sweeps(d, m - 1, s, those, flush, back)
    BY <2>1
  <2>3. PICK e : e = [j \in 0 .. m |-> IF j = 0 THEN r ELSE Sweep(d[j - 1], those, flush, back)]
    OBVIOUS
  <2>4. \A k \in 0 .. m - 1 : d[k] = IF k = 0 THEN r ELSE Sweep(d[k - 1], those, flush, back)
    BY <2>2, <1>3 DEF Sweeps
  <2>5. \A k \in 0 .. m : e[k] = IF k = 0 THEN r ELSE Sweep(d[k - 1], those, flush, back)
    BY <2>3
  <2>6. e = [k \in 0 .. m |-> e[k]]
    BY <2>3
  <2>7. \A k \in 0 .. m : e[k] = IF k = 0 THEN r ELSE Sweep(e[k - 1], those, flush, back)
    <3> TAKE k \in 0 .. m
    <3>1. k # 0 => k - 1 \in 0 .. m - 1 /\ k - 1 \in 0 .. m
      BY <1>2
    <3>2. k # 0 => e[k - 1] = d[k - 1]
      BY <3>1, <2>4, <2>5
    <3> QED
      BY <3>2, <2>5
  <2>8. e = [k \in 0 .. m |-> IF k = 0 THEN r ELSE Sweep(e[k - 1], those, flush, back)]
    BY <2>6, <2>7
  <2>9. Sweeps(e, m, s, those, flush, back)
    BY <2>8, <1>3 DEF Sweeps
  <2> QED
    BY <2>9, <1>2
<1> QED
  BY <1>4, <1>5

LEMMA RemoveAllDef ==
  ASSUME NEW s, NEW those, NEW flush, NEW back, NEW l \in Nat, l = Len(s.stack)
  PROVE  \E d : Sweeps(d, l, s, those, flush, back) /\ RemoveAll(s, those, flush, back) = d[l].s
<1>1. \E d : Sweeps(d, l, s, those, flush, back)
  BY SweepsExist
<1>2. Sweeps(CHOOSE d : Sweeps(d, l, s, those, flush, back), l, s, those, flush, back)
  BY <1>1
<1>3. RemoveAll(s, those, flush, back) = (CHOOSE d : Sweeps(d, l, s, those, flush, back))[l].s
  BY DEF RemoveAll, Sweeps
<1> QED
  BY <1>2, <1>3

\* A file with frames to be written, the caller standing behind the last byte.
Ready(s, c) == Sound(s, c) /\ Writing(s) /\ WritePlace(s) /\ s.sz = Len(c)

\* Nobody stands at the front of a frame among those.
Off(s, those) == \A f \in ToSet(s.stack) : f \in those => f.addr # s.curr

LEMMA SameFrame ==
  ASSUME NEW st \in Seq(Frame), Spread(st), NEW f \in ToSet(st), NEW g \in ToSet(st), f # g
  PROVE  Apart(f, g)
<1>1. PICK i \in DOMAIN st, j \in DOMAIN st : f = st[i] /\ g = st[j]
  BY DEF ToSet
<1> QED
  BY <1>1 DEF Spread

LEMMA WritingBack ==
  ASSUME NEW s \in Files, NEW c \in Seq(Byte), Ready(s, c), NEW i \in DOMAIN s.stack,
         NEW back \in BOOLEAN, back => s.stack[i].addr # s.curr
  PROVE  LET t == RemoveFrame(s, i, TRUE, back)
         IN  Ready(t, c) /\ (back => t.curr = s.curr)
<1>1. PICK f : f = s.stack[i]
  OBVIOUS
<1>2. s.stack \in Seq(Frame) /\ f \in ToSet(s.stack) /\ Spread(s.stack)
  BY <1>1, FileFields DEF ToSet, Ready, Sound
<1>3. f \in Framed /\ f.nb > 0 /\ f.kind = "write"
  BY <1>2, FrameFields DEF Ready, Writing, Unsaved
<1>4. PICK a \in Nat, n \in Nat, x \in Nat : a = f.addr /\ n = f.nb /\ n > 0 /\ x = s.curr
  BY <1>2, <1>3, FrameFields, FileFields
<1>5. a = x => s.pos = s.curr
  <2> SUFFICES ASSUME a = x, s.pos # s.curr PROVE FALSE
    OBVIOUS
  <2>1. PICK g \in ToSet(s.stack) : Covers(g, x)
    BY <1>4 DEF Ready, WritePlace
  <2>2. g.kind = "write" /\ g.addr \in Nat /\ g.nb \in Nat
    BY <1>2, FrameFields DEF Ready, Writing, Unsaved
  <2>3. g # f
    BY <2>1, <1>4 DEF Covers
  <2>4. Apart(f, g)
    BY <2>3, <1>2, SameFrame
  <2>5. a + n < g.addr \/ g.addr + g.nb < a
    BY <2>2, <2>4, <1>3, <1>4 DEF Apart, Span
  <2>6. g.addr < a /\ a =< g.addr + g.nb
    BY <2>1, <1>4 DEF Covers
  <2> QED
    BY <2>2, <2>5, <2>6, <1>4
<1>6. \A g \in ToSet(s.stack) : g.kind = "write"
  BY DEF Ready, Writing, Unsaved
<1>7. f.addr = s.curr => s.pos = s.curr /\ ~back
  BY <1>1, <1>4, <1>5
<1>8. PICK t : t = RemoveFrame(s, i, TRUE, back)
  OBVIOUS
<1>9. /\ t \in Files /\ t.stack = RemoveAt(s.stack, i)
      /\ t.disk = Over(s.disk, f.addr, Valid(f)) /\ t.pos = t.curr
      /\ back  => t.curr = s.curr /\ t.sz = s.sz
      /\ ~back => t.sz = s.sz \/ (t.sz = f.addr + f.nb /\ t.sz >= s.sz)
  BY <1>1, <1>3, <1>6, <1>7, <1>8, Removing, ZenonT(30)
<1>10. /\ ToSet(s.stack) = ToSet(t.stack) \cup {f} /\ Spread(t.stack)
  BY <1>1, <1>2, <1>9, Taken
<1>11. ToWrite(t) \in SUBSET Framed /\ ToWrite(s) = ToWrite(t) \cup {f}
  <2>1. \A g \in ToSet(t.stack) : g \in Framed
    BY <1>2, <1>10, FrameFields
  <2> QED
    BY <2>1, <1>3, <1>10 DEF ToWrite
<1>12. s.disk \in Seq(Byte) /\ Shows(ToWrite(t) \cup {f}, s.disk, c)
  BY <1>11, FileFields DEF Ready, Sound
<1>13. Shows(ToWrite(t), t.disk, c)
  BY <1>3, <1>9, <1>11, <1>12, Saving
<1>14. Sound(t, c)
  BY <1>9, <1>10, <1>13 DEF Sound
<1>15. Writing(t) /\ WritePlace(t)
  BY <1>9, <1>10 DEF Ready, Writing, WritePlace
<1>16. t.sz = Len(c)
  <2>1. PICK l \in Nat, z \in Nat : l = Len(c) /\ z = t.sz
    BY <1>9, FileFields
  <2>2. s.sz = l /\ a + n =< l
    BY <2>1, <1>4, <1>12 DEF Ready, Shows
  <2>3. z = l \/ (z = a + n /\ z >= l)
    BY <2>1, <2>2, <1>4, <1>9
  <2>4. z = l
    <3>1. ASSUME z = a + n, z >= l PROVE z = l
      <4>1. z >= l /\ z =< l
        BY <3>1, <2>2
      <4> QED
        BY <4>1, <2>1
    <3> QED
      BY <3>1, <2>3
  <2> QED
    BY <2>1, <2>4
<1> QED
  BY <1>8, <1>9, <1>14, <1>15, <1>16 DEF Ready

\* After k turns of a loop.
Swept(r, s, those, flush, back, k) ==
  /\ r = [s |-> r.s, i |-> r.i]
  /\ r.s \in Files /\ r.i \in Nat /\ r.i > 0
  /\ r.i + Len(s.stack) = Len(r.s.stack) + 1 + k
  /\ \A j \in DOMAIN r.s.stack : j < r.i => r.s.stack[j] \notin those
  /\ ToSet(r.s.stack) \subseteq ToSet(s.stack)
  /\ \A f \in ToSet(s.stack) : f \notin those => f \in ToSet(r.s.stack)
  /\ Spread(s.stack) => Spread(r.s.stack)
  /\ (\A f \in ToSet(s.stack) : f \in those => f.kind = "read" \/ ~flush) =>
       /\ r.s.disk = s.disk /\ r.s.pos = s.pos /\ r.s.sz = s.sz /\ r.s.curr = s.curr
  /\ \A c \in Seq(Byte) : flush /\ Ready(s, c) /\ (back => Off(s, those)) =>
       Ready(r.s, c) /\ (back => r.s.curr = s.curr)

LEMMA SweepTurn ==
  ASSUME NEW s \in Files, NEW those, NEW flush \in BOOLEAN, NEW back \in BOOLEAN,
         NEW k \in Nat, k < Len(s.stack), NEW r, Swept(r, s, those, flush, back, k)
  PROVE  Swept(Sweep(r, those, flush, back), s, those, flush, back, k + 1)
<1>1. PICK u \in Files : u = r.s
  BY DEF Swept
<1>2. PICK st \in Seq(Frame) : st = u.stack
  BY FileFields
<1>3. PICK i \in Nat, l \in Nat, n \in Nat :
        /\ i = r.i /\ i > 0 /\ l = Len(s.stack) /\ n = Len(st) /\ i + l = n + 1 + k
        /\ DOMAIN st = 1 .. n
  <2>1. PICK i \in Nat : i = r.i /\ i > 0
    BY DEF Swept
  <2>2. s.stack \in Seq(Frame)
    BY FileFields
  <2>3. PICK l \in Nat, n \in Nat : l = Len(s.stack) /\ n = Len(st) /\ DOMAIN st = 1 .. n
    BY <2>2, <1>2, LenProperties
  <2>4. i + l = n + 1 + k
    BY <2>1, <2>3, <1>1, <1>2 DEF Swept
  <2> QED
    BY <2>1, <2>3, <2>4
<1>4. i \in DOMAIN st
  BY <1>3
<1>5. /\ \A j \in DOMAIN st : j < i => st[j] \notin those
      /\ ToSet(st) \subseteq ToSet(s.stack)
      /\ \A f \in ToSet(s.stack) : f \notin those => f \in ToSet(st)
      /\ Spread(s.stack) => Spread(st)
      /\ (\A f \in ToSet(s.stack) : f \in those => f.kind = "read" \/ ~flush) =>
           /\ u.disk = s.disk /\ u.pos = s.pos /\ u.sz = s.sz /\ u.curr = s.curr
      /\ \A c \in Seq(Byte) : flush /\ Ready(s, c) /\ (back => Off(s, those)) =>
           Ready(u, c) /\ (back => u.curr = s.curr)
  BY <1>1, <1>2, <1>3 DEF Swept
<1>6. CASE st[i] \in those
  <2>1. PICK t : t = RemoveFrame(u, i, flush, back)
    OBVIOUS
  <2>2. Sweep(r, those, flush, back) = [s |-> t, i |-> i]
    <3>1. r = [s |-> u, i |-> i]
      BY <1>1, <1>3 DEF Swept
    <3>2. [r EXCEPT !.s = t] = [s |-> t, i |-> i]
      BY <3>1
    <3> QED
      BY <3>2, <2>1, <1>1, <1>2, <1>3, <1>4, <1>6 DEF Sweep
  <2>3. /\ t \in Files /\ t.stack = RemoveAt(st, i)
        /\ st[i].kind = "read" \/ ~flush =>
             /\ t.disk = u.disk /\ t.pos = u.pos /\ t.sz = u.sz /\ t.curr = u.curr
    BY <2>1, <1>2, <1>4, Removing
  <2>4. PICK tt \in Seq(Frame) : tt = t.stack
    BY <2>3, FileFields
  <2>5. /\ Len(tt) = n - 1 /\ DOMAIN tt = 1 .. n - 1
        /\ \A j \in DOMAIN tt : tt[j] = st[IF j < i THEN j ELSE j + 1]
    <3>1. tt = RemoveAt(st, i)
      BY <2>3, <2>4
    <3> QED
      BY <3>1, <1>3, <1>4, Removal, ZenonT(30)
  <2>6. ToSet(st) = ToSet(tt) \cup {st[i]} /\ (Spread(st) => Spread(tt))
    BY <2>3, <2>4, <1>4, Taken
  <2>7. st[i] \in ToSet(st)
    BY <1>4 DEF ToSet
  <2>8. \A j \in DOMAIN tt : j < i => tt[j] \notin those
    BY <2>5, <1>3, <1>5, SMTT(30)
  <2>9. ToSet(tt) \subseteq ToSet(s.stack) /\ \A f \in ToSet(s.stack) : f \notin those => f \in ToSet(tt)
    BY <2>6, <1>5, <1>6
  <2>10. (\A f \in ToSet(s.stack) : f \in those => f.kind = "read" \/ ~flush) =>
            /\ t.disk = s.disk /\ t.pos = s.pos /\ t.sz = s.sz /\ t.curr = s.curr
    <3>1. st[i] \in ToSet(s.stack)
      BY <2>7, <1>5
    <3> QED
      BY <3>1, <2>3, <1>5, <1>6
  <2>11. ASSUME NEW c \in Seq(Byte), flush, Ready(s, c), back => Off(s, those)
         PROVE  Ready(t, c) /\ (back => t.curr = s.curr)
    <3>1. Ready(u, c) /\ (back => u.curr = s.curr)
      BY <2>11, <1>5
    <3>2. back => st[i].addr # u.curr
      BY <3>1, <2>7, <2>11, <1>5, <1>6 DEF Off
    <3>3. t = RemoveFrame(u, i, TRUE, back)
      BY <2>1, <2>11
    <3>4. Ready(t, c) /\ (back => t.curr = u.curr)
      BY <3>1, <3>2, <3>3, <1>2, <1>4, WritingBack
    <3> QED
      BY <3>1, <3>4
  <2>12. Swept([s |-> t, i |-> i], s, those, flush, back, k + 1)
    <3>1. i + Len(s.stack) = Len(tt) + 1 + (k + 1)
      BY <2>5, <1>3
    <3>2. Spread(s.stack) => Spread(tt)
      BY <2>6, <1>5
    <3> QED
      BY <3>1, <3>2, <2>3, <2>4, <2>8, <2>9, <2>10, <2>11, <1>3 DEF Swept
  <2> QED
    BY <2>2, <2>12
<1>7. CASE st[i] \notin those
  <2>1. PICK j \in Nat : j = i + 1
    OBVIOUS
  <2>2. Sweep(r, those, flush, back) = [s |-> u, i |-> j]
    <3>1. r = [s |-> u, i |-> i]
      BY <1>1, <1>3 DEF Swept
    <3>2. [r EXCEPT !.i = r.i + 1] = [s |-> u, i |-> j]
      BY <3>1, <2>1
    <3> QED
      BY <3>2, <1>1, <1>2, <1>3, <1>7 DEF Sweep
  <2>3. \A m \in DOMAIN st : m < j => st[m] \notin those
    <3> TAKE m \in DOMAIN st
    <3>1. m < j => m < i \/ m = i
      BY <2>1, <1>3
    <3> QED
      BY <3>1, <1>5, <1>7
  <2>4. j + Len(s.stack) = Len(st) + 1 + (k + 1)
    BY <2>1, <1>3, SMTT(30)
  <2>5. Swept([s |-> u, i |-> j], s, those, flush, back, k + 1)
    <3>1. j \in Nat /\ j > 0
      BY <2>1
    <3>2. PICK q : q = [s |-> u, i |-> j]
      OBVIOUS
    <3>3. q = [s |-> q.s, i |-> q.i] /\ q.s = u /\ q.i = j
      BY <3>2
    <3>4. Swept(q, s, those, flush, back, k + 1)
      BY <3>1, <3>3, <2>3, <2>4, <1>2, <1>5 DEF Swept
    <3> QED
      BY <3>2, <3>4
  <2> QED
    BY <2>2, <2>5
<1> QED
  BY <1>6, <1>7

LEMMA SweepDone ==
  ASSUME NEW s \in Files, NEW those, NEW flush \in BOOLEAN, NEW back \in BOOLEAN,
         NEW l \in Nat, l = Len(s.stack)
  PROVE  \E r : /\ RemoveAll(s, those, flush, back) = r.s
                /\ Swept(r, s, those, flush, back, l)
<1>1. PICK d : Sweeps(d, l, s, those, flush, back) /\ RemoveAll(s, those, flush, back) = d[l].s
  BY RemoveAllDef
<1>2. /\ d[0] = [s |-> s, i |-> 1]
      /\ \A k \in 1 .. l : d[k] = Sweep(d[k - 1], those, flush, back)
  <2>1. d = [k \in 0 .. l |-> IF k = 0 THEN [s |-> s, i |-> 1] ELSE Sweep(d[k - 1], those, flush, back)]
    BY <1>1 DEF Sweeps
  <2>2. \A k \in 0 .. l : d[k] = IF k = 0 THEN [s |-> s, i |-> 1] ELSE Sweep(d[k - 1], those, flush, back)
    BY <2>1
  <2> QED
    BY <2>2
<1>3. Swept(d[0], s, those, flush, back, 0)
  <2>1. s.stack \in Seq(Frame) /\ DOMAIN s.stack = 1 .. l
    BY FileFields
  <2>2. \A j \in DOMAIN s.stack : j < 1 => s.stack[j] \notin those
    BY <2>1
  <2> QED
    BY <2>2, <1>2 DEF Swept
<1> DEFINE Bad == {k \in Nat : k =< l /\ ~Swept(d[k], s, those, flush, back, k)}
<1>4. Bad = {}
  <2> SUFFICES ASSUME Bad # {} PROVE FALSE
    OBVIOUS
  <2>1. PICK m \in Bad : \A k \in Bad : m =< k
    BY Least
  <2>2. m \in Nat /\ m =< l /\ ~Swept(d[m], s, those, flush, back, m)
    OBVIOUS
  <2>3. m # 0
    BY <2>2, <1>3
  <2>4. PICK k \in Nat : k = m - 1 /\ k + 1 = m
    BY <2>2, <2>3
  <2>5. k \notin Bad /\ k < l /\ m \in 1 .. l
    BY <2>1, <2>2, <2>4
  <2>6. Swept(d[k], s, those, flush, back, k)
    BY <2>5
  <2>7. Swept(Sweep(d[k], those, flush, back), s, those, flush, back, k + 1)
    BY <2>5, <2>6, SweepTurn
  <2> QED
    BY <2>2, <2>4, <2>5, <2>7, <1>2
<1>5. l \notin Bad
  BY <1>4
<1> QED
  BY <1>1, <1>5

\* The frames among those are gone, and what they had to say is in the file.
LEMMA Removed ==
  ASSUME NEW s \in Files, NEW those, NEW flush \in BOOLEAN, NEW back \in BOOLEAN
  PROVE  LET t == RemoveAll(s, those, flush, back)
         IN  /\ t \in Files /\ ToSet(t.stack) = {f \in ToSet(s.stack) : f \notin those}
             /\ Spread(s.stack) => Spread(t.stack)
             /\ (\A f \in ToSet(s.stack) : f \in those => f.kind = "read" \/ ~flush) =>
                  /\ t.disk = s.disk /\ t.pos = s.pos /\ t.sz = s.sz /\ t.curr = s.curr
             /\ \A c \in Seq(Byte) : flush /\ Ready(s, c) /\ (back => Off(s, those)) =>
                  Ready(t, c) /\ (back => t.curr = s.curr)
<1>1. PICK l \in Nat : l = Len(s.stack)
  BY FileFields
<1>2. PICK r : RemoveAll(s, those, flush, back) = r.s /\ Swept(r, s, those, flush, back, l)
  BY <1>1, SweepDone
<1>3. PICK t \in Files : t = r.s
  BY <1>2 DEF Swept
<1>4. PICK n \in Nat : n = Len(t.stack) /\ DOMAIN t.stack = 1 .. n
  BY FileFields
<1>5. r.i = n + 1
  <2>1. PICK i \in Nat : i = r.i
    BY <1>2 DEF Swept
  <2>2. i + l = n + 1 + l
    BY <2>1, <1>1, <1>2, <1>3, <1>4 DEF Swept
  <2> QED
    BY <2>1, <2>2
<1>6. \A j \in DOMAIN t.stack : t.stack[j] \notin those
  BY <1>2, <1>3, <1>4, <1>5 DEF Swept
<1>7. \A f \in ToSet(t.stack) : f \notin those
  BY <1>6 DEF ToSet
<1>8. ToSet(t.stack) = {f \in ToSet(s.stack) : f \notin those}
  BY <1>2, <1>3, <1>7 DEF Swept
<1> QED
  BY <1>2, <1>3, <1>8 DEF Swept
-----------------------------------------------------------------------------
(* Bytes taken out of frames.                                              *)

Gathers(d, m, r, from, n) ==
  d = [k \in 0 .. m |-> IF k = 0 THEN r ELSE Gather(d[k - 1], from, n)]

LEMMA GathersExist ==
  ASSUME NEW r, NEW from, NEW n, NEW l \in Nat
  PROVE  \E d : Gathers(d, l, r, from, n)
<1> DEFINE Bad == {k \in Nat : ~\E d : Gathers(d, k, r, from, n)}
<1> SUFFICES ASSUME Bad # {} PROVE FALSE
  OBVIOUS
<1>1. PICK m \in Bad : \A k \in Bad : m =< k
  BY Least
<1>2. m \in Nat /\ ~\E d : Gathers(d, m, r, from, n)
  OBVIOUS
<1>3. CASE m = 0
  <2>1. Gathers([k \in 0 .. 0 |-> r], 0, r, from, n)
    BY DEF Gathers
  <2> QED
    BY <2>1, <1>2, <1>3
<1>4. CASE m # 0
  <2>1. m - 1 \in Nat /\ m - 1 \notin Bad
    BY <1>1, <1>2, <1>4
  <2>2. PICK d : Gathers(d, m - 1, r, from, n)
    BY <2>1
  <2>3. PICK e : e = [j \in 0 .. m |-> IF j = 0 THEN r ELSE Gather(d[j - 1], from, n)]
    OBVIOUS
  <2>4. \A k \in 0 .. m - 1 : d[k] = IF k = 0 THEN r ELSE Gather(d[k - 1], from, n)
    BY <2>2 DEF Gathers
  <2>5. \A k \in 0 .. m : e[k] = IF k = 0 THEN r ELSE Gather(d[k - 1], from, n)
    BY <2>3
  <2>6. e = [k \in 0 .. m |-> e[k]]
    BY <2>3
  <2>7. \A k \in 0 .. m : e[k] = IF k = 0 THEN r ELSE Gather(e[k - 1], from, n)
    <3> TAKE k \in 0 .. m
    <3>1. k # 0 => k - 1 \in 0 .. m - 1 /\ k - 1 \in 0 .. m
      BY <1>2
    <3>2. k # 0 => e[k - 1] = d[k - 1]
      BY <3>1, <2>4, <2>5
    <3> QED
      BY <3>2, <2>5
  <2>8. e = [k \in 0 .. m |-> IF k = 0 THEN r ELSE Gather(e[k - 1], from, n)]
    BY <2>6, <2>7
  <2>9. Gathers(e, m, r, from, n)
    BY <2>8 DEF Gathers
  <2> QED
    BY <2>9, <1>2
<1> QED
  BY <1>3, <1>4

LEMMA GatherAllDef ==
  ASSUME NEW r, NEW from, NEW n \in Nat
  PROVE  \E d : Gathers(d, n + 1, r, from, n) /\ GatherAll(r, from, n) = d[n + 1]
<1>1. \E d : Gathers(d, n + 1, r, from, n)
  BY GathersExist
<1>2. Gathers(CHOOSE d : Gathers(d, n + 1, r, from, n), n + 1, r, from, n)
  BY <1>1
<1>3. GatherAll(r, from, n) = (CHOOSE d : Gathers(d, n + 1, r, from, n))[n + 1]
  BY DEF GatherAll, Gathers
<1> QED
  BY <1>2, <1>3

\* The frames are out of the way of one in hand: behind the bytes asked for,
\* or a whole buffer before it.
Aside(st, a, end) == \A g \in ToSet(st) : g.addr > end \/ g.addr + BufSz < a

\* What has been got of the bytes asked for, the frame in hand being the one
\* where it goes on.
Taking(d, from, n, f, got) ==
  /\ f \in Frame /\ Fresh(f, d)
  /\ got \in Seq(Byte) /\ Len(got) =< n /\ from + n =< Len(d)
  /\ \A i \in 1 .. Len(got) : got[i] = d[from + i]
  /\ f.addr =< from + Len(got) /\ from + Len(got) =< f.addr + f.nb
  /\ f.addr < from + n

\* After k turns, of which only the first may have found no byte.
Gathering(r, d, z, from, n, k) ==
  /\ r = [s |-> r.s, f |-> r.f, got |-> r.got, na |-> r.na, first |-> r.first]
  /\ r.s \in Files /\ r.s.disk = d /\ r.s.sz = z /\ Reading(r.s) /\ Spread(r.s.stack)
  /\ Taking(d, from, n, r.f, r.got) /\ Aside(r.s.stack, r.f.addr, from + n)
  /\ r.first \in BOOLEAN /\ r.na \in Int /\ r.s.curr + r.na = from
  /\ ~r.first => r.s.pos = r.f.addr + r.f.nb
  /\ Len(r.got) = n \/ k = 0 \/ (from + Len(r.got) = r.f.addr /\ k =< Len(r.got) + 1)

\* With the bytes of the frame in hand: all, or as many as it can have.
Portioned(d, from, n, f, got, upto, more) ==
  /\ more \in Seq(Byte) /\ Len(more) =< n /\ from + Len(more) = upto
  /\ Len(more) >= Len(got) /\ upto \in Nat /\ upto =< f.addr + f.nb
  /\ \A i \in 1 .. Len(more) : more[i] = d[from + i]
  /\ Len(more) # n => upto = f.addr + BufSz /\ f.nb = BufSz /\ upto < from + n

\* The part of the frame in hand that is asked for is in the file.
LEMMA Portion ==
  ASSUME NEW d \in Seq(Byte), NEW from \in Nat, NEW n \in Nat, NEW f, NEW got,
         Taking(d, from, n, f, got)
  PROVE  LET upto == Min({from + n, f.addr + BufSz})
             more == got \o SubSeq(f.bf, (from + Len(got)) - f.addr + 1, upto - f.addr)
         IN  Portioned(d, from, n, f, got, upto, more)
<1>1. BufSz \in Nat /\ BufSz > 0
  BY FileAssumption
<1>2. PICK a \in Nat, p \in Nat : a = f.addr /\ p = f.nb /\ p =< BufSz /\ p > 0
  BY <1>1 DEF Taking, Frame
<1>3. PICK b : b = f.bf /\ b \in [1 .. BufSz -> Byte]
  BY DEF Taking, Frame, Byte
<1>4. PICK g \in Nat, l \in Nat : g = Len(got) /\ l = Len(d)
  BY DEF Taking
<1>5. PICK e \in Nat : e = Min({from + n, a + BufSz}) /\ e =< from + n /\ e =< a + BufSz
                       /\ (e = from + n \/ e = a + BufSz)
  BY <1>1, MinTwo
<1>6. a + p =< l /\ (p < BufSz => a + p = l) /\ \A i \in 1 .. p : b[i] = d[a + i]
  BY <1>2, <1>3, <1>4 DEF Taking, Fresh
<1>7. a =< from + g /\ from + g =< a + p /\ g =< n /\ from + n =< l
  BY <1>2, <1>4 DEF Taking
<1>8. got \in Seq(Byte) /\ \A i \in 1 .. g : got[i] = d[from + i]
  BY <1>4 DEF Taking
<1>9. from + g =< e /\ e =< a + p
  <2>1. a + p =< l /\ (p < BufSz => a + p = l)
    BY <1>6
  <2>2. from + g =< e
    <3>1. from + g =< from + n /\ from + g =< a + BufSz
      BY <1>1, <1>2, <1>7
    <3> QED
      BY <3>1, <1>5
  <2>3. e =< a + p
    <3>1. CASE p < BufSz
      <4>1. a + p = l
        BY <2>1, <3>1
      <4>2. e =< from + n /\ from + n =< l
        BY <1>5, <1>7
      <4> QED
        BY <4>1, <4>2
    <3>2. CASE ~(p < BufSz)
      <4>1. p = BufSz
        BY <3>2, <1>1, <1>2
      <4> QED
        BY <4>1, <1>5
    <3> QED
      BY <3>1, <3>2
  <2> QED
    BY <2>2, <2>3
<1>10. PICK o \in Nat, q \in Nat : o = from + g - a /\ q = e - a /\ o =< q /\ q =< p
  BY <1>7, <1>9
<1>11. b \in Seq(Byte) /\ Len(b) = BufSz
  BY <1>1, <1>3, ArraySeq
<1>12. PICK t : t = SubSeq(b, o + 1, q)
  OBVIOUS
<1>13. t \in Seq(Byte) /\ Len(t) = q - o /\ \A i \in 1 .. Len(t) : t[i] = b[o + i]
  <2>1. q =< Len(b)
    <3>1. q =< p /\ p =< BufSz /\ BufSz \in Nat
      BY <1>1, <1>2, <1>10
    <3>2. q =< BufSz
      BY <3>1
    <3> QED
      BY <3>2, <1>11
  <2>2. /\ t \in Seq(Byte) /\ Len(t) = IF o =< q THEN q - o ELSE 0
        /\ \A i \in 1 .. Len(t) : t[i] = b[o + i]
    <3>1. b \in Seq(Byte)
      BY <1>11
    <3> QED
      BY <2>1, <3>1, <1>12, Stretch, SMTT(30)
  <2> QED
    BY <2>2, <1>10
<1>14. PICK more : more = got \o t
  OBVIOUS
<1>15. /\ more \in Seq(Byte) /\ Len(more) = g + (q - o)
       /\ \A i \in 1 .. g + (q - o) : more[i] = IF i =< g THEN got[i] ELSE t[i - g]
  <2>1. q - o \in Nat /\ Len(t) = q - o /\ t \in Seq(Byte)
    BY <1>10, <1>13
  <2>2. /\ more \in Seq(Byte) /\ Len(more) = Len(got) + Len(t)
        /\ \A i \in 1 .. Len(got) + Len(t) : more[i] = IF i =< Len(got) THEN got[i] ELSE t[i - Len(got)]
    BY <2>1, <1>14, <1>8, ConcatProperties
  <2> QED
    BY <2>1, <2>2, <1>4
<1>16. PICK m \in Nat : m = Len(more) /\ from + m = e /\ m >= g /\ m =< n /\ m = g + (q - o)
  <2>1. PICK m \in Nat : m = g + (q - o)
    BY <1>10
  <2>2. from + m = e
    <3>1. from + m >= e /\ from + m =< e
      BY <2>1, <1>10
    <3> QED
      BY <3>1, <1>5
  <2>3. m >= g
    BY <2>1, <1>10
  <2>4. m =< n
    <3>1. from + m = e /\ e =< from + n
      BY <2>2, <1>5
    <3> QED
      BY <3>1
  <2> QED
    BY <2>1, <2>2, <2>3, <2>4, <1>15
<1>17. ASSUME NEW i \in 1 .. m PROVE more[i] = d[from + i]
  <2>1. CASE i =< g
    BY <2>1, <1>15, <1>16, <1>8
  <2>2. CASE i > g
    <3>1. PICK j \in Nat : j = i - g /\ j > 0 /\ j =< q - o
      BY <2>2, <1>16
    <3>2. j \in 1 .. Len(t)
      BY <3>1, <1>13
    <3>3. o + j \in 1 .. p /\ a + (o + j) = from + i
      BY <3>1, <1>10
    <3>4. more[i] = t[j] /\ t[j] = b[o + j] /\ b[o + j] = d[a + (o + j)]
      BY <2>2, <3>1, <3>2, <3>3, <1>6, <1>13, <1>15, <1>16, SMTT(30)
    <3> QED
      BY <3>3, <3>4
  <2> QED
    BY <2>1, <2>2
<1>18. m # n => e = a + BufSz /\ p = BufSz /\ e < from + n
  <2> SUFFICES ASSUME m # n PROVE e = a + BufSz /\ p = BufSz /\ e < from + n
    OBVIOUS
  <2>1. from + m = e /\ m =< n
    BY <1>16
  <2>2. e < from + n
    BY <2>1
  <2>3. e = a + BufSz
    BY <2>2, <1>5
  <2>4. p = BufSz
    <3>1. a + BufSz =< a + p /\ p =< BufSz
      BY <2>3, <1>2, <1>9
    <3>2. p >= BufSz /\ p =< BufSz
      BY <3>1, <1>1
    <3> QED
      BY <3>2, <1>1
  <2> QED
    BY <2>2, <2>3, <2>4
<1>19. got \o SubSeq(f.bf, (from + Len(got)) - f.addr + 1, e - f.addr) = more
  <2>1. (from + g) - a + 1 = o + 1 /\ e - a = q
    BY <1>10
  <2> QED
    BY <2>1, <1>2, <1>3, <1>4, <1>12, <1>14
<1>20. Portioned(d, from, n, f, got, e, more)
  BY <1>2, <1>4, <1>9, <1>15, <1>16, <1>17, <1>18 DEF Portioned
<1> QED
  BY <1>2, <1>5, <1>19, <1>20

\* A frame read from a place of the file.
LEMMA FillFrame ==
  ASSUME NEW u \in Files, NEW addr \in Nat, u.pos = addr, addr < Len(u.disk)
  PROVE  LET g == Filled(u, addr)
             t == OsReads(u, BufSz)
         IN  /\ g \in Frame /\ g.addr = addr /\ Fresh(g, u.disk)
             /\ t \in Files /\ t.disk = u.disk /\ t.sz = u.sz /\ t.curr = u.curr
             /\ t.stack = u.stack /\ t.pos = addr + g.nb
<1>1. BufSz \in Nat /\ BufSz > 0
  BY FileAssumption
<1>2. PICK v : v = OsRead(u, BufSz)
  OBVIOUS
<1>3. PICK l \in Nat : l = Len(u.disk) /\ addr < l
  BY FileFields
<1>4. /\ v \in Seq(Byte) /\ Len(v) =< BufSz
      /\ u.pos + Len(v) =< Len(u.disk)
      /\ Len(v) = BufSz \/ u.pos + Len(v) = Len(u.disk)
      /\ \A i \in 1 .. Len(v) : v[i] = u.disk[u.pos + i]
  <2>1. u.pos =< Len(u.disk)
    BY <1>3
  <2> QED
    BY <2>1, <1>1, <1>2, ReadIn
<1>5. PICK k \in Nat : /\ k = Len(v) /\ k =< BufSz /\ k > 0 /\ addr + k =< l /\ (k = BufSz \/ addr + k = l)
                       /\ \A i \in 1 .. k : v[i] = u.disk[addr + i]
  <2>1. PICK k \in Nat : k = Len(v)
    BY <1>4
  <2>2. k =< BufSz /\ addr + k =< l /\ (k = BufSz \/ addr + k = l)
    BY <2>1, <1>3, <1>4
  <2>3. k > 0
    BY <2>2, <1>1, <1>3
  <2> QED
    BY <2>1, <2>2, <2>3, <1>4
<1>6. PICK m \in Nat : m = BufSz - k
  <2>1. k =< BufSz /\ BufSz \in Nat
    BY <1>1, <1>5
  <2> QED
    BY <2>1
<1>7. PICK o : o = Zeros(m)
  OBVIOUS
<1>8. o \in Seq(Byte) /\ Len(o) = m
  <2>1. o \in [1 .. m -> Byte]
    BY <1>7 DEF Zeros, Byte
  <2> QED
    BY <2>1, ArraySeq
<1>9. PICK b : b = v \o o
  OBVIOUS
<1>10. /\ b \in Seq(Byte) /\ Len(b) = k + m
       /\ \A i \in 1 .. k : b[i] = v[i]
  <2>1. /\ b \in Seq(Byte) /\ Len(b) = Len(v) + Len(o)
        /\ \A i \in 1 .. Len(v) + Len(o) : b[i] = IF i =< Len(v) THEN v[i] ELSE o[i - Len(v)]
    <3>1. v \in Seq(Byte) /\ o \in Seq(Byte)
      BY <1>4, <1>8
    <3> QED
      BY <3>1, <1>9, ConcatProperties
  <2>2. \A i \in 1 .. k : i \in 1 .. k + m /\ i =< k
    BY <1>5, <1>6
  <2> QED
    BY <2>1, <2>2, <1>5, <1>8
<1>11. b \in [1 .. BufSz -> Byte]
  <2>1. k + m = BufSz
    BY <1>1, <1>5, <1>6
  <2> QED
    BY <2>1, <1>10, LenProperties
<1>12. PICK g : g = [addr |-> addr, nb |-> k, kind |-> "read", bf |-> b]
  OBVIOUS
<1>13. Filled(u, addr) = g
  BY <1>2, <1>5, <1>6, <1>7, <1>9, <1>12 DEF Filled
<1>14. g \in Frame /\ g.addr = addr /\ g.nb = k /\ g.kind = "read" /\ g.bf = b
  <2>1. k \in 1 .. BufSz
    BY <1>1, <1>5
  <2> QED
    BY <2>1, <1>11, <1>12 DEF Frame, Byte
<1>15. Fresh(g, u.disk)
  BY <1>3, <1>5, <1>10, <1>14 DEF Fresh
<1>16. LET t == OsReads(u, BufSz)
       IN  /\ t \in Files /\ t.disk = u.disk /\ t.sz = u.sz /\ t.curr = u.curr
           /\ t.stack = u.stack /\ t.pos = addr + k
  BY <1>1, <1>2, <1>5, ReadIn
<1> QED
  BY <1>13, <1>14, <1>15, <1>16

LEMMA ReadFields ==
  ASSUME NEW s \in Files, Reading(s), NEW g \in ToSet(s.stack)
  PROVE  /\ g \in Frame /\ g.kind = "read" /\ Fresh(g, s.disk) /\ Span(g) = BufSz
         /\ g.addr \in Nat /\ g.nb \in Nat /\ g.nb > 0 /\ g.nb =< BufSz
         /\ g.addr + g.nb =< Len(s.disk)
         /\ g.nb < BufSz => g.addr + g.nb = Len(s.disk)
<1>1. s.stack \in Seq(Frame)
  BY FileFields
<1>2. Fresh(g, s.disk)
  BY DEF Reading
<1>3. g \in Frame /\ g.addr \in Nat /\ g.nb \in Nat /\ g.nb > 0 /\ g.nb =< BufSz
  BY <1>1, FrameFields
<1> QED
  BY <1>2, <1>3 DEF Fresh, Span

\* Everything is as it was but the stack.
Unmoved(t, s) == t.disk = s.disk /\ t.pos = s.pos /\ t.sz = s.sz /\ t.curr = s.curr

\* Frames that were read are only dropped.
LEMMA ReadRemoved ==
  ASSUME NEW s \in Files, Reading(s), Spread(s.stack), NEW those
  PROVE  LET t == RemoveAll(s, those, TRUE, TRUE)
         IN  /\ t \in Files /\ ToSet(t.stack) = {f \in ToSet(s.stack) : f \notin those}
             /\ Unmoved(t, s) /\ Spread(t.stack) /\ Reading(t)
<1>1. PICK t : t = RemoveAll(s, those, TRUE, TRUE)
  OBVIOUS
<1>2. \A f \in ToSet(s.stack) : f.kind = "read"
  BY ReadFields
<1>3. /\ t \in Files /\ ToSet(t.stack) = {f \in ToSet(s.stack) : f \notin those}
      /\ Spread(s.stack) => Spread(t.stack)
  BY <1>1, Removed
<1>4. (\A f \in ToSet(s.stack) : f \in those => f.kind = "read" \/ ~TRUE) =>
        /\ t.disk = s.disk /\ t.pos = s.pos /\ t.sz = s.sz /\ t.curr = s.curr
  BY <1>1, Removed, ZenonT(30)
<1>5. t.disk = s.disk /\ t.pos = s.pos /\ t.sz = s.sz /\ t.curr = s.curr
  BY <1>2, <1>4
<1>6. Reading(t)
  BY <1>3, <1>5 DEF Reading
<1>7. Unmoved(t, s)
  BY <1>5 DEF Unmoved
<1> QED
  BY <1>1, <1>3, <1>6, <1>7

\* g has been read at the place next, after u.
Moved(t, g, u, next, end, move) ==
  /\ t \in Files /\ t.disk = u.disk /\ t.sz = u.sz
  /\ move => t.curr = next
  /\ ~move => t.curr = u.curr
  /\ Reading(t) /\ Spread(t.stack) /\ Aside(t.stack, next, end)
  /\ g \in Frame /\ Fresh(g, u.disk) /\ g.addr = next /\ t.pos = next + g.nb

\* The frame after one that was used up.
LEMMA NextRead ==
  ASSUME NEW u \in Files, Reading(u), Spread(u.stack),
         NEW a \in Nat, NEW next \in Nat, NEW end \in Nat, next = a + BufSz, next < end,
         end =< Len(u.disk), Aside(u.stack, a, end), NEW move \in BOOLEAN, move \/ u.pos = next,
         NEW there, there = IF move THEN Seek(u, next, "SEEK_SET", TRUE) ELSE u,
         NEW clear, clear = RemoveOverlap(there, next, "read")
  PROVE  LET t == OsReads(clear, BufSz)
             g == Filled(clear, next)
         IN  Moved(t, g, u, next, end, move)
<1>1. BufSz \in Nat /\ BufSz > 0
  BY FileAssumption
<1>2. ~Held(u, next)
  <2>1. ASSUME NEW g \in ToSet(u.stack), Covers(g, next + 1) PROVE FALSE
    <3>1. PICK x \in Nat, y \in Nat : x = g.addr /\ y = g.nb /\ y =< BufSz
      BY ReadFields
    <3>2. x < next + 1 /\ next + 1 =< x + y
      BY <3>1, <2>1 DEF Covers
    <3>3. x > end \/ x + BufSz < a
      BY <3>1 DEF Aside
    <3> QED
      BY <3>1, <3>2, <3>3, <1>1
  <2> QED
    BY <2>1, NotHeld
<1>3. /\ there \in Files /\ there.disk = u.disk /\ there.sz = u.sz /\ there.stack = u.stack
      /\ there.pos = next
      /\ move => there.curr = next
      /\ ~move => there.curr = u.curr
  <2>1. CASE move
    <3>1. LET t == Seek(u, next, "SEEK_SET", TRUE)
          IN  /\ t \in Files /\ t.disk = u.disk /\ t.sz = u.sz /\ t.stack = u.stack
              /\ t.curr = next /\ t.pos = next
      BY <1>2, SeekSet
    <3> QED
      BY <3>1, <2>1
  <2>2. CASE ~move
    BY <2>2
  <2> QED
    BY <2>1, <2>2
<1>4. PICK those : those = {f \in ToSet(there.stack) : f.addr <= next + BufSz /\ next <= f.addr + BufSz}
  OBVIOUS
<1>5. clear = RemoveAll(there, those, TRUE, TRUE)
  BY <1>4 DEF RemoveOverlap
<1>6. Reading(there) /\ Spread(there.stack)
  BY <1>3 DEF Reading
<1>7. /\ clear \in Files /\ ToSet(clear.stack) = {f \in ToSet(there.stack) : f \notin those}
      /\ Spread(clear.stack)
      /\ clear.disk = there.disk /\ clear.pos = there.pos /\ clear.sz = there.sz /\ clear.curr = there.curr
  <2>1. there \in Files
    BY <1>3
  <2>2. PICK w : w = RemoveAll(there, those, TRUE, TRUE)
    OBVIOUS
  <2>3. /\ w \in Files /\ ToSet(w.stack) = {f \in ToSet(there.stack) : f \notin those}
        /\ Unmoved(w, there) /\ Spread(w.stack)
    BY <2>1, <2>2, <1>6, ReadRemoved
  <2> QED
    BY <2>2, <2>3, <1>5 DEF Unmoved
<1>8. ToSet(clear.stack) \subseteq ToSet(u.stack)
  BY <1>3, <1>7
<1>9. clear.pos = next /\ clear.disk = u.disk /\ next < Len(clear.disk)
  <2>1. PICK l \in Nat : l = Len(u.disk)
    BY FileFields
  <2>2. next < l
    BY <2>1
  <2> QED
    BY <2>1, <2>2, <1>3, <1>7
<1>10. PICK g : g = Filled(clear, next)
  OBVIOUS
<1>11. PICK t : t = OsReads(clear, BufSz)
  OBVIOUS
<1>12. /\ g \in Frame /\ g.addr = next /\ Fresh(g, u.disk)
       /\ t \in Files /\ t.disk = u.disk /\ t.sz = clear.sz /\ t.curr = clear.curr
       /\ t.stack = clear.stack /\ t.pos = next + g.nb
  BY <1>7, <1>9, <1>10, <1>11, FillFrame, ZenonT(30)
<1>13. Reading(t)
  BY <1>8, <1>12 DEF Reading
<1>14. Aside(t.stack, next, end)
  <2>1. ASSUME NEW h \in ToSet(u.stack), h.addr + BufSz < a PROVE h.addr + BufSz < next
    <3>1. PICK x \in Nat : x = h.addr
      BY ReadFields
    <3> QED
      BY <3>1, <2>1, <1>1
  <2> QED
    BY <2>1, <1>8, <1>12 DEF Aside
<1>15. Moved(t, g, u, next, end, move)
  BY <1>3, <1>7, <1>12, <1>13, <1>14 DEF Moved
<1> QED
  BY <1>10, <1>11, <1>15

LEMMA GatherTurn ==
  ASSUME NEW d \in Seq(Byte), NEW z \in Nat, NEW from \in Nat, NEW n \in Nat, NEW k \in Nat,
         NEW r, Gathering(r, d, z, from, n, k)
  PROVE  Gathering(Gather(r, from, n), d, z, from, n, k + 1)
<1>1. PICK u \in Files : u = r.s
  BY DEF Gathering
<1>2. PICK f, got, na, first : f = r.f /\ got = r.got /\ na = r.na /\ first = r.first
  OBVIOUS
<1>3. /\ r = [s |-> u, f |-> f, got |-> got, na |-> na, first |-> first]
      /\ u.disk = d /\ u.sz = z /\ Reading(u) /\ Spread(u.stack)
      /\ Taking(d, from, n, f, got) /\ Aside(u.stack, f.addr, from + n)
      /\ first \in BOOLEAN
  BY <1>1, <1>2 DEF Gathering
<1>4. na \in Int /\ u.curr + na = from
  BY <1>1, <1>2 DEF Gathering
<1>5. ~first => u.pos = f.addr + f.nb
  BY <1>1, <1>2 DEF Gathering
<1>6. Len(got) = n \/ k = 0 \/ (from + Len(got) = f.addr /\ k =< Len(got) + 1)
  BY <1>1, <1>2 DEF Gathering
<1>7. BufSz \in Nat /\ BufSz > 0
  BY FileAssumption
<1>8. PICK a \in Nat, p \in Nat, g \in Nat, l \in Nat :
        /\ a = f.addr /\ p = f.nb /\ p =< BufSz /\ p > 0
        /\ g = Len(got) /\ l = Len(d) /\ g =< n /\ from + n =< l /\ a < from + n
        /\ a =< from + g /\ from + g =< a + p
  <2>1. f \in Frame /\ got \in Seq(Byte)
    BY <1>3 DEF Taking
  <2>2. PICK a \in Nat, p \in Nat : a = f.addr /\ p = f.nb /\ p =< BufSz /\ p > 0
    BY <2>1, <1>7 DEF Frame
  <2>3. PICK g \in Nat, l \in Nat : g = Len(got) /\ l = Len(d)
    BY <2>1
  <2> QED
    BY <2>2, <2>3, <1>3 DEF Taking
<1>9. PICK e : e = Min({from + n, a + BufSz})
  OBVIOUS
<1>10. PICK more : more = got \o SubSeq(f.bf, (from + Len(got)) - a + 1, e - a)
  OBVIOUS
<1>11. Portioned(d, from, n, f, got, e, more)
  BY <1>3, <1>8, <1>9, <1>10, Portion
<1>12. /\ more \in Seq(Byte) /\ Len(more) =< n /\ from + Len(more) = e
       /\ Len(more) >= Len(got) /\ e \in Nat /\ e =< a + p
       /\ \A i \in 1 .. Len(more) : more[i] = d[from + i]
       /\ Len(more) # n => e = a + BufSz /\ p = BufSz /\ e < from + n
  BY <1>8, <1>11 DEF Portioned
<1>13. PICK m \in Nat : m = Len(more) /\ m =< n /\ from + m = e /\ m >= g /\ e =< a + p
  BY <1>8, <1>12, SMTT(30)
<1>14. /\ Min({from + n, r.f.addr + BufSz}) = e
       /\ r.got \o SubSeq(r.f.bf, (from + Len(r.got)) - r.f.addr + 1, e - r.f.addr) = more
  BY <1>2, <1>8, <1>9, <1>10
<1>15. Gather(r, from, n) = CASE Len(r.got) = n -> r
                            [] Len(r.got) # n /\ Len(more) = n ->
                                 [r EXCEPT !.got = more, !.f = Used(r.f, e)]
                            [] OTHER -> Onward(r, more)
  BY <1>14 DEF Gather
<1>16. CASE g = n
  <2>1. Gather(r, from, n) = r
    BY <1>2, <1>8, <1>16 DEF Gather
  <2>2. Len(r.got) = n
    BY <1>2, <1>8, <1>16
  <2>3. Gathering(r, d, z, from, n, k + 1)
    BY <2>2 DEF Gathering
  <2> QED
    BY <2>1, <2>3
<1>17. CASE g # n /\ m = n
  <2>1. Max({p, e - a}) = p
    <3>1. e - a \in Int /\ e - a =< p
      BY <1>12, <1>13
    <3> QED
      BY <3>1, MaxTwo
  <2>2. Used(f, e) = f
    <3>1. f \in Frame
      BY <1>3 DEF Taking
    <3>2. [f EXCEPT !.nb = f.nb] = f
      BY <3>1 DEF Frame
    <3> QED
      BY <3>2, <2>1, <1>8 DEF Used
  <2>3. PICK q : q = [s |-> u, f |-> f, got |-> more, na |-> na, first |-> first]
    OBVIOUS
  <2>4. [r EXCEPT !.got = more, !.f = f] = q
    <3>1. PICK w : w = [r EXCEPT !.got = more]
      OBVIOUS
    <3>2. w = [s |-> u, f |-> f, got |-> more, na |-> na, first |-> first]
      BY <3>1, <1>3
    <3>3. [w EXCEPT !.f = f] = q
      BY <3>2, <2>3
    <3> QED
      BY <3>1, <3>3
  <2>5. Gather(r, from, n) = [r EXCEPT !.got = more, !.f = f]
    <3>1. Len(r.got) # n /\ Len(more) = n /\ Used(r.f, e) = f
      BY <2>2, <1>2, <1>8, <1>13, <1>17
    <3> QED
      BY <3>1, <1>15
  <2>6. q.s = u /\ q.f = f /\ q.got = more /\ q.na = na /\ q.first = first
        /\ q = [s |-> q.s, f |-> q.f, got |-> q.got, na |-> q.na, first |-> q.first]
    BY <2>3
  <2>7. Taking(d, from, n, f, more)
    <3>1. a =< from + m /\ from + m =< a + p
      BY <1>8, <1>13
    <3> QED
      BY <3>1, <1>3, <1>8, <1>12, <1>13 DEF Taking
  <2>8. Gathering(q, d, z, from, n, k + 1)
    BY <2>6, <2>7, <1>3, <1>4, <1>5, <1>13, <1>17 DEF Gathering
  <2> QED
    BY <2>4, <2>5, <2>8
<1>18. CASE g # n /\ m # n
  <2>1. e = a + BufSz /\ p = BufSz /\ e < from + n /\ e \in Nat
    BY <1>12, <1>13, <1>18
  <2>2. PICK move \in BOOLEAN : move = (f.addr # u.curr \/ first)
    OBVIOUS
  <2>3. PICK there : there = IF move THEN Seek(u, e, "SEEK_SET", TRUE) ELSE u
    OBVIOUS
  <2>4. PICK clear : clear = RemoveOverlap(there, e, "read")
    OBVIOUS
  <2>5. PICK t : t = OsReads(clear, BufSz)
    OBVIOUS
  <2>6. PICK h : h = Filled(clear, e)
    OBVIOUS
  <2>7. move \/ u.pos = e
    BY <2>1, <2>2, <1>5, <1>8
  <2>8. PICK end \in Nat : end = from + n
    OBVIOUS
  <2>9. e < end /\ end =< Len(u.disk) /\ Aside(u.stack, a, end)
    BY <2>1, <2>8, <1>3, <1>8
  <2>10. Moved(t, h, u, e, end, move)
    <3>1. Reading(u) /\ Spread(u.stack) /\ e = a + BufSz /\ e \in Nat
      BY <2>1, <1>3
    <3>2. Moved(OsReads(clear, BufSz), Filled(clear, e), u, e, end, move)
      BY <3>1, <2>3, <2>4, <2>7, <2>9, NextRead, ZenonT(30)
    <3> QED
      BY <3>2, <2>5, <2>6
  <2>11. /\ t \in Files /\ t.disk = u.disk /\ t.sz = u.sz
         /\ move => t.curr = e
         /\ ~move => t.curr = u.curr
         /\ Reading(t) /\ Spread(t.stack) /\ Aside(t.stack, e, end)
         /\ h \in Frame /\ Fresh(h, u.disk) /\ h.addr = e /\ t.pos = e + h.nb
    BY <2>10 DEF Moved
  <2>12. PICK nb \in Int : nb = IF move THEN na + u.curr - e ELSE na
    <3>1. u.curr \in Nat
      BY <1>1, FileFields
    <3> QED
      BY <3>1, <2>1, <1>4
  <2>13. f.kind = "read"
    BY <1>3 DEF Taking, Fresh
  <2>14. PICK q : q = [s |-> t, f |-> h, got |-> more, na |-> nb, first |-> FALSE]
    OBVIOUS
  <2>15. Gather(r, from, n) = q
    <3>1. Gather(r, from, n) = Onward(r, more)
      <4>1. Len(r.got) # n /\ Len(more) # n
        BY <1>2, <1>8, <1>13, <1>18
      <4> QED
        BY <4>1, <1>15
    <3>2. r.f.addr + BufSz = e
      BY <2>1, <1>2, <1>8
    <3>3. r.s = u /\ r.f = f /\ r.na = na /\ r.first = first
      BY <1>1, <1>2
    <3>4. Onward(r, more) = q
      BY <3>2, <3>3, <2>2, <2>3, <2>4, <2>5, <2>6, <2>12, <2>13, <2>14 DEF Onward
    <3> QED
      BY <3>1, <3>4
  <2>16. q.s = t /\ q.f = h /\ q.got = more /\ q.na = nb /\ q.first = FALSE
         /\ q = [s |-> q.s, f |-> q.f, got |-> q.got, na |-> q.na, first |-> q.first]
    BY <2>14
  <2>17. t.curr + nb = from
    <3>1. PICK x \in Nat : x = u.curr
      BY <1>1, FileFields
    <3>2. x + na = from
      BY <3>1, <1>4
    <3>3. CASE move
      <4>1. t.curr = e /\ nb = na + x - e
        BY <3>1, <3>3, <2>11, <2>12
      <4> QED
        BY <4>1, <3>2, <2>1, <1>4
    <3>4. CASE ~move
      BY <3>1, <3>2, <3>4, <2>11, <2>12
    <3> QED
      BY <3>3, <3>4
  <2>18. PICK y \in Nat : y = h.nb /\ y > 0
    BY <2>11, <1>7 DEF Frame
  <2>19. Taking(d, from, n, h, more)
    <3>1. e =< from + m /\ from + m =< e + y /\ e < from + n
      BY <2>1, <2>18, <1>13
    <3> QED
      BY <3>1, <2>11, <2>18, <1>3, <1>8, <1>12, <1>13 DEF Taking
  <2>20. from + m = e /\ k + 1 =< m + 1
    <3>1. CASE k = 0
      BY <3>1, <1>13
    <3>2. CASE k # 0
      <4>1. from + g = a /\ k =< g + 1
        BY <3>2, <1>6, <1>8, <1>18
      <4>2. m >= g + 1
        BY <4>1, <2>1, <1>7, <1>13
      <4> QED
        BY <4>1, <4>2, <1>13
    <3> QED
      BY <3>1, <3>2
  <2>21. Gathering(q, d, z, from, n, k + 1)
    BY <2>8, <2>11, <2>12, <2>16, <2>17, <2>19, <2>20, <1>3, <1>13 DEF Gathering
  <2> QED
    BY <2>15, <2>21
<1> QED
  BY <1>16, <1>17, <1>18

LEMMA GatherDone ==
  ASSUME NEW d \in Seq(Byte), NEW z \in Nat, NEW from \in Nat, NEW n \in Nat, NEW r,
         Gathering(r, d, z, from, n, 0)
  PROVE  /\ Gathering(GatherAll(r, from, n), d, z, from, n, n + 1)
         /\ Len(GatherAll(r, from, n).got) = n
<1>1. PICK b : Gathers(b, n + 1, r, from, n) /\ GatherAll(r, from, n) = b[n + 1]
  BY GatherAllDef
<1>2. b[0] = r /\ \A k \in 1 .. n + 1 : b[k] = Gather(b[k - 1], from, n)
  <2>1. b = [k \in 0 .. n + 1 |-> IF k = 0 THEN r ELSE Gather(b[k - 1], from, n)]
    BY <1>1 DEF Gathers
  <2>2. \A k \in 0 .. n + 1 : b[k] = IF k = 0 THEN r ELSE Gather(b[k - 1], from, n)
    BY <2>1
  <2> QED
    BY <2>2
<1> DEFINE Bad == {k \in Nat : k =< n + 1 /\ ~Gathering(b[k], d, z, from, n, k)}
<1>3. Bad = {}
  <2> SUFFICES ASSUME Bad # {} PROVE FALSE
    OBVIOUS
  <2>1. PICK m \in Bad : \A k \in Bad : m =< k
    BY Least
  <2>2. m \in Nat /\ m =< n + 1 /\ ~Gathering(b[m], d, z, from, n, m)
    OBVIOUS
  <2>3. m # 0
    BY <2>2, <1>2
  <2>4. PICK k \in Nat : k = m - 1 /\ k + 1 = m
    BY <2>2, <2>3
  <2>5. k \notin Bad /\ k =< n + 1 /\ m \in 1 .. n + 1
    BY <2>1, <2>2, <2>4
  <2>6. Gathering(b[k], d, z, from, n, k)
    BY <2>5
  <2>7. Gathering(Gather(b[k], from, n), d, z, from, n, k + 1)
    BY <2>6, GatherTurn
  <2> QED
    BY <2>2, <2>4, <2>5, <2>7, <1>2
<1>4. n + 1 \notin Bad
  BY <1>3
<1>5. PICK q : q = GatherAll(r, from, n)
  OBVIOUS
<1>6. Gathering(q, d, z, from, n, n + 1)
  BY <1>1, <1>4, <1>5
<1>7. Len(q.got) = n
  <2>1. q.got \in Seq(Byte) /\ Len(q.got) =< n
    BY <1>6 DEF Gathering, Taking
  <2>2. PICK g \in Nat : g = Len(q.got) /\ g =< n
    BY <2>1
  <2>3. g = n \/ n + 1 = 0 \/ n + 1 =< g + 1
    BY <2>2, <1>6 DEF Gathering
  <2> QED
    BY <2>2, <2>3
<1> QED
  BY <1>5, <1>6, <1>7

\* No frame begins within the request.
Gap(st, x, m) == \A f \in ToSet(st) : f.addr =< x \/ f.addr > x + m

\* Frames that lie apart give one candidate or none.
LEMMA Candidate ==
  ASSUME NEW s \in Files, Spread(s.stack), NEW x \in Nat, NEW m \in Nat, m > 0,
         Gap(s.stack, x, m), NEW is, is = Candidates(s, x, m), NEW i, i = Leftmost(s, is)
  PROVE  /\ is # {} => /\ i \in DOMAIN s.stack /\ s.stack[i].addr =< x
                       /\ x =< s.stack[i].addr + s.stack[i].nb
         /\ is = {} => \A f \in ToSet(s.stack) : f.addr > x + m \/ f.addr + f.nb < x
<1>1. PICK st \in Seq(Frame) : st = s.stack
  BY FileFields
<1>2. \A j \in DOMAIN st : st[j] \in ToSet(st)
  BY DEF ToSet
<1>3. \A j \in DOMAIN st : /\ st[j].addr \in Nat /\ st[j].nb \in Nat
                           /\ Span(st[j]) \in Nat /\ Span(st[j]) >= st[j].nb
  <2> TAKE j \in DOMAIN st
  <2>1. st[j].addr \in Nat /\ st[j].nb \in Nat /\ st[j].nb =< BufSz
    BY <1>2, FrameFields
  <2> QED
    BY <2>1, FileAssumption DEF Span
<1>4. is = {j \in DOMAIN st : st[j].addr < x + m /\ x =< st[j].addr + st[j].nb}
  BY <1>1 DEF Candidates
<1>5. \A j \in is : j \in DOMAIN st /\ st[j].addr =< x /\ x =< st[j].addr + st[j].nb
  <2> TAKE j \in is
  <2>1. j \in DOMAIN st /\ st[j].addr < x + m /\ x =< st[j].addr + st[j].nb
    BY <1>4
  <2>2. st[j].addr =< x \/ st[j].addr > x + m
    BY <2>1, <1>1, <1>2 DEF Gap
  <2>3. PICK y \in Nat : y = st[j].addr
    BY <2>1, <1>3
  <2> QED
    BY <2>1, <2>2, <2>3
<1>6. \A j \in is, k \in is : j = k
  <2> SUFFICES ASSUME NEW j \in is, NEW k \in is, j # k PROVE FALSE
    OBVIOUS
  <2>1. PICK a \in Nat, b \in Nat, p \in Nat, q \in Nat :
          /\ a = st[j].addr /\ b = st[k].addr /\ p = Span(st[j]) /\ q = Span(st[k])
          /\ a =< x /\ b =< x /\ x =< a + p /\ x =< b + q
    <3>1. PICK a \in Nat, b \in Nat : a = st[j].addr /\ b = st[k].addr /\ a =< x /\ b =< x
      BY <1>3, <1>5
    <3>2. PICK p \in Nat, q \in Nat : p = Span(st[j]) /\ q = Span(st[k])
      BY <1>3, <1>5
    <3>3. PICK u \in Nat, v \in Nat : u = st[j].nb /\ v = st[k].nb /\ p >= u /\ q >= v
      BY <3>2, <1>3, <1>5
    <3>4. x =< a + u /\ x =< b + v
      BY <3>1, <3>3, <1>5
    <3>5. x =< a + p /\ x =< b + q
      <4>1. p >= u /\ q >= v
        BY <3>3
      <4>2. a + p >= a + u /\ b + q >= b + v
        BY <4>1
      <4> QED
        BY <3>4, <4>2
    <3> QED
      BY <3>1, <3>2, <3>5
  <2>2. Apart(st[j], st[k])
    BY <1>1, <1>5 DEF Spread
  <2>3. a + p < b \/ b + q < a
    BY <2>1, <2>2 DEF Apart
  <2>4. a =< x /\ b =< x /\ x =< a + p /\ x =< b + q
    BY <2>1
  <2> QED
    BY <2>3, <2>4
<1>7. ASSUME is # {} PROVE i \in is
  <2>1. PICK k \in is : TRUE
    BY <1>7
  <2>2. \A j \in is : /\ s.stack[k].addr <= s.stack[j].addr
                      /\ s.stack[k].addr = s.stack[j].addr => k <= j
    <3>1. k \in DOMAIN st
      BY <1>5
    <3>2. k \in Nat /\ st[k].addr \in Nat
      BY <3>1, <1>3, LenProperties
    <3>3. k <= k /\ st[k].addr <= st[k].addr
      BY <3>2
    <3> QED
      BY <3>3, <1>1, <1>6
  <2> QED
    BY <2>1, <2>2 DEF Leftmost
<1>8. ASSUME is = {}, NEW f \in ToSet(st) PROVE f.addr > x + m \/ f.addr + f.nb < x
  <2>1. PICK j \in DOMAIN st : f = st[j]
    BY DEF ToSet
  <2>2. PICK a \in Nat, p \in Nat : a = f.addr /\ p = f.nb
    BY <2>1, <1>3
  <2>3. ~(a < x + m /\ x =< a + p)
    BY <2>1, <2>2, <1>4, <1>8
  <2>4. a =< x \/ a > x + m
    BY <2>2, <1>1 DEF Gap
  <2> QED
    BY <2>2, <2>3, <2>4
<1> QED
  BY <1>1, <1>5, <1>7, <1>8

LEMMA InHandRead ==
  ASSUME NEW t \in Files, Reading(t), Spread(t.stack), NEW m \in Nat, m > 0,
         t.curr + m =< Len(t.disk), Gap(t.stack, t.curr, m), ReadPlace(t)
  PROVE  Gathering(InHand(t, Candidates(t, t.curr, m)), t.disk, t.sz, t.curr, m, 0)
<1>1. BufSz \in Nat /\ BufSz > 0
  BY FileAssumption
<1>2. PICK x \in Nat, l \in Nat : x = t.curr /\ l = Len(t.disk) /\ x + m =< l
  BY FileFields
<1>3. PICK is : is = Candidates(t, x, m)
  OBVIOUS
<1>4. PICK i : i = Leftmost(t, is)
  OBVIOUS
<1>5. /\ is # {} => /\ i \in DOMAIN t.stack /\ t.stack[i].addr =< x
                    /\ x =< t.stack[i].addr + t.stack[i].nb
      /\ is = {} => \A f \in ToSet(t.stack) : f.addr > x + m \/ f.addr + f.nb < x
  BY <1>2, <1>3, <1>4, Candidate
<1>6. <<>> \in Seq(Byte) /\ Len(<<>>) = 0
  OBVIOUS
<1>7. CASE is # {}
  <2>1. PICK f : f = t.stack[i]
    OBVIOUS
  <2>2. i \in DOMAIN t.stack /\ f \in ToSet(t.stack)
    BY <2>1, <1>5, <1>7 DEF ToSet
  <2>3. f \in Frame /\ Fresh(f, t.disk) /\ Span(f) = BufSz
    BY <2>2, ReadFields
  <2>4. PICK a \in Nat, p \in Nat : a = f.addr /\ p = f.nb /\ a =< x /\ x =< a + p /\ p =< BufSz
    <3>1. f.addr \in Nat /\ f.nb \in Nat /\ f.nb =< BufSz
      BY <2>2, ReadFields
    <3> QED
      BY <3>1, <2>1, <1>5, <1>7
  <2>5. PICK st \in Seq(Frame) : st = RemoveAt(t.stack, i)
    BY <2>2, FileFields, Removal
  <2>6. PICK u : u = [t EXCEPT !.stack = st]
    OBVIOUS
  <2>7. /\ u \in Files /\ u.stack = st
        /\ u.disk = t.disk /\ u.pos = t.pos /\ u.sz = t.sz /\ u.curr = t.curr
    BY <2>6 DEF Files
  <2>8. Pull(t, i) = u
    BY <2>5, <2>6 DEF Pull
  <2>9. /\ ToSet(st) \subseteq ToSet(t.stack) /\ Spread(st)
        /\ \A g \in ToSet(st) : Apart(g, f)
    BY <2>1, <2>2, <2>5, FileFields, Taken
  <2>10. Reading(u)
    BY <2>7, <2>9 DEF Reading
  <2>11. Aside(st, a, x + m)
    <3>1. ASSUME NEW g \in ToSet(st) PROVE g.addr > x + m \/ g.addr + BufSz < a
      <4>1. PICK b \in Nat : b = g.addr
        BY <2>9, ReadFields
      <4>2. Span(g) = BufSz
        BY <2>9, ReadFields
      <4>3. b + BufSz < a \/ a + BufSz < b
        BY <4>1, <4>2, <2>3, <2>4, <2>9 DEF Apart
      <4>4. b =< x \/ b > x + m
        BY <4>1, <2>9, <1>2 DEF Gap
      <4> QED
        BY <4>1, <4>3, <4>4, <2>4, <1>1, SMTT(30)
    <3> QED
      BY <3>1 DEF Aside
  <2>12. PICK r : r = [s |-> u, f |-> f, got |-> <<>>, na |-> 0, first |-> TRUE]
    OBVIOUS
  <2>13. InHand(t, is) = r
    BY <2>1, <2>8, <2>12, <1>4, <1>7 DEF InHand
  <2>14. Taking(t.disk, x, m, f, <<>>)
    <3>1. a =< x + 0 /\ x + 0 =< a + p /\ a < x + m
      BY <2>4
    <3> QED
      BY <3>1, <2>3, <2>4, <1>2, <1>6 DEF Taking
  <2>15. Gathering(r, t.disk, t.sz, x, m, 0)
    <3>1. u.curr + 0 = x
      BY <2>7, <1>2
    <3>2. /\ r.s = u /\ r.f = f /\ r.got = <<>> /\ r.na = 0 /\ r.first
          /\ r.first \in BOOLEAN
          /\ r = [s |-> r.s, f |-> r.f, got |-> r.got, na |-> r.na, first |-> r.first]
      BY <2>12
    <3>3. /\ r.s \in Files /\ r.s.disk = t.disk /\ r.s.sz = t.sz /\ Reading(r.s) /\ Spread(r.s.stack)
          /\ Taking(t.disk, x, m, r.f, r.got) /\ Aside(r.s.stack, r.f.addr, x + m)
      BY <3>2, <2>4, <2>7, <2>9, <2>10, <2>11, <2>14
    <3>4. r.na \in Int /\ r.s.curr + r.na = x
      BY <3>1, <3>2
    <3> QED
      BY <3>2, <3>3, <3>4 DEF Gathering
  <2> QED
    BY <2>13, <2>15, <1>2, <1>3
<1>8. CASE is = {}
  <2>1. t.pos = x
    BY <1>2, <1>5, <1>8, FileFields, ReadFields DEF ReadPlace
  <2>2. PICK u : u = OsReads(t, BufSz)
    OBVIOUS
  <2>3. PICK f : f = Filled(t, x)
    OBVIOUS
  <2>4. /\ f \in Frame /\ f.addr = x /\ Fresh(f, t.disk)
        /\ u \in Files /\ u.disk = t.disk /\ u.sz = t.sz /\ u.curr = t.curr
        /\ u.stack = t.stack
    <3>1. x < Len(t.disk)
      BY <1>2
    <3> QED
      BY <3>1, <2>1, <2>2, <2>3, FillFrame
  <2>5. PICK p \in Nat : p = f.nb /\ p > 0
    BY <2>4, <1>1 DEF Frame
  <2>6. Aside(t.stack, x, x + m)
    <3>1. ASSUME NEW g \in ToSet(t.stack) PROVE g.addr > x + m \/ g.addr + BufSz < x
      <4>1. PICK b \in Nat, q \in Nat : /\ b = g.addr /\ q = g.nb /\ q =< BufSz
                                        /\ q < BufSz => b + q = l
        BY <1>2, ReadFields
      <4>2. b > x + m \/ b + q < x
        BY <4>1, <1>5, <1>8
      <4>3. b + q < x => q = BufSz
        BY <4>1, <1>1, <1>2, SMTT(30)
      <4> QED
        BY <4>1, <4>2, <4>3
    <3> QED
      BY <3>1 DEF Aside
  <2>7. PICK r : r = [s |-> u, f |-> f, got |-> <<>>, na |-> 0, first |-> TRUE]
    OBVIOUS
  <2>8. InHand(t, is) = r
    BY <2>2, <2>3, <2>7, <1>2, <1>8 DEF InHand
  <2>9. Taking(t.disk, x, m, f, <<>>)
    <3>1. x =< x + 0 /\ x + 0 =< x + p /\ x < x + m
      BY <2>5
    <3> QED
      BY <3>1, <2>4, <2>5, <1>2, <1>6 DEF Taking
  <2>10. Gathering(r, t.disk, t.sz, x, m, 0)
    <3>1. u.curr + 0 = x
      BY <2>4, <1>2
    <3>2. /\ r.s = u /\ r.f = f /\ r.got = <<>> /\ r.na = 0 /\ r.first
          /\ r.first \in BOOLEAN
          /\ r = [s |-> r.s, f |-> r.f, got |-> r.got, na |-> r.na, first |-> r.first]
      BY <2>7
    <3>3. Reading(u)
      BY <2>4 DEF Reading
    <3>4. /\ r.s \in Files /\ r.s.disk = t.disk /\ r.s.sz = t.sz /\ Reading(r.s) /\ Spread(r.s.stack)
          /\ Taking(t.disk, x, m, r.f, r.got) /\ Aside(r.s.stack, r.f.addr, x + m)
      BY <3>2, <3>3, <2>4, <2>6, <2>9
    <3>5. r.na \in Int /\ r.s.curr + r.na = x
      BY <3>1, <3>2
    <3> QED
      BY <3>2, <3>4, <3>5 DEF Gathering
  <2> QED
    BY <2>8, <2>10, <1>2, <1>3
<1> QED
  BY <1>7, <1>8

\* m bytes have been read, and the caller stands behind them.
HasRead(g, s, m) ==
  /\ g.s \in Files /\ g.s.disk = s.disk /\ g.s.sz = s.sz /\ g.s.curr = s.curr + m
  /\ Reading(g.s) /\ Spread(g.s.stack)
  /\ \E f \in ToSet(g.s.stack) : Covers(f, s.curr + m)
  /\ g.bytes \in Seq(Byte) /\ Len(g.bytes) = m
  /\ \A i \in 1 .. m : g.bytes[i] = s.disk[s.curr + i]

LEMMA GatheredRead ==
  ASSUME NEW s \in Files, NEW m \in Nat, NEW k \in Nat, s.curr + m =< s.sz,
         NEW r, Gathering(r, s.disk, s.sz, s.curr, m, k), Len(r.got) = m
  PROVE  HasRead(Gathered(r), s, m)
<1>1. BufSz \in Nat /\ BufSz > 0
  BY FileAssumption
<1>2. PICK x \in Nat, z \in Nat : x = s.curr /\ z = s.sz /\ x + m =< z
  BY FileFields
<1>3. PICK u \in Files : u = r.s
  BY DEF Gathering
<1>4. PICK f \in Frame : f = r.f /\ Fresh(f, s.disk) /\ Span(f) = BufSz /\ f.kind = "read"
  BY DEF Gathering, Taking, Fresh, Span
<1>5. /\ u.disk = s.disk /\ u.sz = z /\ Reading(u) /\ Spread(u.stack)
      /\ r.na \in Int /\ u.curr + r.na = x
  BY <1>2, <1>3 DEF Gathering
<1>6. /\ r.got \in Seq(Byte) /\ \A i \in 1 .. m : r.got[i] = s.disk[x + i]
  BY <1>2 DEF Gathering, Taking
<1>7. PICK a \in Nat, p \in Nat : a = f.addr /\ p = f.nb /\ a < x + m /\ x + m =< a + p
  <2>1. PICK a \in Nat, p \in Nat : a = f.addr /\ p = f.nb
    BY <1>1 DEF Frame
  <2> QED
    BY <2>1, <1>2, <1>4 DEF Gathering, Taking
<1>8. PICK those : those = {g \in ToSet(u.stack) : g.addr <= a + BufSz /\ a <= g.addr + BufSz}
  OBVIOUS
<1>9. PICK t : t = RemoveAll(u, those, TRUE, TRUE)
  OBVIOUS
<1>10. RemoveOverlap(r.s, r.f.addr, r.f.kind) = t
  BY <1>3, <1>4, <1>7, <1>8, <1>9 DEF RemoveOverlap
<1>11. /\ t \in Files /\ ToSet(t.stack) = {g \in ToSet(u.stack) : g \notin those}
       /\ Unmoved(t, u) /\ Spread(t.stack) /\ Reading(t)
  BY <1>5, <1>9, ReadRemoved
<1>12. \A g \in ToSet(t.stack) : Apart(g, f)
  <2> TAKE g \in ToSet(t.stack)
  <2>1. PICK b \in Nat : b = g.addr
    BY <1>11, ReadFields
  <2>2. Span(g) = BufSz
    BY <1>11, ReadFields
  <2>3. g \in ToSet(u.stack) /\ g \notin those
    BY <1>11
  <2>4. ~(b <= a + BufSz /\ a <= b + BufSz)
    BY <2>1, <2>3, <1>8
  <2>5. b + BufSz < a \/ a + BufSz < b
    BY <2>1, <2>4, <1>1
  <2> QED
    BY <2>1, <2>2, <2>5, <1>4, <1>7 DEF Apart
<1>13. PICK st \in Seq(Frame) : st = Append(t.stack, f)
  <2>1. t.stack \in Seq(Frame)
    BY <1>11, FileFields
  <2> QED
    BY <2>1, SeqAppend
<1>14. Spread(st) /\ ToSet(st) = ToSet(t.stack) \cup {f}
  BY <1>11, <1>12, <1>13, FileFields, Added, SeqAppend
<1>15. PICK v : v = [t EXCEPT !.stack = st]
  OBVIOUS
<1>16. /\ v \in Files /\ v.stack = st
       /\ v.disk = t.disk /\ v.pos = t.pos /\ v.sz = t.sz /\ v.curr = t.curr
  BY <1>11, <1>15 DEF Files
<1>17. Push(RemoveOverlap(r.s, r.f.addr, r.f.kind), r.f) = v
  BY <1>4, <1>10, <1>13, <1>15 DEF Push
<1>18. PICK e \in Nat : e = x + m
  OBVIOUS
<1>19. v.curr + r.na + Len(r.got) = e
  BY <1>5, <1>11, <1>16, <1>18 DEF Unmoved
<1>20. PICK w : w = SetAddr(v, e)
  OBVIOUS
<1>21. /\ w \in Files /\ w.curr = e /\ w.sz = z
       /\ w.disk = v.disk /\ w.pos = v.pos /\ w.stack = v.stack
  <2>1. /\ w \in Files /\ w.curr = e /\ w.sz >= e /\ w.sz >= v.sz
        /\ w.sz = e \/ w.sz = v.sz
        /\ w.disk = v.disk /\ w.pos = v.pos /\ w.stack = v.stack
    BY <1>16, <1>20, Addressed
  <2>2. v.sz = z /\ e =< z
    BY <1>2, <1>5, <1>11, <1>16, <1>18 DEF Unmoved
  <2>3. PICK y \in Nat : y = w.sz
    BY <2>1, FileFields
  <2>4. y >= z /\ y =< z
    BY <2>1, <2>2, <2>3
  <2> QED
    BY <2>1, <2>3, <2>4
<1>22. Gathered(r) = [s |-> w, bytes |-> r.got]
  BY <1>17, <1>19, <1>20 DEF Gathered
<1>23. Reading(w)
  BY <1>4, <1>5, <1>11, <1>14, <1>16, <1>21 DEF Reading, Unmoved
<1>24. Covers(f, e) /\ f \in ToSet(w.stack)
  BY <1>7, <1>14, <1>16, <1>18, <1>21 DEF Covers
<1>25. w.disk = s.disk
  BY <1>5, <1>11, <1>16, <1>21 DEF Unmoved
<1>26. PICK g : g = [s |-> w, bytes |-> r.got]
  OBVIOUS
<1>27. g.s = w /\ g.bytes = r.got
  BY <1>26
<1>28. HasRead(g, s, m)
  BY <1>2, <1>6, <1>14, <1>16, <1>18, <1>21, <1>23, <1>24, <1>25, <1>27 DEF HasRead
<1> QED
  BY <1>22, <1>26, <1>28

LEMMA BufferedRead ==
  ASSUME NEW s \in Files, Reading(s), Spread(s.stack), ReadPlace(s), s.sz = Len(s.disk),
         NEW n \in Nat, n > 0, s.curr < s.sz
  PROVE  \E m \in Nat : /\ m = Min({n, s.sz - s.curr}) /\ m > 0
                        /\ HasRead(BufferedIn(s, n), s, m)
<1>1. PICK x \in Nat, z \in Nat : x = s.curr /\ z = s.sz /\ x < z
  BY FileFields
<1>2. PICK m \in Nat : m = Min({n, z - x}) /\ m > 0 /\ x + m =< z
  <2>1. z - x \in Nat /\ z - x > 0
    BY <1>1
  <2>2. PICK y \in Nat : y = z - x /\ y > 0 /\ x + y = z
    BY <2>1, <1>1
  <2>3. PICK m \in Nat : m = Min({n, y}) /\ m =< y /\ m > 0
    BY <2>2, MinTwo
  <2>4. x + m =< z
    BY <2>2, <2>3
  <2> QED
    BY <2>2, <2>3, <2>4
<1>3. PICK those : those = {f \in ToSet(s.stack) : x < f.addr /\ f.addr <= x + m}
  OBVIOUS
<1>4. PICK t : t = RemoveAll(s, those, TRUE, TRUE)
  OBVIOUS
<1>5. Cleared(s, x, m) = t
  BY <1>3, <1>4 DEF Cleared
<1>6. /\ t \in Files /\ ToSet(t.stack) = {f \in ToSet(s.stack) : f \notin those}
      /\ Unmoved(t, s) /\ Spread(t.stack) /\ Reading(t)
  BY <1>4, ReadRemoved
<1>7. t.curr = x /\ t.sz = z /\ t.disk = s.disk
  BY <1>1, <1>6 DEF Unmoved
<1>8. Gap(t.stack, x, m)
  <2>1. ASSUME NEW f \in ToSet(t.stack) PROVE f.addr =< x \/ f.addr > x + m
    <3>1. PICK a \in Nat : a = f.addr
      BY <1>6, ReadFields
    <3>2. ~(x < a /\ a <= x + m)
      BY <3>1, <1>3, <1>6
    <3> QED
      BY <3>1, <3>2
  <2> QED
    BY <2>1 DEF Gap
<1>9. ReadPlace(t)
  <2>1. CASE s.pos = s.curr
    BY <2>1, <1>6 DEF ReadPlace, Unmoved
  <2>2. CASE s.pos # s.curr
    <3>1. PICK f \in ToSet(s.stack) : f.addr =< x /\ x =< f.addr + f.nb
      BY <2>2, <1>1 DEF ReadPlace
    <3>2. PICK a \in Nat : a = f.addr /\ a =< x
      BY <3>1, ReadFields
    <3>3. f \notin those
      BY <3>2, <1>3
    <3> QED
      BY <3>1, <3>3, <1>6, <1>7 DEF ReadPlace
  <2> QED
    BY <2>1, <2>2
<1>10. PICK r : r = InHand(t, Candidates(t, x, m))
  OBVIOUS
<1>11. Gathering(r, s.disk, s.sz, x, m, 0)
  <2>1. t.curr + m =< Len(t.disk)
    BY <1>1, <1>2, <1>7
  <2>2. Gathering(InHand(t, Candidates(t, t.curr, m)), t.disk, t.sz, t.curr, m, 0)
    BY <2>1, <1>2, <1>6, <1>7, <1>8, <1>9, InHandRead
  <2> QED
    BY <2>2, <1>1, <1>7, <1>10
<1>12. PICK q : q = GatherAll(r, x, m)
  OBVIOUS
<1>13. Gathering(q, s.disk, s.sz, x, m, m + 1) /\ Len(q.got) = m
  <2>1. s.disk \in Seq(Byte) /\ s.sz \in Nat
    BY FileFields
  <2> QED
    BY <2>1, <1>11, <1>12, GatherDone
<1>14. HasRead(Gathered(q), s, m)
  BY <1>1, <1>2, <1>13, GatheredRead
<1>15. BufferedIn(s, n) = Gathered(q)
  BY <1>1, <1>2, <1>5, <1>10, <1>12 DEF BufferedIn
<1> QED
  BY <1>1, <1>2, <1>14, <1>15

\* What fread leaves behind and returns.
Returned(g, s, n) ==
  /\ g.s \in Files /\ g.s.disk = s.disk /\ g.s.stack \in Seq(Frame) /\ Spread(g.s.stack)
  /\ g.bytes = SubSeq(s.disk, s.curr + 1, Min({s.curr + n, Len(s.disk)}))
  /\ g.bytes \in Seq(Byte)
  /\ g.s.curr = s.curr + Len(g.bytes)
  /\ Reading(g.s)

LEMMA BufferedReturns ==
  ASSUME NEW s \in Files, Reading(s), Spread(s.stack), ReadPlace(s), s.sz = Len(s.disk),
         NEW n \in Nat, n > 0, NEW g,
         g = IF s.curr >= s.sz THEN [s |-> s, bytes |-> <<>>] ELSE BufferedIn(s, n)
  PROVE  /\ Returned(g, s, n) /\ g.s.sz = s.sz /\ ReadPlace(g.s)
         /\ g.bytes # <<>> => \E f \in ToSet(g.s.stack) : Covers(f, g.s.curr)
<1>1. PICK x \in Nat, z \in Nat, l \in Nat : x = s.curr /\ z = s.sz /\ l = Len(s.disk) /\ z = l
  BY FileFields
<1>2. PICK d \in Seq(Byte) : d = s.disk
  BY FileFields
<1>3. PICK e \in Nat : e = Min({x + n, l}) /\ e =< l /\ e =< x + n /\ (e = l \/ e = x + n)
  BY <1>1, MinTwo
<1>4. CASE x >= z
  <2>1. g = [s |-> s, bytes |-> <<>>]
    BY <1>1, <1>4
  <2>2. g.s = s /\ g.bytes = <<>>
    BY <2>1
  <2>3. SubSeq(d, x + 1, e) = <<>>
    <3>1. e < x + 1 /\ x + 1 \in Int /\ e \in Int
      BY <1>1, <1>3, <1>4
    <3> QED
      BY <3>1, SubSeqEmpty
  <2>4. s.stack \in Seq(Frame) /\ <<>> \in Seq(Byte) /\ x = x + Len(<<>>)
    BY FileFields
  <2>5. Returned(g, s, n)
    BY <2>2, <2>3, <2>4, <1>1, <1>2, <1>3 DEF Returned
  <2> QED
    BY <2>2, <2>5
<1>5. CASE x < z
  <2>1. g = BufferedIn(s, n)
    BY <1>1, <1>5
  <2>2. PICK m \in Nat : /\ m = Min({n, s.sz - s.curr}) /\ m > 0
                         /\ HasRead(BufferedIn(s, n), s, m)
    BY <1>1, <1>5, BufferedRead
  <2>3. HasRead(g, s, m)
    BY <2>1, <2>2
  <2>4. PICK y \in Nat : y = z - x /\ x + y = z
    BY <1>1, <1>5
  <2>5. m = Min({n, y})
    BY <2>2, <2>4, <1>1
  <2>6. m =< n /\ m =< y /\ (m = n \/ m = y)
    BY <2>5, MinTwo
  <2>7. e = x + m
    <3>1. l = x + y
      BY <2>4, <1>1
    <3>2. e =< l /\ e =< x + n /\ (e = l \/ e = x + n)
      BY <1>3
    <3>3. e >= x + m
      BY <2>6, <3>1, <3>2
    <3>4. e =< x + m
      BY <2>6, <3>1, <3>2
    <3> QED
      BY <3>3, <3>4
  <2>8. PICK b \in Seq(Byte) : b = g.bytes /\ Len(b) = m /\ \A i \in 1 .. m : b[i] = d[x + i]
    BY <2>3, <1>1, <1>2 DEF HasRead
  <2>9. PICK t : t = SubSeq(d, x + 1, e)
    OBVIOUS
  <2>10. t \in Seq(Byte) /\ Len(t) = m /\ \A i \in 1 .. m : t[i] = d[x + i]
    <3>1. e =< Len(d)
      BY <1>1, <1>2, <1>3
    <3>2. /\ t \in Seq(Byte) /\ Len(t) = (IF x =< e THEN e - x ELSE 0)
          /\ \A i \in 1 .. Len(t) : t[i] = d[x + i]
      BY <3>1, <2>9, Stretch
    <3>3. x =< e /\ e - x = m
      BY <2>7
    <3> QED
      BY <3>2, <3>3
  <2>11. b = t
    <3>1. Len(b) = Len(t) /\ \A i \in 1 .. Len(b) : b[i] = t[i]
      BY <2>8, <2>10
    <3> QED
      BY <3>1, <2>10, SameSeq
  <2>12. g.s \in Files /\ g.s.stack \in Seq(Frame) /\ g.s.curr = x + m
    BY <2>3, <1>1, FileFields DEF HasRead
  <2>13. Returned(g, s, n)
    BY <2>3, <2>8, <2>9, <2>11, <2>12, <1>1, <1>2, <1>3 DEF Returned, HasRead
  <2>14. PICK f \in ToSet(g.s.stack) : Covers(f, x + m)
    BY <2>3, <1>1 DEF HasRead
  <2>15. ReadPlace(g.s)
    <3>1. f.addr \in Nat /\ f.nb \in Nat
      BY <2>12, FrameFields
    <3>2. f.addr =< x + m /\ x + m =< f.addr + f.nb
      BY <3>1, <2>14 DEF Covers
    <3> QED
      BY <3>2, <2>12 DEF ReadPlace
  <2> QED
    BY <2>3, <2>12, <2>13, <2>14, <2>15 DEF HasRead
<1> QED
  BY <1>1, <1>4, <1>5

\* Without buffers the descriptor is read.
LEMMA PlainReturns ==
  ASSUME NEW s \in Files, s.stack = <<>>, s.pos = s.curr, NEW n \in Nat,
         NEW g, g = [s |-> SetAddr(OsReads(s, n), s.curr + Len(OsRead(s, n))), bytes |-> OsRead(s, n)]
  PROVE  Returned(g, s, n) /\ g.s.pos = g.s.curr /\ g.s.stack = <<>>
<1>1. PICK x \in Nat, l \in Nat : x = s.curr /\ l = Len(s.disk)
  BY FileFields
<1>2. PICK d \in Seq(Byte) : d = s.disk
  BY FileFields
<1>3. PICK b : b = OsRead(s, n)
  OBVIOUS
<1>4. PICK t : t = OsReads(s, n)
  OBVIOUS
<1>5. /\ b \in Seq(Byte)
      /\ t \in Files /\ t.pos = s.pos + Len(b)
      /\ t.disk = s.disk /\ t.sz = s.sz /\ t.curr = s.curr /\ t.stack = s.stack
  BY <1>3, <1>4, ReadIn
<1>6. PICK e \in Nat : e = x + Len(b)
  BY <1>5
<1>7. PICK w : w = SetAddr(t, e)
  OBVIOUS
<1>8. w \in Files /\ w.curr = e /\ w.disk = t.disk /\ w.pos = t.pos /\ w.stack = t.stack
  BY <1>5, <1>7, Addressed
<1>9. g = [s |-> w, bytes |-> b]
  BY <1>1, <1>3, <1>4, <1>6, <1>7
<1>10. g.s = w /\ g.bytes = b
  BY <1>9
<1>11. b = SubSeq(s.disk, s.curr + 1, Min({s.curr + n, Len(s.disk)}))
  BY <1>3 DEF OsRead
<1>12. Spread(<<>>) /\ <<>> \in Seq(Frame) /\ ToSet(<<>>) = {}
  BY DEF Spread, ToSet
<1>13. Reading(w)
  BY <1>5, <1>8, <1>12 DEF Reading
<1>14. Returned(g, s, n)
  BY <1>1, <1>5, <1>6, <1>8, <1>10, <1>11, <1>12, <1>13 DEF Returned
<1> QED
  BY <1>1, <1>5, <1>6, <1>8, <1>10, <1>14
-----------------------------------------------------------------------------
(* Bytes put into frames.                                                  *)

Scatters(d, m, r, from, bytes) ==
  d = [k \in 0 .. m |-> IF k = 0 THEN r ELSE Scatter(d[k - 1], from, bytes)]

LEMMA ScattersExist ==
  ASSUME NEW r, NEW from, NEW bytes, NEW l \in Nat
  PROVE  \E d : Scatters(d, l, r, from, bytes)
<1> DEFINE Bad == {k \in Nat : ~\E d : Scatters(d, k, r, from, bytes)}
<1> SUFFICES ASSUME Bad # {} PROVE FALSE
  OBVIOUS
<1>1. PICK m \in Bad : \A k \in Bad : m =< k
  BY Least
<1>2. m \in Nat /\ ~\E d : Scatters(d, m, r, from, bytes)
  OBVIOUS
<1>3. CASE m = 0
  <2>1. Scatters([k \in 0 .. 0 |-> r], 0, r, from, bytes)
    BY DEF Scatters
  <2> QED
    BY <2>1, <1>2, <1>3
<1>4. CASE m # 0
  <2>1. m - 1 \in Nat /\ m - 1 \notin Bad
    BY <1>1, <1>2, <1>4
  <2>2. PICK d : Scatters(d, m - 1, r, from, bytes)
    BY <2>1
  <2>3. PICK e : e = [j \in 0 .. m |-> IF j = 0 THEN r ELSE Scatter(d[j - 1], from, bytes)]
    OBVIOUS
  <2>4. \A k \in 0 .. m - 1 : d[k] = IF k = 0 THEN r ELSE Scatter(d[k - 1], from, bytes)
    BY <2>2 DEF Scatters
  <2>5. \A k \in 0 .. m : e[k] = IF k = 0 THEN r ELSE Scatter(d[k - 1], from, bytes)
    BY <2>3
  <2>6. e = [k \in 0 .. m |-> e[k]]
    BY <2>3
  <2>7. \A k \in 0 .. m : e[k] = IF k = 0 THEN r ELSE Scatter(e[k - 1], from, bytes)
    <3> TAKE k \in 0 .. m
    <3>1. k # 0 => k - 1 \in 0 .. m - 1 /\ k - 1 \in 0 .. m
      BY <1>2
    <3>2. k # 0 => e[k - 1] = d[k - 1]
      BY <3>1, <2>4, <2>5
    <3> QED
      BY <3>2, <2>5
  <2>8. e = [k \in 0 .. m |-> IF k = 0 THEN r ELSE Scatter(e[k - 1], from, bytes)]
    BY <2>6, <2>7
  <2>9. Scatters(e, m, r, from, bytes)
    BY <2>8 DEF Scatters
  <2> QED
    BY <2>9, <1>2
<1> QED
  BY <1>3, <1>4

LEMMA ScatterAllDef ==
  ASSUME NEW r, NEW from, NEW bytes, NEW l \in Nat, l = Len(bytes)
  PROVE  \E d : Scatters(d, l + 1, r, from, bytes) /\ ScatterAll(r, from, bytes) = d[l + 1]
<1>1. \E d : Scatters(d, l + 1, r, from, bytes)
  <2>1. PICK m \in Nat : m = l + 1
    OBVIOUS
  <2>2. \E d : Scatters(d, m, r, from, bytes)
    BY <2>1, ScattersExist
  <2> QED
    BY <2>1, <2>2
<1>2. Scatters(CHOOSE d : Scatters(d, l + 1, r, from, bytes), l + 1, r, from, bytes)
  BY <1>1
<1>3. ScatterAll(r, from, bytes) = (CHOOSE d : Scatters(d, l + 1, r, from, bytes))[l + 1]
  BY DEF ScatterAll, Scatters
<1> QED
  BY <1>2, <1>3

\* What the file will be with the first n of the bytes written from from on.
Laidout(c, from, bytes, n) == IF n = 0 THEN c ELSE Over(c, from, SubSeq(bytes, 1, n))

LEMMA OverIs ==
  ASSUME NEW b \in Seq(Byte), NEW at \in Nat, NEW new \in Seq(Byte),
         NEW l \in Nat, l = Len(b), NEW m \in Nat, m = Len(new)
  PROVE  \E o \in Seq(Byte) :
           /\ o = Over(b, at, new)
           /\ Len(o) = IF l >= at + m THEN l ELSE at + m
           /\ \A i \in 1 .. Len(o) : o[i] = IF at < i /\ i =< at + m THEN new[i - at]
                                            ELSE IF i =< l THEN b[i] ELSE 0
BY OverFacts

\* The next m bytes laid over it.
Goeson(c, from, bytes, n, m) ==
  Over(Laidout(c, from, bytes, n), from + n, SubSeq(bytes, n + 1, n + m))
    = Laidout(c, from, bytes, n + m)

LEMMA Laidon ==
  ASSUME NEW c \in Seq(Byte), NEW from \in Nat, NEW bytes \in Seq(Byte),
         NEW n \in Nat, NEW m \in Nat, m > 0, n + m =< Len(bytes)
  PROVE  Laidout(c, from, bytes, n) \in Seq(Byte) /\ Goeson(c, from, bytes, n, m)
<1>1. PICK a \in Seq(Byte) : a = SubSeq(bytes, 1, n) /\ Len(a) = n /\ \A i \in 1 .. n : a[i] = bytes[i]
  <2>1. n =< Len(bytes)
    OBVIOUS
  <2>2. PICK t : t = SubSeq(bytes, 1, n)
    OBVIOUS
  <2>3. Len(bytes) \in Nat /\ n \in Nat
    OBVIOUS
  <2>4. t \in Seq(Byte) /\ Len(t) = n /\ \A i \in 1 .. n : t[i] = bytes[i]
    BY <2>1, <2>2, <2>3, Prefix
  <2> QED
    BY <2>2, <2>4
<1>2. PICK w \in Nat : w = n + m /\ w > 0
  OBVIOUS
<1>3. PICK b \in Seq(Byte) : b = SubSeq(bytes, 1, w) /\ Len(b) = w /\ \A i \in 1 .. w : b[i] = bytes[i]
  <2>1. w =< Len(bytes)
    BY <1>2
  <2>2. PICK t : t = SubSeq(bytes, 1, w)
    OBVIOUS
  <2>3. Len(bytes) \in Nat /\ w \in Nat
    OBVIOUS
  <2>4. t \in Seq(Byte) /\ Len(t) = w /\ \A i \in 1 .. w : t[i] = bytes[i]
    BY <2>1, <2>2, <2>3, Prefix
  <2> QED
    BY <2>2, <2>4
<1>4. PICK e \in Seq(Byte) : e = SubSeq(bytes, n + 1, w) /\ Len(e) = m /\ \A i \in 1 .. m : e[i] = bytes[n + i]
  <2>1. w =< Len(bytes)
    BY <1>2
  <2>2. PICK e : e = SubSeq(bytes, n + 1, w)
    OBVIOUS
  <2>3. /\ e \in Seq(Byte) /\ Len(e) = (IF n =< w THEN w - n ELSE 0)
        /\ \A i \in 1 .. Len(e) : e[i] = bytes[n + i]
    <3>1. w \in Int
      OBVIOUS
    <3> QED
      BY <3>1, <2>1, <2>2, Stretch
  <2>4. n =< w /\ w - n = m
    BY <1>2
  <2> QED
    BY <2>2, <2>3, <2>4
<1>5. PICK l \in Nat : l = Len(c)
  OBVIOUS
<1>6. PICK q \in Seq(Byte) :
        /\ q = Over(c, from, b)
        /\ Len(q) = IF l >= from + w THEN l ELSE from + w
        /\ \A i \in 1 .. Len(q) : q[i] = IF from < i /\ i =< from + w THEN b[i - from]
                                         ELSE IF i =< l THEN c[i] ELSE 0
  <2>1. b \in Seq(Byte) /\ w = Len(b)
    BY <1>3
  <2> QED
    BY <2>1, <1>5, OverIs
<1>7. Laidout(c, from, bytes, w) = q
  BY <1>2, <1>3, <1>6 DEF Laidout
<1>8. CASE n = 0
  <2>1. Laidout(c, from, bytes, n) = c
    BY <1>8 DEF Laidout
  <2>2. SubSeq(bytes, n + 1, n + m) = b /\ from + n = from
    BY <1>2, <1>3, <1>8
  <2> QED
    BY <2>1, <2>2, <1>2, <1>6, <1>7 DEF Goeson
<1>9. CASE n > 0
  <2>1. PICK o \in Seq(Byte) :
          /\ o = Over(c, from, a)
          /\ Len(o) = IF l >= from + n THEN l ELSE from + n
          /\ \A i \in 1 .. Len(o) : o[i] = IF from < i /\ i =< from + n THEN a[i - from]
                                           ELSE IF i =< l THEN c[i] ELSE 0
    <3>1. a \in Seq(Byte) /\ n = Len(a)
      BY <1>1
    <3> QED
      BY <3>1, <1>5, OverIs
  <2>2. PICK at \in Nat : at = from + n
    OBVIOUS
  <2>3. PICK j \in Nat : j = Len(o)
    BY <2>1
  <2>4. PICK v \in Seq(Byte) :
          /\ v = Over(o, at, e)
          /\ Len(v) = IF j >= at + m THEN j ELSE at + m
          /\ \A i \in 1 .. Len(v) : v[i] = IF at < i /\ i =< at + m THEN e[i - at]
                                           ELSE IF i =< j THEN o[i] ELSE 0
    <3>1. e \in Seq(Byte) /\ m = Len(e) /\ o \in Seq(Byte)
      BY <1>4, <2>1
    <3>2. PICK v : v = Over(o, at, e)
      OBVIOUS
    <3>3. v \in Seq(Byte) /\ Len(v) = IF Len(o) >= at + Len(e) THEN Len(o) ELSE at + Len(e)
      BY <3>1, <3>2, OverFacts
    <3>4. \A i \in 1 .. Len(v) : v[i] = IF at < i /\ i =< at + Len(e) THEN e[i - at]
                                        ELSE IF i =< Len(o) THEN o[i] ELSE 0
      BY <3>1, <3>2, OverFacts, SMTT(30)
    <3> QED
      BY <3>1, <3>2, <3>3, <3>4, <2>3
  <2>5. PICK k \in Nat, y \in Nat : j = Len(o) /\ k = Len(v) /\ y = Len(q)
    BY <2>3
  <2>6. /\ j = IF l >= from + n THEN l ELSE from + n
        /\ k = IF j >= at + m THEN j ELSE at + m
        /\ y = IF l >= from + w THEN l ELSE from + w
    BY <2>1, <2>4, <2>5, <1>6
  <2>7. k = y /\ j =< k /\ l =< j
    <3>1. from + n =< from + w /\ at + m = from + w
      BY <2>2, <1>2
    <3>2. j =< k /\ l =< j
      BY <2>6
    <3>3. k >= y
      BY <2>6, <3>1
    <3>4. k =< y
      BY <2>6, <3>1
    <3> QED
      BY <3>2, <3>3, <3>4
  <2>8. ASSUME NEW i \in 1 .. k PROVE v[i] = q[i]
    <3>1. q[i] = IF from < i /\ i =< from + w THEN b[i - from] ELSE IF i =< l THEN c[i] ELSE 0
      BY <2>5, <2>7, <1>6
    <3>2. v[i] = IF at < i /\ i =< at + m THEN e[i - at] ELSE IF i =< j THEN o[i] ELSE 0
      BY <2>4, <2>5
    <3>3. i =< j => o[i] = IF from < i /\ i =< at THEN a[i - from] ELSE IF i =< l THEN c[i] ELSE 0
      BY <2>1, <2>2, <2>5
    <3>4. CASE at < i /\ i =< at + m
      <4>1. PICK h \in 1 .. m : h = i - at /\ i - from = n + h
        BY <3>4, <2>2
      <4>2. n + h \in 1 .. w /\ from < i /\ i =< from + w
        BY <4>1, <3>4, <2>2, <1>2
      <4>3. e[h] = bytes[n + h] /\ b[n + h] = bytes[n + h]
        BY <4>2, <1>3, <1>4
      <4> QED
        BY <4>1, <4>2, <4>3, <3>1, <3>2, <3>4
    <3>5. CASE from < i /\ i =< at
      <4>1. PICK h \in 1 .. n : h = i - from
        BY <3>5, <2>2
      <4>2. h \in 1 .. w /\ i =< from + w /\ ~(at < i) /\ i =< j
        BY <4>1, <3>5, <2>2, <2>6, <1>2
      <4>3. a[h] = bytes[h] /\ b[h] = bytes[h]
        BY <4>2, <1>1, <1>3
      <4> QED
        BY <4>1, <4>2, <4>3, <3>1, <3>2, <3>3, <3>5
    <3>6. CASE i =< from \/ i > at + m
      <4>1. ~(at < i /\ i =< at + m) /\ ~(from < i /\ i =< at) /\ ~(from < i /\ i =< from + w)
        BY <3>6, <2>2, <1>2
      <4>2. i =< l => i =< j
        BY <2>7
      <4>3. v[i] = IF i =< j THEN (IF i =< l THEN c[i] ELSE 0) ELSE 0
        BY <4>1, <3>2, <3>3
      <4>4. q[i] = IF i =< l THEN c[i] ELSE 0
        BY <4>1, <3>1
      <4> QED
        BY <4>2, <4>3, <4>4
    <3> QED
      BY <3>4, <3>5, <3>6
  <2>9. v = q
    <3>1. Len(v) = Len(q) /\ \A i \in 1 .. Len(v) : v[i] = q[i]
      BY <2>5, <2>7, <2>8
    <3> QED
      BY <3>1, SameSeq
  <2>10. Laidout(c, from, bytes, n) = o
    BY <2>1, <1>1, <1>9 DEF Laidout
  <2> QED
    BY <2>2, <2>4, <2>9, <2>10, <1>2, <1>4, <1>7 DEF Goeson
<1> QED
  BY <1>8, <1>9

\* The frames are out of the way of one that is being filled up to end.
Beside(st, f, end) ==
  \A g \in ToSet(st) : (g.addr > end /\ g.addr > f.addr + f.nb) \/ g.addr + g.nb < f.addr

\* A frame that is being filled: it is not full, and may be empty.
Fillable(f) == f \in Framed /\ f.nb < BufSz /\ (f.kind = "write" \/ f.nb = 0)

\* The descriptor stands where the frame in hand needs it.
Poised(u, f) == /\ f.addr = u.curr => u.pos = u.curr
                /\ f.nb = 0 => u.pos = f.addr

\* The bytes end in the frame in hand.
Reached(f, at) == f.addr =< at /\ at =< f.addr + f.nb

\* After k turns, each of which but the last has put a byte.
Scattering(r, c, bytes, z, from, k) ==
  /\ r = [s |-> r.s, f |-> r.f, nw |-> r.nw, na |-> r.na, more |-> r.more]
  /\ r.s \in Files /\ r.s.sz = z /\ Writing(r.s) /\ Spread(r.s.stack)
  /\ Fillable(r.f) /\ Beside(r.s.stack, r.f, from + Len(bytes)) /\ Poised(r.s, r.f)
  /\ r.nw \in Nat /\ r.nw =< Len(bytes) /\ r.na \in Int /\ r.more \in BOOLEAN
  /\ Reached(r.f, from + r.nw)
  /\ r.nw = 0 \/ r.f.nb = 0 \/ r.f.addr < from + r.nw
  /\ Shows(ToWrite(r.s) \cup {r.f}, r.s.disk, Laidout(c, from, bytes, r.nw))
  /\ r.s.curr + r.na = from
  /\ r.more => r.nw >= k
  /\ ~r.more => r.nw = Len(bytes)

LEMMA NoBytes ==
  ASSUME NEW F \in SUBSET Framed, NEW f \in Framed, f.nb = 0,
         NEW d \in Seq(Byte), NEW c \in Seq(Byte)
  PROVE  Shows(F, d, c) <=> Shows(F \cup {f}, d, c)
<1>1. f.addr \in Nat
  BY DEF Framed
<1>2. \A i \in 1 .. Len(c) : ~Covers(f, i)
  <2> TAKE i \in 1 .. Len(c)
  <2>1. PICK a \in Nat : a = f.addr
    BY <1>1
  <2>2. ~(a < i /\ i =< a + 0)
    OBVIOUS
  <2> QED
    BY <2>1, <2>2 DEF Covers
<1>3. ~(f.nb > 0)
  OBVIOUS
<1> QED
  BY <1>2, <1>3 DEF Shows

LEMMA Fresher ==
  ASSUME NEW a \in Nat
  PROVE  LET f == NewFrame(a) IN Fillable(f) /\ f \in Framed /\ f.addr = a /\ f.nb = 0
<1>1. BufSz \in Nat /\ BufSz > 0
  BY FileAssumption
<1>2. PICK b \in [1 .. BufSz -> Byte] : b = Zeros(BufSz)
  BY DEF Zeros, Byte
<1>3. PICK f : f = [addr |-> a, nb |-> 0, kind |-> "empty", bf |-> b]
  OBVIOUS
<1>4. f \in Framed /\ f.addr = a /\ f.nb = 0
  <2>1. 0 \in 0 .. BufSz
    BY <1>1
  <2> QED
    BY <2>1, <1>3 DEF Framed
<1>5. NewFrame(a) = f
  BY <1>2, <1>3 DEF NewFrame
<1>6. 0 < BufSz
  BY <1>1
<1> QED
  BY <1>4, <1>5, <1>6 DEF Fillable

LEMMA WriteFields ==
  ASSUME NEW s \in Files, Writing(s), NEW g \in ToSet(s.stack)
  PROVE  /\ g \in Frame /\ g \in Framed /\ g.kind = "write" /\ Span(g) = g.nb
         /\ g.addr \in Nat /\ g.nb \in Nat /\ g.nb > 0 /\ g.nb < BufSz
<1>1. s.stack \in Seq(Frame)
  BY FileFields
<1>2. Unsaved(g)
  BY DEF Writing
<1>3. g \in Frame /\ g \in Framed /\ g.addr \in Nat /\ g.nb \in Nat /\ g.nb > 0
  BY <1>1, FrameFields
<1> QED
  BY <1>2, <1>3 DEF Unsaved, Span

LEMMA SendFull ==
  ASSUME NEW u \in Files, Writing(u), NEW g \in Framed, g.nb = BufSz,
         g.addr = u.curr => u.pos = u.curr,
         NEW there, there = IF g.addr = u.curr THEN u ELSE Seek(u, g.addr, "SEEK_SET", FALSE)
  PROVE  LET t == OsWrites(there, g.bf)
         IN  /\ t \in Files /\ t.disk = Over(u.disk, g.addr, Valid(g))
             /\ t.pos = g.addr + BufSz /\ t.curr = g.addr /\ t.sz = u.sz /\ t.stack = u.stack
<1>1. BufSz \in Nat /\ BufSz > 0
  BY FileAssumption
<1>2. PICK a \in Nat : a = g.addr
  BY DEF Framed
<1>3. PICK b \in [1 .. BufSz -> Byte] : b = g.bf
  BY DEF Framed
<1>4. b \in Seq(Byte) /\ Len(b) = BufSz
  BY <1>1, <1>3, ArraySeq
<1>5. Valid(g) = b
  <2>1. PICK v \in Seq(Byte) : v = Valid(g) /\ Len(v) = BufSz /\ \A i \in 1 .. BufSz : v[i] = b[i]
    BY <1>3, ValidFacts
  <2>2. Len(v) = Len(b) /\ \A i \in 1 .. Len(v) : v[i] = b[i]
    BY <2>1, <1>4
  <2>3. v = b
    BY <2>2, <1>4, SameSeq
  <2> QED
    BY <2>1, <2>3
<1>6. ~Held(u, a)
  BY WriteFields, NotHeld
<1>7. /\ there \in Files /\ there.disk = u.disk /\ there.sz = u.sz /\ there.stack = u.stack
      /\ there.curr = a /\ there.pos = a
  <2>1. CASE a = u.curr
    BY <2>1, <1>2
  <2>2. CASE a # u.curr
    <3>1. there = Seek(u, a, "SEEK_SET", FALSE)
      BY <2>2, <1>2
    <3>2. PICK v : v = Seek(u, a, "SEEK_SET", FALSE)
      OBVIOUS
    <3>3. v \in Files /\ v.disk = u.disk /\ v.sz = u.sz /\ v.stack = u.stack /\ v.curr = a
      BY <3>2, SeekSet
    <3>4. (a # u.curr \/ FALSE) /\ ~Held(u, a) => v.pos = a
      BY <3>2, SeekSet
    <3> QED
      BY <3>1, <3>2, <3>3, <3>4, <2>2, <1>6
  <2> QED
    BY <2>1, <2>2
<1>8. PICK t : t = OsWrites(there, b)
  OBVIOUS
<1>9. /\ t \in Files /\ t.disk = Over(there.disk, there.pos, b)
      /\ t.pos = there.pos + Len(b) /\ t.sz = there.sz /\ t.curr = there.curr
      /\ t.stack = there.stack
  BY <1>4, <1>7, <1>8, WriteOut
<1> QED
  BY <1>2, <1>3, <1>4, <1>5, <1>7, <1>8, <1>9

\* The next v bytes fit into the frame in hand.
Room(f, from, bytes, nw, v) ==
  v > 0 /\ nw + v =< Len(bytes) /\ Reached(f, from + nw) /\ from + nw + v =< f.addr + BufSz

FilledTo(g, f, u, c, bytes, from, n) ==
  /\ g \in Framed /\ g.addr = f.addr /\ g.kind = "write" /\ g.nb > 0
  /\ Reached(g, from + n) /\ g.addr < from + n
  /\ g.nb = f.nb \/ g.addr + g.nb = from + n
  /\ Beside(u.stack, g, from + Len(bytes))
  /\ Shows(ToWrite(u) \cup {g}, u.disk, Laidout(c, from, bytes, n))

\* Of a turn that puts v bytes into the frame in hand, which is g then.
LEMMA FilledUp ==
  ASSUME NEW u \in Files, Writing(u), Spread(u.stack), NEW f, Fillable(f),
         NEW c \in Seq(Byte), NEW bytes \in Seq(Byte), NEW from \in Nat, NEW nw \in Nat,
         NEW v \in Nat, Room(f, from, bytes, nw, v), Beside(u.stack, f, from + Len(bytes)),
         Shows(ToWrite(u) \cup {f}, u.disk, Laidout(c, from, bytes, nw)),
         NEW g, g = Put(f, from + nw, SubSeq(bytes, nw + 1, nw + v))
  PROVE  FilledTo(g, f, u, c, bytes, from, nw + v)
<1>1. BufSz \in Nat /\ BufSz > 0
  BY FileAssumption
<1>2. f \in Framed
  BY DEF Fillable
<1>3. PICK a \in Nat, p \in Nat : a = f.addr /\ p = f.nb
  BY <1>2, ValidFacts, SMTT(30)
<1>4. PICK at \in Nat, l \in Nat : at = from + nw /\ l = Len(bytes) /\ v \in Nat
  <2>1. PICK at \in Nat : at = from + nw
    OBVIOUS
  <2>2. PICK l \in Nat : l = Len(bytes)
    BY LenProperties
  <2> QED
    BY <2>1, <2>2
<1>5. a =< at /\ at =< a + p /\ at + v =< a + BufSz /\ nw + v =< l /\ at + v =< from + l
  BY <1>3, <1>4 DEF Reached, Room
<1>6. v > 0
  BY DEF Room
<1>7. PICK new : new = SubSeq(bytes, nw + 1, nw + v)
  OBVIOUS
<1>8. new \in Seq(Byte) /\ Len(new) = v
  <2>1. PICK e \in Nat : e = nw + v /\ e =< Len(bytes) /\ nw =< e /\ e - nw = v
    BY <1>4, <1>5
  <2>2. new = SubSeq(bytes, nw + 1, e)
    BY <2>1, <1>7
  <2>3. new \in Seq(Byte) /\ Len(new) = IF nw =< e THEN e - nw ELSE 0
    BY <2>1, <2>2, Stretch
  <2> QED
    BY <2>1, <2>3
<1>9. Fits(f, at, new)
  BY <1>3, <1>5, <1>8, <1>6 DEF Fits
<1>10. g = Put(f, at, new)
  BY <1>4, <1>7
<1>11. /\ g \in Framed /\ g.addr = f.addr /\ g.kind = "write" /\ g.nb > 0
       /\ g.nb >= f.nb /\ f.addr + g.nb >= at + Len(new)
       /\ g.nb = f.nb \/ f.addr + g.nb = at + Len(new)
  <2>1. new \in Seq(Byte)
    BY <1>8
  <2> QED
    BY <2>1, <1>2, <1>9, <1>10, PutFacts
<1>12. PICK q \in Nat : q = g.nb /\ q >= p /\ a + q >= at + v /\ (q = p \/ a + q = at + v)
  <2>1. PICK q \in Nat : q = g.nb
    BY <1>11, ValidFacts
  <2> QED
    BY <2>1, <1>3, <1>8, <1>11
<1>13. \A h \in ToSet(u.stack) : \/ h.addr > from + l /\ h.addr > a + p
                                 \/ h.addr + h.nb < a
  BY <1>3, <1>4 DEF Beside
<1>14. ToWrite(u) \in SUBSET Framed /\ ToWrite(u) \subseteq ToSet(u.stack)
  BY WriteFields DEF ToWrite
<1>15. Clear(ToWrite(u), f, at, Len(new))
  <2> SUFFICES ASSUME NEW h \in ToSet(u.stack)
               PROVE  \/ h.addr + h.nb =< a
                      \/ at + v =< h.addr /\ a + p =< h.addr
    BY <1>3, <1>8, <1>14 DEF Clear
  <2>1. PICK b \in Nat, m \in Nat : b = h.addr /\ m = h.nb
    BY WriteFields
  <2>2. (b > from + l /\ b > a + p) \/ b + m < a
    BY <2>1, <1>13
  <2>3. b + m =< a \/ (at + v =< b /\ a + p =< b)
    BY <2>2, <1>5
  <2> QED
    BY <2>1, <2>3
<1>16. Beside(u.stack, g, from + Len(bytes))
  <2> SUFFICES ASSUME NEW h \in ToSet(u.stack)
               PROVE  (h.addr > from + l /\ h.addr > a + q) \/ h.addr + h.nb < a
    BY <1>3, <1>4, <1>11, <1>12 DEF Beside
  <2>1. PICK b \in Nat, m \in Nat : b = h.addr /\ m = h.nb
    BY WriteFields
  <2>2. (b > from + l /\ b > a + p) \/ b + m < a
    BY <2>1, <1>13
  <2>3. a + q =< from + l \/ q = p
    BY <1>5, <1>12
  <2>4. (b > from + l /\ b > a + q) \/ b + m < a
    BY <2>2, <2>3
  <2> QED
    BY <2>1, <2>4
<1>17. PICK o \in Seq(Byte) : /\ o = Laidout(c, from, bytes, nw)
                              /\ Over(o, at, new) = Laidout(c, from, bytes, nw + v)
  <2>1. v > 0 /\ nw + v =< Len(bytes)
    BY <1>4, <1>5, <1>6
  <2>2. /\ Laidout(c, from, bytes, nw) \in Seq(Byte)
        /\ Over(Laidout(c, from, bytes, nw), from + nw, SubSeq(bytes, nw + 1, nw + v))
             = Laidout(c, from, bytes, nw + v)
    <3>1. Laidout(c, from, bytes, nw) \in Seq(Byte)
      BY <2>1, Laidon
    <3>2. Over(Laidout(c, from, bytes, nw), from + nw, SubSeq(bytes, nw + 1, nw + v))
            = Laidout(c, from, bytes, nw + v)
      <4>1. Goeson(c, from, bytes, nw, v)
        BY <2>1, Laidon
      <4> QED
        BY <4>1 DEF Goeson
    <3> QED
      BY <3>1, <3>2
  <2>3. PICK o : o = Laidout(c, from, bytes, nw)
    OBVIOUS
  <2> QED
    BY <2>2, <2>3, <1>4, <1>7
<1>18. PICK d \in Seq(Byte) : d = u.disk
  BY FileFields
<1>19. Shows(ToWrite(u) \cup {f}, d, o)
  BY <1>17, <1>18
<1>20. Shows(ToWrite(u) \cup {g}, d, Over(o, at, new))
  BY <1>2, <1>8, <1>9, <1>10, <1>14, <1>15, <1>19, Putting
<1>21. Reached(g, from + (nw + v)) /\ g.addr < from + (nw + v)
  <2>1. from + (nw + v) = at + v /\ a < at + v /\ a =< at + v /\ at + v =< a + q
    BY <1>4, <1>5, <1>12, <1>6, SMTT(30)
  <2> QED
    BY <2>1, <1>3, <1>11, <1>12 DEF Reached
<1>22. g.nb = f.nb \/ g.addr + g.nb = from + (nw + v)
  <2>1. q = p \/ a + q = from + (nw + v)
    BY <1>4, <1>12
  <2> QED
    BY <2>1, <1>3, <1>11, <1>12
<1> QED
  BY <1>11, <1>16, <1>17, <1>18, <1>20, <1>21, <1>22 DEF FilledTo

LEMMA ScatterTurn ==
  ASSUME NEW c \in Seq(Byte), NEW bytes \in Seq(Byte), NEW z \in Nat, NEW from \in Nat,
         NEW k \in Nat, NEW r, Scattering(r, c, bytes, z, from, k)
  PROVE  Scattering(Scatter(r, from, bytes), c, bytes, z, from, k + 1)
<1>1. PICK u \in Files, f \in Framed : u = r.s /\ f = r.f
  BY DEF Scattering, Fillable
<1>2. PICK nw \in Nat, na \in Int, more \in BOOLEAN : nw = r.nw /\ na = r.na /\ more = r.more
  BY DEF Scattering
<1>3. /\ r = [s |-> u, f |-> f, nw |-> nw, na |-> na, more |-> more]
      /\ u.sz = z /\ Writing(u) /\ Spread(u.stack)
      /\ Fillable(f) /\ Beside(u.stack, f, from + Len(bytes)) /\ Poised(u, f)
      /\ Reached(f, from + nw)
      /\ Shows(ToWrite(u) \cup {f}, u.disk, Laidout(c, from, bytes, nw))
  BY <1>1, <1>2 DEF Scattering
<1>4. /\ nw =< Len(bytes)
      /\ nw = 0 \/ f.nb = 0 \/ f.addr < from + nw
      /\ u.curr + na = from
      /\ more => nw >= k
      /\ ~more => nw = Len(bytes)
  BY <1>1, <1>2 DEF Scattering
<1>5. BufSz \in Nat /\ BufSz > 0
  BY FileAssumption
<1>6. PICK a \in Nat, p \in Nat, l \in Nat, at \in Nat, x \in Nat :
        /\ a = f.addr /\ p = f.nb /\ l = Len(bytes) /\ at = from + nw /\ x = u.curr
        /\ nw =< l /\ p < BufSz /\ a =< at /\ at =< a + p
  <2>1. PICK a \in Nat, p \in Nat : a = f.addr /\ p = f.nb
    BY ValidFacts
  <2>2. PICK l \in Nat : l = Len(bytes)
    BY LenProperties
  <2>3. PICK x \in Nat : x = u.curr
    BY FileFields
  <2>4. PICK at \in Nat : at = from + nw
    OBVIOUS
  <2>5. a =< at /\ at =< a + p /\ p < BufSz
    BY <2>1, <2>4, <1>3 DEF Reached, Fillable
  <2> QED
    BY <2>1, <2>2, <2>4, <2>5, <2>3, <1>4
<1>7. PICK v \in Nat : /\ v = Max({0, Min({from + l, a + BufSz}) - at})
                       /\ at + v =< from + l /\ at + v =< a + BufSz
                       /\ v = 0 => at = from + l
  <2>1. PICK m1 \in Nat : m1 = from + l
    OBVIOUS
  <2>2. PICK m2 \in Nat : m2 = a + BufSz
    BY <1>5
  <2>3. PICK e \in Nat : e = Min({m1, m2}) /\ e =< m1 /\ e =< m2 /\ (e = m1 \/ e = m2)
    BY MinTwo
  <2>4. /\ e = Min({from + l, a + BufSz}) /\ e =< from + l /\ e =< a + BufSz
        /\ e = from + l \/ e = a + BufSz
    BY <2>1, <2>2, <2>3
  <2>5. at =< from + l /\ at < a + BufSz
    BY <1>5, <1>6, SMTT(30)
  <2>6. PICK v \in Nat : v = e - at /\ at + v = e
    BY <2>4, <2>5
  <2>7. Max({0, v}) = v
    BY MaxTwo
  <2>8. v = 0 => at = from + l
    <3>1. v = 0 => e = at
      BY <2>6
    <3>2. e = at => e # a + BufSz
      BY <2>5, <1>5
    <3> QED
      BY <3>1, <3>2, <2>4
  <2>9. v = Max({0, Min({from + l, a + BufSz}) - at})
    BY <2>4, <2>6, <2>7
  <2>10. at + v =< from + l /\ at + v =< a + BufSz
    BY <2>4, <2>6
  <2> QED
    BY <2>8, <2>9, <2>10
<1>8. PICK g : g = IF v = 0 THEN f ELSE Put(f, from + nw, SubSeq(bytes, nw + 1, nw + v))
  OBVIOUS
<1>9. PICK on \in BOOLEAN : on = (v # 0)
  OBVIOUS
<1>10. Scatter(r, from, bytes) = CASE ~r.more -> r
                                   [] r.more /\ g.nb # BufSz ->
                                        [r EXCEPT !.f = g, !.nw = @ + v, !.more = v # 0]
                                   [] OTHER -> Sent(r, g, r.nw + v)
  <2>1. Max({0, Min({from + Len(bytes), r.f.addr + BufSz}) - (from + r.nw)}) = v
    BY <1>1, <1>2, <1>6, <1>7
  <2>2. g = IF v = 0 THEN r.f ELSE Put(r.f, from + r.nw, SubSeq(bytes, r.nw + 1, r.nw + v))
    BY <1>1, <1>2, <1>8
  <2> QED
    BY <2>1, <2>2 DEF Scatter
<1>11. CASE ~more
  <2>1. Scatter(r, from, bytes) = r
    BY <1>2, <1>10, <1>11
  <2>2. ~r.more
    BY <1>2, <1>11
  <2>3. Scattering(r, c, bytes, z, from, k + 1)
    BY <2>2 DEF Scattering
  <2> QED
    BY <2>1, <2>3
<1>12. PICK nx \in Nat : nx = nw + v /\ nx =< l /\ from + nx = at + v
  <2>1. PICK nx \in Nat : nx = nw + v
    OBVIOUS
  <2>2. at = from + nw /\ at + v =< from + l
    BY <1>6, <1>7
  <2>3. nx =< l /\ from + nx = at + v
    BY <2>1, <2>2
  <2> QED
    BY <2>1, <2>3
<1>13. PICK q : q = [s |-> u, f |-> g, nw |-> nx, na |-> na, more |-> on]
  OBVIOUS
<1>14. /\ q.s = u /\ q.f = g /\ q.nw = nx /\ q.na = na /\ q.more = on
       /\ q = [s |-> q.s, f |-> q.f, nw |-> q.nw, na |-> q.na, more |-> q.more]
  BY <1>13
<1>15. more /\ g.nb # BufSz => Scatter(r, from, bytes) = q
  <2> SUFFICES ASSUME more, g.nb # BufSz PROVE Scatter(r, from, bytes) = q
    OBVIOUS
  <2>1. PICK w1 : w1 = [r EXCEPT !.f = g]
    OBVIOUS
  <2>2. w1 = [s |-> u, f |-> g, nw |-> nw, na |-> na, more |-> more]
    BY <2>1, <1>3
  <2>3. PICK w2 : w2 = [w1 EXCEPT !.nw = nx]
    OBVIOUS
  <2>4. w2 = [s |-> u, f |-> g, nw |-> nx, na |-> na, more |-> more]
    BY <2>2, <2>3
  <2>5. [w2 EXCEPT !.more = on] = q
    BY <2>4, <1>13, SMTT(30)
  <2>6. r.nw + v = nx
    BY <1>2, <1>12
  <2>7. [r EXCEPT !.f = g, !.nw = r.nw + v, !.more = on] = q
    BY <2>1, <2>3, <2>5, <2>6
  <2>8. [r EXCEPT !.f = g, !.nw = @ + v, !.more = v # 0] = q
    BY <2>7, <1>9
  <2> QED
    BY <2>8, <1>2, <1>10
<1>16. CASE more /\ v = 0
  <2>1. v = 0
    BY <1>16
  <2>2. g = f /\ ~on
    BY <2>1, <1>8, <1>9
  <2>3. p # BufSz
    BY <1>5, <1>6
  <2>4. nx = nw
    BY <2>1, <1>12
  <2>5. g = f /\ nx = nw /\ ~on /\ g.nb # BufSz
    BY <2>2, <2>3, <2>4, <1>6
  <2>6. nx = Len(bytes)
    <3>1. at = from + l /\ at = from + nw
      BY <2>1, <1>6, <1>7
    <3>2. nw = l
      BY <3>1
    <3> QED
      BY <3>2, <2>4, <1>6
  <2>7. Scattering(q, c, bytes, z, from, k + 1)
    BY <2>5, <2>6, <1>3, <1>4, <1>14 DEF Scattering
  <2> QED
    BY <2>5, <2>7, <1>15, <1>16
<1>17. CASE more /\ v # 0
  <2>1. Room(f, from, bytes, nw, v)
    <3>1. v > 0 /\ nw + v =< Len(bytes)
      BY <1>6, <1>12, <1>17
    <3>2. from + nw + v =< f.addr + BufSz
      BY <1>6, <1>7
    <3> QED
      BY <3>1, <3>2, <1>3 DEF Room
  <2>2. g = Put(f, from + nw, SubSeq(bytes, nw + 1, nw + v))
    BY <1>8, <1>17
  <2>3. /\ g \in Framed /\ g.addr = f.addr /\ g.kind = "write" /\ g.nb > 0
        /\ Reached(g, from + (nw + v)) /\ g.addr < from + (nw + v)
        /\ g.nb = f.nb \/ g.addr + g.nb = from + (nw + v)
        /\ Beside(u.stack, g, from + Len(bytes))
        /\ Shows(ToWrite(u) \cup {g}, u.disk, Laidout(c, from, bytes, nw + v))
    <3>1. Writing(u) /\ Spread(u.stack) /\ Fillable(f) /\ Beside(u.stack, f, from + Len(bytes))
      BY <1>3
    <3>2. Shows(ToWrite(u) \cup {f}, u.disk, Laidout(c, from, bytes, nw))
      BY <1>3
    <3>3. FilledTo(g, f, u, c, bytes, from, nw + v)
      BY <2>1, <2>2, <3>1, <3>2, FilledUp
    <3> QED
      BY <3>3 DEF FilledTo
  <2>4. /\ g \in Framed /\ g.addr = a /\ g.kind = "write" /\ g.nb > 0
        /\ Reached(g, from + nx) /\ g.addr < from + nx
        /\ g.nb = p \/ g.addr + g.nb = from + nx
        /\ Beside(u.stack, g, from + Len(bytes))
        /\ Shows(ToWrite(u) \cup {g}, u.disk, Laidout(c, from, bytes, nx))
    BY <2>3, <1>6, <1>12
  <2>5. PICK y \in Nat : y = g.nb /\ y > 0 /\ y =< BufSz
    BY <2>4, <1>5, ValidFacts, SMTT(30)
  <2>6. on /\ nx >= k + 1
    <3>1. nw >= k /\ v # 0
      BY <1>4, <1>17
    <3>2. nw + v >= k + 1
      BY <3>1
    <3>3. on
      BY <3>1, <1>9
    <3> QED
      BY <3>2, <3>3, <1>12
  <2>7. CASE y # BufSz
    <3>1. y < BufSz /\ y # 0
      BY <2>5, <2>7, <1>5
    <3>2. Fillable(g)
      BY <2>4, <2>5, <3>1 DEF Fillable
    <3>3. g.nb # 0
      BY <2>5, <3>1
    <3>4. g.addr = f.addr
      BY <2>4, <1>6
    <3>5. Poised(u, g)
      BY <3>3, <3>4, <1>3 DEF Poised
    <3>6. Scattering(q, c, bytes, z, from, k + 1)
      BY <3>2, <3>5, <2>4, <2>6, <1>3, <1>4, <1>6, <1>12, <1>14 DEF Scattering
    <3> QED
      BY <3>6, <2>5, <2>7, <1>15, <1>17
  <2>8. CASE y = BufSz
    <3>1. from + nx = a + BufSz
      BY <2>4, <2>5, <2>8, <1>6
    <3>2. PICK there : there = IF g.addr = u.curr THEN u ELSE Seek(u, g.addr, "SEEK_SET", FALSE)
      OBVIOUS
    <3>3. PICK t : t = OsWrites(there, g.bf)
      OBVIOUS
    <3>4. g.addr = u.curr => u.pos = u.curr
      BY <2>4, <1>3, <1>6 DEF Poised
    <3>5. /\ t \in Files /\ t.disk = Over(u.disk, g.addr, Valid(g))
          /\ t.pos = a + BufSz /\ t.curr = a /\ t.sz = u.sz /\ t.stack = u.stack
      BY <3>2, <3>3, <3>4, <2>4, <2>5, <2>8, <1>3, SendFull, ZenonT(30)
    <3>6. PICK e \in Nat : e = a + BufSz
      BY <1>5
    <3>7. PICK h : h = NewFrame(e)
      OBVIOUS
    <3>8. Fillable(h) /\ h \in Framed /\ h.addr = e /\ h.nb = 0
      BY <3>7, Fresher
    <3>9. PICK nb \in Int : nb = na + x - a
      OBVIOUS
    <3>10. PICK w : w = [s |-> t, f |-> h, nw |-> nx, na |-> nb, more |-> on]
      OBVIOUS
    <3>11. /\ w.s = t /\ w.f = h /\ w.nw = nx /\ w.na = nb /\ w.more = on
           /\ w = [s |-> w.s, f |-> w.f, nw |-> w.nw, na |-> w.na, more |-> w.more]
      BY <3>10
    <3>12. Scatter(r, from, bytes) = w
      <4>1. Scatter(r, from, bytes) = Sent(r, g, r.nw + v)
        BY <2>5, <2>8, <1>2, <1>10, <1>17
      <4>2. r.s = u /\ r.na = na /\ r.s.curr = x /\ g.addr = a
        BY <2>4, <1>1, <1>2, <1>6
      <4>3. r.nw + v = nx
        BY <1>2, <1>12
      <4>4. r.na + r.s.curr - g.addr = nb
        BY <4>2, <3>9
      <4>5. t.curr + BufSz = e
        BY <3>5, <3>6
      <4>6. r.s = u /\ r.nw + v = nx /\ r.na + r.s.curr - g.addr = nb /\ t.curr + BufSz = e
        BY <4>2, <4>3, <4>4, <4>5
      <4>7. nx # nw
        BY <1>12, <1>17
      <4>8. (nx # r.nw) = on
        <5>1. (nx # nw) = TRUE /\ on = TRUE
          BY <4>7, <1>9, <1>17
        <5> QED
          BY <5>1, <1>2
      <4>9. Sent(r, g, nx) = w
        BY <4>6, <4>8, <3>2, <3>3, <3>7, <3>10 DEF Sent
      <4> QED
        BY <4>1, <4>6, <4>9
    <3>13. PICK o \in Seq(Byte) : o = Laidout(c, from, bytes, nx)
      <4>1. v > 0 /\ nw + v =< Len(bytes)
        BY <1>6, <1>12, <1>17
      <4>2. nx = 0 + nx /\ nx > 0 /\ 0 + nx =< Len(bytes)
        BY <4>1, <1>12
      <4>3. CASE nx = Len(bytes)
        <5>1. SubSeq(bytes, 1, nx) \in Seq(Byte)
          BY <4>3
        <5> QED
          BY <5>1, <4>2, OverFacts DEF Laidout
      <4>4. CASE nx # Len(bytes)
        <5>1. nx + 1 =< Len(bytes) /\ 1 \in Nat /\ 1 > 0
          BY <4>4, <1>6, <1>12
        <5> QED
          BY <5>1, Laidon
      <4> QED
        BY <4>3, <4>4
    <3>14. ToWrite(u) \in SUBSET Framed /\ ToWrite(t) = ToWrite(u)
      BY <3>5, <1>3, WriteFields DEF ToWrite
    <3>15. PICK d \in Seq(Byte) : d = u.disk
      BY FileFields
    <3>16. Shows(ToWrite(u) \cup {g}, d, o)
      BY <3>13, <3>15, <2>4
    <3>17. t.disk \in Seq(Byte) /\ Shows(ToWrite(t), t.disk, o)
      BY <3>5, <3>14, <3>15, <3>16, <2>4, Saving
    <3>18. Shows(ToWrite(t) \cup {h}, t.disk, Laidout(c, from, bytes, nx))
      BY <3>8, <3>13, <3>14, <3>17, NoBytes
    <3>19. Beside(t.stack, h, from + Len(bytes))
      <4> SUFFICES ASSUME NEW j \in ToSet(u.stack)
                   PROVE  (j.addr > from + l /\ j.addr > e + 0) \/ j.addr + j.nb < e
        BY <3>5, <3>8, <1>6 DEF Beside
      <4>1. PICK b \in Nat, m \in Nat : b = j.addr /\ m = j.nb
        BY <1>3, WriteFields
      <4>2. (b > from + l /\ b > a + y) \/ b + m < a
        BY <4>1, <2>4, <2>5, <1>6 DEF Beside
      <4>3. (b > from + l /\ b > e + 0) \/ b + m < e
        BY <4>2, <3>6, <2>8
      <4> QED
        BY <4>1, <4>3
    <3>20. Poised(t, h) /\ Reached(h, from + nx)
      <4>1. e # a /\ e =< from + nx /\ from + nx =< e + 0
        BY <3>1, <3>6, <1>5
      <4> QED
        BY <4>1, <3>5, <3>6, <3>8 DEF Poised, Reached
    <3>21. t.curr + nb = from
      <4>1. x + na = from /\ nb = na + x - a
        BY <3>9, <1>4, <1>6
      <4>2. a + nb = from
        BY <4>1
      <4> QED
        BY <4>2, <3>5
    <3>22. Writing(t) /\ Spread(t.stack) /\ t.sz = z
      BY <3>5, <1>3 DEF Writing
    <3>23. Scattering(w, c, bytes, z, from, k + 1)
      BY <3>5, <3>8, <3>11, <3>18, <3>19, <3>20, <3>21, <3>22, <2>6, <1>6, <1>12 DEF Scattering
    <3> QED
      BY <3>12, <3>23
  <2> QED
    BY <2>7, <2>8
<1> QED
  BY <1>11, <1>16, <1>17

LEMMA ScatterDone ==
  ASSUME NEW c \in Seq(Byte), NEW bytes \in Seq(Byte), NEW z \in Nat, NEW from \in Nat,
         NEW r, Scattering(r, c, bytes, z, from, 0)
  PROVE  \E w : /\ w = ScatterAll(r, from, bytes)
                /\ Scattering(w, c, bytes, z, from, 0) /\ w.nw = Len(bytes)
<1>1. PICK l \in Nat : l = Len(bytes)
  BY LenProperties
<1>2. PICK d : Scatters(d, l + 1, r, from, bytes) /\ ScatterAll(r, from, bytes) = d[l + 1]
  BY <1>1, ScatterAllDef
<1>3. \A k \in 0 .. l + 1 : d[k] = IF k = 0 THEN r ELSE Scatter(d[k - 1], from, bytes)
  BY <1>2 DEF Scatters
<1> DEFINE Bad == {k \in Nat : k =< l + 1 /\ ~Scattering(d[k], c, bytes, z, from, k)}
<1>4. Bad = {}
  <2> SUFFICES ASSUME Bad # {} PROVE FALSE
    OBVIOUS
  <2>1. PICK m \in Bad : \A k \in Bad : m =< k
    BY Least
  <2>2. m \in Nat /\ m \in 0 .. l + 1 /\ ~Scattering(d[m], c, bytes, z, from, m)
    OBVIOUS
  <2>3. m # 0
    BY <2>2, <1>3
  <2>4. PICK k \in Nat : k = m - 1 /\ k + 1 = m /\ k =< l + 1 /\ k < m
    BY <2>2, <2>3
  <2>5. Scattering(d[k], c, bytes, z, from, k)
    BY <2>1, <2>4
  <2>6. Scattering(Scatter(d[k], from, bytes), c, bytes, z, from, k + 1)
    BY <2>5, ScatterTurn
  <2>7. d[m] = Scatter(d[k], from, bytes)
    BY <2>2, <2>3, <2>4, <1>3
  <2> QED
    BY <2>2, <2>4, <2>6, <2>7
<1>5. PICK e \in Nat : e = l + 1
  OBVIOUS
<1>6. e =< l + 1
  BY <1>5
<1>7. PICK w : w = d[e]
  OBVIOUS
<1>8. Scattering(w, c, bytes, z, from, e)
  BY <1>4, <1>6, <1>7
<1>9. ~w.more
  <2>1. PICK nw \in Nat : nw = w.nw /\ nw =< l
    BY <1>1, <1>8 DEF Scattering
  <2>2. ~(nw >= e)
    BY <2>1, <1>5
  <2>3. w.more => nw >= e
    BY <2>1, <1>8 DEF Scattering
  <2> QED
    BY <2>2, <2>3
<1>10. Scattering(w, c, bytes, z, from, 0) /\ w.nw = Len(bytes)
  BY <1>8, <1>9 DEF Scattering
<1> QED
  BY <1>2, <1>5, <1>7, <1>10

LEMMA ToFillWrite ==
  ASSUME NEW t \in Files, NEW c \in Seq(Byte), Ready(t, c), NEW bytes \in Seq(Byte),
         NEW m \in Nat, m = Len(bytes), m > 0, Gap(t.stack, t.curr, m)
  PROVE  Scattering(ToFill(t, Candidates(t, t.curr, m)), c, bytes, Len(c), t.curr, 0)
<1>1. PICK x \in Nat, z \in Nat : x = t.curr /\ z = Len(c)
  BY FileFields, LenProperties
<1>2. t.sz = z /\ Writing(t) /\ Spread(t.stack) /\ WritePlace(t) /\ Shows(ToWrite(t), t.disk, c)
  BY <1>1 DEF Ready, Sound
<1>3. PICK is : is = Candidates(t, x, m)
  OBVIOUS
<1>4. PICK i : i = Leftmost(t, is)
  OBVIOUS
<1>5. /\ is # {} => /\ i \in DOMAIN t.stack /\ t.stack[i].addr =< x
                    /\ x =< t.stack[i].addr + t.stack[i].nb
      /\ is = {} => \A f \in ToSet(t.stack) : f.addr > x + m \/ f.addr + f.nb < x
  BY <1>1, <1>2, <1>3, <1>4, Candidate
<1>6. Laidout(c, x, bytes, 0) = c
  BY DEF Laidout
<1>7. 0 \in Nat /\ 0 =< Len(bytes)
  OBVIOUS
<1>8. CASE is # {}
  <2>1. PICK f : f = t.stack[i]
    OBVIOUS
  <2>2. i \in DOMAIN t.stack /\ f \in ToSet(t.stack)
    BY <2>1, <1>5, <1>8 DEF ToSet
  <2>3. f \in Framed /\ f.kind = "write" /\ f.nb < BufSz /\ Span(f) = f.nb
    BY <2>2, <1>2, WriteFields
  <2>4. PICK a \in Nat, p \in Nat : a = f.addr /\ p = f.nb /\ a =< x /\ x =< a + p /\ p > 0
    <3>1. f.addr \in Nat /\ f.nb \in Nat /\ f.nb > 0
      BY <2>2, <1>2, WriteFields
    <3> QED
      BY <3>1, <2>1, <1>5, <1>8
  <2>5. PICK st \in Seq(Frame) : st = RemoveAt(t.stack, i)
    BY <2>2, FileFields, Removal
  <2>6. PICK u : u = [t EXCEPT !.stack = st]
    OBVIOUS
  <2>7. /\ u \in Files /\ u.stack = st
        /\ u.disk = t.disk /\ u.pos = t.pos /\ u.sz = t.sz /\ u.curr = t.curr
    BY <2>6 DEF Files
  <2>8. Pull(t, i) = u
    BY <2>5, <2>6 DEF Pull
  <2>9. /\ ToSet(st) \subseteq ToSet(t.stack) /\ Spread(st)
        /\ ToSet(t.stack) = ToSet(st) \cup {f}
        /\ \A g \in ToSet(st) : Apart(g, f)
    BY <2>1, <2>2, <2>5, <1>2, FileFields, Taken
  <2>10. Writing(u)
    BY <2>7, <2>9, <1>2 DEF Writing
  <2>11. ASSUME NEW g \in ToSet(t.stack), Apart(g, f)
         PROVE  \/ g.addr > x + m /\ g.addr > a + p
                \/ g.addr + g.nb < a
    <3>1. PICK b \in Nat, q \in Nat : b = g.addr /\ q = g.nb /\ q = Span(g)
      BY <1>2, WriteFields
    <3>2. b + q < a \/ a + p < b
      BY <3>1, <2>3, <2>4, <2>11 DEF Apart
    <3>3. b =< x \/ b > x + m
      BY <3>1, <1>1 DEF Gap
    <3>4. (b > x + m /\ b > a + p) \/ b + q < a
      BY <3>2, <3>3, <2>4
    <3> QED
      BY <3>1, <3>4
  <2>12. Beside(st, f, x + Len(bytes))
    BY <2>4, <2>9, <2>11 DEF Beside
  <2>13. a = x => t.pos = x
    <3> SUFFICES ASSUME a = x, t.pos # x PROVE FALSE
      OBVIOUS
    <3>1. PICK g \in ToSet(t.stack) : Covers(g, x)
      BY <1>1, <1>2 DEF WritePlace
    <3>2. PICK b \in Nat, q \in Nat : b = g.addr /\ q = g.nb /\ q = Span(g)
      BY <1>2, WriteFields
    <3>3. b < x /\ x =< b + q
      BY <3>1, <3>2 DEF Covers
    <3>4. g # f
      BY <3>2, <3>3, <2>4
    <3>5. Apart(g, f)
      BY <3>4, <2>9
    <3>6. b + q < a \/ a + p < b
      BY <3>2, <3>5, <2>3, <2>4 DEF Apart
    <3> QED
      BY <3>3, <3>6
  <2>14. Poised(u, f)
    <3>1. f.nb # 0
      BY <2>4
    <3> QED
      BY <3>1, <2>4, <2>7, <2>13, <1>1 DEF Poised
  <2>15. ToWrite(u) \cup {f} = ToWrite(t)
    BY <2>3, <2>7, <2>9 DEF ToWrite
  <2>16. PICK r : r = [s |-> u, f |-> f, nw |-> 0, na |-> 0, more |-> TRUE]
    OBVIOUS
  <2>17. ToFill(t, is) = r
    BY <2>1, <2>8, <2>16, <1>4, <1>8 DEF ToFill
  <2>18. Scattering(r, c, bytes, z, x, 0)
    <3>1. Reached(f, x + 0)
      BY <2>4 DEF Reached
    <3>2. Fillable(f)
      BY <2>3 DEF Fillable
    <3>3. u.curr + 0 = x
      BY <2>7, <1>1
    <3>4. Shows(ToWrite(u) \cup {f}, u.disk, Laidout(c, x, bytes, 0))
      BY <2>7, <2>15, <1>2, <1>6
    <3>5. /\ r.s = u /\ r.f = f /\ r.nw = 0 /\ r.na = 0 /\ r.more /\ r.more \in BOOLEAN
          /\ r = [s |-> r.s, f |-> r.f, nw |-> r.nw, na |-> r.na, more |-> r.more]
      BY <2>16
    <3>6. /\ r.s \in Files /\ r.s.sz = z /\ Writing(r.s) /\ Spread(r.s.stack)
          /\ Fillable(r.f) /\ Beside(r.s.stack, r.f, x + Len(bytes)) /\ Poised(r.s, r.f)
          /\ Reached(r.f, x + r.nw)
      BY <3>1, <3>2, <3>5, <2>7, <2>9, <2>10, <2>12, <2>14, <1>2
    <3>7. Shows(ToWrite(r.s) \cup {r.f}, r.s.disk, Laidout(c, x, bytes, r.nw))
      BY <3>4, <3>5
    <3>8. /\ r.nw \in Nat /\ r.nw =< Len(bytes) /\ r.na \in Int /\ r.nw = 0 /\ r.nw >= 0
          /\ r.s.curr + r.na = x
      BY <3>3, <3>5, <1>7
    <3> QED
      BY <3>5, <3>6, <3>7, <3>8 DEF Scattering
  <2> QED
    BY <2>17, <2>18, <1>1, <1>3
<1>9. CASE is = {}
  <2>1. \A g \in ToSet(t.stack) : g.addr > x + m \/ g.addr + g.nb < x
    BY <1>5, <1>9
  <2>2. t.pos = x
    <3> SUFFICES ASSUME t.pos # x PROVE FALSE
      OBVIOUS
    <3>1. PICK g \in ToSet(t.stack) : Covers(g, x)
      BY <1>1, <1>2 DEF WritePlace
    <3>2. PICK b \in Nat, q \in Nat : b = g.addr /\ q = g.nb
      BY <1>2, WriteFields
    <3>3. b < x /\ x =< b + q
      BY <3>1, <3>2 DEF Covers
    <3>4. b > x + m \/ b + q < x
      BY <3>2, <2>1
    <3> QED
      BY <3>3, <3>4
  <2>3. PICK f : f = NewFrame(x)
    OBVIOUS
  <2>4. Fillable(f) /\ f \in Framed /\ f.addr = x /\ f.nb = 0
    BY <2>3, Fresher
  <2>5. Beside(t.stack, f, x + Len(bytes))
    <3>1. ASSUME NEW g \in ToSet(t.stack)
          PROVE  (g.addr > x + m /\ g.addr > x + 0) \/ g.addr + g.nb < x
      <4>1. PICK b \in Nat, q \in Nat : b = g.addr /\ q = g.nb
        BY <1>2, WriteFields
      <4>2. b > x + m \/ b + q < x
        BY <4>1, <2>1
      <4>3. (b > x + m /\ b > x + 0) \/ b + q < x
        BY <4>2
      <4> QED
        BY <4>1, <4>3
    <3> QED
      BY <3>1, <2>4 DEF Beside
  <2>6. Poised(t, f)
    BY <2>2, <2>4, <1>1 DEF Poised
  <2>7. Shows(ToWrite(t) \cup {f}, t.disk, c)
    <3>1. ToWrite(t) \in SUBSET Framed
      BY <1>2, WriteFields DEF ToWrite
    <3> QED
      BY <3>1, <2>4, <1>2, FileFields, NoBytes
  <2>8. PICK r : r = [s |-> t, f |-> f, nw |-> 0, na |-> 0, more |-> TRUE]
    OBVIOUS
  <2>9. ToFill(t, is) = r
    BY <2>3, <2>8, <1>1, <1>9 DEF ToFill
  <2>10. Scattering(r, c, bytes, z, x, 0)
    <3>1. Reached(f, x + 0)
      BY <2>4 DEF Reached
    <3>2. t.curr + 0 = x
      BY <1>1
    <3>3. Shows(ToWrite(t) \cup {f}, t.disk, Laidout(c, x, bytes, 0))
      BY <2>7, <1>6
    <3>4. /\ r.s = t /\ r.f = f /\ r.nw = 0 /\ r.na = 0 /\ r.more /\ r.more \in BOOLEAN
          /\ r = [s |-> r.s, f |-> r.f, nw |-> r.nw, na |-> r.na, more |-> r.more]
      BY <2>8
    <3>5. /\ r.s \in Files /\ r.s.sz = z /\ Writing(r.s) /\ Spread(r.s.stack)
          /\ Fillable(r.f) /\ Beside(r.s.stack, r.f, x + Len(bytes)) /\ Poised(r.s, r.f)
          /\ Reached(r.f, x + r.nw)
      BY <3>1, <3>4, <2>4, <2>5, <2>6, <1>2
    <3>6. Shows(ToWrite(r.s) \cup {r.f}, r.s.disk, Laidout(c, x, bytes, r.nw))
      BY <3>3, <3>4
    <3>7. /\ r.nw \in Nat /\ r.nw =< Len(bytes) /\ r.na \in Int /\ r.nw = 0 /\ r.nw >= 0
          /\ r.s.curr + r.na = x
      BY <3>2, <3>4, <1>7
    <3> QED
      BY <3>4, <3>5, <3>6, <3>7 DEF Scattering
  <2> QED
    BY <2>9, <2>10, <1>1, <1>3
<1> QED
  BY <1>8, <1>9

\* The last frame has been kept, and the bytes end at e.
Followed(v, u, e, o) ==
  /\ v \in Files /\ v.curr = u.curr /\ v.sz = u.sz
  /\ Writing(v) /\ Spread(v.stack) /\ Shows(ToWrite(v), v.disk, o)
  /\ v.pos = e \/ \E g \in ToSet(v.stack) : Covers(g, e)

HasWritten(w, c, from, bytes) ==
  Ready(w, Over(c, from, bytes)) /\ w.curr = from + Len(bytes)

LEMMA ScatteredWrite ==
  ASSUME NEW c \in Seq(Byte), NEW bytes \in Seq(Byte), NEW m \in Nat, m = Len(bytes), m > 0,
         NEW from \in Nat, NEW r, Scattering(r, c, bytes, Len(c), from, 0), r.nw = m
  PROVE  HasWritten(Scattered(r), c, from, bytes)
<1>1. PICK u \in Files, f \in Framed : u = r.s /\ f = r.f
  BY DEF Scattering, Fillable
<1>2. PICK na \in Int : na = r.na
  BY DEF Scattering
<1>3. PICK z \in Nat : z = Len(c)
  BY LenProperties
<1>4. PICK e \in Nat : e = from + m
  OBVIOUS
<1>5. /\ u.sz = z /\ Writing(u) /\ Spread(u.stack)
      /\ Fillable(f) /\ Beside(u.stack, f, from + Len(bytes)) /\ Poised(u, f)
      /\ Reached(f, e)
      /\ f.nb = 0 \/ f.addr < e
  BY <1>1, <1>3, <1>4 DEF Scattering
<1>6. u.curr + na = from
  BY <1>1, <1>2 DEF Scattering
<1>7. PICK o \in Seq(Byte) : /\ o = Over(c, from, bytes)
                             /\ Len(o) = IF z >= e THEN z ELSE e
  BY <1>3, <1>4, OverIs
<1>8. Shows(ToWrite(u) \cup {f}, u.disk, o)
  <2>1. SubSeq(bytes, 1, m) = bytes
    <3>1. PICK b : b = SubSeq(bytes, 1, m)
      OBVIOUS
    <3>2. b \in Seq(Byte) /\ Len(b) = Len(bytes) /\ \A i \in 1 .. Len(b) : b[i] = bytes[i]
      BY <3>1, Prefix
    <3> QED
      BY <3>1, <3>2, SameSeq
  <2>2. Laidout(c, from, bytes, m) = o
    <3>1. m # 0 /\ o = Over(c, from, bytes)
      BY <1>7
    <3>2. Laidout(c, from, bytes, m) = Over(c, from, SubSeq(bytes, 1, m))
      BY <3>1 DEF Laidout
    <3> QED
      BY <3>1, <3>2, <2>1
  <2> QED
    BY <2>2, <1>1 DEF Scattering
<1>9. PICK x \in Nat : x = u.curr
  BY FileFields
<1>10. PICK a \in Nat, p \in Nat : a = f.addr /\ p = f.nb /\ a =< e /\ e =< a + p /\ (p = 0 \/ a < e)
  <2>1. PICK a \in Nat, p \in Nat : a = f.addr /\ p = f.nb
    BY ValidFacts
  <2> QED
    BY <2>1, <1>5 DEF Reached
<1>11. ToWrite(u) \in SUBSET Framed
  BY <1>5, WriteFields DEF ToWrite
<1>12. x + na + r.nw = e
  BY <1>4, <1>6, <1>9
<1>13. PICK v : v = Kept(u, f)
  OBVIOUS
<1>14. ASSUME p = 0 PROVE Followed(v, u, e, o)
  <2>1. v = u
    BY <1>10, <1>13, <1>14 DEF Kept
  <2>2. Shows(ToWrite(u), u.disk, o)
    BY <1>8, <1>10, <1>11, <1>14, FileFields, NoBytes
  <2>3. e = a
    BY <1>10, <1>14
  <2>4. u.pos = e
    BY <2>3, <1>5, <1>10, <1>14 DEF Poised
  <2>5. Followed(v, u, e, o)
    BY <2>1, <2>2, <2>4, <1>5 DEF Followed
  <2> QED
    BY <2>5
<1>15. ASSUME p > 0 PROVE Followed(v, u, e, o)
  <2>1. f.kind = "write" /\ f.nb < BufSz
    BY <1>5, <1>10, <1>15 DEF Fillable
  <2>2. f \in Frame
    <3>1. f.addr \in Nat /\ f.nb \in 0 .. BufSz /\ f.bf \in [1 .. BufSz -> Bytes \cup {0}]
      BY DEF Framed, Byte
    <3>2. f.nb \in 1 .. BufSz
      BY <3>1, <1>10, <1>15
    <3>3. f = [addr |-> f.addr, nb |-> f.nb, kind |-> f.kind, bf |-> f.bf]
      BY DEF Framed
    <3> QED
      BY <3>1, <3>2, <3>3, <2>1 DEF Frame
  <2>3. Span(f) = p
    BY <2>1, <1>10 DEF Span
  <2>4. \A g \in ToSet(u.stack) : Apart(g, f)
    <3> TAKE g \in ToSet(u.stack)
    <3>1. PICK b \in Nat, q \in Nat : b = g.addr /\ q = g.nb /\ q = Span(g)
      BY <1>5, WriteFields
    <3>2. b > a + p \/ b + q < a
      BY <3>1, <1>5, <1>10 DEF Beside
    <3>3. b + q < a \/ a + p < b
      BY <3>2
    <3> QED
      BY <3>1, <3>3, <2>3, <1>10 DEF Apart
  <2>5. PICK st \in Seq(Frame) : st = Append(u.stack, f)
    BY <2>2, FileFields, SeqAppend
  <2>6. Spread(st) /\ ToSet(st) = ToSet(u.stack) \cup {f}
    BY <2>2, <2>4, <2>5, <1>5, FileFields, Added, SeqAppend
  <2>7. PICK y : y = [u EXCEPT !.stack = st]
    OBVIOUS
  <2>8. /\ y \in Files /\ y.stack = st
        /\ y.disk = u.disk /\ y.pos = u.pos /\ y.sz = u.sz /\ y.curr = u.curr
    BY <2>7 DEF Files
  <2>9. v = y
    <3>1. f.nb # 0
      BY <1>10, <1>15
    <3> QED
      BY <3>1, <2>5, <2>7, <1>13 DEF Kept, Push
  <2>10. Writing(v)
    BY <2>1, <2>6, <2>8, <2>9, <1>5 DEF Writing, Unsaved
  <2>11. ToWrite(v) = ToWrite(u) \cup {f}
    BY <2>1, <2>6, <2>8, <2>9 DEF ToWrite
  <2>12. Covers(f, e) /\ f \in ToSet(v.stack)
    BY <2>6, <2>8, <2>9, <1>10, <1>15 DEF Covers
  <2>13. Shows(ToWrite(v), v.disk, o)
    BY <2>8, <2>9, <2>11, <1>8
  <2>14. v \in Files /\ v.curr = u.curr /\ v.sz = u.sz /\ Spread(v.stack)
    BY <2>6, <2>8, <2>9
  <2>15. Followed(v, u, e, o)
    BY <2>10, <2>12, <2>13, <2>14 DEF Followed
  <2> QED
    BY <2>15
<1>16. Followed(v, u, e, o)
  <2>1. p = 0 \/ p > 0
    OBVIOUS
  <2> QED
    BY <2>1, <1>14, <1>15
<1>17. /\ v \in Files /\ v.curr = x /\ v.sz = z
       /\ Writing(v) /\ Spread(v.stack) /\ Shows(ToWrite(v), v.disk, o)
       /\ v.pos = e \/ \E g \in ToSet(v.stack) : Covers(g, e)
  BY <1>5, <1>9, <1>16 DEF Followed
<1>18. PICK w : w = SetAddr(v, e)
  OBVIOUS
<1>19. /\ w \in Files /\ w.curr = e /\ w.sz >= e /\ w.sz >= z
       /\ w.sz = e \/ w.sz = z
       /\ w.disk = v.disk /\ w.pos = v.pos /\ w.stack = v.stack
  BY <1>18, <1>17, Addressed, ZenonT(30)
<1>20. Scattered(r) = w
  BY <1>1, <1>2, <1>9, <1>12, <1>13, <1>18, <1>17 DEF Scattered
<1>21. w.sz = Len(o)
  <2>1. PICK y \in Nat : y = w.sz
    BY <1>19, FileFields
  <2>2. y >= e /\ y >= z /\ (y = e \/ y = z)
    BY <2>1, <1>19
  <2> QED
    BY <2>1, <2>2, <1>7
<1>22. ToWrite(w) = ToWrite(v) /\ Writing(w) /\ WritePlace(w) /\ Spread(w.stack)
  BY <1>19, <1>17 DEF ToWrite, Writing, WritePlace
<1>23. Ready(w, o)
  BY <1>19, <1>21, <1>22, <1>17 DEF Ready, Sound
<1> QED
  BY <1>4, <1>7, <1>19, <1>20, <1>23 DEF HasWritten

\* A buffered write: the file to be has the bytes laid over it.
LEMMA BufferedWrite ==
  ASSUME NEW s \in Files, NEW c \in Seq(Byte), Ready(s, c),
         NEW bytes \in Seq(Byte), Len(bytes) > 0
  PROVE  HasWritten(BufferedOut(s, bytes), c, s.curr, bytes)
<1>1. PICK x \in Nat : x = s.curr
  BY FileFields
<1>2. PICK m \in Nat : m = Len(bytes) /\ m > 0
  BY LenProperties
<1>3. PICK those : those = {f \in ToSet(s.stack) : x < f.addr /\ f.addr <= x + m}
  OBVIOUS
<1>4. PICK t : t = RemoveAll(s, those, TRUE, TRUE)
  OBVIOUS
<1>5. Cleared(s, x, m) = t
  BY <1>3, <1>4 DEF Cleared
<1>6. Writing(s)
  BY DEF Ready
<1>7. Off(s, those)
  <2>1. ASSUME NEW f \in ToSet(s.stack), f \in those PROVE f.addr # x
    <3>1. PICK a \in Nat : a = f.addr
      BY <1>6, WriteFields
    <3>2. x < a
      BY <3>1, <2>1, <1>3
    <3> QED
      BY <3>1, <3>2
  <2> QED
    BY <2>1, <1>1 DEF Off
<1>8. t \in Files /\ ToSet(t.stack) = {f \in ToSet(s.stack) : f \notin those}
  BY <1>4, Removed
<1>9. Ready(t, c) /\ t.curr = x
  BY <1>1, <1>4, <1>7, Removed, ZenonT(30)
<1>10. Gap(t.stack, x, m)
  <2>1. ASSUME NEW f \in ToSet(t.stack) PROVE f.addr =< x \/ f.addr > x + m
    <3>1. f \in ToSet(s.stack) /\ f \notin those
      BY <1>8
    <3>2. PICK a \in Nat : a = f.addr
      BY <3>1, <1>6, WriteFields
    <3>3. ~(x < a /\ a <= x + m)
      BY <3>1, <3>2, <1>3
    <3> QED
      BY <3>2, <3>3
  <2> QED
    BY <2>1 DEF Gap
<1>11. PICK r : r = ToFill(t, Candidates(t, x, m))
  OBVIOUS
<1>12. Scattering(r, c, bytes, Len(c), x, 0)
  BY <1>2, <1>8, <1>9, <1>10, <1>11, ToFillWrite
<1>13. PICK q : /\ q = ScatterAll(r, x, bytes)
                /\ Scattering(q, c, bytes, Len(c), x, 0) /\ q.nw = Len(bytes)
  BY <1>12, LenProperties, ScatterDone
<1>14. PICK w : w = Scattered(q)
  OBVIOUS
<1>15. HasWritten(w, c, x, bytes)
  <2>1. q.nw = m
    BY <1>2, <1>13
  <2>2. Scattering(q, c, bytes, Len(c), x, 0)
    BY <1>13
  <2>3. m = Len(bytes) /\ m > 0
    BY <1>2
  <2>4. HasWritten(Scattered(q), c, x, bytes)
    BY <2>1, <2>2, <2>3, ScatteredWrite
  <2> QED
    BY <2>4, <1>14
<1>16. BufferedOut(s, bytes) = w
  BY <1>1, <1>2, <1>5, <1>11, <1>13, <1>14 DEF BufferedOut
<1> QED
  BY <1>1, <1>15, <1>16
-----------------------------------------------------------------------------
(* What each call does to a file, and to what it is to be.                 *)

LEMMA HoldFields ==
  ASSUME NEW s, NEW c, NEW l, NEW b, Holding(s, c, l, b)
  PROVE  /\ s \in Files /\ Spread(s.stack) /\ c \in Seq(Byte) /\ Shows(ToWrite(s), s.disk, c)
         /\ s.curr \in Nat /\ s.sz \in Nat /\ s.pos \in Nat /\ s.disk \in Seq(Byte)
         /\ b \in BOOLEAN /\ l \in {"none", "read", "write", "flush"}
<1>1. s \in Files
  BY DEF Holding, Sound
<1> QED
  BY <1>1, FileFields DEF Holding, Sound

\* Without frames to be written the file is what it is to be.
LEMMA AllRead ==
  ASSUME NEW s, NEW c, NEW l, NEW b, Holding(s, c, l, b), l # "write" \/ s.stack = <<>>
  PROVE  c = s.disk /\ ToWrite(s) = {}
<1>1. s \in Files /\ s.disk \in Seq(Byte) /\ c \in Seq(Byte) /\ Shows(ToWrite(s), s.disk, c)
  BY HoldFields
<1>2. Reading(s) \/ s.stack = <<>>
  BY DEF Holding, Phases
<1>3. ToSet(<<>>) = {}
  BY DEF ToSet
<1>4. ToWrite(s) = {}
  <2>1. CASE s.stack = <<>>
    BY <2>1, <1>3 DEF ToWrite
  <2>2. CASE Reading(s)
    BY <2>2 DEF ToWrite, Reading, Fresh
  <2> QED
    BY <2>1, <2>2, <1>2
<1> QED
  BY <1>1, <1>4, NothingToWrite

Place(s, offs, whence) == CASE whence = "SEEK_SET" -> offs
                           [] whence = "SEEK_CUR" -> s.curr + offs
                           [] whence = "SEEK_END" -> s.sz + offs

\* A seek goes to a place by any of the three ways.
LEMMA SeekIs ==
  ASSUME NEW s \in Files, NEW offs \in Int, NEW whence \in {"SEEK_SET", "SEEK_CUR", "SEEK_END"},
         NEW e \in Nat,
         e = Place(s, offs, whence),
         Held(s, e) \/ LSeek(s, offs, whence).pos = e
  PROVE  Seek(s, offs, whence, FALSE) = Seek(s, e, "SEEK_SET", FALSE)
<1>1. Max({0, e}) = e /\ Max({e, 0}) = e
  BY MaxTwo
<1>2. PICK to : to = LSeek(s, offs, whence)
  OBVIOUS
<1>3. PICK p : to = [s EXCEPT !.pos = p]
  BY <1>2 DEF LSeek
<1>4. to.pos = p
  BY <1>3 DEF Files
<1>5. LSeek(s, e, "SEEK_SET") = [s EXCEPT !.pos = e]
  BY DEF LSeek
<1>6. PICK r : r = [s EXCEPT !.pos = e]
  OBVIOUS
<1>7. r.pos = e
  BY <1>6 DEF Files
<1>8. Seek(s, offs, whence, FALSE)
        = IF (e # s.curr \/ FALSE) /\ ~Held(s, e) THEN [to EXCEPT !.curr = Max({to.pos, 0})]
          ELSE [s EXCEPT !.curr = e]
  BY <1>1, <1>2 DEF Seek, Place
<1>9. Seek(s, e, "SEEK_SET", FALSE)
        = IF (e # s.curr \/ FALSE) /\ ~Held(s, e) THEN [r EXCEPT !.curr = Max({r.pos, 0})]
          ELSE [s EXCEPT !.curr = e]
  BY <1>1, <1>5, <1>6 DEF Seek
<1>10. ~Held(s, e) => to = r
  BY <1>2, <1>3, <1>4, <1>6
<1> QED
  BY <1>8, <1>9, <1>10

Sought(t, s, c, l, b, e) ==
  /\ Holding(t, c, l, b) /\ t.curr = e
  /\ l = "flush" /\ e # s.curr => Holding(t, c, "none", b)

LEMMA HoldSeek ==
  ASSUME NEW s, NEW c, NEW l, NEW b, Holding(s, c, l, b), NEW e \in Nat,
         NEW t, t = Seek(s, e, "SEEK_SET", FALSE)
  PROVE  Sought(t, s, c, l, b, e)
<1>1. s \in Files /\ s.curr \in Nat /\ s.pos \in Nat
  BY HoldFields
<1>2. /\ t \in Files /\ t.disk = s.disk /\ t.sz = s.sz /\ t.stack = s.stack
      /\ t.curr = e
      /\ e # s.curr /\ ~Held(s, e) => t.pos = e
      /\ ~(e # s.curr /\ ~Held(s, e)) => t.pos = s.pos
  BY <1>1, SeekSet
<1>3. Sound(t, c)
  BY <1>2 DEF Holding, Sound, ToWrite
<1>4. ToSet(<<>>) = {}
  BY DEF ToSet
<1>5. s.stack = <<>> \/ Writing(s) => ~Held(s, e)
  BY <1>1, <1>4, NotHeld DEF Writing, Unsaved
<1>6. s.stack = <<>> /\ s.pos = s.curr => t.stack = <<>> /\ t.pos = t.curr
  BY <1>2, <1>5
<1>7. ASSUME Reading(s), ReadPlace(s) PROVE Reading(t) /\ ReadPlace(t)
  <2>1. Reading(t)
    BY <1>2, <1>7 DEF Reading
  <2>2. CASE e # s.curr /\ ~Held(s, e)
    BY <2>1, <2>2, <1>2 DEF ReadPlace
  <2>3. CASE e = s.curr
    BY <2>1, <2>3, <1>2, <1>7 DEF ReadPlace
  <2>4. CASE Held(s, e)
    <3>1. PICK k \in DOMAIN s.stack : Covers(s.stack[k], e + 1)
      BY <2>4 DEF Held
    <3>2. PICK f : f = s.stack[k] /\ f \in ToSet(s.stack)
      BY DEF ToSet
    <3>3. PICK a \in Nat, p \in Nat : a = f.addr /\ p = f.nb
      BY <3>2, <1>1, <1>7, ReadFields
    <3>4. a < e + 1 /\ e + 1 <= a + p
      BY <3>1, <3>2, <3>3 DEF Covers
    <3>5. a =< e /\ e =< a + p
      BY <3>4
    <3> QED
      BY <2>1, <3>2, <3>3, <3>5, <1>2 DEF ReadPlace
  <2> QED
    BY <2>2, <2>3, <2>4
<1>8. ASSUME Writing(s), WritePlace(s) PROVE Writing(t) /\ WritePlace(t)
  <2>1. Writing(t) /\ ~Held(s, e)
    BY <1>2, <1>5, <1>8 DEF Writing
  <2>2. CASE e # s.curr
    BY <2>1, <2>2, <1>2 DEF WritePlace
  <2>3. CASE e = s.curr
    BY <2>1, <2>3, <1>2, <1>8 DEF WritePlace
  <2> QED
    BY <2>2, <2>3
<1>9. Phases(t, l)
  BY <1>2, <1>6, <1>7, <1>8 DEF Holding, Phases
<1>10. Holding(t, c, l, b)
  BY <1>2, <1>3, <1>6, <1>9 DEF Holding
<1>11. ASSUME l = "flush", e # s.curr PROVE Holding(t, c, "none", b)
  <2>1. s.stack = <<>>
    BY <1>11 DEF Holding, Phases
  <2>2. t.stack = <<>> /\ t.pos = t.curr
    BY <2>1, <1>2, <1>5, <1>11
  <2>3. Phases(t, "none")
    BY <2>2 DEF Phases
  <2> QED
    BY <2>2, <2>3, <1>10 DEF Holding
<1> QED
  BY <1>2, <1>10, <1>11 DEF Sought

LEMMA HoldFlush ==
  ASSUME NEW s, NEW c, NEW l, NEW b, Holding(s, c, l, b), NEW t, t = Flushed(s)
  PROVE  Holding(t, c, "flush", b) /\ t.curr = s.curr /\ t.disk = c
<1>1. s \in Files /\ s.curr \in Nat /\ c \in Seq(Byte) /\ b \in BOOLEAN
  BY HoldFields
<1>2. PICK those : those = ToSet(s.stack)
  OBVIOUS
<1>3. PICK u : u = RemoveAll(s, those, TRUE, FALSE)
  OBVIOUS
<1>4. u \in Files /\ ToSet(u.stack) = {}
  <2>1. u \in Files /\ ToSet(u.stack) = {f \in ToSet(s.stack) : f \notin those}
    BY <1>1, <1>3, Removed
  <2> QED
    BY <2>1, <1>2
<1>5. u.stack = <<>>
  <2>1. PICK st \in Seq(Frame) : st = u.stack
    BY <1>4, FileFields
  <2>2. \A k \in DOMAIN st : FALSE
    BY <2>1, <1>4 DEF ToSet
  <2>3. Len(st) = 0
    <3>1. PICK l1 \in Nat : l1 = Len(st) /\ DOMAIN st = 1 .. l1
      BY LenProperties
    <3>2. l1 > 0 => 1 \in 1 .. l1
      OBVIOUS
    <3> QED
      BY <3>1, <3>2, <2>2
  <2> QED
    BY <2>1, <2>3
<1>6. t = [u EXCEPT !.curr = s.curr]
  BY <1>2, <1>3 DEF Flushed
<1>7. /\ t \in Files /\ t.curr = s.curr /\ t.stack = <<>>
      /\ t.disk = u.disk /\ t.pos = u.pos /\ t.sz = u.sz
  BY <1>1, <1>4, <1>5, <1>6 DEF Files
<1>8. ToSet(<<>>) = {} /\ Spread(<<>>)
  BY DEF ToSet, Spread
<1>9. u.disk = c /\ (b => u.sz = Len(c)) /\ (~b => u.pos = s.curr)
  <2>1. CASE l # "write" \/ s.stack = <<>>
    <3>1. c = s.disk /\ ToWrite(s) = {}
      BY <2>1, AllRead
    <3>2. \A f \in ToSet(s.stack) : f \in those => f.kind = "read" \/ ~TRUE
      BY <3>1, <1>1, FileFields, FrameFields DEF ToWrite
    <3>3. u.disk = s.disk /\ u.pos = s.pos /\ u.sz = s.sz
      BY <3>2, <1>1, <1>3, Removed, ZenonT(30)
    <3> QED
      BY <3>1, <3>3 DEF Holding
  <2>2. CASE l = "write" /\ s.stack # <<>>
    <3>1. b /\ Ready(s, c)
      BY <2>2 DEF Holding, Phases, Ready
    <3>2. Ready(u, c)
      BY <3>1, <1>1, <1>3, Removed
    <3>3. ToWrite(u) = {}
      BY <1>4 DEF ToWrite
    <3>4. Shows({}, u.disk, c) /\ u.sz = Len(c)
      BY <3>2, <3>3 DEF Ready, Sound
    <3>5. u.disk = c
      BY <3>4, <1>1, <1>4, FileFields, NothingToWrite
    <3> QED
      BY <3>1, <3>4, <3>5
  <2> QED
    BY <2>1, <2>2
<1>10. Sound(t, c)
  <2>1. ToWrite(t) = {}
    BY <1>7, <1>8 DEF ToWrite
  <2>2. Shows({}, c, c)
    BY <1>1, NothingToWrite
  <2> QED
    BY <2>1, <2>2, <1>1, <1>7, <1>8, <1>9 DEF Sound
<1>11. Phases(t, "flush")
  BY <1>7 DEF Phases
<1> QED
  BY <1>1, <1>7, <1>9, <1>10, <1>11 DEF Holding

\* What a read of n bytes gives.
Following(c, x, n) == SubSeq(c, x + 1, Min({x + n, Len(c)}))

HasGot(g, s, c, n, b) ==
  /\ Holding(g.s, c, "read", b)
  /\ g.bytes \in Seq(Byte) /\ g.bytes = Following(c, s.curr, n)
  /\ g.s.curr = s.curr + Len(g.bytes)
  /\ b /\ g.bytes # <<>> => \E f \in ToSet(g.s.stack) : Covers(f, g.s.curr)

LEMMA HoldRead ==
  ASSUME NEW s, NEW c, NEW l, NEW b, Holding(s, c, l, b), l \in {"none", "read"},
         NEW n \in Nat, n > 0, NEW g,
         b => g = IF s.curr >= s.sz THEN [s |-> s, bytes |-> <<>>] ELSE BufferedIn(s, n),
         ~b => g = [s |-> SetAddr(OsReads(s, n), s.curr + Len(OsRead(s, n))), bytes |-> OsRead(s, n)]
  PROVE  HasGot(g, s, c, n, b)
<1>1. /\ s \in Files /\ Spread(s.stack) /\ c \in Seq(Byte) /\ b \in BOOLEAN
      /\ s.curr \in Nat
  BY HoldFields
<1>2. c = s.disk /\ ToWrite(s) = {}
  BY AllRead
<1>3. ToSet(<<>>) = {}
  BY DEF ToSet
<1>4. Reading(s) /\ ReadPlace(s)
  BY <1>3 DEF Holding, Phases, Reading, ReadPlace
<1>5. ASSUME Returned(g, s, n), b => g.s.sz = s.sz /\ ReadPlace(g.s),
             ~b => g.s.stack = <<>> /\ g.s.pos = g.s.curr
      PROVE  Holding(g.s, c, "read", b)
  <2>1. PICK w \in Files : w = g.s
    BY <1>5 DEF Returned
  <2>2. w.disk = c /\ Spread(w.stack) /\ Reading(w)
    BY <2>1, <1>2, <1>5 DEF Returned
  <2>3. ToWrite(w) = {}
    BY <2>2 DEF ToWrite, Reading, Fresh
  <2>4. Shows({}, c, c)
    BY <1>1, NothingToWrite
  <2>5. Sound(w, c)
    BY <2>2, <2>3, <2>4, <1>1 DEF Sound
  <2>6. ReadPlace(w)
    BY <2>1, <1>1, <1>5 DEF ReadPlace
  <2>7. Phases(w, "read")
    BY <2>2, <2>6 DEF Phases
  <2>8. b => w.sz = Len(c)
    BY <2>1, <1>5 DEF Holding
  <2>9. ~b => w.stack = <<>> /\ w.pos = w.curr
    BY <2>1, <1>5
  <2> QED
    BY <2>1, <2>5, <2>7, <2>8, <2>9, <1>1 DEF Holding
<1>6. CASE b
  <2>1. s.sz = Len(s.disk)
    BY <1>2, <1>6 DEF Holding
  <2>2. g = IF s.curr >= s.sz THEN [s |-> s, bytes |-> <<>>] ELSE BufferedIn(s, n)
    BY <1>6
  <2>3. /\ Returned(g, s, n) /\ g.s.sz = s.sz /\ ReadPlace(g.s)
        /\ g.bytes # <<>> => \E f \in ToSet(g.s.stack) : Covers(f, g.s.curr)
    BY <2>1, <2>2, <1>1, <1>4, BufferedReturns
  <2>4. Holding(g.s, c, "read", b)
    BY <2>3, <1>5, <1>6
  <2> QED
    BY <2>3, <2>4, <1>2 DEF HasGot, Returned, Following
<1>7. CASE ~b
  <2>1. s.stack = <<>> /\ s.pos = s.curr
    BY <1>7 DEF Holding
  <2>2. g = [s |-> SetAddr(OsReads(s, n), s.curr + Len(OsRead(s, n))), bytes |-> OsRead(s, n)]
    BY <1>7
  <2>3. Returned(g, s, n) /\ g.s.pos = g.s.curr /\ g.s.stack = <<>>
    BY <2>1, <2>2, <1>1, PlainReturns
  <2>4. Holding(g.s, c, "read", b)
    BY <2>3, <1>5, <1>7
  <2> QED
    BY <2>3, <2>4, <1>2, <1>7 DEF HasGot, Returned, Following
<1> QED
  BY <1>1, <1>6, <1>7

HasPut(w, s, c, bytes, b) ==
  Holding(w, Over(c, s.curr, bytes), "write", b) /\ w.curr = s.curr + Len(bytes)

LEMMA HoldWrite ==
  ASSUME NEW s, NEW c, NEW l, NEW b, Holding(s, c, l, b), l \in {"none", "write"},
         NEW bytes \in Seq(Byte), Len(bytes) > 0,
         NEW w, b => w = BufferedOut(s, bytes),
         ~b => w = SetAddr(OsWrites(s, bytes), s.curr + Len(bytes))
  PROVE  HasPut(w, s, c, bytes, b)
<1>1. /\ s \in Files /\ Spread(s.stack) /\ c \in Seq(Byte) /\ b \in BOOLEAN
      /\ s.curr \in Nat /\ s.disk \in Seq(Byte)
  BY HoldFields
<1>2. ToSet(<<>>) = {} /\ Spread(<<>>)
  BY DEF ToSet, Spread
<1>3. Writing(s) /\ WritePlace(s)
  BY <1>2 DEF Holding, Phases, Writing, WritePlace
<1>4. PICK o \in Seq(Byte) : o = Over(c, s.curr, bytes)
  BY <1>1, LenProperties, OverIs
<1>5. CASE b
  <2>1. Ready(s, c)
    BY <1>3, <1>5 DEF Holding, Ready
  <2>2. HasWritten(w, c, s.curr, bytes)
    BY <2>1, <1>1, <1>5, BufferedWrite
  <2>3. Ready(w, o) /\ w.curr = s.curr + Len(bytes)
    BY <2>2, <1>4 DEF HasWritten
  <2>4. Phases(w, "write")
    BY <2>3 DEF Ready, Phases
  <2>5. Holding(w, o, "write", b)
    BY <2>3, <2>4, <1>5 DEF Ready, Holding
  <2> QED
    BY <2>3, <2>5, <1>4 DEF HasPut
<1>6. CASE ~b
  <2>1. s.stack = <<>> /\ s.pos = s.curr /\ c = s.disk
    BY <1>6, AllRead DEF Holding
  <2>2. PICK t : t = OsWrites(s, bytes)
    OBVIOUS
  <2>3. /\ t \in Files /\ t.disk = Over(s.disk, s.pos, bytes)
        /\ t.pos = s.pos + Len(bytes) /\ t.stack = s.stack
    BY <2>2, <1>1, WriteOut
  <2>4. PICK e \in Nat : e = s.curr + Len(bytes)
    BY <1>1, LenProperties
  <2>5. w = SetAddr(t, e)
    BY <2>2, <2>4, <1>6
  <2>6. w \in Files /\ w.curr = e /\ w.disk = t.disk /\ w.pos = t.pos /\ w.stack = t.stack
    BY <2>3, <2>5, Addressed
  <2>7. w.disk = o /\ w.stack = <<>> /\ w.pos = w.curr
    BY <2>1, <2>3, <2>4, <2>6, <1>4
  <2>8. ToWrite(w) = {} /\ Writing(w) /\ WritePlace(w)
    BY <2>7, <1>2 DEF ToWrite, Writing, WritePlace
  <2>9. Shows({}, o, o)
    BY NothingToWrite
  <2>10. Sound(w, o)
    BY <2>6, <2>7, <2>8, <2>9, <1>2 DEF Sound
  <2>11. Phases(w, "write")
    BY <2>8 DEF Phases
  <2>12. Holding(w, o, "write", b)
    BY <2>7, <2>10, <2>11, <1>1, <1>6 DEF Holding
  <2> QED
    BY <2>4, <2>6, <2>12, <1>4 DEF HasPut
<1> QED
  BY <1>1, <1>5, <1>6

\* A line is some of the bytes, and none only if there are none.
LEMMA LineFacts ==
  ASSUME NEW bytes \in Seq(Byte), NEW line, line = LineIn(NewLine, bytes)
  PROVE  /\ line \in Seq(Byte) /\ Len(line) =< Len(bytes)
         /\ line = <<>> => bytes = <<>>
<1>1. PICK l \in Nat : l = Len(bytes)
  BY LenProperties
<1>2. PICK ends : ends = {i \in DOMAIN bytes : bytes[i] = NewLine}
  OBVIOUS
<1>3. CASE ends = {}
  <2>1. line = bytes
    BY <1>2, <1>3 DEF LineIn
  <2> QED
    BY <2>1, <1>1
<1>4. CASE ends # {}
  <2>1. ends \in SUBSET Nat /\ ends \subseteq 1 .. l
    BY <1>1, <1>2
  <2>2. \E m \in ends : \A k \in ends : m =< k
    BY <2>1, <1>4, Least
  <2>3. PICK m : m = Min(ends)
    OBVIOUS
  <2>4. m \in ends
    BY <2>2, <2>3 DEF Min
  <2>5. m \in Nat /\ m >= 1 /\ m =< l
    BY <2>1, <2>4
  <2>6. line = SubSeq(bytes, 1, m)
    BY <2>3, <1>2, <1>4 DEF LineIn
  <2>7. line \in Seq(Byte) /\ Len(line) = m
    <3>1. m =< Len(bytes)
      BY <2>5, <1>1
    <3> QED
      BY <2>5, <2>6, <3>1, Prefix
  <2>8. line # <<>>
    BY <2>5, <2>7
  <2> QED
    BY <2>5, <2>7, <2>8, <1>1
<1> QED
  BY <1>3, <1>4
-----------------------------------------------------------------------------
(* Every call keeps it, and does what it would do to a plain file.         *)

\* A step that makes c of the content, and leaves the record t.
LEMMA Settled ==
  ASSUME NEW t, NEW c, NEW l, NEW b, Holding(t, c, l, b),
         disk' = t.disk, pos' = t.pos, sz' = t.sz, curr' = t.curr, stack' = t.stack
  PROVE  State' = t /\ Content' = c
<1>1. t \in Files /\ Spread(t.stack) /\ c \in Seq(Byte) /\ Shows(ToWrite(t), t.disk, c)
  BY HoldFields
<1>2. t = [disk |-> t.disk, pos |-> t.pos, sz |-> t.sz, curr |-> t.curr, stack |-> t.stack]
  BY <1>1 DEF Files
<1>3. State' = t
  BY <1>2 DEF State
<1>4. Laid(t.disk, t.stack) = c
  BY <1>1, FileFields, LaidIs DEF ToWrite
<1>5. Content' = Laid(disk', stack')
  BY DEF Content
<1> QED
  BY <1>3, <1>4, <1>5

LEMMA Writes ==
  ASSUME NEW w \in Writings
  PROVE  w \in Seq(Byte) /\ Len(w) > 0
<1>1. PICK n \in 1 .. MaxCount, x \in Bytes : w = [i \in 1 .. n |-> x]
  BY DEF Writings
<1>2. n \in Nat /\ n > 0
  BY <1>1, FileAssumption
<1>3. w \in [1 .. n -> Byte]
  BY <1>1 DEF Byte
<1> QED
  BY <1>2, <1>3, ArraySeq

LEMMA StateNow ==
  ASSUME IInv
  PROVE  \E s, c : /\ s = State /\ c = Content /\ Holding(s, c, last, buffered)
                   /\ s.disk = disk /\ s.pos = pos /\ s.sz = sz /\ s.curr = curr
                   /\ s.stack = stack
BY DEF IInv, State

LEMMA InIs ==
  ASSUME NEW s, NEW n, NEW g, g = In(s, n), buffered \in BOOLEAN
  PROVE  /\ buffered => g = IF s.curr >= s.sz THEN [s |-> s, bytes |-> <<>>] ELSE BufferedIn(s, n)
         /\ ~buffered => g = [s |-> SetAddr(OsReads(s, n), s.curr + Len(OsRead(s, n))),
                              bytes |-> OsRead(s, n)]
<1>1. CASE buffered
  BY <1>1 DEF In
<1>2. CASE ~buffered
  BY <1>2 DEF In
<1> QED
  BY <1>1, <1>2

\* A step of the plain file.
PlainStep == Plain!Next

LEMMA PlainIs ==
  /\ call'.name = "fread" /\ result' = Following(Content, curr, call'.n)
     /\ curr' = curr + Len(result') /\ Content' = Content => PlainStep
  /\ call'.name = "fgets" /\ result' = LineIn(NewLine, Following(Content, curr, call'.n))
     /\ curr' = curr + Len(result') /\ Content' = Content => PlainStep
  /\ call'.name = "fwrite" /\ Content' = Over(Content, curr, call'.bytes)
     /\ curr' = curr + Len(call'.bytes) /\ result' = <<>> => PlainStep
  /\ call'.name = "ungetc" /\ curr' = curr - 1 /\ result' = <<>>
     /\ Content' = Content => PlainStep
  /\ call'.name = "fflush" /\ curr' = curr /\ result' = <<>>
     /\ Content' = Content => PlainStep
  /\ call'.name = "fopen" /\ curr' = 0 /\ result' = <<>>
     /\ Content' = Content => PlainStep
  /\ call'.name = "fseek" /\ result' = <<>> /\ Content' = Content
     /\ curr' = Max({0, (CASE call'.whence = "SEEK_SET" -> 0
                           [] call'.whence = "SEEK_CUR" -> curr
                           [] call'.whence = "SEEK_END" -> Len(Content)) + call'.offs})
     => PlainStep
<1>1. (\A S : Plain!Max(S) = Max(S)) /\ (\A S : Plain!Min(S) = Min(S))
  BY DEF Plain!Max, Max, Plain!Min, Min
<1>2. \A b, at, new : Plain!Over(b, at, new) = Over(b, at, new)
  BY <1>1 DEF Plain!Over, Over
<1>3. \A nl, b : Plain!LineIn(nl, b) = LineIn(nl, b)
  BY <1>1 DEF Plain!LineIn, LineIn
<1>4. PlainStep <=>
        \/ call'.name = "fread" /\ Plain!Take(Plain!Following(call'.n))
        \/ call'.name = "fgets" /\ Plain!Take(LineIn(NewLine, Plain!Following(call'.n)))
        \/ /\ call'.name = "fwrite" /\ Content' = Over(Content, curr, call'.bytes)
           /\ curr' = curr + Len(call'.bytes) /\ result' = <<>>
        \/ call'.name = "fseek" /\ Plain!Goto(Plain!Max({0, Plain!From(call'.whence) + call'.offs}))
        \/ call'.name = "ungetc" /\ Plain!Goto(curr - 1)
        \/ call'.name = "fflush" /\ Plain!Goto(curr)
        \/ call'.name = "fopen" /\ Plain!Goto(0)
  BY <1>2, <1>3 DEF PlainStep, Plain!Next
<1>5. \A n : Plain!Following(n) = Following(Content, curr, n)
  BY <1>1 DEF Plain!Following, Following
<1>6. \A b : Plain!Take(b) <=> result' = b /\ curr' = curr + Len(b) /\ Content' = Content
  BY DEF Plain!Take
<1>7. \A p : Plain!Goto(p) <=> curr' = p /\ result' = <<>> /\ Content' = Content
  BY DEF Plain!Goto
<1>8. \A w : Plain!From(w) = CASE w = "SEEK_SET" -> 0
                               [] w = "SEEK_CUR" -> curr
                               [] w = "SEEK_END" -> Len(Content)
  BY DEF Plain!From
<1> QED
  BY <1>4, <1>5, <1>6, <1>7, <1>8, <1>1

LEMMA ReadStep ==
  ASSUME IInv, Careful, NEW n \in 1 .. MaxCount, Read(n)
  PROVE  IInv' /\ PlainStep
<1>1. PICK s, c : /\ s = State /\ c = Content /\ Holding(s, c, last, buffered)
                  /\ s.disk = disk /\ s.pos = pos /\ s.sz = sz /\ s.curr = curr
                  /\ s.stack = stack
  BY StateNow
<1>2. s.curr \in Nat /\ buffered \in BOOLEAN
  BY <1>1, HoldFields
<1>3. PICK g : g = In(s, n)
  OBVIOUS
<1>4. /\ last \in {"none", "read"}
      /\ disk' = g.s.disk /\ pos' = g.s.pos /\ sz' = g.s.sz /\ curr' = g.s.curr
      /\ stack' = g.s.stack /\ buffered' = buffered /\ result' = g.bytes
      /\ call' = [name |-> "fread", n |-> n] /\ last' = "read"
  BY <1>1, <1>3 DEF Read, Discipline, Got, SetState
<1>5. n \in Nat /\ n > 0
  BY FileAssumption
<1>6. HasGot(g, s, c, n, buffered)
  <2>1. /\ buffered => g = IF s.curr >= s.sz THEN [s |-> s, bytes |-> <<>>] ELSE BufferedIn(s, n)
        /\ ~buffered => g = [s |-> SetAddr(OsReads(s, n), s.curr + Len(OsRead(s, n))),
                             bytes |-> OsRead(s, n)]
    BY <1>2, <1>3, InIs
  <2> QED
    BY <2>1, <1>1, <1>4, <1>5, HoldRead
<1>7. /\ Holding(g.s, c, "read", buffered)
      /\ g.bytes \in Seq(Byte) /\ g.bytes = Following(c, s.curr, n)
      /\ g.s.curr = s.curr + Len(g.bytes)
      /\ buffered /\ g.bytes # <<>> => \E f \in ToSet(g.s.stack) : Covers(f, g.s.curr)
  BY <1>6 DEF HasGot
<1>8. State' = g.s /\ Content' = c
  BY <1>4, <1>7, Settled
<1>9. Ungettable'
  <2>1. g.bytes # <<>> => g.s.curr >= 1
    <3>1. PICK m \in Nat : m = Len(g.bytes)
      BY <1>7, LenProperties
    <3>2. g.bytes # <<>> => m # 0
      BY <3>1, <1>7
    <3>3. m # 0 => s.curr + m >= 1
      BY <1>2
    <3> QED
      BY <3>1, <3>2, <3>3, <1>7
  <2> QED
    BY <2>1, <1>4, <1>7 DEF Ungettable
<1>10. IInv'
  BY <1>4, <1>7, <1>8, <1>9 DEF IInv
<1>11. PlainStep
  BY <1>1, <1>4, <1>7, <1>8, PlainIs
<1> QED
  BY <1>10, <1>11

LEMMA GetsStep ==
  ASSUME IInv, Careful, NEW n \in 1 .. MaxCount, Gets(n)
  PROVE  IInv' /\ PlainStep
<1>1. PICK s, c : /\ s = State /\ c = Content /\ Holding(s, c, last, buffered)
                  /\ s.disk = disk /\ s.pos = pos /\ s.sz = sz /\ s.curr = curr
                  /\ s.stack = stack
  BY StateNow
<1>2. s.curr \in Nat /\ buffered \in BOOLEAN
  BY <1>1, HoldFields
<1>3. PICK g : g = In(s, n)
  OBVIOUS
<1>4. PICK line : line = LineIn(NewLine, g.bytes)
  OBVIOUS
<1>5. PICK t : t = IF line = <<>> THEN g.s ELSE Seek(g.s, s.curr + Len(line), "SEEK_SET", FALSE)
  OBVIOUS
<1>6. Line(g) = [s |-> t, bytes |-> line]
  BY <1>1, <1>4, <1>5 DEF Line
<1>7. /\ last \in {"none", "read"}
      /\ disk' = t.disk /\ pos' = t.pos /\ sz' = t.sz /\ curr' = t.curr
      /\ stack' = t.stack /\ buffered' = buffered /\ result' = line
      /\ call' = [name |-> "fgets", n |-> n] /\ last' = "read"
  <2>1. PICK r : r = Line(g)
    OBVIOUS
  <2>2. r.s = t /\ r.bytes = line
    BY <2>1, <1>6
  <2> QED
    BY <2>1, <2>2, <1>1, <1>3 DEF Gets, Discipline, Got, SetState
<1>8. n \in Nat /\ n > 0
  BY FileAssumption
<1>9. HasGot(g, s, c, n, buffered)
  <2>1. /\ buffered => g = IF s.curr >= s.sz THEN [s |-> s, bytes |-> <<>>] ELSE BufferedIn(s, n)
        /\ ~buffered => g = [s |-> SetAddr(OsReads(s, n), s.curr + Len(OsRead(s, n))),
                             bytes |-> OsRead(s, n)]
    BY <1>2, <1>3, InIs
  <2> QED
    BY <2>1, <1>1, <1>7, <1>8, HoldRead
<1>10. /\ Holding(g.s, c, "read", buffered)
       /\ g.bytes \in Seq(Byte) /\ g.bytes = Following(c, s.curr, n)
       /\ g.s.curr = s.curr + Len(g.bytes)
  BY <1>9 DEF HasGot
<1>11. line \in Seq(Byte) /\ (line = <<>> => g.bytes = <<>>)
  BY <1>4, <1>10, LineFacts
<1>12. Holding(t, c, "read", buffered) /\ t.curr = s.curr + Len(line)
  <2>1. CASE line = <<>>
    BY <2>1, <1>5, <1>10, <1>11
  <2>2. CASE line # <<>>
    <3>1. PICK m \in Nat : m = Len(line)
      BY <1>11, LenProperties
    <3>2. PICK e \in Nat : e = s.curr + m
      BY <1>2
    <3>3. t = Seek(g.s, e, "SEEK_SET", FALSE)
      BY <3>1, <3>2, <2>2, <1>5
    <3>4. Holding(g.s, c, "read", buffered)
      BY <1>10
    <3>5. Sought(t, g.s, c, "read", buffered, e)
      BY <3>3, <3>4, HoldSeek
    <3>6. Holding(t, c, "read", buffered) /\ t.curr = e
      BY <3>5 DEF Sought
    <3> QED
      BY <3>1, <3>2, <3>6
  <2> QED
    BY <2>1, <2>2
<1>13. State' = t /\ Content' = c
  BY <1>7, <1>12, Settled
<1>14. Ungettable'
  BY <1>7 DEF Ungettable
<1>15. IInv'
  BY <1>7, <1>12, <1>13, <1>14 DEF IInv
<1>16. PlainStep
  BY <1>1, <1>4, <1>7, <1>10, <1>12, <1>13, PlainIs
<1> QED
  BY <1>15, <1>16

LEMMA WriteStep ==
  ASSUME IInv, Careful, NEW bytes \in Writings, Write(bytes)
  PROVE  IInv' /\ PlainStep
<1>1. PICK s, c : /\ s = State /\ c = Content /\ Holding(s, c, last, buffered)
                  /\ s.disk = disk /\ s.pos = pos /\ s.sz = sz /\ s.curr = curr
                  /\ s.stack = stack
  BY StateNow
<1>2. s.curr \in Nat /\ buffered \in BOOLEAN
  BY <1>1, HoldFields
<1>3. bytes \in Seq(Byte) /\ Len(bytes) > 0
  BY Writes
<1>4. PICK w : w = Out(s, bytes)
  OBVIOUS
<1>5. /\ last \in {"none", "write"}
      /\ disk' = w.disk /\ pos' = w.pos /\ sz' = w.sz /\ curr' = w.curr
      /\ stack' = w.stack /\ buffered' = buffered /\ result' = <<>>
      /\ call' = [name |-> "fwrite", bytes |-> bytes] /\ last' = "write"
  BY <1>1, <1>4 DEF Write, Discipline, SetState
<1>6. HasPut(w, s, c, bytes, buffered)
  <2>1. /\ buffered => w = BufferedOut(s, bytes)
        /\ ~buffered => w = SetAddr(OsWrites(s, bytes), s.curr + Len(bytes))
    BY <1>4 DEF Out
  <2> QED
    BY <2>1, <1>1, <1>3, <1>5, HoldWrite
<1>7. Holding(w, Over(c, s.curr, bytes), "write", buffered) /\ w.curr = s.curr + Len(bytes)
  BY <1>6 DEF HasPut
<1>8. State' = w /\ Content' = Over(c, s.curr, bytes)
  BY <1>5, <1>7, Settled
<1>9. Ungettable'
  BY <1>5 DEF Ungettable
<1>10. IInv'
  BY <1>5, <1>7, <1>8, <1>9 DEF IInv
<1>11. call'.name = "fwrite" /\ call'.bytes = bytes
  BY <1>5
<1>12. PlainStep
  BY <1>1, <1>5, <1>7, <1>8, <1>11, PlainIs
<1> QED
  BY <1>10, <1>12

LEMMA SeekStep ==
  ASSUME IInv, Careful, NEW k \in Seeks, SeekTo(k)
  PROVE  IInv' /\ PlainStep
<1>1. PICK s, c : /\ s = State /\ c = Content /\ Holding(s, c, last, buffered)
                  /\ s.disk = disk /\ s.pos = pos /\ s.sz = sz /\ s.curr = curr
                  /\ s.stack = stack
  BY StateNow
<1>2. /\ s \in Files /\ s.curr \in Nat /\ s.pos \in Nat /\ s.sz \in Nat /\ s.disk \in Seq(Byte)
      /\ c \in Seq(Byte) /\ buffered \in BOOLEAN
  BY <1>1, HoldFields
<1>3. PICK offs \in Int, whence \in {"SEEK_SET", "SEEK_CUR", "SEEK_END"} :
        offs = k.offs /\ whence = k.whence
  BY FileAssumption
<1>4. PICK t : t = Seek(s, offs, whence, FALSE)
  OBVIOUS
<1>5. /\ whence = "SEEK_END" => buffered /\ last # "write"
      /\ whence = "SEEK_CUR" => ~buffered
      /\ LSeek(s, offs, whence).pos >= 0
      /\ disk' = t.disk /\ pos' = t.pos /\ sz' = t.sz /\ curr' = t.curr
      /\ stack' = t.stack /\ buffered' = buffered /\ result' = <<>>
      /\ call' = [name |-> "fseek", offs |-> offs, whence |-> whence]
      /\ last' = IF last = "flush" /\ curr' # curr THEN "none" ELSE last
  BY <1>1, <1>3, <1>4 DEF SeekTo, Reckoned, Reaches, SetState
<1>6. PICK l \in Nat, n \in Nat : l = Len(s.disk) /\ n = Len(c)
  BY <1>2, LenProperties
<1>7. PICK x \in Nat, p \in Nat, z \in Nat : x = s.curr /\ p = s.pos /\ z = s.sz
  BY <1>2
<1>8. LSeek(s, offs, whence).pos = CASE whence = "SEEK_SET" -> offs
                                     [] whence = "SEEK_CUR" -> p + offs
                                     [] whence = "SEEK_END" -> l + offs
  <2>1. PICK q : q = CASE whence = "SEEK_SET" -> offs
                       [] whence = "SEEK_CUR" -> p + offs
                       [] whence = "SEEK_END" -> l + offs
    OBVIOUS
  <2>2. LSeek(s, offs, whence) = [s EXCEPT !.pos = q]
    BY <2>1, <1>6, <1>7 DEF LSeek
  <2>3. [s EXCEPT !.pos = q].pos = q
    BY <1>2 DEF Files
  <2> QED
    BY <2>1, <2>2, <2>3
<1>9. whence = "SEEK_CUR" => p = x
  BY <1>1, <1>5, <1>7 DEF Holding
<1>10. whence = "SEEK_END" => z = l /\ n = l
  <2> SUFFICES ASSUME whence = "SEEK_END" PROVE z = l /\ n = l
    OBVIOUS
  <2>1. buffered /\ last # "write"
    BY <1>5
  <2>2. c = s.disk
    BY <2>1, <1>1, AllRead
  <2>3. s.sz = Len(c)
    BY <2>1, <1>1 DEF Holding
  <2> QED
    BY <2>2, <2>3, <1>6, <1>7
<1>11. PICK e \in Nat : e = LSeek(s, offs, whence).pos
  <2>1. LSeek(s, offs, whence).pos \in Int
    BY <1>8
  <2> QED
    BY <2>1, <1>5
<1>12. /\ e \in Nat
       /\ e = CASE whence = "SEEK_SET" -> offs
                [] whence = "SEEK_CUR" -> x + offs
                [] whence = "SEEK_END" -> z + offs
  <2>1. e \in Nat
    OBVIOUS
  <2>2. CASE whence = "SEEK_SET"
    BY <2>1, <2>2, <1>8, <1>11
  <2>3. CASE whence = "SEEK_CUR"
    BY <2>1, <2>3, <1>8, <1>9, <1>11
  <2>4. CASE whence = "SEEK_END"
    BY <2>1, <2>4, <1>8, <1>10, <1>11
  <2> QED
    BY <2>2, <2>3, <2>4
<1>13. t = Seek(s, e, "SEEK_SET", FALSE)
  <2>1. e = Place(s, offs, whence)
    BY <1>7, <1>12 DEF Place
  <2>2. Held(s, e) \/ LSeek(s, offs, whence).pos = e
    BY <1>11
  <2>3. e \in Nat
    BY <1>12
  <2>4. Seek(s, offs, whence, FALSE) = Seek(s, e, "SEEK_SET", FALSE)
    BY <2>1, <2>2, <2>3, <1>2, SeekIs, ZenonT(30)
  <2> QED
    BY <2>4, <1>4
<1>14. Sought(t, s, c, last, buffered, e)
  <2>1. Holding(s, c, last, buffered)
    BY <1>1
  <2>2. e \in Nat
    BY <1>12
  <2> QED
    BY <2>1, <2>2, <1>13, HoldSeek
<1>15. /\ Holding(t, c, last, buffered) /\ t.curr = e
       /\ last = "flush" /\ e # s.curr => Holding(t, c, "none", buffered)
  BY <1>14 DEF Sought
<1>16. State' = t /\ Content' = c
  BY <1>5, <1>15, Settled
<1>17. call'.name = "fseek" /\ call'.whence = whence /\ call'.offs = offs
  BY <1>5
<1>18. Ungettable'
  BY <1>17 DEF Ungettable
<1>19. Holding(t, c, last', buffered)
  BY <1>1, <1>5, <1>15
<1>20. IInv'
  BY <1>5, <1>16, <1>18, <1>19 DEF IInv
<1>21. PlainStep
  <2>1. PICK f : f = CASE whence = "SEEK_SET" -> 0
                       [] whence = "SEEK_CUR" -> x
                       [] whence = "SEEK_END" -> n
    OBVIOUS
  <2>2. f + offs = e
    <3>1. CASE whence = "SEEK_SET"
      BY <3>1, <2>1, <1>12
    <3>2. CASE whence = "SEEK_CUR"
      BY <3>2, <2>1, <1>12
    <3>3. CASE whence = "SEEK_END"
      BY <3>3, <2>1, <1>10, <1>12
    <3> QED
      BY <3>1, <3>2, <3>3
  <2>3. Max({0, e}) = e
    BY <1>12, MaxTwo
  <2>4. f = CASE call'.whence = "SEEK_SET" -> 0
              [] call'.whence = "SEEK_CUR" -> curr
              [] call'.whence = "SEEK_END" -> Len(Content)
    BY <2>1, <1>1, <1>6, <1>7, <1>17
  <2>5. curr' = Max({0, f + call'.offs})
    BY <2>2, <2>3, <1>5, <1>15, <1>17
  <2> QED
    BY <2>4, <2>5, <1>1, <1>5, <1>16, <1>17, PlainIs
<1> QED
  BY <1>20, <1>21

\* A place in a frame is found, when all frames were read.
LEMMA IsHeld ==
  ASSUME NEW s \in Files, Reading(s), NEW e \in Nat, NEW f \in ToSet(s.stack), Covers(f, e + 1)
  PROVE  Held(s, e)
<1>1. PICK st \in Seq(Frame) : st = s.stack
  BY FileFields
<1>2. PICK n \in Nat : DOMAIN st = 1 .. n
  BY LenProperties
<1>3. PICK Ks : Ks = {k \in DOMAIN st : Covers(st[k], e + 1)}
  OBVIOUS
<1>4. Ks \in SUBSET Nat /\ Ks # {}
  <2>1. PICK k \in DOMAIN st : f = st[k]
    BY <1>1 DEF ToSet
  <2> QED
    BY <2>1, <1>2, <1>3
<1>5. PICK k \in Ks : \A j \in Ks : k =< j
  BY <1>4, Least
<1>6. k \in DOMAIN st /\ Covers(st[k], e + 1)
  BY <1>3
<1>7. st[k].kind = "read"
  BY <1>1, <1>6 DEF ToSet, Reading, Fresh
<1>8. \A j \in DOMAIN st : j < k => ~Covers(st[j], e + 1)
  <2> SUFFICES ASSUME NEW j \in DOMAIN st, j < k, Covers(st[j], e + 1) PROVE FALSE
    OBVIOUS
  <2>1. j \in Ks /\ j \in Nat /\ k \in Nat
    BY <1>2, <1>3, <1>6
  <2>2. k =< j
    BY <2>1, <1>5
  <2> QED
    BY <2>1, <2>2
<1> QED
  BY <1>1, <1>6, <1>7, <1>8 DEF Held

LEMMA UngetStep ==
  ASSUME IInv, Careful, Ungetc
  PROVE  IInv' /\ PlainStep
<1>1. PICK s, c : /\ s = State /\ c = Content /\ Holding(s, c, last, buffered)
                  /\ s.disk = disk /\ s.pos = pos /\ s.sz = sz /\ s.curr = curr
                  /\ s.stack = stack
  BY StateNow
<1>2. s \in Files /\ s.curr \in Nat /\ s.pos \in Nat /\ buffered \in BOOLEAN
  BY <1>1, HoldFields
<1>3. /\ s.curr >= 1 /\ last = "read"
      /\ buffered => \E f \in ToSet(s.stack) : Covers(f, s.curr)
  BY <1>1 DEF IInv, Ungettable, Ungetc
<1>4. PICK t : t = Seek(s, -1, "SEEK_CUR", FALSE)
  OBVIOUS
<1>5. /\ disk' = t.disk /\ pos' = t.pos /\ sz' = t.sz /\ curr' = t.curr
      /\ stack' = t.stack /\ buffered' = buffered /\ result' = <<>>
      /\ call' = [name |-> "ungetc"] /\ last' = last
  BY <1>1, <1>4 DEF Ungetc, SetState
<1>6. PICK offs \in Int : offs = -1
  OBVIOUS
<1>7. PICK e \in Nat : e = s.curr - 1 /\ e = s.curr + offs /\ e + 1 = s.curr
  <2>1. PICK x \in Nat : x = s.curr /\ x >= 1
    BY <1>2, <1>3
  <2>2. PICK e \in Nat : e = x - 1
    BY <2>1
  <2>3. e = x + offs /\ e + 1 = x
    BY <2>2, <1>6
  <2> QED
    BY <2>1, <2>2, <2>3
<1>8. Held(s, e) \/ LSeek(s, offs, "SEEK_CUR").pos = e
  <2>1. CASE buffered
    <3>1. PICK f \in ToSet(s.stack) : Covers(f, e + 1)
      BY <2>1, <1>3, <1>7
    <3>2. Reading(s)
      BY <1>1, <1>3 DEF Holding, Phases
    <3> QED
      BY <3>1, <3>2, <1>2, IsHeld
  <2>2. CASE ~buffered
    <3>1. s.pos = s.curr
      BY <2>2, <1>1 DEF Holding
    <3>2. LSeek(s, offs, "SEEK_CUR") = [s EXCEPT !.pos = s.pos + offs]
      BY DEF LSeek
    <3>3. PICK q : q = s.pos + offs
      OBVIOUS
    <3>4. [s EXCEPT !.pos = q].pos = q
      BY <1>2 DEF Files
    <3> QED
      BY <3>1, <3>2, <3>3, <3>4, <1>7
  <2> QED
    BY <2>1, <2>2, <1>2
<1>9. t = Seek(s, e, "SEEK_SET", FALSE)
  <2>1. PICK whence \in {"SEEK_SET", "SEEK_CUR", "SEEK_END"} : whence = "SEEK_CUR"
    OBVIOUS
  <2>2. e = Place(s, offs, whence)
    BY <2>1, <1>7 DEF Place
  <2>3. Held(s, e) \/ LSeek(s, offs, whence).pos = e
    BY <2>1, <1>8
  <2>4. Seek(s, offs, whence, FALSE) = Seek(s, e, "SEEK_SET", FALSE)
    BY <2>2, <2>3, <1>2, SeekIs, ZenonT(30)
  <2> QED
    BY <2>1, <2>4, <1>4, <1>6
<1>10. Sought(t, s, c, last, buffered, e)
  <2>1. Holding(s, c, last, buffered)
    BY <1>1
  <2> QED
    BY <2>1, <1>9, HoldSeek
<1>11. Holding(t, c, last, buffered) /\ t.curr = e
  BY <1>10 DEF Sought
<1>12. State' = t /\ Content' = c
  BY <1>5, <1>11, Settled
<1>13. call'.name = "ungetc"
  BY <1>5
<1>14. Ungettable'
  BY <1>13 DEF Ungettable
<1>15. IInv'
  BY <1>5, <1>11, <1>12, <1>14 DEF IInv
<1>16. curr' = curr - 1
  BY <1>1, <1>5, <1>7, <1>11
<1>17. PlainStep
  BY <1>1, <1>5, <1>12, <1>13, <1>16, PlainIs
<1> QED
  BY <1>15, <1>17

LEMMA FlushStep ==
  ASSUME IInv, Flush
  PROVE  IInv' /\ PlainStep
<1>1. PICK s, c : /\ s = State /\ c = Content /\ Holding(s, c, last, buffered)
                  /\ s.disk = disk /\ s.pos = pos /\ s.sz = sz /\ s.curr = curr
                  /\ s.stack = stack
  BY StateNow
<1>2. PICK t : t = Flushed(s)
  OBVIOUS
<1>3. /\ disk' = t.disk /\ pos' = t.pos /\ sz' = t.sz /\ curr' = t.curr
      /\ stack' = t.stack /\ buffered' = buffered /\ result' = <<>>
      /\ call' = [name |-> "fflush"] /\ last' = "flush"
  BY <1>1, <1>2 DEF Flush, SetState
<1>4. Holding(t, c, "flush", buffered) /\ t.curr = s.curr
  BY <1>1, <1>2, HoldFlush
<1>5. State' = t /\ Content' = c
  BY <1>3, <1>4, Settled
<1>6. call'.name = "fflush"
  BY <1>3
<1>7. Ungettable'
  BY <1>6 DEF Ungettable
<1>8. IInv'
  BY <1>3, <1>4, <1>5, <1>7, HoldFields DEF IInv
<1>9. PlainStep
  BY <1>1, <1>3, <1>4, <1>5, <1>6, PlainIs
<1> QED
  BY <1>8, <1>9

LEMMA Opened ==
  ASSUME NEW d \in Seq(Byte), NEW b \in BOOLEAN,
         NEW t, t = [disk |-> d, pos |-> 0, sz |-> Len(d), curr |-> 0, stack |-> <<>>]
  PROVE  Holding(t, d, "none", b)
<1>1. t.disk = d /\ t.pos = 0 /\ t.sz = Len(d) /\ t.curr = 0 /\ t.stack = <<>>
  OBVIOUS
<1>2. ToSet(<<>>) = {} /\ Spread(<<>>) /\ <<>> \in Seq(Frame)
  BY DEF ToSet, Spread
<1>3. t \in Files
  BY <1>2, LenProperties DEF Files
<1>4. ToWrite(t) = {}
  BY <1>1, <1>2 DEF ToWrite
<1>5. Shows({}, d, d)
  BY NothingToWrite
<1>6. Sound(t, d)
  BY <1>1, <1>2, <1>3, <1>4, <1>5 DEF Sound
<1>7. Phases(t, "none")
  BY <1>1 DEF Phases
<1> QED
  BY <1>1, <1>6, <1>7 DEF Holding

LEMMA ReopenStep ==
  ASSUME IInv, Reopen
  PROVE  IInv' /\ PlainStep
<1>1. PICK s, c : /\ s = State /\ c = Content /\ Holding(s, c, last, buffered)
                  /\ s.disk = disk /\ s.pos = pos /\ s.sz = sz /\ s.curr = curr
                  /\ s.stack = stack
  BY StateNow
<1>2. c \in Seq(Byte)
  BY <1>1, HoldFields
<1>3. PICK u : u = Flushed(s)
  OBVIOUS
<1>4. u.disk = c
  BY <1>1, <1>3, HoldFlush
<1>5. PICK b \in BOOLEAN : b = buffered'
  BY DEF Reopen
<1>6. PICK t : t = [disk |-> c, pos |-> 0, sz |-> Len(c), curr |-> 0, stack |-> <<>>]
  OBVIOUS
<1>7. Holding(t, c, "none", b)
  BY <1>2, <1>6, Opened
<1>8. /\ disk' = t.disk /\ pos' = t.pos /\ sz' = t.sz /\ curr' = t.curr /\ stack' = t.stack
      /\ curr' = 0 /\ result' = <<>> /\ call' = [name |-> "fopen"] /\ last' = "none"
  BY <1>1, <1>3, <1>4, <1>6 DEF Reopen
<1>9. State' = t /\ Content' = c
  BY <1>7, <1>8, Settled
<1>10. call'.name = "fopen"
  BY <1>8
<1>11. Ungettable'
  BY <1>10 DEF Ungettable
<1>12. IInv'
  BY <1>5, <1>7, <1>8, <1>9, <1>11 DEF IInv
<1>13. PlainStep
  BY <1>1, <1>8, <1>9, <1>10, PlainIs
<1> QED
  BY <1>12, <1>13
-----------------------------------------------------------------------------
(* The theorems.                                                           *)

LEMMA Beginning ==
  ASSUME Init
  PROVE  IInv /\ Plain!Init
<1>1. /\ disk \in Seq(Byte) /\ buffered \in BOOLEAN
      /\ pos = 0 /\ sz = Len(disk) /\ curr = 0 /\ stack = <<>>
      /\ last = "none" /\ call = [name |-> "fopen"] /\ result = <<>>
  BY FileAssumption DEF Init, Byte
<1>2. PICK d \in Seq(Byte) : d = disk
  BY <1>1
<1>3. PICK t : t = [disk |-> d, pos |-> 0, sz |-> Len(d), curr |-> 0, stack |-> <<>>]
  OBVIOUS
<1>4. Holding(t, d, "none", buffered)
  BY <1>1, <1>3, Opened
<1>5. State = t
  BY <1>1, <1>2, <1>3 DEF State
<1>6. Content = d
  <2>1. /\ t.disk = d /\ t.stack = <<>> /\ t.stack \in Seq(Frame)
        /\ Spread(t.stack) /\ Shows(ToWrite(t), d, d)
    BY <1>3, <1>4, HoldFields, FileFields
  <2>2. Laid(d, t.stack) = d
    BY <2>1, LaidIs DEF ToWrite
  <2> QED
    BY <2>1, <2>2, <1>1, <1>2 DEF Content
<1>7. Ungettable
  BY <1>1 DEF Ungettable
<1>8. IInv
  BY <1>1, <1>4, <1>5, <1>6, <1>7 DEF IInv
<1>9. Plain!Init
  BY <1>1 DEF Plain!Init
<1> QED
  BY <1>8, <1>9

LEMMA Stepping ==
  ASSUME IInv, Careful, [Next]_vars
  PROVE  IInv' /\ [PlainStep]_<<Content, curr, call, result>>
<1>1. CASE \E n \in 1 .. MaxCount : Read(n)
  BY <1>1, ReadStep
<1>2. CASE \E n \in 1 .. MaxCount : Gets(n)
  BY <1>2, GetsStep
<1>3. CASE \E w \in Writings : Write(w)
  BY <1>3, WriteStep
<1>4. CASE \E k \in Seeks : SeekTo(k)
  BY <1>4, SeekStep
<1>5. CASE Ungetc
  BY <1>5, UngetStep
<1>6. CASE Flush
  BY <1>6, FlushStep
<1>7. CASE Reopen
  BY <1>7, ReopenStep
<1>8. CASE UNCHANGED vars
  <2>1. /\ disk' = disk /\ pos' = pos /\ sz' = sz /\ curr' = curr /\ stack' = stack
        /\ buffered' = buffered /\ last' = last /\ call' = call /\ result' = result
    BY <1>8 DEF vars
  <2>2. State' = State /\ Content' = Content
    BY <2>1 DEF State, Content
  <2>3. Ungettable'
    BY <2>1 DEF IInv, Ungettable
  <2>4. IInv'
    BY <2>1, <2>2, <2>3 DEF IInv
  <2> QED
    BY <2>1, <2>2, <2>4
<1> QED
  BY <1>1, <1>2, <1>3, <1>4, <1>5, <1>6, <1>7, <1>8 DEF Next

LEMMA Typed ==
  ASSUME IInv
  PROVE  TypeOK
<1>1. PICK s, c : /\ s = State /\ c = Content /\ Holding(s, c, last, buffered)
                  /\ s.disk = disk /\ s.pos = pos /\ s.sz = sz /\ s.curr = curr
                  /\ s.stack = stack
  BY StateNow
<1>2. /\ s \in Files /\ s.disk \in Seq(Byte) /\ s.pos \in Nat /\ s.sz \in Nat /\ s.curr \in Nat
      /\ s.stack \in Seq(Frame) /\ buffered \in BOOLEAN
      /\ last \in {"none", "read", "write", "flush"}
  BY <1>1, HoldFields, FileFields
<1>3. ~buffered => stack = <<>>
  BY <1>1 DEF Holding
<1> QED
  BY <1>1, <1>2, <1>3 DEF TypeOK, Byte

\* What a frame has valid is what the file has there, or will have.
LEMMA FrameShown ==
  ASSUME NEW s, NEW c, NEW l, NEW b, Holding(s, c, l, b), NEW f \in ToSet(s.stack)
  PROVE  Valid(f) = SubSeq(c, f.addr + 1, f.addr + f.nb)
<1>1. s \in Files /\ c \in Seq(Byte) /\ Shows(ToWrite(s), s.disk, c)
  BY HoldFields
<1>2. f \in Framed /\ f.nb > 0
  BY <1>1, FileFields, FrameFields
<1>3. PICK a \in Nat, p \in Nat : a = f.addr /\ p = f.nb /\ p > 0
  BY <1>2, ValidFacts
<1>4. PICK v \in Seq(Byte) : v = Valid(f) /\ Len(v) = p /\ \A i \in 1 .. p : v[i] = f.bf[i]
  BY <1>2, <1>3, ValidFacts
<1>5. PICK n \in Nat : n = Len(c)
  BY <1>1, LenProperties
<1>6. a + p =< n /\ \A i \in 1 .. p : f.bf[i] = c[a + i]
  <2>1. s.stack # <<>>
    BY DEF ToSet
  <2>2. CASE Reading(s)
    <3>1. Fresh(f, s.disk)
      BY <2>2 DEF Reading
    <3>2. ToWrite(s) = {}
      BY <2>2 DEF Reading, Fresh, ToWrite
    <3>3. c = s.disk
      BY <3>2, <1>1, FileFields, NothingToWrite
    <3> QED
      BY <3>1, <3>3, <1>3, <1>5 DEF Fresh
  <2>3. CASE Writing(s)
    <3>1. f \in ToWrite(s)
      BY <2>3 DEF Writing, Unsaved, ToWrite
    <3>2. a + p =< n /\ \A i \in 1 .. n : Covers(f, i) => c[i] = f.bf[i - a]
      BY <3>1, <1>1, <1>3, <1>5 DEF Shows
    <3>3. ASSUME NEW i \in 1 .. p PROVE f.bf[i] = c[a + i]
      <4>1. PICK j \in Nat : j = a + i
        OBVIOUS
      <4>2. j \in 1 .. n /\ a < j /\ j <= a + p /\ j - a = i
        BY <4>1, <3>2
      <4>3. Covers(f, j)
        BY <4>2, <1>3 DEF Covers
      <4> QED
        BY <4>1, <4>2, <4>3, <3>2
    <3> QED
      BY <3>2, <3>3
  <2> QED
    BY <2>1, <2>2, <2>3 DEF Holding, Phases
<1>7. PICK e \in Nat : e = a + p /\ e =< n /\ a =< e /\ e - a = p
  BY <1>6
<1>8. PICK t : t = SubSeq(c, a + 1, e)
  OBVIOUS
<1>9. t \in Seq(Byte) /\ Len(t) = p /\ \A i \in 1 .. p : t[i] = c[a + i]
  <2>1. /\ t \in Seq(Byte) /\ Len(t) = (IF a =< e THEN e - a ELSE 0)
        /\ \A i \in 1 .. Len(t) : t[i] = c[a + i]
    <3>1. e \in Int /\ e =< Len(c)
      BY <1>5, <1>7
    <3> QED
      BY <3>1, <1>1, <1>8, Stretch
  <2> QED
    BY <2>1, <1>7
<1>10. v = t
  <2>1. Len(v) = Len(t) /\ \A i \in 1 .. Len(v) : v[i] = t[i]
    BY <1>4, <1>6, <1>9
  <2> QED
    BY <2>1, <1>9, SameSeq
<1> QED
  BY <1>3, <1>4, <1>7, <1>8, <1>10

LEMMA Current ==
  ASSUME IInv
  PROVE  FramesCurrent
<1>1. PICK s, c : /\ s = State /\ c = Content /\ Holding(s, c, last, buffered)
                  /\ s.disk = disk /\ s.pos = pos /\ s.sz = sz /\ s.curr = curr
                  /\ s.stack = stack
  BY StateNow
<1>2. buffered => sz = Len(Content)
  BY <1>1 DEF Holding
<1>3. ASSUME NEW i \in DOMAIN stack, NEW f, f = stack[i]
      PROVE  Valid(f) = SubSeq(Content, f.addr + 1, f.addr + f.nb)
  <2>1. f \in ToSet(s.stack)
    BY <1>1, <1>3 DEF ToSet
  <2> QED
    BY <2>1, <1>1, FrameShown
<1> QED
  BY <1>2, <1>3 DEF FramesCurrent

LEMMA Always ==
  ASSUME Careful
  PROVE  Spec => []IInv
<1>1. Init => IInv
  BY Beginning
<1>2. IInv /\ [Next]_vars => IInv'
  BY Stepping
<1> QED
  BY <1>1, <1>2, PTL DEF Spec

\* Every frame kept has something in it and fits into its buffer, and a file
\* without buffers has no frames, whatever calls are made under the rule.
THEOREM TypeCorrect ==
  ASSUME Careful
  PROVE  Spec => []TypeOK
<1>1. IInv => TypeOK
  BY Typed
<1> QED
  BY <1>1, Always, PTL

\* No buffer is ever stale under the rule, for any sizes and any calls: its
\* bytes are those the file has or will have, and sz is the file's size.
THEOREM NoStaleFrame ==
  ASSUME Careful
  PROVE  Spec => []FramesCurrent
<1>1. IInv => FramesCurrent
  BY Current
<1> QED
  BY <1>1, Always, PTL

\* Buffers cannot be told from a plain file by callers who keep the rule:
\* each call returns the bytes, and goes to the place, it would without them.
THEOREM PlainBytes ==
  ASSUME Careful
  PROVE  Spec => ImplementsFile
<1>1. Init => Plain!Init
  BY Beginning
<1>2. IInv /\ [Next]_vars => [Plain!Next]_<<Content, curr, call, result>>
  BY Stepping DEF PlainStep
<1>3. Spec => Plain!Spec
  BY <1>1, <1>2, Always, PTL DEF Spec, Plain!Spec
<1> QED
  BY <1>3 DEF ImplementsFile
=============================================================================
