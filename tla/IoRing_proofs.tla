---------------------------- MODULE IoRing_proofs ----------------------------
(***************************************************************************)
(* For any bytes, chunks and sizes: a ring is a queue of bytes.            *)
(*                                                                         *)
(* A ring r holds Length(r) bytes, the i-th of them at Place(r, i).  The   *)
(* positions go around the array at most once, so that every remainder of  *)
(* the model is Wrap.  Doubling a ring leaves its length and its bytes as  *)
(* they are, and so does the loop of _ring_adjust, by the least number of  *)
(* turns after which it would not.                                         *)
(***************************************************************************)
EXTENDS IoRing, FiniteSets, FiniteSetTheorems, SequenceTheorems,
        WellFoundedInduction, TLAPS

Wrap(p, n) == IF p < n THEN p ELSE p - n

LEMMA Remainder ==
  ASSUME NEW n \in Nat, n > 0, NEW p \in Nat, p < 2 * n
  PROVE  p % n = Wrap(p, n) /\ Wrap(p, n) \in 0 .. n - 1
BY DEF Wrap

\* the bytes from o up to i in an array of n
Between(o, i, n) == IF i >= o THEN i - o ELSE i - o + n

Length(r)   == Between(r.ob, r.ib, r.nb)
Place(r, i) == Wrap(r.ob + i, r.nb)

\* A ring in use, and what it holds.
Proper(r) == /\ r.nb \in Nat /\ r.nb > 0
             /\ r.ib \in 0 .. r.nb - 1 /\ r.ob \in 0 .. r.nb - 1
             /\ r.bf \in [0 .. r.nb - 1 -> Bytes]
SameBytes(r, q) == /\ Length(r) = Length(q)
                   /\ \A i \in 0 .. Length(q) - 1 : r.bf[Place(r, i)] = q.bf[Place(q, i)]

-----------------------------------------------------------------------------
(* _ring_adjust                                                            *)

LEMMA LengthFacts ==
  ASSUME NEW r, Proper(r)
  PROVE  /\ Length(r) \in 0 .. r.nb - 1
         /\ Available(r) = r.nb - Length(r)
         /\ \A i \in 0 .. r.nb - 1 : Place(r, i) \in 0 .. r.nb - 1
BY DEF Proper, Length, Between, Available, Place, Wrap

\* The data that has wrapped around is in two parts, both of which are found
\* where they are looked for afterwards.
Moved(n, i0, o0, o) ==
  /\ i0 \in 0 .. 2 * n - 1 /\ o \in 0 .. 2 * n - 1
  /\ Between(o, i0, 2 * n) = Between(o0, i0, n)
  /\ \A i \in 0 .. Between(o0, i0, n) - 1 :
       LET p  == Wrap(o + i, 2 * n)
           p0 == Wrap(o0 + i, n)
       IN  /\ p0 \in 0 .. n - 1 /\ p \in 0 .. 2 * n - 1
           /\ p < n => p = p0
           /\ p >= n => i0 < o0 /\ p >= o0 + n /\ p - n = p0

LEMMA DoubledPlaces ==
  ASSUME NEW n \in Nat, n > 0, NEW i0 \in 0 .. n - 1, NEW o0 \in 0 .. n - 1,
         NEW o \in Nat, o = IF i0 < o0 THEN o0 + n ELSE o0
  PROVE  Moved(n, i0, o0, o)
BY DEF Moved, Between, Wrap

LEMMA DoubledSame ==
  ASSUME NEW r, Proper(r), NEW g \in Bytes
  PROVE  Proper(Doubled(r, g)) /\ SameBytes(Doubled(r, g), r)
<1>1. PICK q : q = Doubled(r, g)
  OBVIOUS
<1>2. PICK n, i0, o0, f :
        /\ n \in Nat /\ n > 0 /\ i0 \in 0 .. n - 1 /\ o0 \in 0 .. n - 1 /\ f \in [0 .. n - 1 -> Bytes]
        /\ i0 = r.ib /\ o0 = r.ob /\ n = r.nb /\ f = r.bf
  BY DEF Proper
<1>3. PICK o \in Nat : o = IF i0 < o0 THEN o0 + n ELSE o0
  BY <1>2
<1>4. PICK h : h = [p \in 0 .. 2 * n - 1 |-> IF p < n THEN f[p]
                                       ELSE IF i0 < o0 /\ p >= o0 + n THEN f[p - n] ELSE g]
  OBVIOUS
<1>5. q.ib = i0 /\ q.nb = 2 * n /\ q.ob = o /\ q.bf = h
  BY <1>1, <1>2, <1>3, <1>4 DEF Doubled
<1>6. Moved(n, i0, o0, o)
  BY <1>2, <1>3, DoubledPlaces
<1>7. Proper(q)
  <2>1. ASSUME NEW p \in 0 .. 2 * n - 1, p >= n PROVE f[p - n] \in Bytes
    BY <2>1, <1>2
  <2>2. \A p \in 0 .. 2 * n - 1 : p < n => f[p] \in Bytes
    BY <1>2
  <2>3. h \in [0 .. 2 * n - 1 -> Bytes]
    BY <2>1, <2>2, <1>2, <1>4
  <2> QED
    BY <2>3, <1>2, <1>5, <1>6 DEF Proper, Moved
<1>8. ASSUME NEW i \in 0 .. Between(o0, i0, n) - 1
      PROVE  h[Wrap(o + i, 2 * n)] = f[Wrap(o0 + i, n)]
  <2>1. PICK p, p0 : p = Wrap(o + i, 2 * n) /\ p0 = Wrap(o0 + i, n)
    OBVIOUS
  <2>2. /\ p0 \in 0 .. n - 1 /\ p \in 0 .. 2 * n - 1
        /\ p < n => p = p0
        /\ p >= n => i0 < o0 /\ p >= o0 + n /\ p - n = p0
    BY <2>1, <1>6 DEF Moved
  <2>3. h[p] = f[p0]
    BY <2>2, <1>2, <1>4
  <2> QED
    BY <2>1, <2>3
<1>9. SameBytes(q, r)
  BY <1>2, <1>5, <1>6, <1>8 DEF SameBytes, Length, Place, Moved
<1> QED
  BY <1>1, <1>7, <1>9

LEMMA SameTrans ==
  ASSUME NEW r, NEW q, NEW s, SameBytes(r, q), SameBytes(q, s)
  PROVE  SameBytes(r, s)
BY DEF SameBytes

\* A set of natural numbers that is not empty has a least element: the
\* intervals that end in the set are finite, so one of them has no other below.
LEMMA Least ==
  ASSUME NEW S \in SUBSET Nat, S # {}
  PROVE  \E m \in S : \A k \in S : m =< k
<1> DEFINE T == {0 .. k : k \in S}
           R == StrictSubsetOrdering(Nat)
<1>1. IsWellFoundedOn(R, FiniteSubsetsOf(Nat))
  BY FS_StrictSubsetOrderingWellFounded
<1>2. T \subseteq FiniteSubsetsOf(Nat) /\ T # {}
  <2>1. \A k \in S : 0 .. k \subseteq Nat /\ IsFiniteSet(0 .. k)
    BY FS_Interval
  <2> QED BY <2>1 DEF FiniteSubsetsOf
<1>3. \E x \in T : \A y \in T : ~(<<y, x>> \in R)
  <2> HIDE DEF T, R
  <2> QED BY <1>1, <1>2, WFMin
<1>4. PICK m \in S : \A k \in S : <<0 .. k, 0 .. m>> \notin R
  BY <1>3
<1>5. \A k \in S : k < m => <<0 .. k, 0 .. m>> \in R
  <2> SUFFICES ASSUME NEW k \in S, k < m PROVE <<0 .. k, 0 .. m>> \in R
    OBVIOUS
  <2>1. 0 .. k \subseteq 0 .. m /\ m \in 0 .. m /\ m \notin 0 .. k /\ 0 .. m \subseteq Nat
    OBVIOUS
  <2> QED BY <2>1 DEF StrictSubsetOrdering
<1>6. \A k \in S : ~(k < m)
  BY <1>4, <1>5
<1> HIDE DEF T, R
<1>7. \A k \in S : m =< k
  BY <1>6
<1> QED BY <1>7

\* The rings of the loop, m turns of it.
Turns(d, m, r, n, g) ==
  d = [k \in 0 .. m |-> IF k = 0 THEN r
                        ELSE IF Fits(d[k - 1], n) THEN d[k - 1] ELSE Doubled(d[k - 1], g)]

LEMMA TurnsExist == ASSUME NEW r, NEW n, NEW g, NEW l \in Nat PROVE \E d : Turns(d, l, r, n, g)
<1> DEFINE Bad == {k \in Nat : ~\E d : Turns(d, k, r, n, g)}
<1> SUFFICES ASSUME Bad # {} PROVE FALSE
  OBVIOUS
<1>1. PICK m \in Bad : \A k \in Bad : m =< k
  BY Least
<1>2. m \in Nat /\ ~\E d : Turns(d, m, r, n, g)
  OBVIOUS
<1>3. CASE m = 0
  <2>1. Turns([k \in 0 .. 0 |-> r], 0, r, n, g)
    BY DEF Turns
  <2> QED
    BY <2>1, <1>2, <1>3
<1>4. CASE m # 0
  <2>1. m - 1 \in Nat /\ m - 1 \notin Bad
    BY <1>1, <1>2, <1>4
  <2>2. PICK d : Turns(d, m - 1, r, n, g)
    BY <2>1
  <2> DEFINE T(q) == IF Fits(q, n) THEN q ELSE Doubled(q, g)
             e == [k \in 0 .. m |-> IF k = 0 THEN r ELSE T(d[k - 1])]
  <2>3. \A k \in 0 .. m - 1 : d[k] = IF k = 0 THEN r ELSE T(d[k - 1])
    BY <2>2 DEF Turns
  <2> HIDE DEF T
  <2>4. \A k \in 0 .. m : e[k] = IF k = 0 THEN r ELSE T(d[k - 1])
    OBVIOUS
  <2>5. e = [k \in 0 .. m |-> e[k]]
    OBVIOUS
  <2> HIDE DEF e
  <2>6. \A k \in 0 .. m : e[k] = IF k = 0 THEN r ELSE T(e[k - 1])
    <3> TAKE k \in 0 .. m
    <3>1. k # 0 => k - 1 \in 0 .. m - 1 /\ k - 1 \in 0 .. m
      BY <1>2
    <3>2. k # 0 => e[k - 1] = d[k - 1]
      BY <3>1, <2>3, <2>4
    <3> QED
      BY <3>2, <2>4
  <2>7. e = [k \in 0 .. m |-> IF k = 0 THEN r ELSE T(e[k - 1])]
    BY <2>5, <2>6
  <2>8. Turns(e, m, r, n, g)
    BY <2>7 DEF Turns, T
  <2> QED
    BY <2>8, <1>2
<1> QED
  BY <1>3, <1>4

LEMMA AdjustedDef ==
  ASSUME NEW r, NEW n, NEW g
  PROVE  \E d : Turns(d, MaxDoublings, r, n, g) /\ Adjusted(r, n, g) = d[MaxDoublings]
<1>1. \E d : Turns(d, MaxDoublings, r, n, g)
  BY TurnsExist, SizeAssumption
<1>2. Turns(CHOOSE d : Turns(d, MaxDoublings, r, n, g), MaxDoublings, r, n, g)
  BY <1>1
<1>3. Adjusted(r, n, g) = (CHOOSE d : Turns(d, MaxDoublings, r, n, g))[MaxDoublings]
  BY DEF Adjusted, Turns
<1> QED
  BY <1>2, <1>3

\* Whatever realloc finds, a ring that has grown holds what it held.
LEMMA AdjustedSame ==
  ASSUME NEW r, Proper(r), NEW n, NEW g \in Bytes
  PROVE  Proper(Adjusted(r, n, g)) /\ SameBytes(Adjusted(r, n, g), r)
<1>1. PICK d : Turns(d, MaxDoublings, r, n, g) /\ Adjusted(r, n, g) = d[MaxDoublings]
  BY AdjustedDef
<1> DEFINE OK(q) == Proper(q) /\ SameBytes(q, r)
           Bad == {k \in 0 .. MaxDoublings : ~OK(d[k])}
<1>2. \A k \in 0 .. MaxDoublings :
        d[k] = IF k = 0 THEN r
               ELSE IF Fits(d[k - 1], n) THEN d[k - 1] ELSE Doubled(d[k - 1], g)
  BY <1>1 DEF Turns
<1>3. OK(r)
  BY DEF SameBytes
<1>4. \A q : OK(q) => OK(Doubled(q, g))
  BY DoubledSame, SameTrans
<1> HIDE DEF OK
<1>5. Bad = {}
  <2> SUFFICES ASSUME Bad # {} PROVE FALSE
    OBVIOUS
  <2>1. Bad \in SUBSET Nat
    BY SizeAssumption
  <2>2. PICK m \in Bad : \A k \in Bad : m =< k
    BY <2>1, Least
  <2>3. m \in 0 .. MaxDoublings /\ ~OK(d[m]) /\ MaxDoublings \in Nat
    BY SizeAssumption
  <2>4. m # 0
    BY <2>3, <1>2, <1>3
  <2>5. m - 1 \in 0 .. MaxDoublings /\ m - 1 \notin Bad
    BY <2>2, <2>3, <2>4
  <2>6. OK(d[m - 1])
    BY <2>5
  <2> QED
    BY <2>3, <2>4, <2>6, <1>2, <1>4
<1>6. OK(d[MaxDoublings])
  <2>1. MaxDoublings \in 0 .. MaxDoublings
    BY SizeAssumption
  <2> QED
    BY <2>1, <1>5
<1> QED
  BY <1>1, <1>6 DEF OK

-----------------------------------------------------------------------------
(* What a ring holds, as a sequence.                                       *)

Data(r) == [j \in 1 .. Length(r) |-> r.bf[Place(r, j - 1)]]

LEMMA Inside ==
  ASSUME NEW n \in Nat, NEW p \in 0 .. n - 1, NEW i \in 0 .. n - 1
  PROVE  Wrap(p - i + n, n) \in 0 .. n - 1
BY DEF Wrap

LEMMA DataFacts ==
  ASSUME NEW r, Proper(r)
  PROVE  /\ Data(r) \in Seq(Bytes) /\ Len(Data(r)) = Length(r) /\ Length(r) \in 0 .. r.nb - 1
         /\ r.nb \in Nat /\ r.nb > 0
         /\ \A j \in 1 .. Length(r) : Data(r)[j] = r.bf[Place(r, j - 1)]
<1>1. PICK l \in Nat : l = Length(r) /\ l =< r.nb - 1 /\ r.nb \in Nat
  BY LengthFacts DEF Proper
<1>2. \A j \in 1 .. l : r.bf[Place(r, j - 1)] \in Bytes
  <2>1. \A i \in 0 .. r.nb - 1 : Place(r, i) \in 0 .. r.nb - 1
    BY LengthFacts
  <2>2. \A j \in 1 .. l : j - 1 \in 0 .. r.nb - 1
    BY <1>1
  <2> QED
    BY <2>1, <2>2 DEF Proper
<1>3. [j \in 1 .. l |-> r.bf[Place(r, j - 1)]] \in Seq(Bytes)
  BY <1>2
<1> QED
  BY <1>1, <1>3 DEF Data, Proper

LEMMA SameData ==
  ASSUME NEW r, NEW q, SameBytes(q, r), Proper(r), Proper(q)
  PROVE  Data(q) = Data(r)
<1>1. Length(q) = Length(r) /\ Length(r) \in Nat
  BY DataFacts DEF SameBytes
<1>2. \A j \in 1 .. Length(r) : q.bf[Place(q, j - 1)] = r.bf[Place(r, j - 1)]
  BY <1>1 DEF SameBytes
<1> QED
  BY <1>1, <1>2 DEF Data

\* l bytes more from i on: those before keep their places, and these come
\* after them.
Grown(n, i, o, l) ==
  LET m == Between(o, i, n)
      e == Wrap(i + l, n)
  IN  /\ m \in 0 .. n - 1 /\ e \in 0 .. n - 1
      /\ l < n - m => Between(o, e, n) = m + l
      /\ l = n - m => Between(o, e, n) = 0
      /\ \A k \in 0 .. m - 1 : /\ Wrap(o + k, n) \in 0 .. n - 1
                               /\ Wrap(Wrap(o + k, n) - i + n, n) >= l
      /\ \A k \in m .. m + l - 1 : l < n - m => /\ Wrap(o + k, n) \in 0 .. n - 1
                                                /\ Wrap(Wrap(o + k, n) - i + n, n) = k - m

LEMMA GrownPlaces ==
  ASSUME NEW n \in Nat, n > 0, NEW i \in 0 .. n - 1, NEW o \in 0 .. n - 1,
         NEW l \in Nat, l =< n - Between(o, i, n)
  PROVE  Grown(n, i, o, l)
BY DEF Grown, Between, Wrap

\* The ring after ring_push has copied s.
Pushed(r, s) ==
  [ib |-> Wrap(r.ib + Len(s), r.nb), ob |-> r.ob, nb |-> r.nb,
   bf |-> [p \in 0 .. r.nb - 1 |-> LET i == Wrap(p - r.ib + r.nb, r.nb)
                                   IN  IF i < Len(s) THEN s[i + 1] ELSE r.bf[p]]]

LEMMA PushedData ==
  ASSUME NEW r, Proper(r), NEW s \in Seq(Bytes), s # <<>>, Fits(r, Len(s))
  PROVE  /\ Proper(Pushed(r, s))
         /\ Len(s) < Available(r) => Data(Pushed(r, s)) = Data(r) \o s
         /\ Len(s) = Available(r) => Data(Pushed(r, s)) = <<>>
<1>1. PICK q : q = Pushed(r, s)
  OBVIOUS
<1>2. PICK n, i, o, f :
        /\ n \in Nat /\ n > 0 /\ i \in 0 .. n - 1 /\ o \in 0 .. n - 1 /\ f \in [0 .. n - 1 -> Bytes]
        /\ i = r.ib /\ o = r.ob /\ n = r.nb /\ f = r.bf
  BY DEF Proper
<1>3. PICK l \in Nat : l = Len(s) /\ l > 0 /\ \A k \in 1 .. l : s[k] \in Bytes
  BY LenProperties, EmptySeq, ElementOfSeq
<1>4. PICK m : m = Between(o, i, n) /\ m = Length(r) /\ Available(r) = n - m /\ m \in 0 .. n - 1
  BY <1>2, LengthFacts DEF Length
<1>5. l =< n - m
  BY <1>2, <1>3, <1>4 DEF Fits
<1>6. PICK e : e = Wrap(i + l, n)
  OBVIOUS
<1>7. PICK h : h = [p \in 0 .. n - 1 |-> LET j == Wrap(p - i + n, n)
                                         IN  IF j < l THEN s[j + 1] ELSE f[p]]
  OBVIOUS
<1>8. q.ib = e /\ q.ob = o /\ q.nb = n /\ q.bf = h
  BY <1>1, <1>2, <1>3, <1>6, <1>7 DEF Pushed
<1>9. Grown(n, i, o, l)
  BY <1>2, <1>3, <1>4, <1>5, GrownPlaces
<1>10. Proper(q)
  <2>1. ASSUME NEW p \in 0 .. n - 1 PROVE h[p] \in Bytes
    <3>1. PICK j \in 0 .. n - 1 : j = Wrap(p - i + n, n)
      BY <1>2, Inside
    <3>2. h[p] = IF j < l THEN s[j + 1] ELSE f[p]
      BY <3>1, <1>7
    <3>3. j < l => j + 1 \in 1 .. l
      OBVIOUS
    <3> QED
      BY <3>2, <3>3, <1>2, <1>3
  <2>2. h \in [0 .. n - 1 -> Bytes]
    BY <2>1, <1>7
  <2> QED
    BY <2>2, <1>2, <1>6, <1>8, <1>9 DEF Proper, Grown
<1>11. Length(q) = Between(o, e, n)
  BY <1>8 DEF Length
<1>12. ASSUME l < n - m PROVE Data(q) = Data(r) \o s
  <2>1. Length(q) = m + l
    BY <1>4, <1>6, <1>9, <1>11, <1>12 DEF Grown
  <2>2. ASSUME NEW j \in 1 .. m + l
        PROVE  h[Wrap(o + (j - 1), n)] = IF j =< m THEN f[Wrap(o + (j - 1), n)] ELSE s[j - m]
    <3>1. PICK p : p = Wrap(o + (j - 1), n)
      OBVIOUS
    <3>2. CASE j =< m
      <4>1. p \in 0 .. n - 1 /\ Wrap(p - i + n, n) >= l
        BY <3>1, <3>2, <1>4, <1>9 DEF Grown
      <4>2. Wrap(p - i + n, n) \in 0 .. n - 1
        BY <4>1, <1>2, Inside
      <4> QED
        BY <3>1, <3>2, <4>1, <4>2, <1>3, <1>7
    <3>3. CASE j > m
      <4>0. j - 1 \in m .. m + l - 1
        BY <3>3, <1>3, <1>4
      <4>1. p \in 0 .. n - 1 /\ Wrap(p - i + n, n) = (j - 1) - m
        BY <3>1, <4>0, <1>4, <1>9, <1>12 DEF Grown
      <4>2. h[p] = s[((j - 1) - m) + 1]
        BY <4>1, <3>3, <1>3, <1>4, <1>7
      <4> QED
        BY <4>2, <3>1, <3>3, <1>4
    <3> QED
      BY <3>2, <3>3, <1>4
  <2>3. Data(q) \in Seq(Bytes) /\ Len(Data(q)) = m + l
        /\ \A j \in 1 .. m + l : Data(q)[j] = h[Wrap(o + (j - 1), n)]
    BY <2>1, <1>8, <1>10, DataFacts DEF Place
  <2>4. Data(r) \in Seq(Bytes) /\ Len(Data(r)) = m
        /\ \A j \in 1 .. m : Data(r)[j] = f[Wrap(o + (j - 1), n)]
    BY <1>2, <1>4, DataFacts DEF Place
  <2>5. /\ Data(r) \o s \in Seq(Bytes) /\ Len(Data(r) \o s) = m + l
        /\ \A j \in 1 .. m + l : (Data(r) \o s)[j] = IF j =< m THEN Data(r)[j] ELSE s[j - m]
    BY <2>4, <1>3, ConcatProperties
  <2>6. \A j \in 1 .. m + l : Data(q)[j] = (Data(r) \o s)[j]
    <3> TAKE j \in 1 .. m + l
    <3>1. CASE j =< m
      <4>1. j \in 1 .. m
        BY <3>1, <1>4
      <4> QED
        BY <4>1, <3>1, <2>2, <2>3, <2>4, <2>5
    <3>2. CASE ~(j =< m)
      BY <3>2, <2>2, <2>3, <2>5
    <3> QED
      BY <3>1, <3>2
  <2> QED
    BY <2>3, <2>5, <2>6, SeqEqual
<1>13. ASSUME l = n - m PROVE Data(q) = <<>>
  <2>1. Length(q) = 0
    BY <1>4, <1>6, <1>9, <1>11, <1>13 DEF Grown
  <2>2. Data(q) \in Seq(Bytes) /\ Len(Data(q)) = 0
    BY <2>1, <1>10, DataFacts
  <2> QED
    BY <2>2, EmptySeq
<1> QED
  BY <1>1, <1>3, <1>4, <1>10, <1>12, <1>13

\* k bytes fewer from o on: the rest keep their places.
Shrunk(n, i, o, k) ==
  LET m == Between(o, i, n)
      e == Wrap(o + k, n)
  IN  /\ e \in 0 .. n - 1
      /\ Between(e, i, n) = m - k
      /\ \A j \in 0 .. m - k - 1 :
           /\ Wrap(e + j, n) = Wrap(o + k + j, n) /\ Wrap(e + j, n) \in 0 .. n - 1
           /\ Wrap(Wrap(e + j, n) - o + n, n) >= k

LEMMA ShrunkPlaces ==
  ASSUME NEW n \in Nat, n > 0, NEW i \in 0 .. n - 1, NEW o \in 0 .. n - 1,
         NEW k \in 0 .. Between(o, i, n)
  PROVE  Shrunk(n, i, o, k)
BY DEF Shrunk, Between, Wrap

\* The ring after ring_pop has copied k bytes.
Popped(r, k) ==
  [ib |-> r.ib, ob |-> Wrap(r.ob + k, r.nb), nb |-> r.nb,
   bf |-> [p \in 0 .. r.nb - 1 |-> IF Wrap(p - r.ob + r.nb, r.nb) < k THEN Zero ELSE r.bf[p]]]

LEMMA PoppedData ==
  ASSUME NEW r, Proper(r), NEW k \in 0 .. Length(r)
  PROVE  Proper(Popped(r, k)) /\ Data(Popped(r, k)) = SubSeq(Data(r), k + 1, Length(r))
<1>1. PICK q : q = Popped(r, k)
  OBVIOUS
<1>2. PICK n, i, o, f :
        /\ n \in Nat /\ n > 0 /\ i \in 0 .. n - 1 /\ o \in 0 .. n - 1 /\ f \in [0 .. n - 1 -> Bytes]
        /\ i = r.ib /\ o = r.ob /\ n = r.nb /\ f = r.bf
  BY DEF Proper
<1>3. PICK m : m = Between(o, i, n) /\ m = Length(r) /\ m \in 0 .. n - 1
  BY <1>2, LengthFacts DEF Length
<1>4. PICK e : e = Wrap(o + k, n)
  OBVIOUS
<1>5. PICK h : h = [p \in 0 .. n - 1 |-> IF Wrap(p - o + n, n) < k THEN Zero ELSE f[p]]
  OBVIOUS
<1>6. q.ib = i /\ q.ob = e /\ q.nb = n /\ q.bf = h
  BY <1>1, <1>2, <1>4, <1>5 DEF Popped
<1>7. Shrunk(n, i, o, k)
  BY <1>2, <1>3, ShrunkPlaces
<1>8. Proper(q)
  <2>1. h \in [0 .. n - 1 -> Bytes]
    BY <1>2, <1>5, BytesAssumption
  <2> QED
    BY <2>1, <1>2, <1>4, <1>6, <1>7 DEF Proper, Shrunk
<1>9. Length(q) = m - k
  BY <1>3, <1>4, <1>6, <1>7 DEF Length, Shrunk
<1>10. ASSUME NEW j \in 1 .. m - k
       PROVE  h[Wrap(e + (j - 1), n)] = f[Wrap(o + ((k + j) - 1), n)]
  <2>1. PICK p : p = Wrap(e + (j - 1), n)
    OBVIOUS
  <2>2. p = Wrap(o + k + (j - 1), n) /\ p \in 0 .. n - 1 /\ Wrap(p - o + n, n) >= k
    BY <2>1, <1>3, <1>4, <1>7 DEF Shrunk
  <2>3. o + k + (j - 1) = o + ((k + j) - 1)
    BY <1>2, <1>3
  <2>4. Wrap(p - o + n, n) \in 0 .. n - 1
    BY <2>2, <1>2, Inside
  <2> QED
    BY <2>1, <2>2, <2>3, <2>4, <1>3, <1>5
<1>11. Data(q) \in Seq(Bytes) /\ Len(Data(q)) = m - k
       /\ \A j \in 1 .. m - k : Data(q)[j] = h[Wrap(e + (j - 1), n)]
  BY <1>6, <1>8, <1>9, DataFacts DEF Place
<1>12. Data(r) \in Seq(Bytes) /\ Len(Data(r)) = m
       /\ \A j \in 1 .. m : Data(r)[j] = f[Wrap(o + (j - 1), n)]
  BY <1>2, <1>3, DataFacts DEF Place
<1>13. /\ SubSeq(Data(r), k + 1, m) \in Seq(Bytes) /\ Len(SubSeq(Data(r), k + 1, m)) = m - k
       /\ \A j \in 1 .. m - k : SubSeq(Data(r), k + 1, m)[j] = Data(r)[k + j]
  <2>1. \A j \in k + 1 .. m : Data(r)[j] \in Bytes
    BY <1>3, <1>12, ElementOfSeq
  <2>2. /\ SubSeq(Data(r), k + 1, m) \in Seq(Bytes)
        /\ Len(SubSeq(Data(r), k + 1, m)) = IF k + 1 =< m THEN m - (k + 1) + 1 ELSE 0
        /\ \A j \in 1 .. m - (k + 1) + 1 : SubSeq(Data(r), k + 1, m)[j] = Data(r)[k + 1 + j - 1]
    BY <2>1, <1>3, SubSeqProperties
  <2> QED
    BY <2>2, <1>3
<1>14. \A j \in 1 .. m - k : Data(q)[j] = SubSeq(Data(r), k + 1, m)[j]
  <2> TAKE j \in 1 .. m - k
  <2>1. k + j \in 1 .. m
    BY <1>3
  <2> QED
    BY <2>1, <1>10, <1>11, <1>12, <1>13
<1>15. Data(q) = SubSeq(Data(r), k + 1, m)
  BY <1>11, <1>13, <1>14, SeqEqual
<1> QED
  BY <1>1, <1>3, <1>8, <1>15

-----------------------------------------------------------------------------
(* The states.                                                             *)

\* The model's remainders, as places in the array.
Faithful ==
  nb > 0 => /\ Proper(Ring)
            /\ Used = Length(Ring) /\ Contents = Data(Ring)
            /\ \A k \in 0 .. nb - 1 : Byte(k) = bf[Place(Ring, k)]
                                      /\ (After(ob, k, nb) = ib <=> k = Length(Ring))

LEMMA Around ==
  ASSUME NEW n \in Nat, n > 0, NEW i \in 0 .. n - 1, NEW o \in 0 .. n - 1
  PROVE  /\ (i - o + n) % n = Between(o, i, n)
         /\ \A k \in 0 .. n : (o + k) % n = Wrap(o + k, n)
         /\ \A k \in 0 .. n - 1 : Wrap(o + k, n) = i <=> k = Between(o, i, n)
<1>1. i - o + n \in Nat /\ i - o + n < 2 * n
  OBVIOUS
<1>2. (i - o + n) % n = Wrap(i - o + n, n)
  BY <1>1, Remainder
<1>3. Wrap(i - o + n, n) = Between(o, i, n)
  BY DEF Wrap, Between
<1>4. ASSUME NEW k \in 0 .. n PROVE (o + k) % n = Wrap(o + k, n)
  <2>1. o + k \in Nat /\ o + k < 2 * n
    OBVIOUS
  <2> QED
    BY <2>1, Remainder
<1>5. \A k \in 0 .. n - 1 : Wrap(o + k, n) = i <=> k = Between(o, i, n)
  BY DEF Wrap, Between
<1> QED
  BY <1>2, <1>3, <1>4, <1>5

LEMMA IsFaithful == TypeOK => Faithful
<1> SUFFICES ASSUME TypeOK, nb > 0
             PROVE  /\ Proper(Ring)
                    /\ Used = Length(Ring) /\ Contents = Data(Ring)
                    /\ \A k \in 0 .. nb - 1 : Byte(k) = bf[Place(Ring, k)]
                                              /\ (After(ob, k, nb) = ib <=> k = Length(Ring))
  BY DEF Faithful
<1>1. nb \in Nat /\ ib \in 0 .. nb - 1 /\ ob \in 0 .. nb - 1 /\ Proper(Ring)
  BY DEF TypeOK, Proper, Ring
<1>2. Used = Length(Ring)
  BY <1>1, Around DEF Used, Length, Ring
<1>3. ASSUME NEW k \in 0 .. nb - 1
      PROVE  /\ After(ob, k, nb) = Place(Ring, k)
             /\ Place(Ring, k) = ib <=> k = Length(Ring)
  <2>1. k \in 0 .. nb /\ nb > 0 /\ nb \in Nat
    BY <1>1
  <2>2. (ob + k) % nb = Wrap(ob + k, nb) /\ (Wrap(ob + k, nb) = ib <=> k = Between(ob, ib, nb))
    BY <2>1, <1>1, Around
  <2> QED
    BY <2>2 DEF After, Place, Ring, Length
<1>4. \A k \in 0 .. nb - 1 : Byte(k) = bf[Place(Ring, k)]
  BY <1>3 DEF Byte
<1>5. Contents = Data(Ring)
  <2>1. \A j \in 1 .. Used : j - 1 \in 0 .. nb - 1
    BY <1>1, <1>2, LengthFacts DEF Ring
  <2>2. \A j \in 1 .. Used : Byte(j - 1) = bf[Place(Ring, j - 1)]
    BY <2>1, <1>4
  <2>3. Ring.bf = bf
    BY DEF Ring
  <2> QED
    BY <2>2, <2>3, <1>2 DEF Contents, Data
<1> QED
  BY <1>1, <1>2, <1>3, <1>4, <1>5

\* What ring_push does to what the ring holds.
LEMMA PushStep ==
  ASSUME TypeOK, NEW s \in Chunks, Push(s)
  PROVE  /\ nb > 0 /\ Proper(Ring') /\ out' = out
         /\ \/ Data(Ring') = Data(Ring) \o s
            \/ ExactFill /\ Data(Ring') = <<>>
<1>1. nb > 0 /\ Proper(Ring) /\ s \in Seq(Bytes) /\ s # <<>>
  BY IsFaithful, ChunksAssumption DEF Faithful, Push
<1>2. PICK g \in Bytes :
        LET r == Adjusted(Ring, Len(s), g)
        IN  /\ Fits(r, Len(s)) /\ r.nb =< MaxNb
            /\ ExactFill \/ Available(r) > Len(s)
            /\ bf' = [p \in DOMAIN r.bf |->
                        LET i == (p - r.ib + r.nb) % r.nb
                        IN  IF i < Len(s) THEN s[i + 1] ELSE r.bf[p]]
            /\ ib' = After(r.ib, Len(s), r.nb)
            /\ ob' = r.ob
            /\ nb' = r.nb
  BY DEF Push
<1>3. PICK r : r = Adjusted(Ring, Len(s), g)
  OBVIOUS
<1>4. Proper(r) /\ Data(r) = Data(Ring)
  <2>1. PICK q : q = Ring
    OBVIOUS
  <2>2. Proper(Adjusted(q, Len(s), g)) /\ SameBytes(Adjusted(q, Len(s), g), q)
    BY <2>1, <1>1, AdjustedSame
  <2> QED
    BY <2>1, <2>2, <1>1, <1>3, SameData
<1>5. PICK n, i, f :
        /\ n \in Nat /\ n > 0 /\ i \in 0 .. n - 1 /\ f \in [0 .. n - 1 -> Bytes]
        /\ i = r.ib /\ n = r.nb /\ f = r.bf
  BY <1>4 DEF Proper
<1>6. PICK l \in Nat : l = Len(s) /\ l =< n
  <2>1. Len(s) \in Nat /\ Available(r) = n - Length(r) /\ Length(r) \in 0 .. n - 1
    BY <1>1, <1>4, <1>5, LengthFacts, LenProperties
  <2> QED
    BY <2>1, <1>2, <1>3, <1>5 DEF Fits
<1>7. ib' = Wrap(i + l, n)
  <2>0. l \in 0 .. n
    BY <1>6
  <2>1. (i + l) % n = Wrap(i + l, n)
    BY <2>0, <1>5, Around
  <2> QED
    BY <2>1, <1>2, <1>3, <1>5, <1>6 DEF After
<1>8. bf' = [p \in 0 .. n - 1 |-> LET j == Wrap(p - i + n, n) IN IF j < l THEN s[j + 1] ELSE f[p]]
  <2>1. DOMAIN r.bf = 0 .. n - 1
    BY <1>5
  <2>2. ASSUME NEW p \in 0 .. n - 1 PROVE (p - i + n) % n = Wrap(p - i + n, n)
    <3>1. p - i + n \in Nat /\ p - i + n < 2 * n
      BY <1>5
    <3> QED
      BY <3>1, <1>5, Remainder
  <2>3. bf' = [p \in 0 .. n - 1 |-> LET j == (p - i + n) % n IN IF j < l THEN s[j + 1] ELSE f[p]]
    BY <2>1, <1>2, <1>3, <1>5, <1>6
  <2> QED
    BY <2>2, <2>3
<1>9. Ring' = Pushed(r, s)
  <2>1. ob' = r.ob /\ nb' = r.nb
    BY <1>2, <1>3
  <2> QED
    BY <2>1, <1>5, <1>6, <1>7, <1>8 DEF Ring, Pushed
<1>10. Fits(r, Len(s)) /\ (ExactFill \/ Len(s) < Available(r))
  <2>1. Available(r) \in Int /\ Len(s) \in Int
    BY <1>4, <1>5, <1>6, LengthFacts
  <2> QED
    BY <2>1, <1>2, <1>3
<1>11. /\ Proper(Pushed(r, s))
       /\ Len(s) < Available(r) => Data(Pushed(r, s)) = Data(r) \o s
       /\ Len(s) = Available(r) => Data(Pushed(r, s)) = <<>>
  BY <1>1, <1>4, <1>10, PushedData
<1>12. Len(s) < Available(r) \/ Len(s) = Available(r)
  <2>1. Available(r) \in Int /\ Len(s) \in Int
    BY <1>4, <1>5, <1>6, LengthFacts
  <2> QED
    BY <2>1, <1>10 DEF Fits
<1> QED
  BY <1>1, <1>4, <1>9, <1>10, <1>11, <1>12 DEF Push

\* Where taking ends in what a ring holds.
EndsIn(q, n, lc, k) == k = n \/ k = Len(q) \/ (k > 0 /\ q[k] = lc)

LEMMA EndsSame ==
  ASSUME TypeOK, nb > 0, NEW n, NEW lc, NEW k \in 0 .. Length(Ring)
  PROVE  Ends(n, lc, k) <=> EndsIn(Data(Ring), n, lc, k)
<1>1. PICK q : q = Ring
  OBVIOUS
<1>2. /\ Proper(q)
      /\ \A j \in 0 .. nb - 1 : /\ Byte(j) = bf[Place(q, j)]
                                /\ (After(ob, j, nb) = ib <=> j = Length(q))
  BY <1>1, IsFaithful DEF Faithful
<1>3. Len(Data(q)) = Length(q) /\ Length(q) \in 0 .. nb - 1 /\ nb \in Nat
      /\ \A j \in 1 .. Length(q) : Data(q)[j] = bf[Place(q, j - 1)]
  BY <1>1, <1>2, DataFacts DEF Ring
<1>4. k \in 0 .. Length(q) /\ k \in 0 .. nb - 1
  BY <1>1, <1>3
<1>5. After(ob, k, nb) = ib <=> k = Len(Data(q))
  BY <1>2, <1>3, <1>4
<1>6. k > 0 => Byte(k - 1) = Data(q)[k]
  <2>1. k > 0 => k - 1 \in 0 .. nb - 1 /\ k \in 1 .. Length(q)
    BY <1>3, <1>4
  <2> QED
    BY <2>1, <1>2, <1>3
<1>7. Ends(n, lc, k) <=> EndsIn(Data(q), n, lc, k)
  BY <1>5, <1>6 DEF Ends, EndsIn
<1> QED
  BY <1>1, <1>7

\* What ring_pop takes and leaves.
Taken(q, n, lc, o, left) ==
  \E k \in 0 .. Len(q) :
    /\ EndsIn(q, n, lc, k)
    /\ \A j \in 0 .. k - 1 : ~EndsIn(q, n, lc, j)
    /\ o = SubSeq(q, 1, k)
    /\ left = SubSeq(q, k + 1, Len(q))

LEMMA PopStep ==
  ASSUME TypeOK, NEW n, NEW lc, Pop(n, lc)
  PROVE  nb > 0 /\ Proper(Ring') /\ Taken(Data(Ring), n, lc, out', Data(Ring'))
<1>1. PICK q : q = Ring
  OBVIOUS
<1>2. nb > 0
  BY DEF Pop
<1>3. /\ Proper(q) /\ nb \in Nat /\ q.ib = ib /\ q.ob = ob /\ q.nb = nb /\ q.bf = bf
      /\ \A j \in 0 .. nb - 1 : /\ Byte(j) = bf[Place(q, j)]
                                /\ (After(ob, j, nb) = ib <=> j = Length(q))
  BY <1>1, <1>2, IsFaithful DEF Faithful, Ring, TypeOK
<1>4. PICK k \in 0 .. nb - 1 :
        /\ Ends(n, lc, k)
        /\ \A j \in 0 .. k - 1 : ~Ends(n, lc, j)
        /\ out' = [i \in 1 .. k |-> Byte(i - 1)]
        /\ bf' = [p \in DOMAIN bf |-> IF (p - ob + nb) % nb < k THEN Zero ELSE bf[p]]
        /\ ob' = After(ob, k, nb)
  BY DEF Pop
<1>5. Data(q) \in Seq(Bytes) /\ Len(Data(q)) = Length(q) /\ Length(q) \in 0 .. nb - 1
      /\ \A j \in 1 .. Length(q) : Data(q)[j] = bf[Place(q, j - 1)]
  BY <1>3, DataFacts
<1>6. k \in 0 .. Length(q)
  <2>1. Ends(n, lc, Length(q))
    BY <1>3, <1>5 DEF Ends
  <2> QED
    BY <2>1, <1>4, <1>5
<1>7. \A j \in 0 .. Length(q) : Ends(n, lc, j) <=> EndsIn(Data(q), n, lc, j)
  BY <1>1, <1>2, EndsSame
<1>8. EndsIn(Data(q), n, lc, k) /\ \A j \in 0 .. k - 1 : ~EndsIn(Data(q), n, lc, j)
  <2>1. \A j \in 0 .. k - 1 : j \in 0 .. Length(q)
    BY <1>5, <1>6
  <2> QED
    BY <2>1, <1>4, <1>6, <1>7
<1>9. out' = SubSeq(Data(q), 1, k)
  <2>0. \A j \in 1 .. k : j - 1 \in 0 .. nb - 1 /\ j \in 1 .. Length(q)
    BY <1>3, <1>5, <1>6
  <2>1. \A j \in 1 .. k : Data(q)[j] \in Bytes
    <3>1. \A j \in 1 .. Len(Data(q)) : Data(q)[j] \in Bytes
      BY <1>5, ElementOfSeq
    <3> QED
      BY <3>1, <2>0, <1>5
  <2>2. /\ SubSeq(Data(q), 1, k) \in Seq(Bytes)
        /\ Len(SubSeq(Data(q), 1, k)) = IF 1 =< k THEN k - 1 + 1 ELSE 0
        /\ \A j \in 1 .. k - 1 + 1 : SubSeq(Data(q), 1, k)[j] = Data(q)[1 + j - 1]
    BY <2>1, <1>6, SubSeqProperties
  <2>3. Len(SubSeq(Data(q), 1, k)) = k /\ \A j \in 1 .. k : SubSeq(Data(q), 1, k)[j] = Data(q)[j]
    BY <2>2, <1>6
  <2>4. \A j \in 1 .. k : Byte(j - 1) = Data(q)[j]
    BY <2>0, <1>3, <1>5
  <2>5. PICK o : o = [i \in 1 .. k |-> Byte(i - 1)]
    OBVIOUS
  <2>6. o \in Seq(Bytes) /\ Len(o) = k /\ \A j \in 1 .. k : o[j] = Data(q)[j]
    <3>1. k \in Nat /\ \A j \in 1 .. k : Byte(j - 1) \in Bytes
      BY <2>1, <2>4, <1>6
    <3>2. [i \in 1 .. k |-> Byte(i - 1)] \in Seq(Bytes)
      BY <3>1
    <3>3. Len(o) = k
      BY <3>1, <2>5
    <3> QED
      BY <3>2, <3>3, <2>4, <2>5
  <2>7. o = SubSeq(Data(q), 1, k)
    BY <2>2, <2>3, <2>6, SeqEqual
  <2> QED
    BY <2>5, <2>7, <1>4
<1>10. ob' = Wrap(ob + k, nb)
  <2>1. ob \in 0 .. nb - 1
    BY <1>3 DEF Proper
  <2> QED
    BY <2>1, <1>2, <1>3, <1>4, Around DEF After
<1>11. bf' = [p \in 0 .. nb - 1 |-> IF Wrap(p - ob + nb, nb) < k THEN Zero ELSE bf[p]]
  <2>1. DOMAIN bf = 0 .. nb - 1 /\ ob \in 0 .. nb - 1
    BY <1>3 DEF Proper
  <2>2. ASSUME NEW p \in 0 .. nb - 1 PROVE (p - ob + nb) % nb = Wrap(p - ob + nb, nb)
    <3>1. p - ob + nb \in Nat /\ p - ob + nb < 2 * nb
      BY <2>1, <1>3
    <3> QED
      BY <3>1, <1>2, <1>3, Remainder
  <2> QED
    BY <2>1, <2>2, <1>4
<1>12. Ring' = Popped(q, k)
  <2>1. ib' = ib /\ nb' = nb
    BY DEF Pop
  <2> QED
    BY <2>1, <1>3, <1>10, <1>11 DEF Ring, Popped
<1>13. Proper(Popped(q, k)) /\ Data(Popped(q, k)) = SubSeq(Data(q), k + 1, Length(q))
  BY <1>3, <1>6, PoppedData
<1>14. Taken(Data(q), n, lc, out', Data(Popped(q, k)))
  BY <1>5, <1>6, <1>8, <1>9, <1>13 DEF Taken
<1> QED
  BY <1>1, <1>2, <1>12, <1>13, <1>14

-----------------------------------------------------------------------------
(* The theorems.                                                           *)

LEMMA NewRing ==
  /\ InitSize \in Nat /\ InitSize > 0
  /\ \A r : /\ r.ib = 0 /\ r.ob = 0 /\ r.nb = InitSize
            /\ r.bf = [p \in 0 .. InitSize - 1 |-> Zero]
            => Proper(r) /\ Data(r) = <<>>
<1>1. InitSize \in Nat /\ InitSize > 0
  BY SizeAssumption DEF InitSize
<1>2. ASSUME NEW r, r.ib = 0, r.ob = 0, r.nb = InitSize, r.bf = [p \in 0 .. InitSize - 1 |-> Zero]
      PROVE  Proper(r) /\ Data(r) = <<>>
  <2>1. Proper(r)
    BY <1>1, <1>2, BytesAssumption DEF Proper
  <2>2. Length(r) = 0
    BY <1>1, <1>2 DEF Length, Between
  <2>3. Data(r) \in Seq(Bytes) /\ Len(Data(r)) = 0
    BY <2>1, <2>2, DataFacts
  <2> QED
    BY <2>1, <2>3, EmptySeq
<1> QED
  BY <1>1, <1>2

LEMMA InitStep ==
  ASSUME Init
  PROVE  nb > 0 /\ Proper(Ring) /\ Data(Ring) = <<>>
<1>1. PICK r : r = Ring
  OBVIOUS
<1>2. r.ib = 0 /\ r.ob = 0 /\ r.nb = InitSize /\ r.bf = [p \in 0 .. InitSize - 1 |-> Zero]
  BY <1>1 DEF Init, Ring
<1> QED
  BY <1>1, <1>2, NewRing DEF Init

\* Between ring_clear and ring_init the positions are zero.
Emptied == nb = 0 => ib = 0 /\ ob = 0
IInv    == TypeOK /\ Emptied

LEMMA RenewStep ==
  ASSUME IInv, InitAgain
  PROVE  nb = 0 /\ nb' > 0 /\ Proper(Ring') /\ Data(Ring') = <<>> /\ out' = out
<1>1. PICK r : r = Ring'
  OBVIOUS
<1>2. r.ib = 0 /\ r.ob = 0 /\ r.nb = InitSize /\ r.bf = [p \in 0 .. InitSize - 1 |-> Zero]
  BY <1>1 DEF InitAgain, IInv, Emptied, Ring
<1> QED
  BY <1>1, <1>2, NewRing DEF InitAgain

LEMMA TakenSeqs ==
  ASSUME NEW q \in Seq(Bytes), NEW n, NEW lc, NEW o, NEW left, Taken(q, n, lc, o, left)
  PROVE  /\ o \in Seq(Bytes) /\ left \in Seq(Bytes)
         /\ \A j \in 1 .. Len(left) : \E i \in 1 .. Len(q) : left[j] = q[i]
<1>1. PICK k \in 0 .. Len(q) : o = SubSeq(q, 1, k) /\ left = SubSeq(q, k + 1, Len(q))
  BY DEF Taken
<1>2. PICK m \in Nat : m = Len(q) /\ \A i \in 1 .. m : q[i] \in Bytes
  BY LenProperties, ElementOfSeq
<1>3. o \in Seq(Bytes)
  <2>1. \A i \in 1 .. k : q[i] \in Bytes
    BY <1>1, <1>2
  <2> QED
    BY <2>1, <1>1, <1>2, SubSeqProperties
<1>4. /\ left \in Seq(Bytes)
      /\ Len(left) = IF k + 1 =< m THEN m - (k + 1) + 1 ELSE 0
      /\ \A j \in 1 .. m - (k + 1) + 1 : left[j] = q[k + 1 + j - 1]
  <2>1. \A i \in k + 1 .. m : q[i] \in Bytes
    BY <1>1, <1>2
  <2> QED
    BY <2>1, <1>1, <1>2, SubSeqProperties
<1>5. ASSUME NEW j \in 1 .. Len(left) PROVE \E i \in 1 .. Len(q) : left[j] = q[i]
  <2>1. j \in 1 .. m - (k + 1) + 1 /\ k + 1 + j - 1 \in 1 .. m
    BY <1>2, <1>4
  <2> QED
    BY <2>1, <1>2, <1>4
<1> QED
  BY <1>3, <1>4, <1>5

\* A ring in use has proper positions and bytes.
LEMMA UseOK ==
  /\ Proper(Ring') /\ nb' > 0 /\ out' \in Seq(Bytes) => IInv'
  /\ nb' = 0 /\ ib' = 0 /\ ob' = 0 /\ bf' = <<>> /\ out' \in Seq(Bytes) => IInv'
<1>1. ASSUME Proper(Ring'), nb' > 0, out' \in Seq(Bytes) PROVE IInv'
  BY <1>1 DEF Proper, Ring, IInv, TypeOK, Emptied
<1>2. ASSUME nb' = 0, ib' = 0, ob' = 0, bf' = <<>>, out' \in Seq(Bytes) PROVE IInv'
  <2>1. nb' \in Nat /\ ~(nb' > 0) /\ 0 .. nb' - 1 = {}
    BY <1>2
  <2>2. <<>> = [p \in {} |-> Zero]
    BY DOMAIN <<>> = {}
  <2>3. <<>> \in [{} -> Bytes]
    BY <2>2
  <2> QED
    BY <2>1, <2>3, <1>2 DEF IInv, TypeOK, Emptied
<1> QED
  BY <1>1, <1>2

LEMMA InitInv == Init => IInv
<1> SUFFICES ASSUME Init PROVE IInv
  OBVIOUS
<1>1. InitSize \in Nat /\ InitSize > 0
  BY NewRing
<1>2. bf \in [0 .. nb - 1 -> Bytes]
  BY <1>1, BytesAssumption DEF Init
<1>3. out \in Seq(Bytes)
  BY EmptySeq DEF Init
<1> QED
  BY <1>1, <1>2, <1>3 DEF Init, IInv, TypeOK, Emptied

LEMMA StepInv == IInv /\ [Next]_vars => IInv'
<1> SUFFICES ASSUME IInv, [Next]_vars PROVE IInv'
  OBVIOUS
<1>1. TypeOK /\ out \in Seq(Bytes)
  BY DEF IInv, TypeOK
<1>2. ASSUME NEW s \in Chunks, Push(s) PROVE IInv'
  <2>1. nb' > 0
    BY <1>1, <1>2, PushStep DEF Proper, Ring
  <2> QED
    BY <2>1, <1>1, <1>2, PushStep, UseOK
<1>3. ASSUME NEW n \in PopSizes, NEW lc \in Delimiters, Pop(n, lc) PROVE IInv'
  <2>1. nb' > 0
    BY <1>3 DEF Pop
  <2>2. Proper(Ring') /\ Taken(Data(Ring), n, lc, out', Data(Ring'))
    BY <1>1, <1>3, PopStep
  <2>3. Data(Ring) \in Seq(Bytes)
    BY <1>1, <1>3, IsFaithful, DataFacts DEF Faithful, Pop
  <2>4. out' \in Seq(Bytes)
    BY <2>2, <2>3, TakenSeqs
  <2> QED
    BY <2>1, <2>2, <2>4, UseOK
<1>4. CASE Clear
  BY <1>1, <1>4, UseOK DEF Clear
<1>5. CASE InitAgain
  BY <1>1, <1>5, RenewStep, UseOK
<1>6. CASE UNCHANGED vars
  BY <1>6 DEF vars, IInv, TypeOK, Emptied
<1> QED
  BY <1>2, <1>3, <1>4, <1>5, <1>6 DEF Next

\* The positions of a ring lie inside its array, whatever is pushed and popped
\* and however often the array doubles (ring_push, ring_pop, _ring_adjust).
THEOREM TypeCorrect == Spec => []TypeOK
<1>1. Spec => []IInv
  BY InitInv, StepInv, PTL DEF Spec
<1>2. IInv => TypeOK
  BY DEF IInv
<1> QED
  BY <1>1, <1>2, PTL

-----------------------------------------------------------------------------
(* Text.                                                                   *)

NoZero(q) == \A j \in 1 .. Len(q) : q[j] # Zero

\* The messages of the perdb server's clients are strings: none holds a zero.
Text == \A s \in Chunks : NoZero(s)

\* No byte of the data is zero.
AllText == nb > 0 => NoZero(Data(Ring))

LEMMA StepText == Text /\ IInv /\ AllText /\ [Next]_vars => AllText'
<1> SUFFICES ASSUME Text, IInv, AllText, [Next]_vars, nb' > 0 PROVE NoZero(Data(Ring'))
  BY DEF AllText
<1>1. TypeOK
  BY DEF IInv
<1>2. NoZero(<<>>)
  BY DEF NoZero
<1>3. nb > 0 => Data(Ring) \in Seq(Bytes) /\ NoZero(Data(Ring))
  BY <1>1, IsFaithful, DataFacts DEF Faithful, AllText
<1>4. ASSUME NEW s \in Chunks, Push(s) PROVE NoZero(Data(Ring'))
  <2>1. ASSUME NEW q \in Seq(Bytes), NoZero(q) PROVE NoZero(q \o s)
    <3>1. s \in Seq(Bytes) /\ NoZero(s)
      BY ChunksAssumption DEF Text
    <3>2. PICK m \in Nat, l \in Nat : m = Len(q) /\ l = Len(s)
      BY <3>1, LenProperties
    <3>3. Len(q \o s) = m + l
          /\ \A j \in 1 .. m + l : (q \o s)[j] = IF j =< m THEN q[j] ELSE s[j - m]
      BY <3>1, <3>2, ConcatProperties
    <3>4. ASSUME NEW j \in 1 .. m + l PROVE (q \o s)[j] # Zero
      <4>1. CASE j =< m
        <5>1. j \in 1 .. m
          BY <4>1, <3>2
        <5> QED
          BY <5>1, <4>1, <3>2, <3>3, <2>1 DEF NoZero
      <4>2. CASE ~(j =< m)
        <5>1. j - m \in 1 .. l
          BY <4>2, <3>2
        <5> QED
          BY <5>1, <4>2, <3>1, <3>2, <3>3 DEF NoZero
      <4> QED
        BY <4>1, <4>2
    <3> QED
      BY <3>3, <3>4 DEF NoZero
  <2>2. nb > 0 /\ (Data(Ring') = Data(Ring) \o s \/ Data(Ring') = <<>>)
    BY <1>1, <1>4, PushStep
  <2>3. NoZero(Data(Ring) \o s)
    BY <2>1, <2>2, <1>3
  <2> QED
    BY <2>2, <2>3, <1>2
<1>5. ASSUME NEW n \in PopSizes, NEW lc \in Delimiters, Pop(n, lc) PROVE NoZero(Data(Ring'))
  <2>1. nb > 0 /\ Taken(Data(Ring), n, lc, out', Data(Ring'))
    BY <1>1, <1>5, PopStep
  <2>2. \A j \in 1 .. Len(Data(Ring')) : \E i \in 1 .. Len(Data(Ring)) : Data(Ring')[j] = Data(Ring)[i]
    BY <2>1, <1>3, TakenSeqs
  <2> QED
    BY <2>1, <2>2, <1>3 DEF NoZero
<1>6. CASE Clear
  BY <1>6 DEF Clear
<1>7. CASE InitAgain
  BY <1>2, <1>7, RenewStep
<1>8. CASE UNCHANGED vars
  <2>1. nb > 0 /\ Ring' = Ring
    BY <1>8 DEF vars, Ring
  <2> QED
    BY <2>1, <1>3
<1> QED
  BY <1>4, <1>5, <1>6, <1>7, <1>8 DEF Next

\* When the chunks are text, a complete message in the ring is always found by
\* ring_ready, even after a push that filled the ring to its last byte: what is
\* left behind outside the data is never in its way.
THEOREM MessageFound == Text => (Spec => []CompleteIsReady)
<1> SUFFICES ASSUME Text PROVE Spec => []CompleteIsReady
  OBVIOUS
<1>1. Init => AllText
  <2>1. NoZero(<<>>)
    BY DEF NoZero
  <2> QED
    BY <2>1, InitStep DEF AllText
<1>2. IInv /\ AllText /\ [Next]_vars => (IInv /\ AllText)'
  BY StepInv, StepText
<1>3. IInv /\ AllText => CompleteIsReady
  <2> SUFFICES ASSUME IInv, AllText, NEW lc \in Delimiters \ {Zero},
                      NEW c \in 1 .. Used, Contents[c] = lc
               PROVE  Ready(lc)
    BY DEF CompleteIsReady
  <2>1. TypeOK /\ nb \in Nat
    BY DEF IInv, TypeOK
  <2>2. nb > 0
    BY <2>1 DEF Used
  <2>3. PICK q : q = Data(Ring)
    OBVIOUS
  <2>4. /\ Proper(Ring) /\ Used = Length(Ring) /\ Contents = q
        /\ \A k \in 0 .. nb - 1 : Byte(k) = bf[Place(Ring, k)]
    BY <2>1, <2>2, <2>3, IsFaithful DEF Faithful
  <2>5. Len(q) = Used /\ Used \in 0 .. nb - 1 /\ \A j \in 1 .. Used : q[j] = bf[Place(Ring, j - 1)]
    BY <2>3, <2>4, DataFacts DEF Ring
  <2>6. \A j \in 1 .. Used : Byte(j - 1) = q[j] /\ q[j] # Zero
    <3>1. \A j \in 1 .. Used : j - 1 \in 0 .. nb - 1
      BY <2>1, <2>5
    <3> QED
      BY <3>1, <2>2, <2>3, <2>4, <2>5 DEF AllText, NoZero
  <2>7. c - 1 \in 0 .. nb - 1 /\ Byte(c - 1) = lc
    BY <2>1, <2>4, <2>5, <2>6
  <2>8. ASSUME NEW j \in 0 .. c - 1 PROVE Byte(j) # Zero
    <3>1. j + 1 \in 1 .. Used /\ (j + 1) - 1 = j
      BY <2>5
    <3> QED
      BY <3>1, <2>6
  <2> QED
    BY <2>7, <2>8 DEF Ready
<1> QED
  BY <1>1, <1>2, <1>3, InitInv, PTL DEF Spec

-----------------------------------------------------------------------------
(* The queue of bytes.                                                     *)

\* Unless a push fills the ring to its last byte, every step of the ring is a
\* step of a queue of bytes: what is pushed is popped, once and in order, a
\* message or a buffer full at a time, however often the ring wraps around and
\* grows and whatever realloc leaves in its new half.
THEOREM QueueOfBytes == ~ExactFill => (Spec => ImplementsFifo)
<1> SUFFICES ASSUME ~ExactFill PROVE Spec => ImplementsFifo
  OBVIOUS
<1>1. TypeOK /\ nb > 0 => Contents = Data(Ring)
  BY IsFaithful DEF Faithful
<1>2. nb = 0 => Contents = <<>>
  BY DEF Contents, Used
<1>3. (TypeOK /\ nb > 0 => Contents = Data(Ring))'
  BY <1>1, PTL
<1>4. (nb = 0 => Contents = <<>>)'
  BY <1>2, PTL
<1>5. Init => Fifo!Init
  <2> SUFFICES ASSUME Init PROVE Fifo!Init
    OBVIOUS
  <2>1. nb > 0 /\ Data(Ring) = <<>> /\ TypeOK
    BY InitStep, InitInv DEF IInv
  <2> QED
    BY <2>1, <1>1 DEF Init, Fifo!Init
<1>6. IInv /\ IInv' /\ [Next]_vars => [Fifo!Next]_(Fifo!vars)
  <2> SUFFICES ASSUME IInv, IInv', [Next]_vars
               PROVE  Fifo!Next \/ UNCHANGED Fifo!vars
    OBVIOUS
  <2>1. TypeOK /\ TypeOK' /\ nb \in Nat
    BY DEF IInv, TypeOK
  <2>2. nb > 0 => Contents = Data(Ring)
    BY <2>1, <1>1
  <2>3. nb' > 0 => Contents' = Data(Ring')
    BY <2>1, <1>3
  <2>4. nb = 0 => Contents = <<>>
    BY <1>2
  <2>5. nb' = 0 => Contents' = <<>>
    BY <1>4
  <2>6. ASSUME NEW s \in Chunks, Push(s) PROVE Fifo!Next
    <3>1. nb > 0 /\ nb' > 0 /\ Data(Ring') = Data(Ring) \o s /\ out' = out
      BY <2>1, <2>6, PushStep DEF Proper, Ring
    <3>2. Fifo!Push(s)
      BY <3>1, <2>2, <2>3 DEF Fifo!Push
    <3> QED
      BY <3>2 DEF Fifo!Next
  <2>7. ASSUME NEW n \in PopSizes, NEW lc \in Delimiters, Pop(n, lc) PROVE Fifo!Next
    <3>1. nb > 0 /\ nb' = nb /\ Taken(Contents, n, lc, out', Contents')
      BY <2>1, <2>2, <2>3, <2>7, PopStep DEF Pop
    <3>2. Fifo!Pop(n, lc)
      BY <3>1 DEF Taken, EndsIn, Fifo!Pop, Fifo!EndsAt
    <3> QED
      BY <3>2 DEF Fifo!Next
  <2>8. CASE Clear
    <3>1. nb > 0 /\ nb' = 0 /\ Contents' = <<>> /\ out' = out
      BY <2>5, <2>8 DEF Clear
    <3>2. Fifo!Clear
      BY <3>1 DEF Fifo!Clear
    <3> QED
      BY <3>2 DEF Fifo!Next
  <2>9. CASE InitAgain
    <3>1. nb = 0 /\ nb' > 0 /\ Contents = <<>> /\ Contents' = <<>> /\ out' = out
      BY <2>3, <2>4, <2>9, RenewStep
    <3>2. Fifo!Renew
      BY <3>1 DEF Fifo!Renew
    <3> QED
      BY <3>2 DEF Fifo!Next
  <2>10. CASE UNCHANGED vars
    <3>1. nb' = nb /\ out' = out /\ Ring' = Ring
      BY <2>10 DEF vars, Ring
    <3>2. Contents' = Contents
      BY <3>1, <2>1, <2>2, <2>3, <2>4, <2>5
    <3> QED
      BY <3>1, <3>2 DEF Fifo!vars
  <2> QED
    BY <2>6, <2>7, <2>8, <2>9, <2>10 DEF Next
<1>7. Spec => []IInv
  BY InitInv, StepInv, PTL DEF Spec
<1> QED
  BY <1>5, <1>6, <1>7, PTL DEF Spec, ImplementsFifo, Fifo!Spec
=============================================================================
