------------------------------- MODULE IoRing -------------------------------
(***************************************************************************)
(* The ring buffer (io_ring) through which the perdb server's clients and  *)
(* the SCORE processes receive messages: a byte array that doubles when it *)
(* has no room, an input and an output position, and unused bytes that are *)
(* meant to be zero so that ring_ready can see where the data ends.        *)
(*                                                                         *)
(* One operation runs at a time.                                           *)
(***************************************************************************)
EXTENDS Integers, Sequences

CONSTANTS
  Bytes, Zero,   \* the bytes told apart, and '\0'
  Chunks,        \* what callers push
  PopSizes,      \* the buffer sizes they pop with
  Delimiters,    \* and the message delimiters
  Nb,            \* the size ring_init is asked for
  MaxNb,         \* bound: the size a ring grows to
  MaxDoublings,  \* bound: how often it doubles for one push
  ExactFill      \* FALSE: no push fills the ring to its last byte

ASSUME BytesAssumption  == Zero \in Bytes /\ Delimiters \subseteq Bytes
ASSUME ChunksAssumption == Chunks \subseteq Seq(Bytes) /\ PopSizes \subseteq Nat \ {0}
ASSUME SizeAssumption   == Nb \in Nat /\ (13 * Nb) \div 10 > 0 /\ MaxNb \in Nat /\ MaxDoublings \in Nat
ASSUME FillAssumption   == ExactFill \in BOOLEAN

VARIABLES ib, ob,   \* ib_in and ob_in: where the next byte goes, and comes from
          nb,       \* nb_ring
          bf,       \* in_ring
          out       \* the bytes the last ring_pop copied

vars == <<ib, ob, nb, bf, out>>

\* ring_init: 1.3 times the size asked for, all zero
InitSize == (13 * Nb) \div 10

Init ==
  /\ ib = 0 /\ ob = 0
  /\ nb = InitSize
  /\ bf = [p \in 0 .. InitSize - 1 |-> Zero]
  /\ out = <<>>

-----------------------------------------------------------------------------

\* the position k bytes after p in a ring of n
After_Beyond(p, k, n) == p + k   \* mutant: does not wrap around
After(p, k, n) == (p + k) % n

\* the space _ring_adjust finds in ring r
Available(r) == IF r.ib >= r.ob THEN r.nb - r.ib + r.ob ELSE r.ob - r.ib

\* One turn of its loop: the new half holds whatever realloc finds there, g,
\* and the data before the end of the old array moves to the end of the new.
Doubled_Unmoved(r, g) ==   \* mutant: only the position moves
  [ib |-> r.ib, ob |-> IF r.ib < r.ob THEN r.ob + r.nb ELSE r.ob, nb |-> 2 * r.nb,
   bf |-> [p \in 0 .. 2 * r.nb - 1 |-> IF p < r.nb THEN r.bf[p] ELSE g]]

Doubled(r, g) ==
  LET wrapped == r.ib < r.ob
  IN  [ib |-> r.ib, ob |-> IF wrapped THEN r.ob + r.nb ELSE r.ob, nb |-> 2 * r.nb,
       bf |-> [p \in 0 .. 2 * r.nb - 1 |->
                 IF p < r.nb THEN r.bf[p]
                 ELSE IF wrapped /\ p >= r.ob + r.nb THEN r.bf[p - r.nb]
                 ELSE g]]

Fits(r, n) == Available(r) >= n

\* _ring_adjust: r doubled until there is room for n bytes
Adjusted(r, n, g) ==
  LET d[k \in 0 .. MaxDoublings] ==
        IF k = 0 THEN r
        ELSE IF Fits(d[k - 1], n) THEN d[k - 1] ELSE Doubled(d[k - 1], g)
  IN  d[MaxDoublings]

Ring == [ib |-> ib, ob |-> ob, nb |-> nb, bf |-> bf]

\* ring_push
Push(s) ==
  /\ nb > 0 /\ s # <<>>
  /\ \E g \in Bytes :
       LET r == Adjusted(Ring, Len(s), g)
       IN  /\ Fits(r, Len(s)) /\ r.nb =< MaxNb
           /\ ExactFill \/ Available(r) > Len(s)
           /\ bf' = [p \in DOMAIN r.bf |->
                       LET i == (p - r.ib + r.nb) % r.nb
                       IN  IF i < Len(s) THEN s[i + 1] ELSE r.bf[p]]
           /\ ib' = After(r.ib, Len(s), r.nb)
           /\ ob' = r.ob
           /\ nb' = r.nb
  /\ UNCHANGED out

\* the k-th byte from ob on
Byte(k) == bf[After(ob, k, nb)]

Ends_Late(n, lc, k) ==   \* mutant: a delimiter does not end it
  \/ After(ob, k, nb) = ib
  \/ k = n

\* where the copying loop of ring_pop ends: at ib, after n bytes, or after lc
Ends(n, lc, k) == \/ After(ob, k, nb) = ib
                  \/ k = n
                  \/ k > 0 /\ Byte(k - 1) = lc

\* ring_pop; the bytes taken are zeroed
Pop(n, lc) ==
  /\ nb > 0
  /\ \E k \in 0 .. nb - 1 :
       /\ Ends(n, lc, k)
       /\ \A j \in 0 .. k - 1 : ~Ends(n, lc, j)
       /\ out' = [i \in 1 .. k |-> Byte(i - 1)]
       /\ bf' = [p \in DOMAIN bf |-> IF (p - ob + nb) % nb < k THEN Zero ELSE bf[p]]
       /\ ob' = After(ob, k, nb)
  /\ UNCHANGED <<ib, nb>>

\* ring_clear, after which a ring is not used before ring_init
Clear ==
  /\ nb > 0
  /\ ib' = 0 /\ ob' = 0 /\ nb' = 0
  /\ bf' = <<>>
  /\ UNCHANGED out

InitAgain ==
  /\ nb = 0
  /\ nb' = InitSize
  /\ bf' = [p \in 0 .. InitSize - 1 |-> Zero]
  /\ UNCHANGED <<ib, ob, out>>

Next == \/ \E s \in Chunks : Push(s)
        \/ \E n \in PopSizes, lc \in Delimiters : Pop(n, lc)
        \/ Clear \/ InitAgain

Spec == Init /\ [][Next]_vars

-----------------------------------------------------------------------------
(* Properties *)

\* The positions lie inside the array.
TypeOK ==
  /\ nb \in Nat
  /\ nb > 0 => ib \in 0 .. nb - 1 /\ ob \in 0 .. nb - 1
  /\ bf \in [0 .. nb - 1 -> Bytes]
  /\ out \in Seq(Bytes)

Used     == IF nb = 0 THEN 0 ELSE (ib - ob + nb) % nb
Contents == [i \in 1 .. Used |-> Byte(i - 1)]

\* However a ring wraps around and grows, the bytes come out as they went in,
\* once and in order ("everything must go into the buffer", ring_push).
Fifo           == INSTANCE ByteFifo WITH live <- nb > 0, queue <- Contents
ImplementsFifo == Fifo!Spec

\* ring_ready: from ob on there is a delimiter before the first zero byte.
Ready(lc) == \E k \in 0 .. nb - 1 : /\ Byte(k) = lc
                                    /\ \A j \in 0 .. k : Byte(j) # Zero

\* A complete text message in the ring is always found by ring_ready, whatever
\* was left behind outside the data.
CompleteIsReady ==
  \A lc \in Delimiters \ {Zero} :
    (\E k \in 1 .. Used : Contents[k] = lc) => Ready(lc)
=============================================================================
