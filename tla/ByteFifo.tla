------------------------------ MODULE ByteFifo ------------------------------
(***************************************************************************)
(* What a ring buffer promises: the bytes pushed come out once, in order,  *)
(* a message or a buffer full at a time.                                   *)
(***************************************************************************)
EXTENDS Naturals, Sequences

CONSTANTS Chunks,     \* what may be pushed
          PopSizes,   \* how much may be popped at a time
          Delimiters  \* the bytes that may end a message

VARIABLES live,    \* the buffer is in use
          queue,   \* the bytes pushed and not yet popped
          out      \* what the last pop returned

vars == <<live, queue, out>>

Init == live = TRUE /\ queue = <<>> /\ out = <<>>

Push(s) == live /\ queue' = queue \o s /\ UNCHANGED <<live, out>>

\* Taking ends with the first delimiter, after n bytes, or with the queue.
EndsAt(n, lc, k) == \/ k = n
                    \/ k = Len(queue)
                    \/ k > 0 /\ queue[k] = lc

Pop(n, lc) ==
  /\ live /\ UNCHANGED live
  /\ \E k \in 0 .. Len(queue) :
       /\ EndsAt(n, lc, k)
       /\ \A j \in 0 .. k - 1 : ~EndsAt(n, lc, j)
       /\ out' = SubSeq(queue, 1, k)
       /\ queue' = SubSeq(queue, k + 1, Len(queue))

Clear == live /\ live' = FALSE /\ queue' = <<>> /\ UNCHANGED out

Renew == ~live /\ live' = TRUE /\ UNCHANGED <<queue, out>>

Next == \/ \E s \in Chunks : Push(s)
        \/ \E n \in PopSizes, lc \in Delimiters : Pop(n, lc)
        \/ Clear \/ Renew

Spec == Init /\ [][Next]_vars
=============================================================================
