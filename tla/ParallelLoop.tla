---------------------------- MODULE ParallelLoop ----------------------------
(***************************************************************************)
(* What the thread work routines promise a caller: between the call and    *)
(* the return every iteration of the loop is done exactly once, in any     *)
(* order, and no other is.                                                 *)
(***************************************************************************)
EXTENDS Naturals

CONSTANTS Iterations,   \* every number an iteration can have
          Loops         \* the loops, sets of iterations, that may be called

VARIABLES busy,    \* the caller is inside a call
          loop,    \* the iterations of that call
          times    \* how often each has been done

vars == <<busy, loop, times>>

Init == busy = FALSE /\ loop = {} /\ times = [i \in Iterations |-> 0]

Call == /\ ~busy
        /\ busy' = TRUE
        /\ loop' \in Loops
        /\ times' = [i \in Iterations |-> 0]

Do(i) == /\ busy
         /\ i \in loop /\ times[i] = 0
         /\ times' = [times EXCEPT ![i] = 1]
         /\ UNCHANGED <<busy, loop>>

Return == /\ busy
          /\ \A i \in loop : times[i] = 1
          /\ busy' = FALSE
          /\ UNCHANGED <<loop, times>>

Next == Call \/ Return \/ \E i \in Iterations : Do(i)

Spec == Init /\ [][Next]_vars
=============================================================================
