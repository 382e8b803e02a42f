------------------------------- MODULE Monitor -------------------------------
(***************************************************************************)
(* What a re-entrant SC_thread_lock promises its users: at most one thread *)
(* is inside at a time, the owner may enter again, and the lock is free    *)
(* again once the owner has left as often as it entered.                   *)
(***************************************************************************)
EXTENDS Naturals

CONSTANTS Threads,    \* the threads that share the lock
          NoThread    \* SC_NULL_THREAD

VARIABLES owner,      \* the thread inside, or NoThread
          count       \* how often the owner has entered and not left

vars == <<owner, count>>

Init == owner = NoThread /\ count = 0

Enter(t) == /\ owner \in {NoThread, t}
            /\ owner' = t
            /\ count' = count + 1

Exit(t) == /\ owner = t
           /\ count' = count - 1
           /\ owner' = IF count = 1 THEN NoThread ELSE t

Next == \E t \in Threads : Enter(t) \/ Exit(t)

Spec == Init /\ [][Next]_vars
==============================================================================
