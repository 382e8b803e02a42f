------------------------------ MODULE EntryStore ------------------------------
(***************************************************************************)
(* What a PDB file promises the threads that share it: a variable for each *)
(* name.  A read or a write takes effect at one instant between its being  *)
(* begun and its return, however the threads interleave, and what was      *)
(* written is still there after the file has been closed and opened again. *)
(***************************************************************************)
CONSTANTS Threads,
          Names,      \* the entries of the file
          Values,     \* what is written into them
          NoValue,    \* what an entry that was not written holds
          Jobs,       \* Jobs[t]: what thread t may do with which entry
          NoJob

VARIABLES store,   \* the value of each entry
          job,     \* the call a thread is in
          acted,   \* it has taken effect
          got      \* what the last read of the thread gave

vars == <<store, job, acted, got>>

Init == /\ store = [n \in Names |-> NoValue]
        /\ job = [t \in Threads |-> NoJob]
        /\ acted = [t \in Threads |-> FALSE]
        /\ got = [t \in Threads |-> NoValue]

Begin(t) == /\ job[t] = NoJob
            /\ \E j \in Jobs[t] : job' = [job EXCEPT ![t] = j]
            /\ UNCHANGED <<store, acted, got>>

\* a definition gives the entry space, and no value
Act(t) == /\ job[t] # NoJob /\ ~acted[t]
          /\ acted' = [acted EXCEPT ![t] = TRUE]
          /\ store' = IF job[t].op = "write"
                      THEN [store EXCEPT ![job[t].name] = job[t].val] ELSE store
          /\ got' = IF job[t].op = "read"
                    THEN [got EXCEPT ![t] = store[job[t].name]] ELSE got
          /\ UNCHANGED job

Return(t) == /\ acted[t]
             /\ job' = [job EXCEPT ![t] = NoJob]
             /\ acted' = [acted EXCEPT ![t] = FALSE]
             /\ UNCHANGED <<store, got>>

Next == \E t \in Threads : Begin(t) \/ Act(t) \/ Return(t)

Spec == Init /\ [][Next]_vars
===============================================================================
