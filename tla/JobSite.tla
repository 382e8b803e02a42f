------------------------------ MODULE JobSite ------------------------------
(***************************************************************************)
(* What a server promises the client whose jobs it runs: a job it has      *)
(* accepted is answered once, with a status, or lost when the server       *)
(* starts over or ends.  This is all that ConnPool knows of a server.      *)
(***************************************************************************)
CONSTANTS Jobs, Statuses

VARIABLE fate   \* fate[j]: "unknown", "accepted", "lost" or the status reported

Init == fate = [j \in Jobs |-> "unknown"]

Accept(j) == /\ fate[j] = "unknown"
             /\ fate' = [fate EXCEPT ![j] = "accepted"]

Report(j) == /\ fate[j] = "accepted"
             /\ \E st \in Statuses : fate' = [fate EXCEPT ![j] = st]

\* A server that starts over or ends forgets all its jobs at once.
Lose == fate' = [j \in Jobs |-> IF fate[j] = "accepted" THEN "lost" ELSE fate[j]]

Next == Lose \/ \E j \in Jobs : Accept(j) \/ Report(j)

Spec == /\ Init /\ [][Next]_fate
        /\ \A j \in Jobs : WF_fate(Report(j))
=============================================================================
