----------------------------- MODULE PerdbStore -----------------------------
(***************************************************************************)
(* What perdb promises the commands that use it: one store that outlives   *)
(* its servers.  A request takes effect at most once, at one instant       *)
(* between its being made and its being answered; one that fails may have  *)
(* taken effect or not.                                                    *)
(***************************************************************************)
EXTENDS PerdbRequests

CONSTANTS Clients,     \* the commands
          Asks,        \* Asks[c]: the requests c may make
          NoRequest,   \* before c has made its request
          NoAnswer     \* before the request of c has taken effect

VARIABLES store,   \* the database
          status,  \* where each command is
          asked,   \* its request
          answer   \* what the request gave, once it has taken effect

vars == <<store, status, asked, answer>>

Init == /\ store \in DB
        /\ status = [c \in Clients |-> "idle"]
        /\ asked = [c \in Clients |-> NoRequest]
        /\ answer = [c \in Clients |-> NoAnswer]

Ask(c) == /\ status[c] = "idle"
          /\ \E r \in Asks[c] : asked' = [asked EXCEPT ![c] = r]
          /\ status' = [status EXCEPT ![c] = "pending"]
          /\ UNCHANGED <<store, answer>>

Serve(c) == /\ status[c] \in {"pending", "failed"}
            /\ answer[c] = NoAnswer
            /\ store' = Effect(asked[c], store)
            /\ answer' = [answer EXCEPT ![c] = Answer(asked[c], store)]
            /\ UNCHANGED <<status, asked>>

Return(c) == /\ status[c] = "pending"
             /\ answer[c] # NoAnswer
             /\ status' = [status EXCEPT ![c] = "done"]
             /\ UNCHANGED <<store, asked, answer>>

Fail(c) == /\ status[c] = "pending"
           /\ status' = [status EXCEPT ![c] = "failed"]
           /\ UNCHANGED <<store, asked, answer>>

Next == \E c \in Clients : Ask(c) \/ Serve(c) \/ Return(c) \/ Fail(c)

Spec == Init /\ [][Next]_vars
=============================================================================
