------------------------------ MODULE MCPerdb ------------------------------
(* Instances of Perdb: one variable, two commands. *)
EXTENDS Perdb, TLC

CONSTANTS c1, c2, x, v1, v2

One == {c1}
Two == {c1, c2}

Req(op, val) == [op |-> op, var |-> x, val |-> val]
Set1  == Req("set", v1)
Init2 == Req("init", v2)
Del   == Req("del", v1)
Quit  == Req("quit", v1)

\* either request alone; an update and whatever may meet it; an update and the end of its server;
\* the same, with the update the later one
AskOne     == c1 :> {Set1, Quit}
AskTwo     == c1 :> {Set1} @@ c2 :> {Init2, Del, Quit, Req("save_db", v1)}
AskEnd     == c1 :> {Set1} @@ c2 :> {Quit}
AskUnsaved == c1 :> {Quit} @@ c2 :> {Set1}
=============================================================================
