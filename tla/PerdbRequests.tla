--------------------------- MODULE PerdbRequests ---------------------------
(***************************************************************************)
(* The transactions of the perdb database: what each request does to the   *)
(* variables and what it answers.  One request is processed from start to  *)
(* end before the server looks at the next (srv_process).                  *)
(*                                                                         *)
(* Formatting, quoting, wildcard reads and lists of accesses in one        *)
(* request are left out: a list is a sequence of the accesses below, run   *)
(* without interruption.  Named snapshot files (save foo:, load foo:) are  *)
(* left out as well.                                                       *)
(***************************************************************************)
CONSTANTS Vars,    \* names of database variables
          Vals,    \* values they are given
          Undef    \* cnoval(): what a variable without value reads as

ASSUME UndefAssumption == Undef \notin Vals

DB      == [Vars -> Vals \cup {Undef}]
EmptyDB == [v \in Vars |-> Undef]

Ops == {"get", "set", "init", "defd", "del", "reset", "save", "save_db", "load", "quit"}

Requests == [op : Ops, var : Vars, val : Vals]

\* The variables after request r on database m.  "save:" names no file and
\* "load:" finds no file to read, so they leave the variables alone.
Effect(r, m) ==
  CASE r.op = "set"                            -> [m EXCEPT ![r.var] = r.val]
    [] r.op = "init" /\ m[r.var] = Undef       -> [m EXCEPT ![r.var] = r.val]
    [] r.op = "del"                            -> [m EXCEPT ![r.var] = Undef]
    [] r.op = "reset"                          -> EmptyDB
    [] OTHER                                   -> m

\* What the client is told.
Answer(r, m) ==
  CASE r.op \in {"get", "set", "init"} -> Effect(r, m)[r.var]
    [] r.op = "defd"                   -> m[r.var] # Undef
    [] r.op = "save"                   -> m
    [] OTHER                           -> "done"
=============================================================================
