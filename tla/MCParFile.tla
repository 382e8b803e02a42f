------------------------------ MODULE MCParFile ------------------------------
(* Instances of ParFile: two threads and their entries. *)
EXTENDS ParFile, TLC

CONSTANTS t1, t2, m, n

OwnerOf == m :> t1 @@ n :> t2
SizeOf  == m :> 1 @@ n :> 2
=============================================================================
