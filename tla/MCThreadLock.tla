---------------------------- MODULE MCThreadLock ----------------------------
(* A lock shared by a main thread and two workers. *)
EXTENDS ThreadLock

CONSTANTS main, w1, w2

MCThreads == {main, w1, w2}
=============================================================================
