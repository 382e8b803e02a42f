----------------------------- MODULE FileBytes ------------------------------
(***************************************************************************)
(* Sequences of bytes as the contents of files.                            *)
(***************************************************************************)
EXTENDS Integers, Sequences, SequencesExt

\* The bytes b with new laid over them from place at on; what lies between
\* the end of b and at becomes zero.
Over(b, at, new) ==
  [i \in 1..Max({Len(b), at + Len(new)}) |->
     CASE i > at /\ i <= at + Len(new) -> new[i - at]
       [] ~(i > at /\ i <= at + Len(new)) /\ i <= Len(b) -> b[i]
       [] OTHER -> 0]

\* The bytes up to the first newline, which is kept.
LineIn(newline, bytes) ==
  LET ends == {i \in DOMAIN bytes : bytes[i] = newline}
  IN  IF ends = {} THEN bytes ELSE SubSeq(bytes, 1, Min(ends))
=============================================================================
