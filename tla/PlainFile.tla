----------------------------- MODULE PlainFile -----------------------------
(***************************************************************************)
(* A file as the C library promises it: a sequence of bytes and a place in *)
(* it.  call is the call last made and result what it returned.            *)
(***************************************************************************)
EXTENDS Integers, Sequences, FileBytes

CONSTANTS NewLine

VARIABLES content, place, call, result

Following(n) == SubSeq(content, place + 1, Min({place + n, Len(content)}))

Take(bytes) == /\ result' = bytes /\ place' = place + Len(bytes)
               /\ UNCHANGED content

Goto(p) == place' = p /\ result' = <<>> /\ UNCHANGED content

From(whence) == CASE whence = "SEEK_SET" -> 0
                  [] whence = "SEEK_CUR" -> place
                  [] whence = "SEEK_END" -> Len(content)

Init == place = 0 /\ result = <<>> /\ call = [name |-> "fopen"]

Next ==
  \/ call'.name = "fread" /\ Take(Following(call'.n))
  \/ call'.name = "fgets" /\ Take(LineIn(NewLine, Following(call'.n)))
  \/ /\ call'.name = "fwrite" /\ content' = Over(content, place, call'.bytes)
     /\ place' = place + Len(call'.bytes) /\ result' = <<>>
  \/ call'.name = "fseek" /\ Goto(Max({0, From(call'.whence) + call'.offs}))
  \/ call'.name = "ungetc" /\ Goto(place - 1)
  \/ call'.name = "fflush" /\ Goto(place)
  \/ call'.name = "fopen" /\ Goto(0)

Spec == Init /\ [][Next]_<<content, place, call, result>>
=============================================================================
