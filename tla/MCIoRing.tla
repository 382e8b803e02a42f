------------------------------ MODULE MCIoRing ------------------------------
(* Instances of IoRing: two letters, a separator and zero; a ring of two    *)
(* bytes that grows to four and eight.                                       *)
EXTENDS IoRing

CONSTANTS a, b, sep, zero

\* a message, part of one, the rest of it, and more than a small ring holds
Messages == {<<a, sep>>, <<b>>, <<b, a, b, sep>>}
=============================================================================
