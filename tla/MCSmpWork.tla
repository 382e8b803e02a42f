----------------------------- MODULE MCSmpWork -----------------------------
(* Instances of SmpWork: up to three threads, loops of up to four turns. *)
EXTENDS SmpWork

Four == 0 .. 3

Call0(kind, mn, mx, serial, nt) ==
  [kind |-> kind, mn |-> mn, mx |-> mx, serial |-> serial, nt |-> nt]

Chunk(mn, mx, serial) == Call0("chunk", mn, mx, serial, <<>>)
Queue(n, serial)      == Call0("queue", 0, n, serial, <<>>)
Work(nt)              == Call0("work", 0, 0, FALSE, nt)

\* a range longer than the threads are many, one shorter, an empty one; items
\* for everyone and for nobody; one and several functions
Loops == {Chunk(0, 4, FALSE), Chunk(1, 3, FALSE), Chunk(2, 2, FALSE), Chunk(0, 3, TRUE),
          Queue(3, FALSE), Queue(0, FALSE), Queue(2, TRUE),
          Work(<<1>>), Work(<<2>>), Work(<<1, 2>>)}

\* two functions, one of them on two threads
Works == {Work(<<2>>), Work(<<1, 1>>), Work(<<2, 1>>)}
=============================================================================
