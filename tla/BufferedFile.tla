---------------------------- MODULE BufferedFile ----------------------------
(***************************************************************************)
(* Files with the buffers of score/scbio.c, through which every file of    *)
(* the libraries is read and written.  The buffers of a file are a stack   *)
(* of frames, each a stretch of the file of BufSz bytes of which the first *)
(* nb count; a frame of kind "read" came from the file, one of kind        *)
(* "write" has bytes that are not in it yet.  A call is one action; s is   *)
(* the record of what it changes.  The statistics and the debugging checks *)
(* are left out.                                                           *)
(***************************************************************************)
EXTENDS Integers, Sequences, FileBytes

CONSTANTS BufSz,     \* the size given to setvbuf
          Starts,    \* contents the file may be opened with
          Bytes,     \* bytes that are written, all the same in one call
          NewLine,   \* the one at which fgets stops
          MaxCount,  \* bound on the bytes of one call
          MaxSize,   \* bound on the size of the file and on the places sought
          Seeks,     \* the seeks made: records of an offset and a whence
          Careful    \* the callers keep the rule of Discipline

ASSUME FileAssumption ==
  /\ BufSz \in Nat \ {0} /\ MaxCount \in Nat \ {0} /\ MaxSize \in Nat
  /\ 0 \notin Bytes /\ NewLine \in Bytes /\ Careful \in BOOLEAN
  /\ Starts \subseteq Seq(Bytes \cup {0})
  /\ Seeks \subseteq [offs : Int, whence : {"SEEK_SET", "SEEK_CUR", "SEEK_END"}]

VARIABLES
  disk,     \* the bytes of the file
  pos,      \* the position of its descriptor
  sz,       \* bid->sz: the size of the file, as far as known
  curr,     \* bid->curr: the position of the caller
  stack,    \* bid->stack
  buffered, \* setvbuf has been called: there is a stack
  last,     \* the transfer last made since the file was opened or flushed
  call, result

vars == <<disk, pos, sz, curr, stack, buffered, last, call, result>>

Valid(f) == SubSeq(f.bf, 1, f.nb)

Covers(f, i) == f.addr < i /\ i <= f.addr + f.nb

\* The file as it will be when all frames have been written, the first one
\* first: byte i is the one of the last frame with something to write there.
Laid(d, st) ==
  LET Pending   == {k \in DOMAIN st : st[k].kind = "write"}
      Ends      == {st[k].addr + st[k].nb : k \in Pending}
      Owners(i) == {k \in Pending : Covers(st[k], i)}
  IN  [i \in 1..Max({Len(d)} \cup Ends) |->
         IF Owners(i) # {} THEN LET f == st[Max(Owners(i))] IN f.bf[i - f.addr]
         ELSE IF i <= Len(d) THEN d[i] ELSE 0]

Content == Laid(disk, stack)

Plain == INSTANCE PlainFile WITH content <- Content, place <- curr

Zeros(n) == [i \in 1..n |-> 0]

-----------------------------------------------------------------------------
(* The descriptor.                                                         *)

OsRead(s, n) == SubSeq(s.disk, s.pos + 1, Min({s.pos + n, Len(s.disk)}))

OsReads(s, n) == [s EXCEPT !.pos = @ + Len(OsRead(s, n))]

OsWrites(s, bytes) == [s EXCEPT !.disk = Over(@, s.pos, bytes),
                                !.pos  = @ + Len(bytes)]

LSeek(s, offs, whence) ==
  [s EXCEPT !.pos = CASE whence = "SEEK_SET" -> offs
                      [] whence = "SEEK_CUR" -> s.pos + offs
                      [] whence = "SEEK_END" -> Len(s.disk) + offs]

-----------------------------------------------------------------------------
(* Frames.                                                                 *)

NewFrame(addr) == [addr |-> addr, nb |-> 0, kind |-> "empty", bf |-> Zeros(BufSz)]

\* _SC_bfr_contains finds the first frame with addr in it: it was read.
Held(s, addr) ==
  \E k \in DOMAIN s.stack :
    /\ s.stack[k].kind = "read" /\ Covers(s.stack[k], addr + 1)
    /\ \A j \in DOMAIN s.stack : j < k => ~Covers(s.stack[j], addr + 1)

SetAddr_SizeKept(s, addr) == [s EXCEPT !.curr = Max({addr, 0})]

SetAddr(s, addr) == [s EXCEPT !.curr = Max({addr, 0}), !.sz = Max({@, addr})]

Seek_TrustCurr(s, offs, whence, reading) ==
  LET addr == Max({0, CASE whence = "SEEK_SET" -> offs
                        [] whence = "SEEK_CUR" -> s.curr + offs
                        [] whence = "SEEK_END" -> s.sz + offs})
      to   == LSeek(s, offs, whence)
  IN  IF addr # s.curr /\ ~Held(s, addr)
      THEN [to EXCEPT !.curr = Max({to.pos, 0})]
      ELSE [s EXCEPT !.curr = addr]

\* _SC_bio_seek: the descriptor is moved unless the place sought is the
\* present one or lies in a frame that was read.
Seek(s, offs, whence, reading) ==
  LET addr == Max({0, CASE whence = "SEEK_SET" -> offs
                        [] whence = "SEEK_CUR" -> s.curr + offs
                        [] whence = "SEEK_END" -> s.sz + offs})
      to   == LSeek(s, offs, whence)
  IN  IF (addr # s.curr \/ reading) /\ ~Held(s, addr)
      THEN [to EXCEPT !.curr = Max({to.pos, 0})]
      ELSE [s EXCEPT !.curr = addr]

\* _SC_bfr_remove, of the i-th frame; flush: bytes to be written are; back:
\* the position is restored.
RemoveFrame(s, i, flush, back) ==
  LET f     == s.stack[i]
      there == Seek(s, f.addr, "SEEK_SET", FALSE)
      saved == OsWrites(there, Valid(f))
      after == IF back THEN Seek(saved, s.curr, "SEEK_SET", FALSE)
               ELSE SetAddr(saved, f.addr + f.nb)
      t     == IF f.kind = "write" /\ flush THEN after ELSE s
  IN  [t EXCEPT !.stack = RemoveAt(@, i)]

\* One turn of a loop through the stack that removes the frames of a set:
\* behind a removed frame the index stays.
Sweep(r, those, flush, back) ==
  IF r.i \in DOMAIN r.s.stack /\ r.s.stack[r.i] \in those
  THEN [r EXCEPT !.s = RemoveFrame(r.s, r.i, flush, back)]
  ELSE [r EXCEPT !.i = r.i + 1]

RemoveAll(s, those, flush, back) ==
  LET swept[k \in 0..Len(s.stack)] ==
        IF k = 0 THEN [s |-> s, i |-> 1] ELSE Sweep(swept[k - 1], those, flush, back)
  IN  swept[Len(s.stack)].s

\* _SC_bfr_next: the frames whose front lies in the request are removed; the
\* leftmost of those the request starts in, or right behind, is taken.
Cleared(s, addr, n) ==
  RemoveAll(s, {f \in ToSet(s.stack) : addr < f.addr /\ f.addr <= addr + n}, TRUE, TRUE)

Candidates(s, addr, n) ==
  {i \in DOMAIN s.stack : s.stack[i].addr < addr + n /\ addr <= s.stack[i].addr + s.stack[i].nb}

Leftmost(s, is) ==
  CHOOSE i \in is : \A j \in is : /\ s.stack[i].addr <= s.stack[j].addr
                                 /\ s.stack[i].addr = s.stack[j].addr => i <= j

\* _SC_bfr_remove_overlap
RemoveOverlap(s, addr, kind) ==
  RemoveAll(s, {f \in ToSet(s.stack) : f.addr <= addr + BufSz /\ addr <= f.addr + BufSz},
            kind = "read", TRUE)

\* _SC_bfr_read_setup
Filled(s, addr) ==
  LET bytes == OsRead(s, BufSz)
  IN  [addr |-> addr, nb |-> Len(bytes), kind |-> "read",
       bf |-> bytes \o Zeros(BufSz - Len(bytes))]

-----------------------------------------------------------------------------
(* _SC_bio_in: n bytes are taken out of frames, one after the other.       *)

\* A frame that is used up to some place, and so is taken to have these bytes.
Used(f, upto) == [f EXCEPT !.nb = Max({@, upto - f.addr})]

\* The next frame is read behind the one in hand, r.f.
Onward(r, got) ==
  LET next  == r.f.addr + BufSz
      move  == r.f.addr # r.s.curr \/ r.first
      there == IF move THEN Seek(r.s, next, "SEEK_SET", TRUE) ELSE r.s
      clear == RemoveOverlap(there, next, r.f.kind)
  IN  [s |-> OsReads(clear, BufSz), f |-> Filled(clear, next), got |-> got,
       na |-> IF move THEN r.na + r.s.curr - next ELSE r.na, first |-> FALSE]

\* One turn of the loop.
Gather(r, from, n) ==
  LET at   == from + Len(r.got)
      upto == Min({from + n, r.f.addr + BufSz})
      got  == r.got \o SubSeq(r.f.bf, at - r.f.addr + 1, upto - r.f.addr)
  IN  CASE Len(r.got) = n -> r
        [] Len(r.got) # n /\ Len(got) = n -> [r EXCEPT !.got = got, !.f = Used(r.f, upto)]
        [] OTHER -> Onward(r, got)

\* Every turn but the first takes at least one byte.
GatherAll(r, from, n) ==
  LET gathered[k \in 0..n + 1] == IF k = 0 THEN r ELSE Gather(gathered[k - 1], from, n)
  IN  gathered[n + 1]

Push(s, f) == [s EXCEPT !.stack = Append(@, f)]

Pull(s, i) == [s EXCEPT !.stack = RemoveAt(@, i)]

\* The frame the bytes begin in is one there is, or one read for them.
InHand(s, is) ==
  LET i == Leftmost(s, is)
  IN  IF is # {}
      THEN [s |-> Pull(s, i), f |-> s.stack[i], got |-> <<>>, na |-> 0, first |-> TRUE]
      ELSE [s |-> OsReads(s, BufSz), f |-> Filled(s, s.curr), got |-> <<>>, na |-> 0,
            first |-> TRUE]

\* The last frame is kept, and what it overlaps goes.
Gathered(r) ==
  LET s == Push(RemoveOverlap(r.s, r.f.addr, r.f.kind), r.f)
  IN  [s |-> SetAddr(s, s.curr + r.na + Len(r.got)), bytes |-> r.got]

BufferedIn(s, n) ==
  LET want  == Min({n, s.sz - s.curr})
      ready == Cleared(s, s.curr, want)
  IN  Gathered(GatherAll(InHand(ready, Candidates(ready, s.curr, want)), s.curr, want))

In(s, n) ==
  CASE ~buffered -> LET bytes == OsRead(s, n)
                    IN  [s |-> SetAddr(OsReads(s, n), s.curr + Len(bytes)), bytes |-> bytes]
    [] buffered /\ s.curr >= s.sz -> [s |-> s, bytes |-> <<>>]
    [] OTHER -> BufferedIn(s, n)

-----------------------------------------------------------------------------
(* _SC_bio_out: bytes are put into frames; a full one goes to the file.    *)

\* Frame f with the bytes new in it from place at on.
Put(f, at, new) ==
  [f EXCEPT !.bf = Over(@, at - f.addr, new), !.kind = "write",
            !.nb = Max({@, at - f.addr + Len(new)})]

\* The full frame g goes to the file, and an empty one takes its place.
Sent(r, g, nw) ==
  LET there == IF g.addr = r.s.curr THEN r.s ELSE Seek(r.s, g.addr, "SEEK_SET", FALSE)
      t     == OsWrites(there, g.bf)
  IN  [s |-> t, f |-> NewFrame(t.curr + BufSz), nw |-> nw,
       na |-> r.na + r.s.curr - g.addr, more |-> nw # r.nw]

\* One turn of the loop, which ends when a turn puts no byte.
Scatter(r, from, bytes) ==
  LET at == from + r.nw
      n  == Max({0, Min({from + Len(bytes), r.f.addr + BufSz}) - at})
      g  == IF n = 0 THEN r.f ELSE Put(r.f, at, SubSeq(bytes, r.nw + 1, r.nw + n))
  IN  CASE ~r.more -> r
        [] r.more /\ g.nb # BufSz -> [r EXCEPT !.f = g, !.nw = @ + n, !.more = n # 0]
        [] OTHER -> Sent(r, g, r.nw + n)

ScatterAll(r, from, bytes) ==
  LET scattered[k \in 0..Len(bytes) + 1] ==
        IF k = 0 THEN r ELSE Scatter(scattered[k - 1], from, bytes)
  IN  scattered[Len(bytes) + 1]

\* The frame the bytes go to first is one there is, or an empty one.
ToFill(s, is) ==
  LET i == Leftmost(s, is)
  IN  IF is # {} THEN [s |-> Pull(s, i), f |-> s.stack[i], nw |-> 0, na |-> 0, more |-> TRUE]
      ELSE [s |-> s, f |-> NewFrame(s.curr), nw |-> 0, na |-> 0, more |-> TRUE]

Kept_Empty(s, f) == Push(s, f)

\* Only a frame with something in it is kept.
Kept(s, f) == IF f.nb = 0 THEN s ELSE Push(s, f)

Scattered(r) == LET s == Kept(r.s, r.f) IN SetAddr(s, s.curr + r.na + r.nw)

BufferedOut(s, bytes) ==
  LET ready == Cleared(s, s.curr, Len(bytes))
  IN  Scattered(ScatterAll(ToFill(ready, Candidates(ready, s.curr, Len(bytes))),
                           s.curr, bytes))

Out(s, bytes) == IF buffered THEN BufferedOut(s, bytes)
                 ELSE SetAddr(OsWrites(s, bytes), s.curr + Len(bytes))

\* _SC_bio_flush, which is to leave the position as it is.
Flushed(s) ==
  [RemoveAll(s, ToSet(s.stack), TRUE, FALSE) EXCEPT !.curr = s.curr]

-----------------------------------------------------------------------------
State == [disk |-> disk, pos |-> pos, sz |-> sz, curr |-> curr, stack |-> stack]

SetState(s) == /\ disk' = s.disk /\ pos' = s.pos /\ sz' = s.sz
               /\ curr' = s.curr /\ stack' = s.stack
               /\ UNCHANGED buffered

\* The rule under which the buffers work: between reading and writing, or
\* the other way, and after any flush, there are a flush and a seek to some
\* other place, in this order; seeks from the end are made in files with
\* buffers, with a flush between them and any writing, and seeks from where
\* the caller stands in files without.
Discipline(kinds) == Careful => last \in kinds

Reckoned(whence) ==
  Careful => /\ whence = "SEEK_END" => buffered /\ last # "write"
             /\ whence = "SEEK_CUR" => ~buffered

\* lseek refuses to go before the beginning; such seeks are not made.
Reaches(offs, whence) == LSeek(State, offs, whence).pos >= 0

Init == /\ disk \in Starts
        /\ pos = 0 /\ sz = Len(disk) /\ curr = 0 /\ stack = <<>>
        /\ buffered \in BOOLEAN
        /\ last = "none" /\ call = [name |-> "fopen"] /\ result = <<>>

Got(r) == SetState(r.s) /\ result' = r.bytes

Read(n) ==
  /\ Discipline({"none", "read"})
  /\ Got(In(State, n))
  /\ call' = [name |-> "fread", n |-> n] /\ last' = "read"

\* What comes before the end of the line, the position being behind it.
Line(r) ==
  LET line == LineIn(NewLine, r.bytes)
  IN  [s |-> IF line = <<>> THEN r.s ELSE Seek(r.s, curr + Len(line), "SEEK_SET", FALSE),
       bytes |-> line]

\* _SC_bgets reads what the caller has room for and seeks back.
Gets(n) ==
  /\ Discipline({"none", "read"})
  /\ Got(Line(In(State, n)))
  /\ call' = [name |-> "fgets", n |-> n] /\ last' = "read"

\* _SC_bungetc, after the character has been read.
Ungetc ==
  /\ call = [name |-> "fread", n |-> 1] /\ result # <<>>
  /\ Held(State, curr - 1) \/ Reaches(-1, "SEEK_CUR")
  /\ SetState(Seek(State, -1, "SEEK_CUR", FALSE))
  /\ call' = [name |-> "ungetc"] /\ result' = <<>>
  /\ UNCHANGED last

Write(bytes) ==
  /\ Discipline({"none", "write"})
  /\ curr + Len(bytes) <= MaxSize
  /\ SetState(Out(State, bytes))
  /\ call' = [name |-> "fwrite", bytes |-> bytes] /\ result' = <<>>
  /\ last' = "write"

SeekTo(k) ==
  /\ Reckoned(k.whence) /\ Reaches(k.offs, k.whence)
  /\ LSeek(State, k.offs, k.whence).pos <= MaxSize
  /\ SetState(Seek(State, k.offs, k.whence, FALSE))
  /\ call' = [name |-> "fseek", offs |-> k.offs, whence |-> k.whence]
  /\ result' = <<>>
  /\ last' = IF last = "flush" /\ curr' # curr THEN "none" ELSE last

Flush ==
  /\ SetState(Flushed(State))
  /\ call' = [name |-> "fflush"] /\ result' = <<>> /\ last' = "flush"

\* _SC_bclose, and SC_bopen of the same file; setvbuf may be called.
Reopen ==
  /\ disk' = Flushed(State).disk
  /\ pos' = 0 /\ sz' = Len(disk') /\ curr' = 0 /\ stack' = <<>>
  /\ buffered' \in BOOLEAN
  /\ call' = [name |-> "fopen"] /\ result' = <<>> /\ last' = "none"

Writings == {[i \in 1..n |-> b] : n \in 1..MaxCount, b \in Bytes}

Next == \/ \E n \in 1..MaxCount : Read(n) \/ Gets(n)
        \/ \E w \in Writings : Write(w)
        \/ \E k \in Seeks : SeekTo(k)
        \/ Ungetc \/ Flush \/ Reopen

Spec == Init /\ [][Next]_vars

-----------------------------------------------------------------------------
(* Properties.                                                             *)

Frame == [addr : Nat, nb : 1..BufSz, kind : {"read", "write"},
          bf : [1..BufSz -> Bytes \cup {0}]]

TypeOK == /\ disk \in Seq(Bytes \cup {0}) /\ pos \in Nat /\ sz \in Nat /\ curr \in Nat
          /\ stack \in Seq(Frame)
          /\ buffered \in BOOLEAN /\ last \in {"none", "read", "write", "flush"}
          /\ ~buffered => stack = <<>>

\* No frame is stale: what a frame holds of the file is what the file has or
\* will have there, and the size by which reads are cut off is the file's.
FramesCurrent ==
  /\ buffered => sz = Len(Content)
  /\ \A i \in DOMAIN stack :
       LET f == stack[i]
       IN  Valid(f) = SubSeq(Content, f.addr + 1, f.addr + f.nb)

\* For callers who keep the rule a buffered file is a plain file.
ImplementsFile == Plain!Spec

\* "flush should not change file position" (scbio.c:1047): what is written
\* right after a flush goes where the caller stands.
FlushKeepsPosition ==
  [][call.name = "fflush" /\ call'.name = "fwrite" =>
       Content' = Over(Content, curr, call'.bytes)]_vars
=============================================================================
