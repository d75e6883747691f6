----------------------------- MODULE FileStream -----------------------------
(***************************************************************************)
(* A stream to a disc file or to memory: the stream control block (scb)    *)
(* that findstream makes, the byte, word and record operations of blib.b   *)
(* on its buffer, and the functions of dlib.b that fill the buffer from    *)
(* the disc, write it back and point it elsewhere.                         *)
(*                                                                         *)
(* A file is in blocks of BufLen bytes, one of which is in the buffer.     *)
(* The scb has the number of that block, of the last block (lblock) and    *)
(* how many bytes the last block has on disc (ldata), the place in the     *)
(* buffer (pos), the end of its valid bytes (end), and whether it has been *)
(* changed since it was read (write).                                      *)
(*                                                                         *)
(* One program uses the stream, and a library call runs to its end, so a   *)
(* step is one call.  An operator on a control block s gives the record of *)
(* the control block after it, its result and the code it aborts with; an  *)
(* abort is taken to be continued in the debugger.                         *)
(***************************************************************************)
EXTENDS Integers, Sequences

CONSTANTS
  Byte,          \* the bytes that programs write
  Junk,          \* what is in a buffer that getvec has just given
  BufLen,        \* buflen of dlib.b: the bytes of a block
  RamLen,        \* the bytes of the first buffer of a RAM stream
  RamMax,        \* the largest buffer getvec can give a RAM stream
  BytesPerWord,  \* of the BCPL system
  RecLen,        \* scb_reclen, as setrecordlength has set it
  Capacity,      \* how long the disc lets a file become
  MaxFile,       \* bound: the length of the file to begin with
  MaxLen,        \* bound: programs write no further than this
  Kinds          \* how the program opens its streams

FileStreamAssumption ==
  /\ BytesPerWord \in Nat \ {0}
  /\ BufLen \in Nat \ {0} /\ RamLen \in Nat \ {0} /\ RecLen \in Nat \ {0}
  /\ RamMax \in Nat /\ Capacity \in Nat /\ MaxLen \in Nat /\ MaxFile \in Nat
  /\ Junk \notin Byte
  /\ Kinds \subseteq {"in", "out", "inout", "append", "ram"}
ASSUME FileStreamAssumption

VARIABLES
  scb,   \* the stream control block; scb_fd stands for the contents of the file
  got,   \* the bytes the last call has read
  ok,    \* whether it was successful
  code,  \* the code the last call aborted with, or 0
  call   \* which call it was, and with what bytes or for which place

vars == <<scb, got, ok, code, call>>

Least(a, b) == IF a < b THEN a ELSE b
Most(a, b)  == IF a > b THEN a ELSE b

(* The control block while no stream is open; only the file matters. *)
Closed(fd) ==
  [kind |-> "none", buf |-> <<>>, pos |-> 0, end |-> 0, block |-> 0,
   write |-> FALSE, bufend |-> 0, lblock |-> 0, ldata |-> 0, fd |-> fd]

(* What an operator gives back. *)
Ok(s)       == [s |-> s, ok |-> TRUE, code |-> 0]
Fails(s)    == [s |-> s, ok |-> FALSE, code |-> 0]
Aborts(s, c, t) == [s |-> s, ok |-> t, code |-> c]

Readable(s) == s.kind \in {"in", "inout", "ram"}
Writable(s) == s.kind \in {"out", "inout", "append", "ram"}

-----------------------------------------------------------------------------
(* Blocks on the disc.                                                     *)

(* Faulty: a file opened for appending is written where the block would be. *)
WrittenAtBlock(s) ==
  LET off == BufLen * s.block
      len == Most(Len(s.fd), Least(off + s.end, Capacity))
  IN  [i \in 1 .. len |->
         IF i \in off + 1 .. off + s.end THEN s.buf[i - off - 1]
         ELSE IF i <= Len(s.fd) THEN s.fd[i] ELSE 0]

(***************************************************************************)
(* fwrite of the first s.end bytes of the buffer.  It stores what there is *)
(* room for, and its result, a count, is never negative.  A file opened    *)
(* for appending is only ever written at its end.                          *)
(***************************************************************************)
Written(s) ==
  LET off == IF s.kind = "append" THEN Len(s.fd) ELSE BufLen * s.block
      len == Most(Len(s.fd), Least(off + s.end, Capacity))
  IN  [i \in 1 .. len |->
         IF i \in off + 1 .. off + s.end THEN s.buf[i - off - 1]
         ELSE IF i <= Len(s.fd) THEN s.fd[i] ELSE 0]

(* fh0putbuf.  It fails if the seek fails or the write gives a negative    *)
(* result, which they do not do here.                                      *)
PutBuf(s) ==
  IF s.end <= 0 THEN [s EXCEPT !.write = FALSE]
  ELSE [s EXCEPT !.ldata = IF s.block = s.lblock THEN s.end ELSE @,
                 !.fd = Written(s),
                 !.write = FALSE]

PutIfChanged(s) == IF s.write THEN PutBuf(s) ELSE s

(* fh0getbuf: the bytes that are not read over keep their old values. *)
GetBuf(s) ==
  LET off == BufLen * s.block
      len == Most(0, Least(BufLen, Len(s.fd) - off))
  IN  [s EXCEPT !.buf = [i \in DOMAIN @ |-> IF i < len THEN s.fd[off + i + 1] ELSE @[i]],
                !.pos = 0,
                !.end = len]

-----------------------------------------------------------------------------
(* The functions a control block has for its kind of stream.               *)

(* Faulty: the next block is read over a changed buffer. *)
Fh0RdfnDropping(s) ==
  IF s.pos < s.end THEN Ok(s)
  ELSE IF s.block = s.lblock THEN Fails(s)
  ELSE LET t == GetBuf([s EXCEPT !.block = IF s.end >= BufLen THEN @ + 1 ELSE @,
                                 !.pos = 0, !.write = FALSE])
       IN  IF t.end = BufLen \/ s.lblock = t.block THEN Ok(t) ELSE Aborts(t, 9999, TRUE)

(* Faulty: a block is skipped, unless it is the last one. *)
Fh0RdfnSkipping(s) ==
  IF s.pos < s.end THEN Ok(s)
  ELSE IF s.block = s.lblock THEN Fails(s)
  ELSE LET t == GetBuf([PutIfChanged(s) EXCEPT
                          !.block = IF s.end >= BufLen THEN Least(@ + 2, s.lblock) ELSE @,
                          !.pos = 0])
       IN  IF t.end = BufLen \/ s.lblock = t.block THEN Ok(t) ELSE Aborts(t, 9999, TRUE)

(* fh0rdfn. *)
Fh0Rdfn(s) ==
  IF s.pos < s.end THEN Ok(s)
  ELSE IF s.block = s.lblock THEN Fails(s)
  ELSE LET t == GetBuf([PutIfChanged(s) EXCEPT
                          !.block = IF s.end >= BufLen THEN @ + 1 ELSE @,
                          !.pos = 0])
       IN  IF t.end = BufLen \/ s.lblock = t.block THEN Ok(t) ELSE Aborts(t, 9999, TRUE)

(* replenish: only disc streams open for input have a function to call. *)
Replenish(s) == IF s.kind \in {"in", "inout"} THEN Fh0Rdfn(s) ELSE Fails(s)

(* Faulty: the block moved to is never read. *)
Fh0WrfnUnread(s) ==
  LET t == PutIfChanged(s)
      u == [t EXCEPT !.block = @ + 1, !.pos = 0, !.end = 0]
  IN  IF s.pos < s.bufend THEN Ok(t)
      ELSE IF u.block > s.lblock THEN Ok([u EXCEPT !.lblock = u.block])
      ELSE Ok(u)

(* Faulty: the next block is moved to although the buffer is not full. *)
Fh0WrfnMovesOn(s) ==
  LET u == [PutIfChanged(s) EXCEPT !.block = @ + 1, !.pos = 0, !.end = 0]
  IN  IF u.block > s.lblock THEN Ok([u EXCEPT !.lblock = u.block])
      ELSE Ok(IF s.kind = "inout" THEN GetBuf(u) ELSE u)

(* Faulty: a buffer that is not full is not written. *)
Fh0WrfnLazy(s) ==
  LET t == PutIfChanged(s)
      u == [t EXCEPT !.block = @ + 1, !.pos = 0, !.end = 0]
  IN  IF s.pos < s.bufend THEN Ok(s)
      ELSE IF u.block > s.lblock THEN Ok([u EXCEPT !.lblock = u.block])
      ELSE Ok(IF s.kind = "inout" THEN GetBuf(u) ELSE u)

(* fh0wrfn. *)
Fh0Wrfn(s) ==
  LET t == PutIfChanged(s)
      u == [t EXCEPT !.block = @ + 1, !.pos = 0, !.end = 0]
  IN  IF s.pos < s.bufend THEN Ok(t)
      ELSE IF u.block > s.lblock THEN Ok([u EXCEPT !.lblock = u.block])
      ELSE Ok(IF s.kind = "inout" THEN GetBuf(u) ELSE u)

(* Faulty: the old buffer is not copied. *)
RamWrfnUncopied(s) ==
  IF 2 * s.bufend > RamMax THEN Fails(s)
  ELSE Ok([s EXCEPT !.bufend = 2 * @,
                    !.buf = [i \in 0 .. 2 * s.bufend - 1 |-> Junk]])

(* ramwrfn: a buffer of twice the size, if getvec has one. *)
RamWrfn(s) ==
  IF 2 * s.bufend > RamMax THEN Fails(s)
  ELSE Ok([s EXCEPT !.bufend = 2 * @,
                    !.buf = [i \in 0 .. 2 * s.bufend - 1 |->
                               IF i < s.bufend THEN @[i] ELSE Junk]])

DepleteOf(s) ==
  CASE s.kind \in {"out", "inout", "append"} -> Fh0Wrfn(s)
    [] s.kind = "ram" -> RamWrfn(s)
    [] OTHER -> Fails(s)

-----------------------------------------------------------------------------
(* Bytes, and runs of bytes.                                               *)

(***************************************************************************)
(* The loop of rdch, binrdch, readwords and get_record for one byte.  When *)
(* replenish says that there is a byte and there is none the loop goes     *)
(* round again, which ends at the end of the file; after an abort 9999 it  *)
(* would not, and the call is given up here.                               *)
(***************************************************************************)
GetByte(r) ==
  LET s == r.s
      t == Replenish(s)
      Take(u) == [s |-> [u EXCEPT !.pos = @ + 1], ok |-> TRUE, code |-> r.code,
                  got |-> Append(r.got, u.buf[u.pos])]
  IN  CASE ~r.ok -> r
        [] r.ok /\ s.pos < s.end -> Take(s)
        [] OTHER -> IF t.ok /\ t.s.pos < t.s.end THEN Take(t.s)
                    ELSE [s |-> t.s, ok |-> FALSE, code |-> t.code, got |-> r.got]

GetBytes(s, k) ==
  LET r[i \in 0 .. k] == IF i = 0 THEN [s |-> s, ok |-> TRUE, code |-> 0, got |-> <<>>]
                          ELSE GetByte(r[i - 1])
  IN  r[k]

(* Faulty: the buffer is taken for one byte longer than it is. *)
PutByteLate(r, b) ==
  LET d == IF r.s.pos > r.s.bufend THEN DepleteOf(r.s) ELSE Ok(r.s)
  IN  IF ~r.ok THEN r
      ELSE IF ~d.ok THEN d
      ELSE Ok([d.s EXCEPT !.buf = [i \in DOMAIN @ \cup {d.s.pos} |->
                                     IF i = d.s.pos THEN b ELSE @[i]],
                          !.pos = @ + 1,
                          !.end = Most(@, d.s.pos + 1),
                          !.write = TRUE])

(* Faulty: the end of the valid bytes does not move on. *)
PutByteNoEnd(r, b) ==
  LET d == IF r.s.pos >= r.s.bufend THEN DepleteOf(r.s) ELSE Ok(r.s)
  IN  IF ~r.ok THEN r
      ELSE IF ~d.ok THEN d
      ELSE Ok([d.s EXCEPT !.buf[d.s.pos] = b,
                          !.pos = @ + 1,
                          !.write = TRUE])

(* The byte b put at pos, as wrch, writewords and put_record do it. *)
PutByte(r, b) ==
  LET d == IF r.s.pos >= r.s.bufend THEN DepleteOf(r.s) ELSE Ok(r.s)
  IN  IF ~r.ok THEN r
      ELSE IF ~d.ok THEN d
      ELSE Ok([d.s EXCEPT !.buf[d.s.pos] = b,
                          !.pos = @ + 1,
                          !.end = Most(@, d.s.pos + 1),
                          !.write = TRUE])

PutBytes(s, d) ==
  LET r[i \in 0 .. Len(d)] == IF i = 0 THEN Ok(s) ELSE PutByte(r[i - 1], d[i])
  IN  r[Len(d)]

-----------------------------------------------------------------------------
(* Places.                                                                 *)

(* Faulty: the block number is not compared with the last one. *)
PointUnbounded(s, blkno0, pos0) ==
  LET atend == pos0 = 0 /\ blkno0 = s.lblock + 1
      blkno == IF atend THEN s.lblock ELSE blkno0
      pos   == IF atend THEN BufLen ELSE pos0
      past  == \/ blkno < 0
               \/ blkno = s.lblock /\ pos > IF s.block = s.lblock THEN s.end ELSE s.ldata
      t     == GetBuf([PutIfChanged(s) EXCEPT !.block = blkno])
      check == t.end = BufLen \/ (blkno = s.lblock /\ s.end >= t.ldata)
  IN  IF ~Readable(s) THEN Fails(s)
      ELSE IF past THEN Aborts(s, 999, FALSE)
      ELSE IF blkno = s.block THEN Ok([s EXCEPT !.pos = pos])
      ELSE Aborts([t EXCEPT !.pos = pos], IF check THEN 0 ELSE 5005, TRUE)

(***************************************************************************)
(* point.  Its last safety check looks at the end of the block it has left *)
(* (the local variable end), not at the one it has read.                   *)
(***************************************************************************)
Point(s, blkno0, pos0) ==
  LET atend == pos0 = 0 /\ blkno0 = s.lblock + 1
      blkno == IF atend THEN s.lblock ELSE blkno0
      pos   == IF atend THEN BufLen ELSE pos0
      past  == \/ blkno < 0
               \/ blkno > s.lblock
               \/ blkno = s.lblock /\ pos > IF s.block = s.lblock THEN s.end ELSE s.ldata
      t     == GetBuf([PutIfChanged(s) EXCEPT !.block = blkno])
      check == t.end = BufLen \/ (blkno = s.lblock /\ s.end >= t.ldata)
  IN  IF ~Readable(s) THEN Fails(s)
      ELSE IF past THEN Aborts(s, 999, FALSE)
      ELSE IF blkno = s.block THEN Ok([s EXCEPT !.pos = pos])
      ELSE Aborts([t EXCEPT !.pos = pos], IF check THEN 0 ELSE 5005, TRUE)

(* recordpoint, for a record number that is not negative. *)
RecordPoint(s, recno) ==
  IF s.kind \in {"in", "out", "inout", "append", "ram"}
    THEN Point(s, (RecLen * recno) \div s.bufend, (RecLen * recno) % s.bufend)
    ELSE Aborts(s, 999, FALSE)

(* Faulty: what muldiv leaves in result2 is forgotten. *)
RecordNoteTruncated(s) == ((s.block * s.bufend) \div RecLen) + (s.pos \div RecLen)

(* recordnote. *)
RecordNote(s) ==
  LET off == s.block * s.bufend
  IN  (off \div RecLen) + (((off % RecLen) + s.pos) \div RecLen)

(* get_record goes on whatever recordpoint says. *)
GetRecord(s, recno) ==
  LET p == RecordPoint(s, recno)
      r == GetBytes(p.s, RecLen)
  IN  [r EXCEPT !.code = IF p.code # 0 THEN p.code ELSE @]

(* put_record.  In a full buffer it takes all bytes to be valid. *)
PutRecord(s, recno, d) ==
  LET p == RecordPoint(s, recno)
      t == IF p.s.pos >= p.s.bufend THEN [p.s EXCEPT !.end = Most(@, p.s.pos)] ELSE p.s
  IN  IF s.kind \notin {"inout", "ram"} THEN Aborts(s, 999, FALSE)
      ELSE IF ~p.ok THEN p
      ELSE PutBytes(t, d)

(* appendstream. *)
AppendPoint(s) ==
  IF s.kind \notin {"inout", "ram"} THEN Fails(s)
  ELSE Point(s, s.lblock, IF s.block = s.lblock THEN Most(s.ldata, s.end) ELSE s.ldata)

(* Faulty: a step over the end of the block stays in the block. *)
StepPointWithin(s, words) ==
  LET bytes  == words * BytesPerWord
      blocks == IF bytes >= 0 THEN bytes \div s.bufend ELSE 0 - ((0 - bytes) \div s.bufend)
      p      == s.pos + bytes - blocks * s.bufend
      b      == s.block + blocks
      q      == IF p < 0 THEN p + s.bufend ELSE IF p > s.bufend THEN p - s.bufend ELSE p
  IN  IF b < 1 THEN Fails(s) ELSE Point(s, b, q)

(* stepstream, with the quotient and the remainder of BCPL, which go       *)
(* towards zero.  It refuses any place in block 0.                         *)
StepPoint(s, words) ==
  LET bytes  == words * BytesPerWord
      blocks == IF bytes >= 0 THEN bytes \div s.bufend ELSE 0 - ((0 - bytes) \div s.bufend)
      p      == s.pos + bytes - blocks * s.bufend
      b      == s.block + blocks + (IF p < 0 THEN -1 ELSE IF p > s.bufend THEN 1 ELSE 0)
      q      == IF p < 0 THEN p + s.bufend ELSE IF p > s.bufend THEN p - s.bufend ELSE p
  IN  IF b < 1 THEN Fails(s) ELSE Point(s, b, q)

-----------------------------------------------------------------------------
(* The bytes of the stream: those of the file with the changed buffer laid *)
(* over them, at the end of a file opened for appending.                   *)
Content(s) ==
  LET off == IF s.kind = "append" THEN Len(s.fd) ELSE s.bufend * s.block
      fd  == IF s.kind = "ram" THEN <<>> ELSE s.fd
      len == IF s.kind = "ram" \/ s.write THEN Most(Len(fd), off + s.end) ELSE Len(fd)
  IN  IF s.kind = "none" THEN <<>>
      ELSE [i \in 1 .. len |-> IF i \in off + 1 .. off + s.end /\ (s.write \/ s.kind = "ram")
                                  THEN s.buf[i - off - 1]
                                ELSE IF i <= Len(fd) THEN fd[i] ELSE 0]

Place(s) == IF s.kind = "append" THEN Len(Content(s)) ELSE s.block * s.bufend + s.pos

Init ==
  /\ \E k \in 0 .. MaxFile : \E fd \in [1 .. k -> Byte] : scb = Closed(fd)
  /\ got = <<>> /\ ok = TRUE
  /\ code = 0 /\ call = <<"start">>

(* A new control block with a buffer of len bytes, by findstream. *)
NewScb(k, len, fd) ==
  [kind |-> k, buf |-> [i \in 0 .. len - 1 |-> Junk], pos |-> 0, end |-> 0,
   block |-> 0, write |-> FALSE, bufend |-> len, lblock |-> 0, ldata |-> 0, fd |-> fd]

(* The end of the file in blocks, from its size, and the first block read. *)
Sized(s) == GetBuf([s EXCEPT !.lblock = Len(s.fd) \div BufLen,
                             !.ldata = Len(s.fd) % BufLen])

Fh0Findinput    == Sized(NewScb("in", BufLen, scb.fd))
Fh0Findinoutput == Sized(NewScb("inout", BufLen, scb.fd))

(* fh0findoutput: opening for output empties the file.  An append stream   *)
(* starts at block 0 too, whatever is in the file.                         *)
Fh0Findoutput(k) == NewScb(k, BufLen, IF k = "out" THEN <<>> ELSE scb.fd)

RamStream == NewScb("ram", RamLen, scb.fd)

Findstream(k) ==
  /\ scb.kind = "none"
  /\ scb' = CASE k = "in" -> Fh0Findinput
              [] k = "inout" -> Fh0Findinoutput
              [] k \in {"out", "append"} -> Fh0Findoutput(k)
              [] k = "ram" -> RamStream
  /\ got' = <<>> /\ ok' = TRUE
  /\ code' = 0 /\ call' = <<"open", k>>

(* fh0endfn writes a changed buffer, and closes the file. *)
Fh0Endfn(s) == PutIfChanged(s).fd

(* endstream: the scb and the buffer are freed. *)
Endstream ==
  /\ scb.kind # "none"
  /\ scb' = Closed(IF scb.kind = "ram" THEN scb.fd ELSE Fh0Endfn(scb))
  /\ got' = <<>> /\ ok' = TRUE
  /\ code' = 0 /\ call' = <<"close">>

(* A call that reads: its bytes are the result. *)
Reads(r) == scb' = r.s /\ got' = r.got /\ ok' = r.ok /\ code' = r.code

(* Any other call. *)
Does(r) == scb' = r.s /\ got' = <<>> /\ ok' = r.ok /\ code' = r.code

Binrdch == Readable(scb) /\ Reads(GetBytes(scb, 1)) /\ call' = <<"read", 1>>

Readwords(n) ==
  /\ Readable(scb) /\ Reads(GetBytes(scb, n * BytesPerWord))
  /\ call' = <<"read", n * BytesPerWord>>

(* unrdch steps back by one byte within the buffer. *)
Unrdch ==
  /\ Readable(scb)
  /\ Does(IF scb.pos <= 0 THEN Fails(scb) ELSE Ok([scb EXCEPT !.pos = @ - 1]))
  /\ call' = <<"unread">>

Binwrch(b) ==
  /\ Writable(scb) /\ Place(scb) < MaxLen
  /\ Does(PutBytes(scb, <<b>>))
  /\ call' = <<"write", <<b>>>>

Writewords(d) ==
  /\ Writable(scb) /\ Place(scb) + Len(d) <= MaxLen
  /\ Does(PutBytes(scb, d))
  /\ call' = <<"write", d>>

Deplete ==
  /\ Writable(scb) /\ scb.block * BufLen < MaxLen
  /\ Does(DepleteOf(scb))
  /\ call' = <<"deplete">>

PointTo(blkno, pos) ==
  /\ scb.kind # "none" /\ Does(Point(scb, blkno, pos))
  /\ call' = <<"point", blkno * scb.bufend + pos>>

GetRec(n) == Readable(scb) /\ Reads(GetRecord(scb, n)) /\ call' = <<"get", RecLen * n>>

PutRec(n, d) ==
  /\ scb.kind # "none" /\ RecLen * (n + 1) <= MaxLen
  /\ Does(PutRecord(scb, n, d))
  /\ call' = <<"put", RecLen * n, d>>

Appendstream == scb.kind # "none" /\ Does(AppendPoint(scb)) /\ call' = <<"append">>

Rewindstream == scb.kind # "none" /\ Does(Point(scb, 0, 0)) /\ call' = <<"point", 0>>

Stepstream(n) ==
  /\ Readable(scb) /\ Does(StepPoint(scb, n))
  /\ call' = <<"step", n * BytesPerWord>>

Next ==
  \/ \E k \in Kinds : Findstream(k)
  \/ Endstream \/ Binrdch \/ Unrdch \/ Deplete \/ Appendstream \/ Rewindstream
  \/ \E b \in Byte : Binwrch(b)
  \/ \E n \in 1 .. RecLen : Readwords(n)
  \/ \E b, c \in Byte : Writewords(<<b, c>>)
  \/ \E blkno \in 0 .. MaxLen \div BufLen, pos \in 0 .. BufLen : PointTo(blkno, pos)
  \/ \E n \in 0 .. MaxLen \div RecLen : GetRec(n)
  \/ \E n \in 0 .. MaxLen \div RecLen, b \in Byte : PutRec(n, [i \in 1 .. RecLen |-> b])
  \/ \E n \in -2 .. 2 : Stepstream(n)

Spec == Init /\ [][Next]_vars

-----------------------------------------------------------------------------
(* The bytes of the buffer that are valid, and those of the file it holds. *)
InBuf(s)  == [i \in 1 .. s.end |-> s.buf[i - 1]]
OnDisc(s) == SubSeq(s.fd, BufLen * s.block + 1,
                    Least(Len(s.fd), BufLen * (s.block + 1)))

(***************************************************************************)
(* The control block agrees with the file: the place is among the valid    *)
(* bytes, all blocks in front of the last are on disc in full, an          *)
(* unchanged buffer holds what its block has there, and a changed buffer   *)
(* of a block that is not the last is full.                                *)
(***************************************************************************)
Coherent(s) ==
  CASE s.kind = "none" -> TRUE
    [] s.kind = "ram" -> s.pos <= s.end /\ s.end <= s.bufend
    [] s.kind = "append" ->
         /\ s.pos = s.end
         /\ s.write \/ s.end = 0
    [] OTHER ->
         /\ s.pos <= s.end
         /\ s.block <= s.lblock
         /\ s.block < s.lblock => s.end = BufLen
         /\ BufLen * s.lblock <= Len(s.fd)
         /\ Len(s.fd) <= BufLen * (s.lblock + 1)
         /\ ~s.write => InBuf(s) = OnDisc(s)

(* The last block is empty, and ldata is still that of the block in front. *)
StaleEnd(s) ==
  s.kind = "inout" /\ s.block # s.lblock /\ Len(s.fd) = BufLen * s.lblock /\ s.ldata > 0

(* An append stream has written part of a block and keeps it in the buffer. *)
HalfAppended(s) == s.kind = "append" /\ ~s.write /\ s.end > 0

(* In the last block, which ends in front of ldata.                        *)
StaleLast(s) == s.kind = "inout" /\ s.block = s.lblock /\ s.end < s.ldata

(* The end of a RAM buffer, for which point takes the place buflen.        *)
RamEnd(s, p) == s.kind = "ram" /\ p = s.bufend /\ p # BufLen

Abs == INSTANCE ByteFile WITH
         Near    <- BufLen,
         kind    <- scb.kind,
         content <- Content(scb),
         file    <- IF scb.kind \in {"none", "ram"} THEN scb.fd ELSE <<>>,
         place   <- Place(scb)

(* The step of ByteFile that the call asks for. *)
AbsNext ==
  LET what == call'[1]  arg == call'[2]
  IN  CASE what = "open"    -> Abs!Open(arg)
        [] what = "close"   -> Abs!Close
        [] what = "read"    -> Abs!Read(arg)
        [] what = "write"   -> Abs!Write(arg)
        [] what = "unread"  -> Abs!Unread
        [] what = "deplete" -> Abs!Deplete
        [] what = "point"   -> Abs!Point(arg)
        [] what = "append"  -> Abs!ToEnd
        [] what = "step"    -> Abs!Step(arg)
        [] what = "get"     -> Abs!GetRecord(arg, RecLen)
        [] what = "put"     -> Abs!PutRecord(arg, call'[3])

-----------------------------------------------------------------------------
(* Every field has a value of its kind, and the indices fit the buffer.    *)
TypeOK ==
  /\ scb.kind \in Kinds \cup {"none"}
  /\ scb.fd \in Seq(Byte \cup {0, Junk})
  /\ scb.buf \in [0 .. scb.bufend - 1 -> Byte \cup {0, Junk}] \cup {<<>>}
  /\ scb.pos \in 0 .. scb.bufend /\ scb.end \in 0 .. scb.bufend
  /\ scb.block \in Nat /\ scb.lblock \in Nat /\ scb.ldata \in 0 .. BufLen
  /\ scb.write \in BOOLEAN
  /\ got \in Seq(Byte \cup {0, Junk}) /\ ok \in BOOLEAN
  /\ code \in {0, 999, 5005, 9999}

(***************************************************************************)
(* The buffer cannot be told from the file: as long as the control block   *)
(* is coherent, every call of blib.b does to the stream what ByteFile      *)
(* promises of it: it reads and writes at the place where the last call    *)
(* has left the stream, or where it has been told to go, across blocks,    *)
(* with changes that are not on disc yet, and when the stream is closed.   *)
(* Left out is what the code does wrong: put_record where the last block   *)
(* is empty, and appendstream in the last block, while ldata is out of     *)
(* date; and moves to the end of the buffer of a RAM stream.               *)
(***************************************************************************)
Misled ==
  \/ StaleEnd(scb) /\ call'[1] = "put"
  \/ StaleLast(scb) /\ call'[1] = "append"
  \/ call'[1] \in {"point", "get", "put"} /\ RamEnd(scb, call'[2])
  \/ call'[1] = "step" /\ RamEnd(scb, Place(scb) + call'[2])

ImplementsByteFile ==
  Abs!Init /\ [][Coherent(scb) /\ Coherent(scb') => AbsNext \/ Misled]_vars

(***************************************************************************)
(* No sequence of calls makes a control block disagree with its file,      *)
(* except that pointing into an empty last block may (ldata is out of      *)
(* date), and so does depleting an append stream in the middle of a block; *)
(* and then the safety checks of point and fh0rdfn do not fire ("The field *)
(* end will equal buflen for all blocks except possibly the last one").    *)
(***************************************************************************)
CoherenceKept ==
  [][Coherent(scb) /\ ~StaleEnd(scb) =>
       /\ Coherent(scb') \/ HalfAppended(scb')
       /\ code' \notin {5005, 9999}]_vars

(***************************************************************************)
(* recordpoint reaches every record that starts in the file or just after  *)
(* it and no other, at its place, and recordnote gives its number back.    *)
(***************************************************************************)
RecordPlace ==
  scb.kind \in {"in", "inout"} /\ Coherent(scb) /\ ~StaleEnd(scb) =>
    \A n \in 0 .. MaxLen \div RecLen :
      LET r == RecordPoint(scb, n)
      IN  /\ r.ok <=> RecLen * n <= Len(Content(scb))
          /\ r.ok => Place(r.s) = RecLen * n /\ RecordNote(r.s) = n

(* After a deplete that gives TRUE the file holds all that was written.    *)
DepleteStores ==
  scb.kind \in {"out", "inout", "append"} /\ Coherent(scb) =>
    LET r == DepleteOf(scb) IN r.ok => r.s.fd = Content(scb)

(* What is written next to a file opened for output or for both does not   *)
(* depend on whether the buffer has been depleted before it.               *)
DepleteIsTransparent ==
  scb.kind \in {"out", "inout"} /\ Coherent(scb) =>
    \A b \in Byte : Content(PutBytes(DepleteOf(scb).s, <<b>>).s) =
                       Content(PutBytes(scb, <<b>>).s)

(* The last call does not matter to the next one, but whether it was       *)
(* successful tells one that does nothing from no call at all, and a byte  *)
(* that it has read can be put back.  The file makes no difference to a    *)
(* RAM stream.                                                             *)
View == <<IF scb.kind = "ram" THEN [scb EXCEPT !.fd = <<>>] ELSE scb, ok, got = <<>> >>
=============================================================================
