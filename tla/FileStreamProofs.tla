-------------------------- MODULE FileStreamProofs --------------------------
(***************************************************************************)
(* Proofs about the streams to files and to memory, for any bytes, lengths *)
(* of blocks, records and files: the indices stay in the buffer            *)
(* (FileStreamTypes); depletes stores what was written while the file fits *)
(* on the disc (DepletesStore); a control block that agrees with its file  *)
(* still does after any call, but in the case HalfAppended (StaysCoherent);*)
(* records of a file are found at their places (RecordsFound); and what is *)
(* written next does not depend on an earlier depletes (DepletesUnseen).   *)
(* The last three assume a disc on which everything the calls may write    *)
(* fits (DiscHasRoom).                                                     *)
(***************************************************************************)
EXTENDS FileStream, LeastNumber, SequenceTheorems, TLAPS

-----------------------------------------------------------------------------
(* Control blocks of streams to the disc and to memory.                    *)
Bytes == Byte \cup {0, Junk}
Codes == {0, 999, 5005, 9999}
DiscKind == {"in", "out", "inout", "append"}
ScbRec(len) ==
  [kind : DiscKind \cup {"ram"}, buf : [0 .. len - 1 -> Bytes], pos : 0 .. len,
   end : 0 .. len, block : Nat, write : BOOLEAN, bufend : {len}, lblock : Nat,
   ldata : 0 .. BufLen, fd : Seq(Bytes)]
DiscScb(s) == s \in ScbRec(BufLen) /\ s.kind \in DiscKind
RamScb(s) == /\ s.bufend \in Nat \ {0} /\ s \in ScbRec(s.bufend) /\ s.kind = "ram"
             /\ s.block = 0 /\ s.lblock = 0
OpenScb(s) == DiscScb(s) \/ RamScb(s)

(* What an operator gives back: another control block of the same kind.    *)
Lost(s)    == Aborts(s, 9999, TRUE)
Refused(s) == Aborts(s, 999, FALSE)
Unsure(s)  == Aborts(s, 5005, TRUE)
Sure(s)    == Aborts(s, 0, TRUE)
Outcome == [s : UNION {ScbRec(n) : n \in Nat}, ok : BOOLEAN, code : Codes]
Result(r, s) == r \in Outcome /\ OpenScb(r.s) /\ r.s.kind = s.kind

LEMMA Sizes ==
  /\ BufLen \in Nat \ {0} /\ RamLen \in Nat \ {0} /\ RecLen \in Nat \ {0}
  /\ BytesPerWord \in Nat \ {0} /\ RamMax \in Nat /\ Capacity \in Nat /\ MaxLen \in Nat
  /\ MaxFile \in Nat /\ Junk \in Bytes /\ 0 \in Bytes /\ Byte \subseteq Bytes
  BY FileStreamAssumption DEF FileStreamAssumption, Bytes

LEMMA DiscFields ==
  ASSUME NEW s, DiscScb(s)
  PROVE  /\ s.kind \in DiscKind /\ s.buf \in [0 .. BufLen - 1 -> Bytes]
         /\ s.pos \in Nat /\ s.pos <= BufLen /\ s.end \in Nat /\ s.end <= BufLen
         /\ s.block \in Nat /\ s.write \in BOOLEAN /\ s.bufend = BufLen /\ s.lblock \in Nat
         /\ s.ldata \in Nat /\ s.ldata <= BufLen /\ s.fd \in Seq(Bytes) /\ Len(s.fd) \in Nat
         /\ BufLen * s.block \in Nat /\ BufLen * s.lblock \in Nat
  <1>1. /\ s.kind \in DiscKind /\ s.buf \in [0 .. BufLen - 1 -> Bytes]
        /\ s.pos \in 0 .. BufLen /\ s.end \in 0 .. BufLen
        /\ s.block \in Nat /\ s.write \in BOOLEAN /\ s.bufend = BufLen /\ s.lblock \in Nat
        /\ s.ldata \in 0 .. BufLen /\ s.fd \in Seq(Bytes)
    BY DEF DiscScb, ScbRec
  <1>2. Len(s.fd) \in Nat
    BY <1>1, LenProperties
  <1>3. BufLen * s.block \in Nat /\ BufLen * s.lblock \in Nat
    BY <1>1, Sizes
  <1> QED
    BY <1>1, <1>2, <1>3, Sizes

LEMMA RamFields ==
  ASSUME NEW s, RamScb(s)
  PROVE  /\ s.kind = "ram" /\ s.buf \in [0 .. s.bufend - 1 -> Bytes]
         /\ s.pos \in Nat /\ s.pos <= s.bufend /\ s.end \in Nat /\ s.end <= s.bufend
         /\ s.block = 0 /\ s.lblock = 0 /\ s.write \in BOOLEAN /\ s.bufend \in Nat \ {0}
         /\ s.ldata \in Nat /\ s.ldata <= BufLen /\ s.fd \in Seq(Bytes) /\ Len(s.fd) \in Nat
  <1>1. /\ s.buf \in [0 .. s.bufend - 1 -> Bytes]
        /\ s.pos \in 0 .. s.bufend /\ s.end \in 0 .. s.bufend
        /\ s.write \in BOOLEAN /\ s.ldata \in 0 .. BufLen /\ s.fd \in Seq(Bytes)
    BY DEF RamScb, ScbRec
  <1>2. Len(s.fd) \in Nat
    BY <1>1, LenProperties
  <1> QED
    BY <1>1, <1>2, Sizes DEF RamScb

LEMMA OpenFields ==
  ASSUME NEW s, OpenScb(s)
  PROVE  /\ s.kind \in DiscKind \cup {"ram"} /\ s.buf \in [0 .. s.bufend - 1 -> Bytes]
         /\ s.pos \in Nat /\ s.pos <= s.bufend /\ s.end \in Nat /\ s.end <= s.bufend
         /\ s.block \in Nat /\ s.lblock \in Nat /\ s.write \in BOOLEAN /\ s.bufend \in Nat \ {0}
         /\ s.ldata \in Nat /\ s.ldata <= BufLen /\ s.fd \in Seq(Bytes) /\ Len(s.fd) \in Nat
         /\ s.kind \in DiscKind <=> DiscScb(s)
         /\ s.kind = "ram" <=> RamScb(s)
  <1>1. CASE DiscScb(s)
    BY <1>1, DiscFields, Sizes DEF DiscKind, RamScb
  <1>2. CASE RamScb(s)
    BY <1>2, RamFields, Sizes DEF DiscKind, DiscScb
  <1> QED
    BY <1>1, <1>2 DEF OpenScb

-----------------------------------------------------------------------------
(* Blocks read and written.                                                *)
Off(s) == IF s.kind = "append" THEN Len(s.fd) ELSE BufLen * s.block

LEMMA OffIs ==
  ASSUME NEW s, DiscScb(s)
  PROVE  Off(s) \in Nat
  BY DiscFields DEF Off

LEMMA WrittenIs ==
  ASSUME NEW s, DiscScb(s)
  PROVE  /\ Written(s) \in Seq(Bytes)
         /\ Len(Written(s)) = Most(Len(s.fd), Least(Off(s) + s.end, Capacity))
         /\ \A i \in 1 .. Len(Written(s)) :
              Written(s)[i] = IF i \in Off(s) + 1 .. Off(s) + s.end THEN s.buf[i - Off(s) - 1]
                              ELSE IF i <= Len(s.fd) THEN s.fd[i] ELSE 0
  <1> DEFINE off == Off(s)
             len == Most(Len(s.fd), Least(off + s.end, Capacity))
             At(i) == IF i \in off + 1 .. off + s.end THEN s.buf[i - off - 1]
                      ELSE IF i <= Len(s.fd) THEN s.fd[i] ELSE 0
  <1>1. /\ off \in Nat /\ s.end \in Nat /\ s.end <= BufLen /\ Len(s.fd) \in Nat
        /\ s.buf \in [0 .. BufLen - 1 -> Bytes] /\ s.fd \in Seq(Bytes)
    BY DiscFields, OffIs
  <1>2. Written(s) = [i \in 1 .. len |-> At(i)]
    BY DEF Written, Off
  <1>3. len \in Nat
    BY <1>1, Sizes DEF Most, Least
  <1>4. ASSUME NEW i \in 1 .. len PROVE At(i) \in Bytes
    <2>1. CASE i \in off + 1 .. off + s.end
      <3>1. i - off - 1 \in 0 .. BufLen - 1
        BY <1>1, <1>3, <2>1, Sizes
      <3> QED
        BY <1>1, <2>1, <3>1
    <2>2. CASE i \notin off + 1 .. off + s.end /\ i <= Len(s.fd)
      <3>1. i \in 1 .. Len(s.fd)
        BY <1>1, <1>3, <2>2
      <3>2. s.fd[i] \in Bytes
        BY <1>1, <3>1, ElementOfSeq
      <3> QED
        BY <2>2, <3>2
    <2>3. CASE i \notin off + 1 .. off + s.end /\ ~(i <= Len(s.fd))
      BY <2>3, Sizes
    <2> QED
      BY <2>1, <2>2, <2>3
  <1> HIDE DEF len, At
  <1>5. Written(s) \in Seq(Bytes) /\ Len(Written(s)) = len
    BY <1>2, <1>3, <1>4
  <1> QED
    BY <1>2, <1>5 DEF len, At

LEMMA PutIs ==
  ASSUME NEW s, DiscScb(s)
  PROVE  /\ DiscScb(PutIfChanged(s)) /\ PutIfChanged(s).kind = s.kind
         /\ PutIfChanged(s).buf = s.buf /\ PutIfChanged(s).pos = s.pos
         /\ PutIfChanged(s).end = s.end /\ PutIfChanged(s).block = s.block
         /\ PutIfChanged(s).lblock = s.lblock /\ PutIfChanged(s).write = FALSE
         /\ PutIfChanged(s).fd = IF s.write /\ s.end > 0 THEN Written(s) ELSE s.fd
         /\ PutIfChanged(s).ldata = IF s.write /\ s.end > 0 /\ s.block = s.lblock
                                    THEN s.end ELSE s.ldata
  <1>1. /\ s \in ScbRec(BufLen) /\ s.write \in BOOLEAN /\ s.end \in 0 .. BufLen
        /\ s.kind \in DiscKind /\ s.end \in Nat
    BY DiscFields, Sizes DEF DiscScb
  <1>2. Written(s) \in Seq(Bytes)
    BY WrittenIs
  <1>3. CASE ~s.write
    BY <1>1, <1>3 DEF PutIfChanged, DiscScb
  <1>4. CASE s.write /\ s.end <= 0
    <2>1. PutIfChanged(s) = [s EXCEPT !.write = FALSE] /\ ~(s.end > 0)
      BY <1>1, <1>4 DEF PutIfChanged, PutBuf
    <2> QED
      BY <1>1, <2>1 DEF DiscScb, ScbRec
  <1>5. CASE s.write /\ s.end > 0
    <2>1. PutIfChanged(s) = [s EXCEPT !.ldata = IF s.block = s.lblock THEN s.end ELSE s.ldata,
                                      !.fd = Written(s), !.write = FALSE]
      BY <1>1, <1>5 DEF PutIfChanged, PutBuf
    <2> QED
      BY <1>1, <1>2, <1>5, <2>1 DEF DiscScb, ScbRec
  <1>6. ~s.write \/ (s.write /\ s.end <= 0) \/ (s.write /\ s.end > 0)
    BY <1>1
  <1> QED
    BY <1>3, <1>4, <1>5, <1>6, Zenon

LEMMA BufferSet ==
  ASSUME NEW len, NEW s \in ScbRec(len), NEW b \in [0 .. len - 1 -> Bytes],
         NEW p \in 0 .. len, NEW e \in 0 .. len
  PROVE  [s EXCEPT !.buf = b, !.pos = p, !.end = e] \in ScbRec(len)
  <1> DEFINE B == [0 .. len - 1 -> Bytes]
             P == 0 .. len
  <1>1. b \in B /\ p \in P /\ e \in P
    OBVIOUS
  <1> HIDE DEF B, P
  <1> QED
    BY <1>1 DEF ScbRec, B, P

LEMMA GetIs ==
  ASSUME NEW s, DiscScb(s)
  PROVE  /\ DiscScb(GetBuf(s)) /\ GetBuf(s).kind = s.kind /\ GetBuf(s).block = s.block
         /\ GetBuf(s).lblock = s.lblock /\ GetBuf(s).ldata = s.ldata
         /\ GetBuf(s).write = s.write /\ GetBuf(s).fd = s.fd /\ GetBuf(s).pos = 0
         /\ GetBuf(s).end = Most(0, Least(BufLen, Len(s.fd) - BufLen * s.block))
         /\ \A i \in 0 .. GetBuf(s).end - 1 : GetBuf(s).buf[i] = s.fd[BufLen * s.block + i + 1]
  <1> DEFINE off == BufLen * s.block
             len == Most(0, Least(BufLen, Len(s.fd) - off))
             b == [i \in DOMAIN s.buf |-> IF i < len THEN s.fd[off + i + 1] ELSE s.buf[i]]
  <1>1. /\ s \in ScbRec(BufLen) /\ off \in Nat /\ Len(s.fd) \in Nat /\ s.fd \in Seq(Bytes)
        /\ s.buf \in [0 .. BufLen - 1 -> Bytes] /\ BufLen \in Nat
    BY DiscFields, Sizes DEF DiscScb
  <1>2. len \in 0 .. BufLen /\ len \in Nat /\ (len > 0 => off + len <= Len(s.fd))
    BY <1>1 DEF Most, Least
  <1>3. GetBuf(s) = [s EXCEPT !.buf = b, !.pos = 0, !.end = len]
    BY DEF GetBuf
  <1>4. DOMAIN s.buf = 0 .. BufLen - 1
    BY <1>1
  <1>5. ASSUME NEW i \in 0 .. BufLen - 1, i < len PROVE s.fd[off + i + 1] \in Bytes
    <2>1. off + i + 1 \in 1 .. Len(s.fd)
      BY <1>1, <1>2, <1>5
    <2> QED
      BY <1>1, <2>1, ElementOfSeq
  <1> HIDE DEF off, len
  <1>6. b \in [0 .. BufLen - 1 -> Bytes]
    BY <1>1, <1>4, <1>5
  <1>7. \A i \in 0 .. len - 1 : b[i] = s.fd[off + i + 1]
    BY <1>1, <1>2, <1>4
  <1> HIDE DEF b
  <1>8. GetBuf(s) \in ScbRec(BufLen)
    <2>1. 0 \in 0 .. BufLen
      BY <1>1
    <2>2. s \in ScbRec(BufLen) /\ len \in 0 .. BufLen
      BY <1>1, <1>2
    <2>3. [s EXCEPT !.buf = b, !.pos = 0, !.end = len] \in ScbRec(BufLen)
      BY <1>6, <2>1, <2>2, BufferSet, Zenon
    <2> QED
      BY <1>3, <2>3
  <1> QED
    BY <1>1, <1>3, <1>7, <1>8 DEF DiscScb, ScbRec, off, len

LEMMA BlockSet ==
  ASSUME NEW s, DiscScb(s), NEW b \in Nat, NEW l \in Nat, NEW p \in 0 .. BufLen,
         NEW e \in 0 .. BufLen
  PROVE  /\ DiscScb([s EXCEPT !.block = b, !.pos = p])
         /\ DiscScb([s EXCEPT !.block = b, !.pos = p, !.end = e])
         /\ DiscScb([s EXCEPT !.block = b, !.pos = p, !.end = e, !.lblock = l])
         /\ DiscScb([s EXCEPT !.block = b])
         /\ DiscScb([s EXCEPT !.lblock = l, !.ldata = p])
  <1> DEFINE P == 0 .. BufLen
  <1>1. s \in ScbRec(BufLen) /\ s.kind \in DiscKind /\ p \in P /\ e \in P
    BY DEF DiscScb
  <1> HIDE DEF P
  <1> QED
    BY <1>1 DEF DiscScb, ScbRec, P

(* What fh0rdfn leaves when it goes on to the next block.                  *)
NextBlock(s) ==
  GetBuf([PutIfChanged(s) EXCEPT !.block = IF s.end >= BufLen THEN @ + 1 ELSE @, !.pos = 0])

LEMMA NextBlockIs ==
  ASSUME NEW s, DiscScb(s)
  PROVE  LET p == PutIfChanged(s)
             b == IF s.end >= BufLen THEN s.block + 1 ELSE s.block
             t == NextBlock(s)
         IN  /\ DiscScb(t) /\ t.kind = s.kind /\ t.block = b /\ t.lblock = s.lblock
             /\ t.ldata = p.ldata /\ t.write = FALSE /\ t.fd = p.fd /\ t.pos = 0
             /\ t.end = Most(0, Least(BufLen, Len(p.fd) - BufLen * b))
             /\ \A i \in 0 .. t.end - 1 : t.buf[i] = p.fd[BufLen * b + i + 1]
  <1> DEFINE p == PutIfChanged(s)
             b == IF s.end >= BufLen THEN s.block + 1 ELSE s.block
             u == [p EXCEPT !.block = b, !.pos = 0]
  <1>1. /\ DiscScb(p) /\ p.kind = s.kind /\ p.block = s.block /\ p.lblock = s.lblock
        /\ p.write = FALSE
    BY PutIs
  <1>2. b \in Nat /\ 0 \in 0 .. BufLen
    BY DiscFields, Sizes
  <1>3. NextBlock(s) = GetBuf(u)
    BY <1>1 DEF NextBlock
  <1> HIDE DEF p, b
  <1>4. DiscScb(u)
    <2>1. \A x \in Nat : DiscScb([p EXCEPT !.block = x, !.pos = 0])
      BY <1>1, <1>2, BlockSet, Zenon
    <2> QED
      BY <1>2, <2>1, Zenon
  <1>5. /\ u.kind = s.kind /\ u.block = b /\ u.lblock = s.lblock /\ u.ldata = p.ldata
        /\ u.write = FALSE /\ u.fd = p.fd
    <2>1. p \in ScbRec(BufLen)
      BY <1>1 DEF DiscScb
    <2> QED
      BY <1>1, <2>1 DEF ScbRec
  <1> HIDE DEF u
  <1>6. /\ DiscScb(GetBuf(u)) /\ GetBuf(u).kind = u.kind /\ GetBuf(u).block = u.block
        /\ GetBuf(u).lblock = u.lblock /\ GetBuf(u).ldata = u.ldata
        /\ GetBuf(u).write = u.write /\ GetBuf(u).fd = u.fd /\ GetBuf(u).pos = 0
        /\ GetBuf(u).end = Most(0, Least(BufLen, Len(u.fd) - BufLen * u.block))
        /\ \A i \in 0 .. GetBuf(u).end - 1 : GetBuf(u).buf[i] = u.fd[BufLen * u.block + i + 1]
    BY <1>4, GetIs, Zenon
  <1> QED
    BY <1>3, <1>5, <1>6 DEF p, b

LEMMA RdfnIs ==
  ASSUME NEW s, DiscScb(s)
  PROVE  Fh0Rdfn(s) = IF s.pos < s.end THEN Ok(s)
                      ELSE IF s.block = s.lblock THEN Fails(s)
                      ELSE IF NextBlock(s).end = BufLen \/ s.lblock = NextBlock(s).block
                        THEN Ok(NextBlock(s)) ELSE Lost(NextBlock(s))
  BY DEF Fh0Rdfn, NextBlock, Lost

LEMMA ResultIs ==
  ASSUME NEW s, NEW t, OpenScb(t), t.kind = s.kind
  PROVE  /\ Result(Ok(t), s) /\ Result(Fails(t), s) /\ Result(Refused(t), s)
         /\ Result(Lost(t), s) /\ Result(Unsure(t), s) /\ Result(Sure(t), s)
  <1>1. t \in UNION {ScbRec(n) : n \in Nat}
    BY Sizes DEF OpenScb, DiscScb, RamScb
  <1> QED
    BY <1>1 DEF Result, Outcome, Ok, Fails, Aborts, Lost, Refused, Unsure, Sure, Codes

LEMMA RdfnResult ==
  ASSUME NEW s, DiscScb(s)
  PROVE  Result(Fh0Rdfn(s), s)
  <1>1. OpenScb(s)
    BY DEF OpenScb
  <1>2. OpenScb(NextBlock(s)) /\ NextBlock(s).kind = s.kind
    BY NextBlockIs DEF OpenScb
  <1>3. Result(Ok(s), s) /\ Result(Fails(s), s)
    BY <1>1, ResultIs, Zenon
  <1>4. Result(Ok(NextBlock(s)), s) /\ Result(Lost(NextBlock(s)), s)
    BY <1>2, ResultIs, Zenon
  <1>5. /\ s.pos < s.end => Fh0Rdfn(s) = Ok(s)
        /\ ~(s.pos < s.end) /\ s.block = s.lblock => Fh0Rdfn(s) = Fails(s)
        /\ ~(s.pos < s.end) /\ s.block # s.lblock =>
             \/ Fh0Rdfn(s) = Ok(NextBlock(s))
             \/ Fh0Rdfn(s) = Lost(NextBlock(s))
    BY RdfnIs
  <1> QED
    BY <1>3, <1>4, <1>5, Zenon

LEMMA ReplenishResult ==
  ASSUME NEW s, OpenScb(s)
  PROVE  Result(Replenish(s), s)
  <1>1. CASE s.kind \in {"in", "inout"}
    <2>1. DiscScb(s)
      BY <1>1, OpenFields DEF DiscKind
    <2> QED
      BY <1>1, <2>1, RdfnResult DEF Replenish
  <1>2. CASE s.kind \notin {"in", "inout"}
    <2>1. Result(Fails(s), s)
      BY ResultIs, Zenon
    <2> QED
      BY <1>2, <2>1 DEF Replenish
  <1> QED
    BY <1>1, <1>2

-----------------------------------------------------------------------------
(* Deplete functions.  Moved is the empty buffer of the next block, which  *)
(* Longer makes the last one.                                              *)
Moved(s)  == [PutIfChanged(s) EXCEPT !.block = @ + 1, !.pos = 0, !.end = 0]
Longer(s) == [Moved(s) EXCEPT !.lblock = Moved(s).block]
Grown(s)  == [s EXCEPT !.bufend = 2 * @,
                       !.buf = [i \in 0 .. 2 * s.bufend - 1 |->
                                  IF i < s.bufend THEN @[i] ELSE Junk]]

LEMMA MovedIs ==
  ASSUME NEW s, DiscScb(s)
  PROVE  /\ DiscScb(Moved(s)) /\ DiscScb(Longer(s))
         /\ Moved(s).kind = s.kind /\ Longer(s).kind = s.kind
         /\ Moved(s).block = s.block + 1 /\ Longer(s).block = s.block + 1
         /\ Moved(s).lblock = s.lblock /\ Longer(s).lblock = s.block + 1
         /\ Moved(s).pos = 0 /\ Longer(s).pos = 0
         /\ Moved(s).end = 0 /\ Longer(s).end = 0
         /\ Moved(s).write = FALSE /\ Longer(s).write = FALSE
         /\ Moved(s).ldata = PutIfChanged(s).ldata /\ Longer(s).ldata = PutIfChanged(s).ldata
         /\ Moved(s).fd = PutIfChanged(s).fd /\ Longer(s).fd = PutIfChanged(s).fd
  <1> DEFINE p == PutIfChanged(s)
             b == s.block + 1
             m == [p EXCEPT !.block = b, !.pos = 0, !.end = 0]
             l == [p EXCEPT !.block = b, !.pos = 0, !.end = 0, !.lblock = b]
  <1>1. /\ DiscScb(p) /\ p.kind = s.kind /\ p.block = s.block /\ p.lblock = s.lblock
        /\ p.write = FALSE
    BY PutIs
  <1>2. b \in Nat /\ 0 \in 0 .. BufLen
    BY DiscFields, Sizes
  <1>3. p \in ScbRec(BufLen)
    BY <1>1 DEF DiscScb
  <1>4. Moved(s) = m
    BY <1>1 DEF Moved
  <1>5. Longer(s) = l
    BY <1>3, <1>4 DEF Longer, ScbRec
  <1> HIDE DEF p, b
  <1>6. DiscScb(m) /\ DiscScb(l)
    <2>1. \A x, y \in Nat : /\ DiscScb([p EXCEPT !.block = x, !.pos = 0, !.end = 0])
                            /\ DiscScb([p EXCEPT !.block = x, !.pos = 0, !.end = 0,
                                                 !.lblock = y])
      BY <1>1, <1>2, BlockSet, Zenon
    <2> QED
      BY <1>2, <2>1, Zenon
  <1>7. /\ m.kind = p.kind /\ m.block = b /\ m.lblock = p.lblock /\ m.pos = 0 /\ m.end = 0
        /\ m.write = p.write /\ m.ldata = p.ldata /\ m.fd = p.fd
    BY <1>3 DEF ScbRec
  <1>8. /\ l.kind = p.kind /\ l.block = b /\ l.lblock = b /\ l.pos = 0 /\ l.end = 0
        /\ l.write = p.write /\ l.ldata = p.ldata /\ l.fd = p.fd
    BY <1>3 DEF ScbRec
  <1> HIDE DEF m, l
  <1> QED
    BY <1>1, <1>4, <1>5, <1>6, <1>7, <1>8 DEF p, b

LEMMA WrfnIs ==
  ASSUME NEW s, DiscScb(s)
  PROVE  Fh0Wrfn(s) = IF s.pos < s.bufend THEN Ok(PutIfChanged(s))
                      ELSE IF s.block + 1 > s.lblock THEN Ok(Longer(s))
                      ELSE Ok(IF s.kind = "inout" THEN GetBuf(Moved(s)) ELSE Moved(s))
  <1>1. Moved(s).block = s.block + 1 /\ Moved(s).lblock = s.lblock
    BY MovedIs
  <1> QED
    BY <1>1 DEF Fh0Wrfn, Moved, Longer

LEMMA WrfnResult ==
  ASSUME NEW s, DiscScb(s)
  PROVE  /\ Result(Fh0Wrfn(s), s) /\ Fh0Wrfn(s).ok = TRUE
         /\ s.pos >= s.bufend => Fh0Wrfn(s).s.pos < Fh0Wrfn(s).s.bufend
  <1> DEFINE g == GetBuf(Moved(s))
  <1>1. /\ DiscScb(PutIfChanged(s)) /\ PutIfChanged(s).kind = s.kind
        /\ DiscScb(Moved(s)) /\ Moved(s).kind = s.kind
        /\ DiscScb(Longer(s)) /\ Longer(s).kind = s.kind
        /\ Moved(s).pos = 0 /\ Longer(s).pos = 0
    BY PutIs, MovedIs
  <1>2. DiscScb(g) /\ g.kind = s.kind /\ g.pos = 0
    BY <1>1, GetIs
  <1>3. /\ Result(Ok(PutIfChanged(s)), s) /\ Result(Ok(Moved(s)), s)
        /\ Result(Ok(Longer(s)), s) /\ Result(Ok(g), s)
    BY <1>1, <1>2, ResultIs, Zenon DEF OpenScb
  <1>4. \A t : Ok(t).s = t /\ Ok(t).ok = TRUE
    BY DEF Ok
  <1>5. \A t : DiscScb(t) /\ t.pos = 0 => t.pos < t.bufend
    BY DiscFields, Sizes
  <1> HIDE DEF g
  <1>6. CASE s.pos < s.bufend
    <2>1. Fh0Wrfn(s) = Ok(PutIfChanged(s))
      BY <1>6, WrfnIs, Zenon
    <2>2. ~(s.pos >= s.bufend)
      BY <1>6, DiscFields, Sizes
    <2> QED
      BY <1>3, <1>4, <2>1, <2>2, Zenon
  <1>7. CASE ~(s.pos < s.bufend)
    <2>1. \E t \in {Longer(s), g, Moved(s)} : Fh0Wrfn(s) = Ok(t)
      BY <1>7, WrfnIs DEF g
    <2>2. PICK t \in {Longer(s), g, Moved(s)} : Fh0Wrfn(s) = Ok(t)
      BY <2>1, Zenon
    <2>3. DiscScb(t) /\ t.pos = 0 /\ Result(Ok(t), s)
      BY <1>1, <1>2, <1>3, <2>2, Zenon
    <2>4. t.pos < t.bufend /\ Ok(t).s = t /\ Ok(t).ok = TRUE
      BY <1>4, <1>5, <2>3, Zenon
    <2> QED
      BY <2>2, <2>3, <2>4, Zenon
  <1> QED
    BY <1>6, <1>7, Zenon

LEMMA GrownIs ==
  ASSUME NEW s, RamScb(s)
  PROVE  /\ RamScb(Grown(s)) /\ Grown(s).kind = s.kind /\ Grown(s).pos = s.pos
         /\ Grown(s).end = s.end /\ Grown(s).bufend = 2 * s.bufend /\ Grown(s).fd = s.fd
         /\ Grown(s).block = 0 /\ Grown(s).lblock = 0
         /\ \A i \in 0 .. s.bufend - 1 : Grown(s).buf[i] = s.buf[i]
  <1> DEFINE len == 2 * s.bufend
             b == [i \in 0 .. len - 1 |-> IF i < s.bufend THEN s.buf[i] ELSE Junk]
             g == [s EXCEPT !.bufend = len, !.buf = b]
             B == [0 .. len - 1 -> Bytes]
             P == 0 .. len
  <1>1. /\ s \in ScbRec(s.bufend) /\ s.buf \in [0 .. s.bufend - 1 -> Bytes]
        /\ s.bufend \in Nat \ {0} /\ s.kind = "ram" /\ s.block = 0 /\ s.lblock = 0
    BY RamFields DEF RamScb
  <1>2. Grown(s) = g
    BY DEF Grown
  <1>3. /\ b \in B /\ len \in Nat \ {0}
        /\ s.pos \in P /\ s.end \in P
    BY <1>1, RamFields, Sizes
  <1>4. \A i \in 0 .. s.bufend - 1 : b[i] = s.buf[i]
    BY <1>1
  <1> HIDE DEF len, b, B, P
  <1>5. /\ g.kind = "ram" /\ g.pos = s.pos /\ g.end = s.end /\ g.bufend = len
        /\ g.fd = s.fd /\ g.buf = b /\ g.block = 0 /\ g.lblock = 0
    BY <1>1 DEF ScbRec
  <1>6. g \in ScbRec(len)
    BY <1>1, <1>3 DEF ScbRec, B, P
  <1> HIDE DEF g
  <1> QED
    BY <1>1, <1>2, <1>3, <1>4, <1>5, <1>6 DEF RamScb, len

LEMMA RamWrfnIs ==
  ASSUME NEW s
  PROVE  RamWrfn(s) = IF 2 * s.bufend > RamMax THEN Fails(s) ELSE Ok(Grown(s))
  BY DEF RamWrfn, Grown

(* A deplete that succeeds leaves room in a full buffer.                   *)
LEMMA DepleteResult ==
  ASSUME NEW s, OpenScb(s)
  PROVE  /\ Result(DepleteOf(s), s)
         /\ DepleteOf(s).ok /\ s.pos >= s.bufend => DepleteOf(s).s.pos < DepleteOf(s).s.bufend
  <1>1. Result(Fails(s), s) /\ Fails(s).ok = FALSE
    <2>1. Result(Fails(s), s)
      BY ResultIs, Zenon
    <2>2. Fails(s).ok = FALSE
      BY DEF Fails
    <2> QED
      BY <2>1, <2>2
  <1>2. CASE s.kind \in {"out", "inout", "append"}
    <2>1. DiscScb(s)
      BY <1>2, OpenFields DEF DiscKind
    <2>2. DepleteOf(s) = Fh0Wrfn(s)
      BY <1>2 DEF DepleteOf
    <2> QED
      BY <2>1, <2>2, WrfnResult
  <1>3. CASE s.kind = "ram"
    <2>1. RamScb(s)
      BY <1>3, OpenFields
    <2>2. DepleteOf(s) = IF 2 * s.bufend > RamMax THEN Fails(s) ELSE Ok(Grown(s))
      BY <1>3, RamWrfnIs DEF DepleteOf
    <2>3. /\ RamScb(Grown(s)) /\ Grown(s).kind = s.kind /\ Grown(s).pos = s.pos
          /\ Grown(s).bufend = 2 * s.bufend
      BY <2>1, GrownIs, Zenon
    <2>4. Result(Ok(Grown(s)), s)
      BY <2>3, ResultIs, Zenon DEF OpenScb
    <2>5. Ok(Grown(s)).s = Grown(s) /\ Grown(s).pos < Grown(s).bufend
      BY <2>1, <2>3, RamFields DEF Ok
    <2> QED
      BY <1>1, <2>2, <2>4, <2>5
  <1>4. CASE s.kind \notin {"out", "inout", "append", "ram"}
    BY <1>1, <1>4 DEF DepleteOf
  <1> QED
    BY <1>2, <1>3, <1>4

-----------------------------------------------------------------------------
(* Runs of bytes: what a call keeps for every byte it keeps to the end.    *)
LEMMA GetBytesKeeps ==
  ASSUME NEW s, NEW k \in Nat, NEW T,
         [s |-> s, ok |-> TRUE, code |-> 0, got |-> <<>>] \in T,
         \A r \in T : GetByte(r) \in T
  PROVE  GetBytes(s, k) \in T
  <1> DEFINE a == [s |-> s, ok |-> TRUE, code |-> 0, got |-> <<>>]
             Solves(n, g) == g = [i \in 0 .. n |-> IF i = 0 THEN a ELSE GetByte(g[i - 1])]
  <1> HIDE DEF a
  <1>1. \A n \in Nat : \E g : Solves(n, g)
    <2> DEFINE F == {n \in Nat : ~\E g : Solves(n, g)}
    <2>1. SUFFICES ASSUME F # {} PROVE FALSE
      OBVIOUS
    <2>2. PICK n \in F : \A j \in F : n <= j
      BY <2>1, LeastNat
    <2>3. n # 0
      <3>1. Solves(0, [i \in 0 .. 0 |-> a])
        OBVIOUS
      <3> QED
        BY <3>1
    <2>4. n - 1 \in Nat /\ n - 1 \notin F
      <3>1. n \in Nat
        OBVIOUS
      <3> HIDE DEF F
      <3> QED
        BY <3>1, <2>2, <2>3
    <2>5. PICK g : Solves(n - 1, g)
      BY <2>4
    <2> DEFINE h == [i \in 0 .. n |-> IF i = n THEN GetByte(g[n - 1]) ELSE g[i]]
    <2>6. n \in Nat /\ n > 0
      BY <2>3
    <2>7. ASSUME NEW i \in 0 .. n PROVE h[i] = IF i = 0 THEN a ELSE GetByte(h[i - 1])
      <3>1. CASE i = 0
        <4>1. h[0] = g[0] /\ g[0] = a
          BY <2>5, <2>6
        <4> QED
          BY <3>1, <4>1
      <3>2. CASE i = n
        <4>1. h[i - 1] = g[n - 1] /\ h[i] = GetByte(g[n - 1])
          BY <2>6, <3>2
        <4> QED
          BY <2>6, <3>2, <4>1
      <3>3. CASE i # 0 /\ i # n
        <4>1. i \in 0 .. n - 1 /\ h[i] = g[i] /\ h[i - 1] = g[i - 1]
          BY <2>6, <3>3
        <4>2. g[i] = GetByte(g[i - 1])
          BY <2>5, <3>3, <4>1
        <4> QED
          BY <3>3, <4>1, <4>2
      <3> QED
        BY <3>1, <3>2, <3>3
    <2>8. h = [i \in 0 .. n |-> h[i]]
      OBVIOUS
    <2> HIDE DEF h
    <2>9. Solves(n, h)
      BY <2>7, <2>8
    <2> QED
      BY <2>2, <2>9
  <1> DEFINE r == CHOOSE g : Solves(k, g)
  <1>2. GetBytes(s, k) = r[k]
    BY DEF GetBytes, a
  <1>3. Solves(k, r)
    <2>1. \E g : Solves(k, g)
      BY <1>1
    <2> HIDE DEF Solves
    <2> QED
      BY <2>1
  <1> HIDE DEF r
  <1>4. \A i \in 0 .. k : r[i] = IF i = 0 THEN a ELSE GetByte(r[i - 1])
    BY <1>3
  <1> DEFINE F == {i \in Nat : i <= k /\ r[i] \notin T}
  <1>5. F = {}
    <2>1. SUFFICES ASSUME F # {} PROVE FALSE
      OBVIOUS
    <2>2. PICK i \in F : \A j \in F : i <= j
      BY <2>1, LeastNat
    <2>3. i \in 0 .. k /\ r[i] \notin T
      BY <2>2
    <2>4. i # 0
      BY <1>4, <2>3 DEF a
    <2>5. i - 1 \in Nat /\ i - 1 <= k /\ i - 1 \notin F
      BY <2>2, <2>3, <2>4
    <2>6. r[i - 1] \in T /\ r[i] = GetByte(r[i - 1])
      BY <1>4, <2>3, <2>4, <2>5
    <2> QED
      BY <2>3, <2>6
  <1> QED
    BY <1>2, <1>5

LEMMA PutBytesGoes ==
  ASSUME NEW s, NEW d \in Seq(Byte), NEW T, Ok(s) \in T[0],
         \A i \in 1 .. Len(d) : \A r \in T[i - 1] : PutByte(r, d[i]) \in T[i]
  PROVE  PutBytes(s, d) \in T[Len(d)]
  <1> DEFINE k == Len(d)
             Solves(n, g) == g = [i \in 0 .. n |->
                                    IF i = 0 THEN Ok(s) ELSE PutByte(g[i - 1], d[i])]
  <1>0. k \in Nat /\ \A i \in 1 .. k : d[i] \in Byte
    BY LenProperties, ElementOfSeq
  <1>1. \A n \in Nat : \E g : Solves(n, g)
    <2> DEFINE F == {n \in Nat : ~\E g : Solves(n, g)}
    <2>1. SUFFICES ASSUME F # {} PROVE FALSE
      OBVIOUS
    <2>2. PICK n \in F : \A j \in F : n <= j
      BY <2>1, LeastNat
    <2>3. n # 0
      <3>1. Solves(0, [i \in 0 .. 0 |-> Ok(s)])
        OBVIOUS
      <3> QED
        BY <3>1
    <2>4. n - 1 \in Nat /\ n - 1 \notin F
      <3>1. n \in Nat
        OBVIOUS
      <3> HIDE DEF F
      <3> QED
        BY <3>1, <2>2, <2>3
    <2>5. PICK g : Solves(n - 1, g)
      BY <2>4
    <2> DEFINE h == [i \in 0 .. n |-> IF i = n THEN PutByte(g[n - 1], d[n]) ELSE g[i]]
    <2>6. n \in Nat /\ n > 0
      BY <2>3
    <2>7. ASSUME NEW i \in 0 .. n PROVE h[i] = IF i = 0 THEN Ok(s) ELSE PutByte(h[i - 1], d[i])
      <3>1. CASE i = 0
        <4>1. h[0] = g[0] /\ g[0] = Ok(s)
          BY <2>5, <2>6
        <4> QED
          BY <3>1, <4>1
      <3>2. CASE i = n
        <4>1. h[i - 1] = g[n - 1] /\ h[i] = PutByte(g[n - 1], d[n])
          BY <2>6, <3>2
        <4> QED
          BY <2>6, <3>2, <4>1
      <3>3. CASE i # 0 /\ i # n
        <4>1. i \in 0 .. n - 1 /\ h[i] = g[i] /\ h[i - 1] = g[i - 1]
          BY <2>6, <3>3
        <4>2. g[i] = PutByte(g[i - 1], d[i])
          BY <2>5, <3>3, <4>1
        <4> QED
          BY <3>3, <4>1, <4>2
      <3> QED
        BY <3>1, <3>2, <3>3
    <2>8. h = [i \in 0 .. n |-> h[i]]
      OBVIOUS
    <2> HIDE DEF h
    <2>9. Solves(n, h)
      BY <2>7, <2>8
    <2> QED
      BY <2>2, <2>9
  <1> DEFINE r == CHOOSE g : Solves(k, g)
  <1>2. PutBytes(s, d) = r[k]
    BY DEF PutBytes
  <1>3. Solves(k, r)
    <2>1. \E g : Solves(k, g)
      BY <1>0, <1>1
    <2> HIDE DEF Solves
    <2> QED
      BY <2>1
  <1> HIDE DEF r, k
  <1>4. \A i \in 0 .. k : r[i] = IF i = 0 THEN Ok(s) ELSE PutByte(r[i - 1], d[i])
    BY <1>3
  <1> DEFINE F == {i \in Nat : i <= k /\ r[i] \notin T[i]}
  <1>5. F = {}
    <2>1. SUFFICES ASSUME F # {} PROVE FALSE
      OBVIOUS
    <2>2. PICK i \in F : \A j \in F : i <= j
      BY <2>1, LeastNat
    <2>3. i \in 0 .. k /\ r[i] \notin T[i]
      BY <1>0, <2>2
    <2>4. i # 0
      BY <1>4, <2>3
    <2>5. i - 1 \in Nat /\ i - 1 <= k /\ i - 1 \notin F
      BY <1>0, <2>2, <2>3, <2>4
    <2>6. r[i - 1] \in T[i - 1] /\ r[i] = PutByte(r[i - 1], d[i]) /\ i \in 1 .. k
      BY <1>0, <1>4, <2>3, <2>4, <2>5
    <2> QED
      BY <2>3, <2>6 DEF k
  <1>6. r[k] \in T[k]
    BY <1>0, <1>5
  <1> QED
    BY <1>2, <1>6 DEF k

LEMMA PutBytesKeeps ==
  ASSUME NEW s, NEW d \in Seq(Byte), NEW T, Ok(s) \in T[0],
         \A i \in 1 .. Len(d) : \A r \in T[i - 1] : \A b \in Byte : PutByte(r, b) \in T[i]
  PROVE  PutBytes(s, d) \in T[Len(d)]
  <1>1. \A i \in 1 .. Len(d) : d[i] \in Byte
    BY ElementOfSeq
  <1>2. \A i \in 1 .. Len(d) : \A r \in T[i - 1] : PutByte(r, d[i]) \in T[i]
    BY <1>1
  <1> QED
    BY <1>2, PutBytesGoes

LEMMA PutOneIs ==
  ASSUME NEW s, NEW b \in Byte
  PROVE  PutBytes(s, <<b>>) = PutByte(Ok(s), b)
  <1> DEFINE d == <<b>>
             T == [i \in 0 .. 1 |-> IF i = 0 THEN {Ok(s)} ELSE {PutByte(Ok(s), b)}]
  <1>1. d \in Seq(Byte) /\ Len(d) = 1 /\ d[1] = b
    OBVIOUS
  <1>2. T[0] = {Ok(s)} /\ T[1] = {PutByte(Ok(s), b)}
    OBVIOUS
  <1> HIDE DEF d, T
  <1>3. \A i \in 1 .. Len(d) : \A r \in T[i - 1] : PutByte(r, d[i]) \in T[i]
    <2> SUFFICES ASSUME NEW i \in 1 .. Len(d), NEW r \in T[i - 1]
                 PROVE  PutByte(r, d[i]) \in T[i]
      OBVIOUS
    <2>1. i = 1 /\ i - 1 = 0
      BY <1>1
    <2>2. r = Ok(s) /\ d[i] = b
      BY <1>1, <1>2, <2>1
    <2> QED
      BY <1>2, <2>1, <2>2
  <1>4. PutBytes(s, d) \in T[Len(d)]
    BY <1>1, <1>2, <1>3, PutBytesGoes
  <1>5. PutBytes(s, d) = PutByte(Ok(s), b)
    BY <1>1, <1>2, <1>4
  <1> QED
    BY <1>5 DEF d

LEMMA PosSet ==
  ASSUME NEW s, OpenScb(s), NEW p \in 0 .. s.bufend
  PROVE  /\ OpenScb([s EXCEPT !.pos = p]) /\ [s EXCEPT !.pos = p].pos = p
         /\ [s EXCEPT !.pos = p].kind = s.kind /\ [s EXCEPT !.pos = p].buf = s.buf
         /\ [s EXCEPT !.pos = p].end = s.end /\ [s EXCEPT !.pos = p].block = s.block
         /\ [s EXCEPT !.pos = p].write = s.write /\ [s EXCEPT !.pos = p].bufend = s.bufend
         /\ [s EXCEPT !.pos = p].lblock = s.lblock /\ [s EXCEPT !.pos = p].ldata = s.ldata
         /\ [s EXCEPT !.pos = p].fd = s.fd
  <1> DEFINE P == 0 .. s.bufend
  <1>1. s \in ScbRec(s.bufend)
    BY DiscFields DEF OpenScb, DiscScb, RamScb
  <1>2. p \in P
    OBVIOUS
  <1> HIDE DEF P
  <1>3. [s EXCEPT !.pos = p] \in ScbRec(s.bufend)
    BY <1>1, <1>2 DEF ScbRec, P
  <1>4. /\ [s EXCEPT !.pos = p].pos = p
        /\ [s EXCEPT !.pos = p].kind = s.kind /\ [s EXCEPT !.pos = p].buf = s.buf
        /\ [s EXCEPT !.pos = p].end = s.end /\ [s EXCEPT !.pos = p].block = s.block
        /\ [s EXCEPT !.pos = p].write = s.write /\ [s EXCEPT !.pos = p].bufend = s.bufend
        /\ [s EXCEPT !.pos = p].lblock = s.lblock /\ [s EXCEPT !.pos = p].ldata = s.ldata
        /\ [s EXCEPT !.pos = p].fd = s.fd
    BY <1>1 DEF ScbRec
  <1> DEFINE u == [s EXCEPT !.pos = p]
  <1> HIDE DEF u
  <1>5. u \in ScbRec(s.bufend) /\ u.kind = s.kind /\ u.block = s.block /\ u.lblock = s.lblock
        /\ u.bufend = s.bufend
    BY <1>3, <1>4 DEF u
  <1>6. OpenScb(u)
    <2>1. CASE DiscScb(s)
      BY <1>5, <2>1, DiscFields DEF OpenScb, DiscScb
    <2>2. CASE RamScb(s)
      BY <1>5, <2>2 DEF OpenScb, RamScb
    <2> QED
      BY <2>1, <2>2 DEF OpenScb
  <1> QED
    BY <1>4, <1>6 DEF u

(* One byte read: what getting a byte leaves is Taken from the buffer, or  *)
(* what replenish has left.                                                *)
Taken(r, u, c) == [s |-> [u EXCEPT !.pos = @ + 1], ok |-> TRUE, code |-> c,
                   got |-> Append(r.got, u.buf[u.pos])]
Stuck(r, t) == [s |-> t.s, ok |-> FALSE, code |-> t.code, got |-> r.got]
Input == [s : UNION {ScbRec(n) : n \in Nat}, ok : BOOLEAN, code : Codes,
          got : Seq(Bytes)]
Reading(r, s) == r \in Input /\ OpenScb(r.s) /\ r.s.kind = s.kind

LEMMA GetByteIs ==
  ASSUME NEW r
  PROVE  GetByte(r) = CASE ~r.ok -> r
                        [] r.ok /\ r.s.pos < r.s.end -> Taken(r, r.s, r.code)
                        [] OTHER ->
                             IF Replenish(r.s).ok /\ Replenish(r.s).s.pos < Replenish(r.s).s.end
                             THEN Taken(r, Replenish(r.s).s, r.code)
                             ELSE Stuck(r, Replenish(r.s))
  BY DEF GetByte, Taken, Stuck

LEMMA TakenIs ==
  ASSUME NEW s, NEW r, NEW u, Reading(r, s), OpenScb(u), u.kind = s.kind, u.pos < u.end
  PROVE  /\ Reading(Taken(r, u, r.code), s)
         /\ Taken(r, u, r.code).s = [u EXCEPT !.pos = u.pos + 1]
  <1> DEFINE p == u.pos + 1
             v == [u EXCEPT !.pos = p]
             g == Append(r.got, u.buf[u.pos])
  <1>1. /\ u.pos \in Nat /\ u.end \in Nat /\ u.end <= u.bufend /\ u.bufend \in Nat
        /\ u.buf \in [0 .. u.bufend - 1 -> Bytes]
    BY OpenFields
  <1>2. p \in 0 .. u.bufend /\ u.pos \in 0 .. u.bufend - 1
    BY <1>1
  <1>3. OpenScb(v) /\ v.kind = s.kind
    BY <1>2, PosSet
  <1>4. r.got \in Seq(Bytes) /\ r.code \in Codes
    BY DEF Reading, Input
  <1>5. g \in Seq(Bytes)
    BY <1>1, <1>2, <1>4, AppendProperties
  <1> HIDE DEF v, g
  <1>6. Taken(r, u, r.code) = [s |-> v, ok |-> TRUE, code |-> r.code, got |-> g]
    BY DEF Taken, v, g
  <1>7. v \in UNION {ScbRec(n) : n \in Nat}
    BY <1>3, Sizes DEF OpenScb, DiscScb, RamScb
  <1>8. Reading([s |-> v, ok |-> TRUE, code |-> r.code, got |-> g], s)
    BY <1>3, <1>4, <1>5, <1>7 DEF Reading, Input
  <1> QED
    BY <1>6, <1>8 DEF v

LEMMA GetByteReads ==
  ASSUME NEW s, NEW r, Reading(r, s)
  PROVE  Reading(GetByte(r), s)
  <1> DEFINE t == Replenish(r.s)
  <1>1. r.ok \in BOOLEAN /\ OpenScb(r.s) /\ r.s.kind = s.kind
    BY DEF Reading, Input
  <1>2. Result(t, r.s)
    BY <1>1, ReplenishResult
  <1>3. OpenScb(t.s) /\ t.s.kind = s.kind /\ t.ok \in BOOLEAN
    BY <1>1, <1>2 DEF Result, Outcome
  <1>4. Reading(Stuck(r, t), s)
    BY <1>1, <1>2 DEF Result, Reading, Outcome, Input, Stuck
  <1> HIDE DEF t
  <1>5. GetByte(r) = CASE ~r.ok -> r
                       [] r.ok /\ r.s.pos < r.s.end -> Taken(r, r.s, r.code)
                       [] OTHER -> IF t.ok /\ t.s.pos < t.s.end THEN Taken(r, t.s, r.code)
                                   ELSE Stuck(r, t)
    BY GetByteIs DEF t
  <1>6. CASE ~r.ok
    BY <1>5, <1>6
  <1>7. CASE r.ok /\ r.s.pos < r.s.end
    <2>1. GetByte(r) = Taken(r, r.s, r.code)
      BY <1>5, <1>7
    <2>2. Reading(Taken(r, r.s, r.code), s)
      BY <1>1, <1>7, TakenIs, Zenon
    <2> QED
      BY <2>1, <2>2, Zenon
  <1>8. CASE r.ok /\ ~(r.s.pos < r.s.end)
    <2>1. GetByte(r) = IF t.ok /\ t.s.pos < t.s.end THEN Taken(r, t.s, r.code) ELSE Stuck(r, t)
      BY <1>5, <1>8
    <2>2. CASE t.ok /\ t.s.pos < t.s.end
      <3>1. Reading(Taken(r, t.s, r.code), s)
        BY <1>3, <2>2, TakenIs, Zenon
      <3> QED
        BY <2>1, <2>2, <3>1
    <2>3. CASE ~(t.ok /\ t.s.pos < t.s.end)
      BY <1>4, <2>1, <2>3
    <2> QED
      BY <2>2, <2>3
  <1> QED
    BY <1>1, <1>6, <1>7, <1>8

LEMMA GetBytesReads ==
  ASSUME NEW s, OpenScb(s), NEW k \in Nat
  PROVE  Reading(GetBytes(s, k), s)
  <1> DEFINE T == {r \in Input : OpenScb(r.s) /\ r.s.kind = s.kind}
             a == [s |-> s, ok |-> TRUE, code |-> 0, got |-> <<>>]
  <1>1. \A r : r \in T <=> Reading(r, s)
    BY DEF Reading
  <1>2. a \in T
    <2>1. s \in UNION {ScbRec(n) : n \in Nat}
      BY Sizes DEF OpenScb, DiscScb, RamScb
    <2>2. <<>> \in Seq(Bytes) /\ 0 \in Codes
      BY EmptySeq DEF Codes
    <2> QED
      BY <2>1, <2>2 DEF Input
  <1> HIDE DEF T
  <1>3. \A r \in T : GetByte(r) \in T
    BY <1>1, GetByteReads
  <1>4. GetBytes(s, k) \in T
    BY <1>2, <1>3, GetBytesKeeps
  <1> QED
    BY <1>1, <1>4

(* One byte written into the buffer.                                       *)
BytePut(u, b) == [u EXCEPT !.buf[u.pos] = b, !.pos = @ + 1,
                           !.end = Most(@, u.pos + 1), !.write = TRUE]
Room(s) == IF s.pos >= s.bufend THEN DepleteOf(s) ELSE Ok(s)

LEMMA BytePutIs ==
  ASSUME NEW u, OpenScb(u), u.pos < u.bufend, NEW b \in Bytes
  PROVE  LET v == BytePut(u, b)
         IN  /\ OpenScb(v) /\ v.kind = u.kind /\ v.pos = u.pos + 1
             /\ v.end = Most(u.end, u.pos + 1) /\ v.block = u.block /\ v.write = TRUE
             /\ v.bufend = u.bufend /\ v.lblock = u.lblock /\ v.ldata = u.ldata /\ v.fd = u.fd
             /\ \A i \in 0 .. u.bufend - 1 : v.buf[i] = IF i = u.pos THEN b ELSE u.buf[i]
  <1> DEFINE x == [u.buf EXCEPT ![u.pos] = b]
             p == u.pos + 1
             e == Most(u.end, p)
             v == [u EXCEPT !.buf = x, !.pos = p, !.end = e, !.write = TRUE]
             B == [0 .. u.bufend - 1 -> Bytes]
             P == 0 .. u.bufend
  <1>1. /\ u.pos \in Nat /\ u.end \in Nat /\ u.end <= u.bufend /\ u.bufend \in Nat
        /\ u.buf \in B
    BY OpenFields
  <1>2. x \in B /\ \A i \in 0 .. u.bufend - 1 : x[i] = IF i = u.pos THEN b ELSE u.buf[i]
    BY <1>1
  <1>3. p \in P /\ e \in P
    BY <1>1 DEF Most
  <1>4. u \in ScbRec(u.bufend)
    BY DiscFields DEF OpenScb, DiscScb, RamScb
  <1>5. BytePut(u, b) = v
    BY DEF BytePut
  <1> HIDE DEF x, p, e, P, B
  <1>6. v \in ScbRec(u.bufend)
    BY <1>2, <1>3, <1>4 DEF ScbRec, P, B
  <1>7. /\ v.kind = u.kind /\ v.pos = p /\ v.end = e /\ v.block = u.block /\ v.write = TRUE
        /\ v.bufend = u.bufend /\ v.lblock = u.lblock /\ v.ldata = u.ldata /\ v.fd = u.fd
        /\ v.buf = x
    BY <1>4 DEF ScbRec
  <1> HIDE DEF v
  <1>8. OpenScb(v)
    <2>1. CASE DiscScb(u)
      BY <1>6, <1>7, <2>1, DiscFields DEF OpenScb, DiscScb
    <2>2. CASE RamScb(u)
      BY <1>6, <1>7, <2>2 DEF OpenScb, RamScb
    <2> QED
      BY <2>1, <2>2 DEF OpenScb
  <1> QED
    BY <1>2, <1>5, <1>7, <1>8 DEF p, e

LEMMA BytePutShows ==
  ASSUME NEW u, OpenScb(u), u.pos < u.bufend, NEW b \in Bytes
  PROVE  /\ OpenScb(BytePut(u, b)) /\ BytePut(u, b).kind = u.kind
         /\ BytePut(u, b).end = Most(u.end, u.pos + 1) /\ BytePut(u, b).block = u.block
         /\ BytePut(u, b).write = TRUE /\ BytePut(u, b).bufend = u.bufend
         /\ BytePut(u, b).fd = u.fd
         /\ \A i \in 0 .. u.bufend - 1 :
              BytePut(u, b).buf[i] = IF i = u.pos THEN b ELSE u.buf[i]
  <1>1. OpenScb(BytePut(u, b)) /\ BytePut(u, b).kind = u.kind
    BY BytePutIs
  <1>2. /\ BytePut(u, b).end = Most(u.end, u.pos + 1) /\ BytePut(u, b).block = u.block
        /\ BytePut(u, b).write = TRUE
    BY BytePutIs
  <1>3. BytePut(u, b).bufend = u.bufend /\ BytePut(u, b).fd = u.fd
    BY BytePutIs
  <1>4. u.bufend \in Nat /\ u.pos \in Nat /\ u.buf \in [0 .. u.bufend - 1 -> Bytes]
    BY OpenFields
  <1>5. BytePut(u, b).buf = [u.buf EXCEPT ![u.pos] = b]
    <2>1. u \in ScbRec(u.bufend)
      BY DiscFields DEF OpenScb, DiscScb, RamScb
    <2> QED
      BY <2>1 DEF ScbRec, BytePut
  <1>6. ASSUME NEW i \in 0 .. u.bufend - 1
        PROVE  BytePut(u, b).buf[i] = IF i = u.pos THEN b ELSE u.buf[i]
    BY <1>4, <1>5
  <1> QED
    BY <1>1, <1>2, <1>3, <1>6, Zenon

LEMMA PutByteIs ==
  ASSUME NEW r, NEW b
  PROVE  PutByte(r, b) = IF ~r.ok THEN r ELSE IF ~Room(r.s).ok THEN Room(r.s)
                         ELSE Ok(BytePut(Room(r.s).s, b))
  BY DEF PutByte, Room, BytePut

LEMMA RoomIs ==
  ASSUME NEW s, OpenScb(s)
  PROVE  /\ Result(Room(s), s)
         /\ Room(s).ok => Room(s).s.pos < Room(s).s.bufend
  <1>1. Result(Ok(s), s)
    BY ResultIs, Zenon
  <1>2. CASE s.pos >= s.bufend
    BY <1>2, DepleteResult DEF Room
  <1>3. CASE ~(s.pos >= s.bufend)
    <2>1. Room(s) = Ok(s)
      BY <1>3 DEF Room
    <2>2. Ok(s).s = s /\ s.pos < s.bufend
      BY <1>3, OpenFields DEF Ok
    <2> QED
      BY <1>1, <2>1, <2>2
  <1> QED
    BY <1>2, <1>3

LEMMA PutByteResult ==
  ASSUME NEW s, NEW r, Result(r, s), NEW b \in Bytes
  PROVE  Result(PutByte(r, b), s)
  <1> DEFINE d == Room(r.s)
  <1>1. OpenScb(r.s) /\ r.s.kind = s.kind /\ r.ok \in BOOLEAN
    BY DEF Result, Outcome
  <1>2. Result(d, r.s) /\ (d.ok => d.s.pos < d.s.bufend)
    BY <1>1, RoomIs
  <1>3. OpenScb(d.s) /\ d.s.kind = s.kind /\ d.ok \in BOOLEAN /\ Result(d, s)
    BY <1>1, <1>2 DEF Result, Outcome
  <1>4. PutByte(r, b) = IF ~r.ok THEN r ELSE IF ~d.ok THEN d ELSE Ok(BytePut(d.s, b))
    BY PutByteIs
  <1> HIDE DEF d
  <1>5. ASSUME d.ok PROVE Result(Ok(BytePut(d.s, b)), s)
    <2>1. OpenScb(BytePut(d.s, b)) /\ BytePut(d.s, b).kind = d.s.kind
      BY <1>2, <1>3, <1>5, BytePutIs
    <2>2. BytePut(d.s, b).kind = s.kind
      BY <1>3, <2>1
    <2> QED
      BY <2>1, <2>2, ResultIs, Zenon
  <1> QED
    BY <1>3, <1>4, <1>5

LEMMA PutBytesResult ==
  ASSUME NEW s, OpenScb(s), NEW d \in Seq(Byte)
  PROVE  Result(PutBytes(s, d), s)
  <1> DEFINE R == {r \in Outcome : OpenScb(r.s) /\ r.s.kind = s.kind}
             T == [i \in 0 .. Len(d) |-> R]
  <1>1. \A r : r \in R <=> Result(r, s)
    BY DEF Result
  <1>2. Result(Ok(s), s)
    BY ResultIs, Zenon
  <1>3. \A r : Result(r, s) => \A b \in Byte : Result(PutByte(r, b), s)
    BY PutByteResult, Sizes
  <1> HIDE DEF R
  <1>4. Len(d) \in Nat /\ \A i \in 0 .. Len(d) : T[i] = R
    BY LenProperties
  <1>5. Ok(s) \in R /\ \A r \in R : \A b \in Byte : PutByte(r, b) \in R
    BY <1>1, <1>2, <1>3
  <1> HIDE DEF T
  <1>6. /\ Ok(s) \in T[0]
        /\ \A i \in 1 .. Len(d) : \A r \in T[i - 1] : \A b \in Byte : PutByte(r, b) \in T[i]
    <2>1. \A i \in 1 .. Len(d) : i - 1 \in 0 .. Len(d) /\ i \in 0 .. Len(d)
      BY <1>4
    <2>2. 0 \in 0 .. Len(d)
      BY <1>4
    <2> QED
      BY <1>4, <1>5, <2>1, <2>2
  <1>7. PutBytes(s, d) \in T[Len(d)]
    BY <1>6, PutBytesKeeps
  <1> QED
    BY <1>1, <1>4, <1>7

-----------------------------------------------------------------------------
(* Places: quotients and remainders, and what point does.                  *)
LEMMA DivModIs ==
  ASSUME NEW a \in Nat, NEW n \in Nat \ {0}
  PROVE  /\ a \div n \in Nat /\ a % n \in Nat /\ a % n < n
         /\ a = n * (a \div n) + (a % n)
         /\ n * (a \div n) \in Nat
  <1>1. a % n \in 0 .. n - 1
    OBVIOUS
  <1>2. a \div n \in Nat
    OBVIOUS
  <1>3. a = n * (a \div n) + (a % n)
    OBVIOUS
  <1>4. n * (a \div n) \in Nat
    BY <1>2
  <1> QED
    BY <1>1, <1>2, <1>3, <1>4

LEMMA Multiplied ==
  ASSUME NEW n \in Nat, NEW a \in Nat, NEW b \in Nat, a <= b
  PROVE  n * a <= n * b /\ n * a \in Nat /\ n * b \in Nat
  <1>1. \A c \in Nat : n * c \in Nat
    OBVIOUS
  <1>2. \A c \in Nat : n * (a + c) = n * a + n * c
    OBVIOUS
  <1>3. b - a \in Nat /\ a + (b - a) = b
    OBVIOUS
  <1>4. n * b = n * a + n * (b - a) /\ n * a \in Nat /\ n * (b - a) \in Nat
    BY <1>1, <1>2, <1>3
  <1> QED
    BY <1>1, <1>4

(* The quotient and the remainder are the only numbers of their kind.      *)
LEMMA DivModUnique ==
  ASSUME NEW n \in Nat \ {0}, NEW q \in Nat, NEW r \in 0 .. n - 1
  PROVE  (n * q + r) \div n = q /\ (n * q + r) % n = r
  <1> DEFINE a == n * q + r
             d == a \div n
             m == a % n
  <1>1. a \in Nat /\ n * q \in Nat
    OBVIOUS
  <1>2. d \in Nat /\ m \in Nat /\ m < n /\ a = n * d + m /\ n * d \in Nat
    BY <1>1, DivModIs
  <1>3. n * (q + 1) = n * q + n /\ n * (d + 1) = n * d + n
    BY <1>2
  <1> HIDE DEF d, m
  <1>4. ~(d > q)
    <2>1. SUFFICES ASSUME d > q PROVE FALSE
      OBVIOUS
    <2>2. n * d >= n * (q + 1)
      BY <1>2, <2>1, Multiplied
    <2> QED
      BY <1>1, <1>2, <1>3, <2>2
  <1>5. ~(d < q)
    <2>1. SUFFICES ASSUME d < q PROVE FALSE
      OBVIOUS
    <2>2. n * q >= n * (d + 1)
      BY <1>2, <2>1, Multiplied
    <2> QED
      BY <1>1, <1>2, <1>3, <2>2
  <1>6. d = q
    BY <1>2, <1>4, <1>5
  <1> QED
    BY <1>1, <1>2, <1>6 DEF d, m

(* What point does with the block b and the place p in it, once the place  *)
(* just behind a full last block is taken for its end.                     *)
Reached(s, b) == GetBuf([PutIfChanged(s) EXCEPT !.block = b])
Past(s, b, p) == \/ b < 0 \/ b > s.lblock
                 \/ b = s.lblock /\ p > IF s.block = s.lblock THEN s.end ELSE s.ldata
Checked(s, b) == Reached(s, b).end = BufLen \/ (b = s.lblock /\ s.end >= Reached(s, b).ldata)
PointIn(s, b, p) ==
  IF Past(s, b, p) THEN Refused(s)
  ELSE IF b = s.block THEN Ok([s EXCEPT !.pos = p])
  ELSE IF Checked(s, b) THEN Sure([Reached(s, b) EXCEPT !.pos = p])
  ELSE Unsure([Reached(s, b) EXCEPT !.pos = p])

LEMMA PointIs ==
  ASSUME NEW s, NEW b, NEW p
  PROVE  /\ ~Readable(s) => Point(s, b, p) = Fails(s)
         /\ Readable(s) /\ p = 0 /\ b = s.lblock + 1 => Point(s, b, p) = PointIn(s, s.lblock, BufLen)
         /\ Readable(s) /\ ~(p = 0 /\ b = s.lblock + 1) => Point(s, b, p) = PointIn(s, b, p)
  <1> DEFINE B == IF p = 0 /\ b = s.lblock + 1 THEN s.lblock ELSE b
             P == IF p = 0 /\ b = s.lblock + 1 THEN BufLen ELSE p
             t == [Reached(s, B) EXCEPT !.pos = P]
             A == Aborts(t, IF Checked(s, B) THEN 0 ELSE 5005, TRUE)
  <1>1. A = IF Checked(s, B) THEN Sure(t) ELSE Unsure(t)
    <2> HIDE DEF t, B
    <2>1. CASE Checked(s, B)
      BY <2>1 DEF Sure, Aborts
    <2>2. CASE ~Checked(s, B)
      BY <2>2 DEF Unsure, Aborts
    <2> HIDE DEF A
    <2> QED
      BY <2>1, <2>2
  <1>2. Point(s, b, p) = IF ~Readable(s) THEN Fails(s)
                         ELSE IF Past(s, B, P) THEN Refused(s)
                         ELSE IF B = s.block THEN Ok([s EXCEPT !.pos = P])
                         ELSE A
    BY DEF Point, Past, Checked, Reached, Refused, Aborts
  <1> HIDE DEF t, A
  <1>3. Point(s, b, p) = IF ~Readable(s) THEN Fails(s)
                         ELSE IF Past(s, B, P) THEN Refused(s)
                         ELSE IF B = s.block THEN Ok([s EXCEPT !.pos = P])
                         ELSE IF Checked(s, B) THEN Sure(t) ELSE Unsure(t)
    BY <1>1, <1>2, Zenon
  <1>4. PointIn(s, B, P) = IF Past(s, B, P) THEN Refused(s)
                           ELSE IF B = s.block THEN Ok([s EXCEPT !.pos = P])
                           ELSE IF Checked(s, B) THEN Sure(t) ELSE Unsure(t)
    BY DEF PointIn, t
  <1>5. Point(s, b, p) = IF ~Readable(s) THEN Fails(s) ELSE PointIn(s, B, P)
    BY <1>3, <1>4
  <1> QED
    BY <1>5

LEMMA ReachedIs ==
  ASSUME NEW s, DiscScb(s), NEW b \in Nat
  PROVE  LET q == PutIfChanged(s)
             t == Reached(s, b)
         IN  /\ DiscScb(t) /\ t.kind = s.kind /\ t.block = b /\ t.lblock = s.lblock
             /\ t.ldata = q.ldata /\ t.write = FALSE /\ t.fd = q.fd /\ t.pos = 0
             /\ t.end = Most(0, Least(BufLen, Len(q.fd) - BufLen * b))
             /\ \A i \in 0 .. t.end - 1 : t.buf[i] = q.fd[BufLen * b + i + 1]
  <1> DEFINE p == PutIfChanged(s)
             u == [p EXCEPT !.block = b]
  <1>1. /\ DiscScb(p) /\ p.kind = s.kind /\ p.lblock = s.lblock /\ p.write = FALSE
    BY PutIs
  <1>2. 0 \in Nat /\ 0 \in 0 .. BufLen
    BY Sizes
  <1>3. Reached(s, b) = GetBuf(u)
    BY DEF Reached
  <1> HIDE DEF p
  <1>4. DiscScb(u)
    <2>1. p \in ScbRec(BufLen) /\ p.kind \in DiscKind
      BY <1>1 DEF DiscScb
    <2>2. u \in ScbRec(BufLen) /\ u.kind \in DiscKind
      BY <2>1 DEF ScbRec
    <2> QED
      BY <2>2 DEF DiscScb
  <1>5. /\ u.kind = s.kind /\ u.block = b /\ u.lblock = s.lblock /\ u.ldata = p.ldata
        /\ u.write = FALSE /\ u.fd = p.fd
    <2>1. p \in ScbRec(BufLen)
      BY <1>1 DEF DiscScb
    <2> QED
      BY <1>1, <2>1 DEF ScbRec
  <1> HIDE DEF u
  <1>6. /\ DiscScb(GetBuf(u)) /\ GetBuf(u).kind = u.kind /\ GetBuf(u).block = u.block
        /\ GetBuf(u).lblock = u.lblock /\ GetBuf(u).ldata = u.ldata
        /\ GetBuf(u).write = u.write /\ GetBuf(u).fd = u.fd /\ GetBuf(u).pos = 0
        /\ GetBuf(u).end = Most(0, Least(BufLen, Len(u.fd) - BufLen * u.block))
        /\ \A i \in 0 .. GetBuf(u).end - 1 : GetBuf(u).buf[i] = u.fd[BufLen * u.block + i + 1]
    BY <1>4, GetIs, Zenon
  <1> QED
    BY <1>3, <1>5, <1>6 DEF p

LEMMA PointInResult ==
  ASSUME NEW s, OpenScb(s), NEW b \in Int, NEW p \in Nat,
         s.kind \in DiscKind => p <= BufLen
  PROVE  Result(PointIn(s, b, p), s)
  <1> DEFINE t == [Reached(s, b) EXCEPT !.pos = p]
  <1>1. /\ s.pos \in Nat /\ s.end \in Nat /\ s.end <= s.bufend /\ s.bufend \in Nat
        /\ s.block \in Nat /\ s.lblock \in Nat /\ s.ldata \in Nat /\ s.ldata <= BufLen
        /\ BufLen \in Nat
    BY OpenFields, Sizes
  <1>2. Result(Refused(s), s)
    BY ResultIs, Zenon
  <1>3. ASSUME ~Past(s, b, p) PROVE b \in Nat /\ b <= s.lblock /\ p \in 0 .. s.bufend
    <2>1. b \in Nat /\ b <= s.lblock
      BY <1>1, <1>3 DEF Past
    <2>2. CASE DiscScb(s)
      BY <1>1, <2>1, <2>2, DiscFields
    <2>3. CASE RamScb(s)
      <3>1. s.block = 0 /\ s.lblock = 0 /\ b = 0
        BY <1>1, <2>1, <2>3, RamFields
      <3>2. p <= s.end
        BY <1>1, <1>3, <3>1 DEF Past
      <3> QED
        BY <1>1, <2>1, <3>2
    <2> QED
      BY <2>1, <2>2, <2>3 DEF OpenScb
  <1>4. ASSUME ~Past(s, b, p) PROVE Result(Ok([s EXCEPT !.pos = p]), s)
    <2>1. OpenScb([s EXCEPT !.pos = p]) /\ [s EXCEPT !.pos = p].kind = s.kind
      BY <1>3, <1>4, PosSet, Zenon
    <2> QED
      BY <2>1, ResultIs, Zenon
  <1>5. ASSUME ~Past(s, b, p), b # s.block PROVE Result(Sure(t), s) /\ Result(Unsure(t), s)
    <2>1. DiscScb(s)
      <3>1. CASE RamScb(s)
        BY <1>3, <1>5, <3>1, RamFields
      <3> QED
        BY <3>1 DEF OpenScb
    <2>2. /\ DiscScb(Reached(s, b)) /\ Reached(s, b).kind = s.kind
          /\ Reached(s, b).bufend = BufLen /\ s.bufend = BufLen
      BY <1>3, <1>5, <2>1, ReachedIs, DiscFields
    <2>3. OpenScb(Reached(s, b)) /\ p \in 0 .. Reached(s, b).bufend
      BY <1>3, <1>5, <2>2 DEF OpenScb
    <2>4. OpenScb(t) /\ t.kind = s.kind
      <3>1. OpenScb(t) /\ t.kind = Reached(s, b).kind
        BY <2>3, PosSet, Zenon
      <3> QED
        BY <2>2, <3>1, Zenon
    <2> HIDE DEF t
    <2> QED
      BY <2>4, ResultIs, Zenon
  <1> HIDE DEF t
  <1>6. PointIn(s, b, p) = IF Past(s, b, p) THEN Refused(s)
                           ELSE IF b = s.block THEN Ok([s EXCEPT !.pos = p])
                           ELSE IF Checked(s, b) THEN Sure(t) ELSE Unsure(t)
    BY DEF PointIn, t
  <1> QED
    BY <1>2, <1>4, <1>5, <1>6

LEMMA PointResult ==
  ASSUME NEW s, OpenScb(s), NEW b \in Int, NEW p \in Nat,
         s.kind \in DiscKind => p <= BufLen
  PROVE  Result(Point(s, b, p), s)
  <1>1. Result(Fails(s), s)
    BY ResultIs, Zenon
  <1>2. s.lblock \in Int /\ BufLen \in Nat /\ BufLen <= BufLen
    BY OpenFields, Sizes
  <1>3. Result(PointIn(s, b, p), s) /\ Result(PointIn(s, s.lblock, BufLen), s)
    BY <1>2, PointInResult
  <1> QED
    BY <1>1, <1>3, PointIs, Zenon

LEMMA RecordPointIs ==
  ASSUME NEW s, OpenScb(s), NEW n \in Nat
  PROVE  LET a == RecLen * n
         IN  /\ RecordPoint(s, n) = Point(s, a \div s.bufend, a % s.bufend)
             /\ a \in Nat /\ a \div s.bufend \in Nat /\ a % s.bufend \in Nat
             /\ a % s.bufend < s.bufend /\ a = s.bufend * (a \div s.bufend) + (a % s.bufend)
  <1>1. RecordPoint(s, n) = Point(s, (RecLen * n) \div s.bufend, (RecLen * n) % s.bufend)
    BY OpenFields DEF RecordPoint, DiscKind
  <1>2. RecLen * n \in Nat /\ s.bufend \in Nat \ {0}
    BY OpenFields, Sizes
  <1> DEFINE a == RecLen * n
  <1> HIDE DEF a
  <1>3. /\ a \in Nat /\ a \div s.bufend \in Nat /\ a % s.bufend \in Nat
        /\ a % s.bufend < s.bufend /\ a = s.bufend * (a \div s.bufend) + (a % s.bufend)
    BY <1>2, DivModIs DEF a
  <1> QED
    BY <1>1, <1>3 DEF a

LEMMA RecordPointResult ==
  ASSUME NEW s, OpenScb(s), NEW n \in Nat
  PROVE  Result(RecordPoint(s, n), s)
  <1> DEFINE b == (RecLen * n) \div s.bufend
             p == (RecLen * n) % s.bufend
  <1>1. RecordPoint(s, n) = Point(s, b, p) /\ b \in Nat /\ p \in Nat /\ p < s.bufend
    BY RecordPointIs
  <1> HIDE DEF b, p
  <1>2. s.bufend \in Nat /\ (s.kind \in DiscKind => s.bufend = BufLen)
    BY OpenFields, DiscFields
  <1>3. b \in Int /\ (s.kind \in DiscKind => p <= BufLen)
    BY <1>1, <1>2
  <1>4. Result(Point(s, b, p), s)
    BY <1>1, <1>3, PointResult
  <1> QED
    BY <1>1, <1>4

LEMMA GetRecordReads ==
  ASSUME NEW s, OpenScb(s), NEW n \in Nat
  PROVE  Reading(GetRecord(s, n), s)
  <1> DEFINE p == RecordPoint(s, n)
             r == GetBytes(p.s, RecLen)
             c == IF p.code # 0 THEN p.code ELSE r.code
  <1>1. OpenScb(p.s) /\ p.s.kind = s.kind /\ p.code \in Codes
    BY RecordPointResult DEF Result, Outcome
  <1>2. Reading(r, p.s)
    BY <1>1, GetBytesReads, Sizes
  <1>3. GetRecord(s, n) = [r EXCEPT !.code = c]
    BY DEF GetRecord
  <1>4. c \in Codes
    BY <1>1, <1>2 DEF Reading, Input
  <1> HIDE DEF p, r, c
  <1>5. r \in Input /\ OpenScb(r.s) /\ r.s.kind = s.kind
    BY <1>1, <1>2 DEF Reading
  <1>6. [r EXCEPT !.code = c] \in Input /\ [r EXCEPT !.code = c].s = r.s
    BY <1>4, <1>5 DEF Input
  <1> QED
    BY <1>3, <1>5, <1>6 DEF Reading

(* In a full buffer put_record takes all bytes to be valid.                *)
Filled(s) == IF s.pos >= s.bufend THEN [s EXCEPT !.end = Most(@, s.pos)] ELSE s

LEMMA FilledIs ==
  ASSUME NEW s, OpenScb(s)
  PROVE  LET u == Filled(s)
         IN  /\ OpenScb(u) /\ u.kind = s.kind /\ u.buf = s.buf /\ u.pos = s.pos
             /\ u.end = IF s.pos >= s.bufend THEN Most(s.end, s.pos) ELSE s.end
             /\ u.block = s.block /\ u.write = s.write /\ u.bufend = s.bufend
             /\ u.lblock = s.lblock /\ u.ldata = s.ldata /\ u.fd = s.fd
  <1> DEFINE e == Most(s.end, s.pos)
             u == [s EXCEPT !.end = e]
             P == 0 .. s.bufend
  <1>1. s.end \in Nat /\ s.pos \in Nat /\ s.end <= s.bufend /\ s.pos <= s.bufend
    BY OpenFields
  <1>2. e \in P
    BY <1>1, OpenFields DEF Most
  <1>3. s \in ScbRec(s.bufend)
    BY DiscFields DEF OpenScb, DiscScb, RamScb
  <1>4. Filled(s) = IF s.pos >= s.bufend THEN u ELSE s
    BY DEF Filled
  <1> HIDE DEF e, P
  <1>5. u \in ScbRec(s.bufend)
    BY <1>2, <1>3 DEF ScbRec, P
  <1>6. /\ u.kind = s.kind /\ u.buf = s.buf /\ u.pos = s.pos /\ u.end = e
        /\ u.block = s.block /\ u.write = s.write /\ u.bufend = s.bufend
        /\ u.lblock = s.lblock /\ u.ldata = s.ldata /\ u.fd = s.fd
    BY <1>3 DEF ScbRec
  <1> HIDE DEF u
  <1>7. OpenScb(u)
    <2>1. CASE DiscScb(s)
      BY <1>5, <1>6, <2>1, DiscFields DEF OpenScb, DiscScb
    <2>2. CASE RamScb(s)
      BY <1>5, <1>6, <2>2 DEF OpenScb, RamScb
    <2> QED
      BY <2>1, <2>2 DEF OpenScb
  <1>8. CASE s.pos >= s.bufend
    BY <1>4, <1>6, <1>7, <1>8 DEF e
  <1>9. CASE ~(s.pos >= s.bufend)
    BY <1>4, <1>9
  <1> QED
    BY <1>8, <1>9

LEMMA PutRecordIs ==
  ASSUME NEW s, NEW n, NEW d
  PROVE  PutRecord(s, n, d) = IF s.kind \notin {"inout", "ram"} THEN Refused(s)
                              ELSE IF ~RecordPoint(s, n).ok THEN RecordPoint(s, n)
                              ELSE PutBytes(Filled(RecordPoint(s, n).s), d)
  BY DEF PutRecord, Filled, Refused

LEMMA PutRecordResult ==
  ASSUME NEW s, OpenScb(s), NEW n \in Nat, NEW d \in Seq(Byte)
  PROVE  Result(PutRecord(s, n, d), s)
  <1> DEFINE p == RecordPoint(s, n)
  <1>1. Result(Refused(s), s)
    BY ResultIs, Zenon
  <1>2. Result(p, s) /\ OpenScb(p.s) /\ p.s.kind = s.kind
    BY RecordPointResult DEF Result
  <1>3. OpenScb(Filled(p.s)) /\ Filled(p.s).kind = s.kind
    BY <1>2, FilledIs
  <1>4. Result(PutBytes(Filled(p.s), d), Filled(p.s))
    BY <1>3, PutBytesResult
  <1>5. Result(PutBytes(Filled(p.s), d), s)
    BY <1>3, <1>4 DEF Result
  <1> QED
    BY <1>1, <1>2, <1>5, PutRecordIs, Zenon

LEMMA AppendPointResult ==
  ASSUME NEW s, OpenScb(s)
  PROVE  Result(AppendPoint(s), s)
  <1> DEFINE p == IF s.block = s.lblock THEN Most(s.ldata, s.end) ELSE s.ldata
  <1>1. /\ s.end \in Nat /\ s.end <= s.bufend /\ s.ldata \in Nat /\ s.ldata <= BufLen
        /\ BufLen \in Nat /\ s.bufend \in Nat /\ s.lblock \in Int
        /\ s.kind \in DiscKind => s.bufend = BufLen
    BY OpenFields, DiscFields, Sizes
  <1>2. p \in Nat /\ (s.kind \in DiscKind => p <= BufLen)
    BY <1>1 DEF Most
  <1>3. AppendPoint(s) = IF s.kind \notin {"inout", "ram"} THEN Fails(s)
                         ELSE Point(s, s.lblock, p)
    BY DEF AppendPoint
  <1> HIDE DEF p
  <1>4. Result(Point(s, s.lblock, p), s)
    BY <1>1, <1>2, PointResult
  <1>5. Result(Fails(s), s)
    BY ResultIs, Zenon
  <1> QED
    BY <1>3, <1>4, <1>5

LEMMA StepPointIs ==
  ASSUME NEW s, OpenScb(s), NEW words \in Int
  PROVE  \/ StepPoint(s, words) = Fails(s)
         \/ \E b \in Int, q \in Nat : /\ s.kind \in DiscKind => q <= BufLen
                                     /\ StepPoint(s, words) = Point(s, b, q)
  <1> DEFINE bytes  == words * BytesPerWord
             blocks == IF bytes >= 0 THEN bytes \div s.bufend
                       ELSE 0 - ((0 - bytes) \div s.bufend)
             p == s.pos + bytes - blocks * s.bufend
             b == s.block + blocks + (IF p < 0 THEN -1 ELSE IF p > s.bufend THEN 1 ELSE 0)
             q == IF p < 0 THEN p + s.bufend ELSE IF p > s.bufend THEN p - s.bufend ELSE p
  <1>1. /\ s.pos \in Nat /\ s.pos <= s.bufend /\ s.bufend \in Nat \ {0} /\ s.block \in Nat
        /\ s.kind \in DiscKind => s.bufend = BufLen
    BY OpenFields, DiscFields
  <1>2. StepPoint(s, words) = IF b < 1 THEN Fails(s) ELSE Point(s, b, q)
    BY Zenon DEF StepPoint
  <1>3. bytes \in Int
    BY Sizes
  <1> HIDE DEF bytes
  <1>4. blocks \in Int /\ bytes - blocks * s.bufend \in 1 - s.bufend .. s.bufend - 1
    <2>1. CASE bytes >= 0
      <3> DEFINE d == bytes \div s.bufend
                 m == bytes % s.bufend
                 k == s.bufend * d
      <3>1. d \in Nat /\ m \in Nat /\ m < s.bufend /\ bytes = k + m /\ k \in Nat
        <4>1. bytes \in Nat /\ s.bufend \in Nat \ {0}
          BY <1>1, <1>3, <2>1
        <4> HIDE DEF blocks
        <4> QED
          BY <4>1, DivModIs, Zenon
      <3>2. blocks = d
        BY <2>1
      <3> HIDE DEF d, m, blocks
      <3>3. blocks * s.bufend = k
        <4>1. \A x, y \in Int : x * y = y * x
          OBVIOUS
        <4>2. d \in Int /\ s.bufend \in Int
          BY <1>1, <3>1
        <4> QED
          BY <3>2, <4>1, <4>2, Zenon
      <3> HIDE DEF k
      <3>4. bytes - blocks * s.bufend = m
        BY <3>1, <3>3
      <3> QED
        BY <1>1, <3>1, <3>2, <3>4
    <2>2. CASE bytes < 0
      <3> DEFINE a == 0 - bytes
                 d == a \div s.bufend
                 m == a % s.bufend
                 k == s.bufend * d
      <3>1. a \in Nat /\ bytes = 0 - a
        BY <1>3, <2>2
      <3>2. blocks = 0 - d
        BY <1>3, <2>2
      <3> HIDE DEF a
      <3>3. d \in Nat /\ m \in Nat /\ m < s.bufend /\ a = k + m /\ k \in Nat
        <4>1. a \in Nat /\ s.bufend \in Nat \ {0}
          BY <1>1, <3>1
        <4> HIDE DEF blocks
        <4> QED
          BY <4>1, DivModIs, Zenon
      <3> HIDE DEF d, m, blocks
      <3>4. blocks * s.bufend = 0 - k
        BY <1>1, <3>2, <3>3
      <3> HIDE DEF k
      <3>5. bytes - blocks * s.bufend = 0 - m
        BY <3>1, <3>3, <3>4
      <3>6. blocks \in Int
        BY <3>2, <3>3
      <3> QED
        BY <1>1, <3>3, <3>5, <3>6
    <2> QED
      BY <1>3, <2>1, <2>2
  <1> HIDE DEF blocks
  <1>5. p \in Int /\ p > 0 - s.bufend /\ p < 2 * s.bufend
    <2>1. blocks * s.bufend \in Int
      BY <1>1, <1>4
    <2> QED
      BY <1>1, <1>3, <1>4, <2>1
  <1> HIDE DEF p
  <1>6. b \in Int /\ q \in Nat /\ q <= s.bufend
    BY <1>1, <1>4, <1>5
  <1> HIDE DEF b, q
  <1>7. s.kind \in DiscKind => q <= BufLen
    BY <1>1, <1>6
  <1>8. CASE b < 1
    BY <1>2, <1>8
  <1>9. CASE ~(b < 1)
    <2>1. StepPoint(s, words) = Point(s, b, q)
      BY <1>2, <1>9
    <2> QED
      BY <1>6, <1>7, <2>1
  <1> QED
    BY <1>8, <1>9

LEMMA StepPointResult ==
  ASSUME NEW s, OpenScb(s), NEW words \in Int
  PROVE  Result(StepPoint(s, words), s)
  <1>1. Result(Fails(s), s)
    BY ResultIs, Zenon
  <1>2. ASSUME NEW b \in Int, NEW q \in Nat, s.kind \in DiscKind => q <= BufLen
        PROVE  Result(Point(s, b, q), s)
    BY <1>2, PointResult
  <1> QED
    BY <1>1, <1>2, StepPointIs

-----------------------------------------------------------------------------
(* Streams opened and closed.                                              *)
LEMMA NewIs ==
  ASSUME NEW fd \in Seq(Bytes)
  PROVE  /\ \A k \in DiscKind : DiscScb(NewScb(k, BufLen, fd))
         /\ RamScb(NewScb("ram", RamLen, fd))
         /\ \A k, len : /\ NewScb(k, len, fd).kind = k /\ NewScb(k, len, fd).pos = 0
                        /\ NewScb(k, len, fd).end = 0 /\ NewScb(k, len, fd).block = 0
                        /\ NewScb(k, len, fd).lblock = 0 /\ NewScb(k, len, fd).ldata = 0
                        /\ NewScb(k, len, fd).write = FALSE /\ NewScb(k, len, fd).fd = fd
                        /\ NewScb(k, len, fd).bufend = len
  <1>1. ASSUME NEW k \in DiscKind \cup {"ram"}, NEW len \in Nat \ {0}
        PROVE  NewScb(k, len, fd) \in ScbRec(len)
    <2> DEFINE B == [0 .. len - 1 -> Bytes]
               P == 0 .. len
               D == 0 .. BufLen
               b == [i \in 0 .. len - 1 |-> Junk]
    <2>1. b \in B /\ 0 \in P /\ 0 \in D
      BY Sizes
    <2> HIDE DEF B, P, D, b
    <2>2. NewScb(k, len, fd) =
            [kind |-> k, buf |-> b, pos |-> 0, end |-> 0, block |-> 0, write |-> FALSE,
             bufend |-> len, lblock |-> 0, ldata |-> 0, fd |-> fd]
      BY DEF NewScb, b
    <2>3. [kind |-> k, buf |-> b, pos |-> 0, end |-> 0, block |-> 0, write |-> FALSE,
           bufend |-> len, lblock |-> 0, ldata |-> 0, fd |-> fd] \in
          [kind : DiscKind \cup {"ram"}, buf : B, pos : P, end : P, block : Nat,
           write : BOOLEAN, bufend : {len}, lblock : Nat, ldata : D, fd : Seq(Bytes)]
      BY <1>1, <2>1
    <2> QED
      BY <2>2, <2>3 DEF ScbRec, B, P, D
  <1>2. \A k, len : /\ NewScb(k, len, fd).kind = k /\ NewScb(k, len, fd).pos = 0
                    /\ NewScb(k, len, fd).end = 0 /\ NewScb(k, len, fd).block = 0
                    /\ NewScb(k, len, fd).lblock = 0 /\ NewScb(k, len, fd).ldata = 0
                    /\ NewScb(k, len, fd).write = FALSE /\ NewScb(k, len, fd).fd = fd
                    /\ NewScb(k, len, fd).bufend = len
    BY DEF NewScb
  <1>3. \A k \in DiscKind : DiscScb(NewScb(k, BufLen, fd))
    BY <1>1, <1>2, Sizes DEF DiscScb
  <1>4. RamScb(NewScb("ram", RamLen, fd))
    <2>1. NewScb("ram", RamLen, fd) \in ScbRec(RamLen)
      BY <1>1, Sizes
    <2> QED
      BY <1>2, <2>1, Sizes DEF RamScb
  <1> QED
    BY <1>2, <1>3, <1>4

LEMMA SizedIs ==
  ASSUME NEW s, DiscScb(s)
  PROVE  LET t == Sized(s)
         IN  /\ DiscScb(t) /\ t.kind = s.kind /\ t.block = s.block /\ t.write = s.write
             /\ t.fd = s.fd /\ t.pos = 0
             /\ t.lblock = Len(s.fd) \div BufLen /\ t.ldata = Len(s.fd) % BufLen
             /\ t.end = Most(0, Least(BufLen, Len(s.fd) - BufLen * s.block))
             /\ \A i \in 0 .. t.end - 1 : t.buf[i] = s.fd[BufLen * s.block + i + 1]
  <1> DEFINE l == Len(s.fd) \div BufLen
             m == Len(s.fd) % BufLen
             u == [s EXCEPT !.lblock = l, !.ldata = m]
  <1>1. /\ l \in Nat /\ m \in Nat /\ m < BufLen
    BY DiscFields, Sizes, DivModIs
  <1>2. Sized(s) = GetBuf(u)
    BY DEF Sized
  <1> HIDE DEF l, m
  <1>3. s \in ScbRec(BufLen) /\ s.kind \in DiscKind /\ m \in 0 .. BufLen
    BY <1>1, Sizes DEF DiscScb
  <1>4. DiscScb(u)
    <2> DEFINE D == 0 .. BufLen
    <2>1. m \in D
      BY <1>3
    <2> HIDE DEF D
    <2>2. u \in ScbRec(BufLen) /\ u.kind \in DiscKind
      BY <1>1, <1>3, <2>1 DEF ScbRec, D
    <2> QED
      BY <2>2 DEF DiscScb
  <1>5. /\ u.kind = s.kind /\ u.block = s.block /\ u.lblock = l /\ u.ldata = m
        /\ u.write = s.write /\ u.fd = s.fd
    BY <1>3 DEF ScbRec
  <1> HIDE DEF u
  <1>6. /\ DiscScb(GetBuf(u)) /\ GetBuf(u).kind = u.kind /\ GetBuf(u).block = u.block
        /\ GetBuf(u).lblock = u.lblock /\ GetBuf(u).ldata = u.ldata
        /\ GetBuf(u).write = u.write /\ GetBuf(u).fd = u.fd /\ GetBuf(u).pos = 0
        /\ GetBuf(u).end = Most(0, Least(BufLen, Len(u.fd) - BufLen * u.block))
        /\ \A i \in 0 .. GetBuf(u).end - 1 : GetBuf(u).buf[i] = u.fd[BufLen * u.block + i + 1]
    BY <1>4, GetIs, Zenon
  <1> QED
    BY <1>2, <1>5, <1>6 DEF l, m

(* What is true of the control block and of the results of the last call.  *)
Shut(s) == s = Closed(s.fd) /\ s.fd \in Seq(Bytes)
Kept ==
  /\ Shut(scb) \/ (OpenScb(scb) /\ scb.kind \in Kinds)
  /\ got \in Seq(Bytes) /\ ok \in BOOLEAN /\ code \in Codes

LEMMA ClosedIs ==
  ASSUME NEW fd
  PROVE  /\ Closed(fd).fd = fd /\ Closed(fd).kind = "none" /\ Closed(fd).write = FALSE
         /\ fd \in Seq(Bytes) => Shut(Closed(fd))
  BY DEF Shut, Closed

LEMMA KeptOpen ==
  ASSUME Kept, scb.kind # "none"
  PROVE  OpenScb(scb) /\ scb.kind \in Kinds
  <1>1. Shut(scb) => scb.kind = "none"
    BY ClosedIs DEF Shut
  <1> QED
    BY <1>1 DEF Kept

LEMMA KeptTypes == Kept => TypeOK
  <1> SUFFICES ASSUME Kept PROVE TypeOK
    OBVIOUS
  <1>1. /\ got \in Seq(Byte \cup {0, Junk}) /\ ok \in BOOLEAN /\ code \in {0, 999, 5005, 9999}
    BY DEF Kept, Bytes, Codes
  <1>2. CASE Shut(scb)
    <2>1. /\ scb.kind = "none" /\ scb.buf = <<>> /\ scb.pos = 0 /\ scb.end = 0
          /\ scb.block = 0 /\ scb.write = FALSE /\ scb.bufend = 0 /\ scb.lblock = 0
          /\ scb.ldata = 0 /\ scb.fd \in Seq(Bytes)
      BY <1>2 DEF Shut, Closed
    <2>2. 0 \in 0 .. 0 /\ 0 \in 0 .. BufLen /\ 0 \in Nat /\ FALSE \in BOOLEAN
      BY Sizes
    <2>3. /\ scb.kind \in Kinds \cup {"none"} /\ scb.fd \in Seq(Byte \cup {0, Junk})
          /\ scb.buf \in [0 .. scb.bufend - 1 -> Byte \cup {0, Junk}] \cup {<<>>}
      BY <2>1 DEF Bytes
    <2>4. /\ scb.pos \in 0 .. scb.bufend /\ scb.end \in 0 .. scb.bufend
          /\ scb.block \in Nat /\ scb.lblock \in Nat /\ scb.ldata \in 0 .. BufLen
          /\ scb.write \in BOOLEAN
      BY <2>1, <2>2
    <2> QED
      BY <1>1, <2>3, <2>4 DEF TypeOK
  <1>3. CASE OpenScb(scb) /\ scb.kind \in Kinds
    <2>1. /\ scb.buf \in [0 .. scb.bufend - 1 -> Bytes]
          /\ scb.pos \in 0 .. scb.bufend /\ scb.end \in 0 .. scb.bufend
          /\ scb.block \in Nat /\ scb.lblock \in Nat /\ scb.write \in BOOLEAN
          /\ scb.ldata \in 0 .. BufLen /\ scb.fd \in Seq(Bytes)
      BY <1>3, OpenFields, Sizes
    <2> QED
      BY <1>1, <1>3, <2>1 DEF TypeOK, Bytes
  <1> QED
    BY <1>2, <1>3 DEF Kept

LEMMA KeptByResult ==
  ASSUME Kept, scb.kind # "none", NEW r, Result(r, scb), Does(r)
  PROVE  Kept'
  <1>1. OpenScb(scb') /\ scb'.kind \in Kinds
    BY KeptOpen DEF Result, Does
  <1>2. got' \in Seq(Bytes) /\ ok' \in BOOLEAN /\ code' \in Codes
    BY EmptySeq DEF Does, Result, Outcome
  <1> QED
    BY <1>1, <1>2 DEF Kept

LEMMA KeptByReading ==
  ASSUME Kept, scb.kind # "none", NEW r, Reading(r, scb), Reads(r)
  PROVE  Kept'
  <1>1. OpenScb(scb') /\ scb'.kind \in Kinds
    BY KeptOpen DEF Reading, Reads
  <1>2. got' \in Seq(Bytes) /\ ok' \in BOOLEAN /\ code' \in Codes
    BY DEF Reads, Reading, Input
  <1> QED
    BY <1>1, <1>2 DEF Kept

LEMMA KeptInit == Init => Kept
  <1> SUFFICES ASSUME Init PROVE Kept
    OBVIOUS
  <1>1. PICK k \in 0 .. MaxFile : \E fd \in [1 .. k -> Byte] : scb = Closed(fd)
    BY DEF Init
  <1>2. PICK fd \in [1 .. k -> Byte] : scb = Closed(fd)
    BY <1>1
  <1>3. fd \in Seq(Bytes)
    <2>1. k \in Nat
      BY Sizes
    <2>2. fd \in [1 .. k -> Bytes]
      BY Sizes
    <2> QED
      BY <2>1, <2>2, IsASeq
  <1>4. Shut(scb)
    BY <1>2, <1>3, ClosedIs
  <1> QED
    BY <1>4, EmptySeq DEF Init, Kept, Codes

LEMMA KeptFindstream ==
  ASSUME Kept, NEW k \in Kinds, Findstream(k)
  PROVE  Kept'
  <1>1. scb.fd \in Seq(Bytes) /\ <<>> \in Seq(Bytes)
    BY OpenFields, EmptySeq DEF Kept, Shut
  <1>2. k \in DiscKind \cup {"ram"}
    BY FileStreamAssumption DEF FileStreamAssumption, DiscKind
  <1>3. /\ \A j \in DiscKind : /\ DiscScb(NewScb(j, BufLen, scb.fd))
                               /\ NewScb(j, BufLen, scb.fd).kind = j
                               /\ DiscScb(NewScb(j, BufLen, <<>>))
                               /\ NewScb(j, BufLen, <<>>).kind = j
        /\ RamScb(NewScb("ram", RamLen, scb.fd))
        /\ NewScb("ram", RamLen, scb.fd).kind = "ram"
    <2>1. ASSUME NEW fd \in Seq(Bytes)
          PROVE  /\ \A j \in DiscKind : DiscScb(NewScb(j, BufLen, fd))
                 /\ \A j : NewScb(j, BufLen, fd).kind = j
                 /\ RamScb(NewScb("ram", RamLen, fd))
                 /\ NewScb("ram", RamLen, fd).kind = "ram"
      <3>1. /\ \A j \in DiscKind : DiscScb(NewScb(j, BufLen, fd))
            /\ RamScb(NewScb("ram", RamLen, fd))
        BY NewIs, Zenon
      <3>2. \A j, len : NewScb(j, len, fd).kind = j
        BY DEF NewScb
      <3> QED
        BY <3>1, <3>2, Zenon
    <2>2. \A j \in DiscKind : /\ DiscScb(NewScb(j, BufLen, scb.fd))
                              /\ DiscScb(NewScb(j, BufLen, <<>>))
      BY <1>1, <2>1
    <2>3. \A j : NewScb(j, BufLen, scb.fd).kind = j /\ NewScb(j, BufLen, <<>>).kind = j
      BY <1>1, <2>1
    <2>4. RamScb(NewScb("ram", RamLen, scb.fd)) /\ NewScb("ram", RamLen, scb.fd).kind = "ram"
      BY <1>1, <2>1
    <2> QED
      BY <2>2, <2>3, <2>4, Zenon
  <1>4. OpenScb(scb') /\ scb'.kind = k
    <2>1. CASE k = "in"
      <3>1. scb' = Sized(NewScb("in", BufLen, scb.fd))
        BY <2>1 DEF Findstream, Fh0Findinput
      <3> QED
        BY <1>3, <2>1, <3>1, SizedIs DEF OpenScb, DiscKind
    <2>2. CASE k = "inout"
      <3>1. scb' = Sized(NewScb("inout", BufLen, scb.fd))
        BY <2>2 DEF Findstream, Fh0Findinoutput
      <3> QED
        BY <1>3, <2>2, <3>1, SizedIs DEF OpenScb, DiscKind
    <2>3. CASE k \in {"out", "append"}
      <3>1. scb' \in {NewScb(k, BufLen, scb.fd), NewScb(k, BufLen, <<>>)}
        BY <2>3 DEF Findstream, Fh0Findoutput
      <3> QED
        BY <1>3, <2>3, <3>1 DEF OpenScb, DiscKind
    <2>4. CASE k = "ram"
      <3>1. scb' = NewScb("ram", RamLen, scb.fd)
        BY <2>4 DEF Findstream, RamStream
      <3> QED
        BY <1>3, <2>4, <3>1 DEF OpenScb
    <2> QED
      BY <1>2, <2>1, <2>2, <2>3, <2>4 DEF DiscKind
  <1>5. got' = <<>> /\ ok' = TRUE /\ code' = 0
    BY DEF Findstream
  <1>6. got' \in Seq(Bytes) /\ ok' \in BOOLEAN /\ code' \in Codes
    BY <1>1, <1>5 DEF Codes
  <1>7. scb'.kind \in Kinds
    BY <1>4
  <1> QED
    BY <1>4, <1>6, <1>7 DEF Kept

LEMMA KeptEndstream ==
  ASSUME Kept, Endstream
  PROVE  Kept'
  <1>1. OpenScb(scb) /\ scb.kind \in DiscKind \cup {"ram"}
    BY KeptOpen, OpenFields DEF Endstream
  <1>2. ASSUME scb.kind # "ram" PROVE Fh0Endfn(scb) \in Seq(Bytes)
    <2>1. DiscScb(scb)
      BY <1>1, <1>2, OpenFields
    <2>2. DiscScb(PutIfChanged(scb))
      BY <2>1, PutIs
    <2> QED
      BY <2>2, DiscFields DEF Fh0Endfn
  <1>3. scb.fd \in Seq(Bytes)
    BY <1>1, OpenFields
  <1> DEFINE fd == IF scb.kind = "ram" THEN scb.fd ELSE Fh0Endfn(scb)
  <1>4. scb' = Closed(fd) /\ got' = <<>> /\ ok' = TRUE /\ code' = 0
    BY DEF Endstream
  <1>5. fd \in Seq(Bytes)
    BY <1>2, <1>3
  <1> HIDE DEF fd
  <1>6. Shut(scb')
    BY <1>4, <1>5, ClosedIs
  <1> QED
    BY <1>4, <1>6, EmptySeq DEF Kept, Codes

(* The step of each call, by what its operator gives back.                 *)
LEMMA KeptNext == Kept /\ [Next]_vars => Kept'
  <1> SUFFICES ASSUME Kept, [Next]_vars PROVE Kept'
    OBVIOUS
  <1>1. Readable(scb) \/ Writable(scb) => scb.kind # "none"
    BY DEF Readable, Writable
  <1>2. scb.kind # "none" => OpenScb(scb)
    BY KeptOpen
  <1>3. CASE \E k \in Kinds : Findstream(k)
    BY <1>3, KeptFindstream
  <1>4. CASE Endstream
    BY <1>4, KeptEndstream
  <1>5. CASE Binrdch
    <2>1. Reading(GetBytes(scb, 1), scb)
      BY <1>1, <1>2, <1>5, GetBytesReads DEF Binrdch
    <2> QED
      BY <1>1, <1>5, <2>1, KeptByReading DEF Binrdch
  <1>6. CASE Unrdch
    <2> DEFINE p == scb.pos - 1
               r == IF scb.pos <= 0 THEN Fails(scb) ELSE Ok([scb EXCEPT !.pos = p])
    <2>1. OpenScb(scb) /\ scb.kind # "none" /\ Does(r)
      BY <1>1, <1>2, <1>6 DEF Unrdch
    <2>2. Result(Fails(scb), scb)
      BY <2>1, ResultIs, Zenon
    <2>3. ASSUME scb.pos > 0 PROVE Result(Ok([scb EXCEPT !.pos = p]), scb)
      <3>1. p \in 0 .. scb.bufend
        BY <2>1, <2>3, OpenFields
      <3> HIDE DEF p
      <3>2. OpenScb([scb EXCEPT !.pos = p]) /\ [scb EXCEPT !.pos = p].kind = scb.kind
        BY <2>1, <3>1, PosSet, Zenon
      <3> QED
        BY <3>2, ResultIs, Zenon
    <2>4. scb.pos <= 0 \/ scb.pos > 0
      BY <2>1, OpenFields
    <2> HIDE DEF p
    <2>5. Result(r, scb)
      BY <2>2, <2>3, <2>4
    <2> QED
      BY <2>1, <2>5, KeptByResult
  <1>7. CASE Deplete
    <2>1. Result(DepleteOf(scb), scb)
      BY <1>1, <1>2, <1>7, DepleteResult DEF Deplete
    <2> QED
      BY <1>1, <1>7, <2>1, KeptByResult DEF Deplete
  <1>8. CASE Appendstream
    <2>1. Result(AppendPoint(scb), scb)
      BY <1>2, <1>8, AppendPointResult DEF Appendstream
    <2> QED
      BY <1>8, <2>1, KeptByResult DEF Appendstream
  <1>9. CASE Rewindstream
    <2>1. Result(Point(scb, 0, 0), scb)
      BY <1>2, <1>9, PointResult, Sizes DEF Rewindstream
    <2> QED
      BY <1>9, <2>1, KeptByResult DEF Rewindstream
  <1>10. ASSUME NEW b \in Byte, Binwrch(b) PROVE Kept'
    <2> DEFINE d == <<b>>
    <2>1. d \in Seq(Byte)
      OBVIOUS
    <2> HIDE DEF d
    <2>2. Writable(scb) /\ Does(PutBytes(scb, d))
      BY <1>10 DEF Binwrch, d
    <2>3. Result(PutBytes(scb, d), scb)
      BY <1>1, <1>2, <2>1, <2>2, PutBytesResult
    <2> QED
      BY <1>1, <2>2, <2>3, KeptByResult
  <1>11. ASSUME NEW n \in 1 .. RecLen, Readwords(n) PROVE Kept'
    <2>1. n * BytesPerWord \in Nat
      BY Sizes
    <2>2. Reading(GetBytes(scb, n * BytesPerWord), scb)
      BY <1>1, <1>2, <1>11, <2>1, GetBytesReads DEF Readwords
    <2> QED
      BY <1>1, <1>11, <2>2, KeptByReading DEF Readwords
  <1>12. ASSUME NEW b \in Byte, NEW c \in Byte, Writewords(<<b, c>>) PROVE Kept'
    <2> DEFINE d == <<b, c>>
    <2>1. d \in Seq(Byte)
      OBVIOUS
    <2> HIDE DEF d
    <2>2. Writable(scb) /\ Does(PutBytes(scb, d))
      BY <1>12 DEF Writewords, d
    <2>3. Result(PutBytes(scb, d), scb)
      BY <1>1, <1>2, <2>1, <2>2, PutBytesResult
    <2> QED
      BY <1>1, <2>2, <2>3, KeptByResult
  <1>13. ASSUME NEW blkno \in 0 .. MaxLen \div BufLen, NEW pos \in 0 .. BufLen,
                PointTo(blkno, pos)
         PROVE  Kept'
    <2>1. Result(Point(scb, blkno, pos), scb)
      <3>1. blkno \in Int /\ pos \in Nat /\ pos <= BufLen
        BY Sizes
      <3> QED
        BY <1>2, <1>13, <3>1, PointResult DEF PointTo
    <2> QED
      BY <1>13, <2>1, KeptByResult DEF PointTo
  <1>14. ASSUME NEW n \in 0 .. MaxLen \div RecLen, GetRec(n) PROVE Kept'
    <2>1. Reading(GetRecord(scb, n), scb)
      BY <1>1, <1>2, <1>14, GetRecordReads DEF GetRec
    <2> QED
      BY <1>1, <1>14, <2>1, KeptByReading DEF GetRec
  <1>15. ASSUME NEW n \in 0 .. MaxLen \div RecLen, NEW b \in Byte,
                PutRec(n, [i \in 1 .. RecLen |-> b])
         PROVE  Kept'
    <2> DEFINE d == [i \in 1 .. RecLen |-> b]
    <2>1. d \in Seq(Byte)
      BY Sizes, IsASeq
    <2> HIDE DEF d
    <2>2. scb.kind # "none" /\ Does(PutRecord(scb, n, d))
      BY <1>15 DEF PutRec, d
    <2>3. Result(PutRecord(scb, n, d), scb)
      BY <1>2, <2>1, <2>2, PutRecordResult
    <2> QED
      BY <2>2, <2>3, KeptByResult
  <1>16. ASSUME NEW n \in -2 .. 2, Stepstream(n) PROVE Kept'
    <2>1. n \in Int
      OBVIOUS
    <2>2. Result(StepPoint(scb, n), scb)
      BY <1>1, <1>2, <1>16, <2>1, StepPointResult DEF Stepstream
    <2> QED
      BY <1>1, <1>16, <2>2, KeptByResult DEF Stepstream
  <1>17. CASE UNCHANGED vars
    BY <1>17 DEF vars, Kept
  <1> QED
    BY <1>3, <1>4, <1>5, <1>6, <1>7, <1>8, <1>9, <1>10, <1>11, <1>12, <1>13, <1>14,
       <1>15, <1>16, <1>17, Zenon DEF Next

(***************************************************************************)
(* The indices of every control block fit its buffer, its block numbers    *)
(* are not negative, and the bytes of the file, of the buffer and of what  *)
(* is read are bytes, for every length of blocks, records and files.       *)
(***************************************************************************)
THEOREM FileStreamTypes == Spec => []TypeOK
  <1>1. Spec => []Kept
    BY KeptInit, KeptNext, PTL DEF Spec
  <1> QED
    BY <1>1, KeptTypes, PTL

-----------------------------------------------------------------------------
(* The bytes of a stream to the disc, and what a deplete does to them.     *)
LEMMA SameSeq ==
  ASSUME NEW S, NEW f \in Seq(S), NEW g \in Seq(S), Len(f) = Len(g),
         \A i \in 1 .. Len(f) : f[i] = g[i]
  PROVE  f = g
  <1>1. Len(f) \in Nat
    BY LenProperties
  <1>2. f = [i \in 1 .. Len(f) |-> f[i]] /\ g = [i \in 1 .. Len(f) |-> g[i]]
    BY LenProperties
  <1> QED
    BY <1>2

LEMMA ContentIs ==
  ASSUME NEW s, DiscScb(s)
  PROVE  /\ Content(s) \in Seq(Bytes)
         /\ Len(Content(s)) = IF s.write THEN Most(Len(s.fd), Off(s) + s.end) ELSE Len(s.fd)
         /\ \A i \in 1 .. Len(Content(s)) :
              Content(s)[i] = IF s.write /\ i \in Off(s) + 1 .. Off(s) + s.end
                                THEN s.buf[i - Off(s) - 1]
                              ELSE IF i <= Len(s.fd) THEN s.fd[i] ELSE 0
  <1> DEFINE off == Off(s)
             len == IF s.write THEN Most(Len(s.fd), off + s.end) ELSE Len(s.fd)
             At(i) == IF s.write /\ i \in off + 1 .. off + s.end THEN s.buf[i - off - 1]
                      ELSE IF i <= Len(s.fd) THEN s.fd[i] ELSE 0
  <1>1. /\ off \in Nat /\ s.end \in Nat /\ s.end <= BufLen /\ Len(s.fd) \in Nat
        /\ s.buf \in [0 .. BufLen - 1 -> Bytes] /\ s.fd \in Seq(Bytes) /\ s.write \in BOOLEAN
    BY DiscFields, OffIs
  <1>2. Content(s) = [i \in 1 .. len |-> At(i)]
    <2>1. s.kind \notin {"ram", "none"} /\ s.bufend = BufLen
      BY DiscFields DEF DiscKind
    <2> QED
      BY <2>1 DEF Content, Off
  <1>3. len \in Nat
    BY <1>1 DEF Most
  <1>4. ASSUME NEW i \in 1 .. len PROVE At(i) \in Bytes
    <2>1. CASE i \in off + 1 .. off + s.end /\ s.write
      <3>1. i - off - 1 \in 0 .. BufLen - 1
        BY <1>1, <1>3, <2>1, Sizes
      <3> QED
        BY <1>1, <2>1, <3>1
    <2>2. CASE ~(i \in off + 1 .. off + s.end /\ s.write) /\ i <= Len(s.fd)
      <3>1. i \in 1 .. Len(s.fd)
        BY <1>1, <1>3, <2>2
      <3>2. s.fd[i] \in Bytes
        BY <1>1, <3>1, ElementOfSeq
      <3> QED
        BY <2>2, <3>2
    <2>3. CASE ~(i \in off + 1 .. off + s.end /\ s.write) /\ ~(i <= Len(s.fd))
      BY <2>3, Sizes
    <2> QED
      BY <2>1, <2>2, <2>3
  <1> HIDE DEF len, At
  <1>5. Content(s) \in Seq(Bytes) /\ Len(Content(s)) = len
    BY <1>2, <1>3, <1>4
  <1> QED
    BY <1>2, <1>5 DEF len, At

(* The block in the buffer of a coherent control block begins in the file  *)
(* or at its end.                                                          *)
LEMMA CoherentOff ==
  ASSUME NEW s, DiscScb(s), Coherent(s)
  PROVE  Off(s) <= Len(s.fd)
  <1>1. /\ s.block \in Nat /\ s.lblock \in Nat /\ Len(s.fd) \in Nat /\ BufLen \in Nat
        /\ s.kind \in DiscKind
    BY DiscFields, Sizes
  <1>2. CASE s.kind = "append"
    BY <1>1, <1>2 DEF Off
  <1>3. CASE s.kind # "append"
    <2>1. s.block <= s.lblock /\ BufLen * s.lblock <= Len(s.fd)
      BY <1>1, <1>3 DEF Coherent, DiscKind
    <2>2. /\ BufLen * s.block <= BufLen * s.lblock
          /\ BufLen * s.block \in Nat /\ BufLen * s.lblock \in Nat
      BY <1>1, <2>1, Multiplied
    <2>3. Off(s) = BufLen * s.block
      BY <1>3 DEF Off
    <2> QED
      BY <1>1, <2>1, <2>2, <2>3
  <1> QED
    BY <1>2, <1>3

LEMMA StoredIs ==
  ASSUME NEW s, DiscScb(s), s.write => Off(s) + s.end <= Capacity, Off(s) <= Len(s.fd)
  PROVE  PutIfChanged(s).fd = Content(s)
  <1> DEFINE off == Off(s)
  <1>1. /\ off \in Nat /\ s.end \in Nat /\ Len(s.fd) \in Nat /\ s.fd \in Seq(Bytes)
        /\ s.write \in BOOLEAN /\ Capacity \in Nat /\ off <= Len(s.fd)
        /\ s.write => off + s.end <= Capacity
    BY DiscFields, OffIs, Sizes
  <1>2. /\ Content(s) \in Seq(Bytes)
        /\ Len(Content(s)) = IF s.write THEN Most(Len(s.fd), off + s.end) ELSE Len(s.fd)
        /\ \A i \in 1 .. Len(Content(s)) :
             Content(s)[i] = IF s.write /\ i \in off + 1 .. off + s.end
                               THEN s.buf[i - off - 1]
                             ELSE IF i <= Len(s.fd) THEN s.fd[i] ELSE 0
    BY ContentIs
  <1>3. PutIfChanged(s).fd = IF s.write /\ s.end > 0 THEN Written(s) ELSE s.fd
    BY PutIs
  <1> HIDE DEF off
  <1>4. CASE s.write /\ s.end > 0
    <2>1. /\ Written(s) \in Seq(Bytes)
          /\ Len(Written(s)) = Most(Len(s.fd), Least(off + s.end, Capacity))
          /\ \A i \in 1 .. Len(Written(s)) :
               Written(s)[i] = IF i \in off + 1 .. off + s.end THEN s.buf[i - off - 1]
                               ELSE IF i <= Len(s.fd) THEN s.fd[i] ELSE 0
      BY WrittenIs DEF off
    <2>2. Len(Written(s)) = Len(Content(s))
      BY <1>1, <1>2, <1>4, <2>1 DEF Most, Least
    <2>3. \A i \in 1 .. Len(Written(s)) : Written(s)[i] = Content(s)[i]
      BY <1>2, <1>4, <2>1, <2>2
    <2>4. Written(s) = Content(s)
      BY <1>2, <2>1, <2>2, <2>3, SameSeq
    <2> QED
      BY <1>3, <1>4, <2>4
  <1>5. CASE ~(s.write /\ s.end > 0)
    <2>1. Len(Content(s)) = Len(s.fd)
      BY <1>1, <1>2, <1>5 DEF Most
    <2>2. \A i \in 1 .. Len(s.fd) : s.fd[i] = Content(s)[i]
      BY <1>1, <1>2, <1>5, <2>1
    <2>3. s.fd = Content(s)
      BY <1>1, <1>2, <2>1, <2>2, SameSeq
    <2> QED
      BY <1>3, <1>5, <2>3
  <1> QED
    BY <1>4, <1>5

LEMMA WrfnFile ==
  ASSUME NEW s, DiscScb(s)
  PROVE  Fh0Wrfn(s).s.fd = PutIfChanged(s).fd
  <1> DEFINE f == PutIfChanged(s).fd
  <1>1. DiscScb(Moved(s)) /\ Moved(s).fd = f /\ Longer(s).fd = f
    BY MovedIs
  <1>2. GetBuf(Moved(s)).fd = f
    BY <1>1, GetIs
  <1>3. \A t : Ok(t).s = t
    BY DEF Ok
  <1>4. \/ Fh0Wrfn(s) = Ok(PutIfChanged(s)) \/ Fh0Wrfn(s) = Ok(Longer(s))
        \/ Fh0Wrfn(s) = Ok(GetBuf(Moved(s))) \/ Fh0Wrfn(s) = Ok(Moved(s))
    <2>1. CASE s.pos < s.bufend
      BY <2>1, WrfnIs, Zenon
    <2>2. CASE ~(s.pos < s.bufend) /\ s.block + 1 > s.lblock
      BY <2>2, WrfnIs, Zenon
    <2>3. CASE ~(s.pos < s.bufend) /\ ~(s.block + 1 > s.lblock) /\ s.kind = "inout"
      BY <2>3, WrfnIs, Zenon
    <2>4. CASE ~(s.pos < s.bufend) /\ ~(s.block + 1 > s.lblock) /\ s.kind # "inout"
      BY <2>4, WrfnIs, Zenon
    <2> QED
      BY <2>1, <2>2, <2>3, <2>4
  <1> HIDE DEF f
  <1> QED
    BY <1>1, <1>2, <1>3, <1>4 DEF f

LEMMA StoredByDeplete ==
  ASSUME Kept, Len(Content(scb)) <= Capacity
  PROVE  DepleteStores
  <1> SUFFICES ASSUME scb.kind \in {"out", "inout", "append"}, Coherent(scb)
               PROVE  DepleteOf(scb).s.fd = Content(scb)
    BY DEF DepleteStores
  <1>1. scb.kind \in DiscKind /\ scb.kind # "none"
    BY DEF DiscKind
  <1>2. DiscScb(scb)
    BY <1>1, KeptOpen, OpenFields
  <1>3. DepleteOf(scb) = Fh0Wrfn(scb)
    BY DEF DepleteOf
  <1>4. Off(scb) <= Len(scb.fd)
    BY <1>2, CoherentOff
  <1>5. scb.write => Off(scb) + scb.end <= Capacity
    <2>1. /\ Len(Content(scb)) = IF scb.write THEN Most(Len(scb.fd), Off(scb) + scb.end)
                                ELSE Len(scb.fd)
          /\ Off(scb) \in Nat /\ scb.end \in Nat /\ Len(scb.fd) \in Nat /\ Capacity \in Nat
      BY <1>2, ContentIs, OffIs, DiscFields, Sizes
    <2> QED
      BY <2>1 DEF Most
  <1> QED
    BY <1>2, <1>3, <1>4, <1>5, StoredIs, WrfnFile

(***************************************************************************)
(* A deplete that gives TRUE has stored all that was written, whatever the *)
(* kind of stream, as long as the disc has room for the bytes of the       *)
(* stream.  (Without room fh0putbuf takes a short write for a success.)    *)
(***************************************************************************)
THEOREM DepletesStore == Spec => [](Len(Content(scb)) <= Capacity => DepleteStores)
  <1>1. Spec => []Kept
    BY KeptInit, KeptNext, PTL DEF Spec
  <1>2. Kept => (Len(Content(scb)) <= Capacity => DepleteStores)
    BY StoredByDeplete
  <1> QED
    BY <1>1, <1>2, PTL

-----------------------------------------------------------------------------
(* Control blocks and files in blocks.  Settled holds of every control     *)
(* block, coherent or not: what point and fh0rdfn need to know of the last *)
(* block when it is not in the buffer.                                     *)
ByBlock == {"in", "out", "inout"}
Settled(s) ==
  s.kind \in ByBlock =>
    /\ s.block <= s.lblock
    /\ s.kind = "out" => s.block = s.lblock
    /\ Len(s.fd) <= BufLen * s.lblock + BufLen
    /\ s.block = s.lblock => Len(s.fd) <= BufLen * s.block + s.end
    /\ s.write => s.end > 0 /\ BufLen * s.block < MaxLen
    /\ (s.block # s.lblock \/ ~s.write) /\ BufLen * s.lblock < Len(s.fd) =>
         s.ldata = Len(s.fd) - BufLen * s.lblock
    /\ s.kind = "in" => ~s.write /\ s.ldata = Len(s.fd) - BufLen * s.lblock

(* The disc has room for what programs write, and for the rest of a block. *)
DiscHasRoom == Capacity >= MaxLen + BufLen

LEMMA Blocks ==
  ASSUME NEW a \in Nat, NEW b \in Nat
  PROVE  /\ BufLen * a \in Nat /\ BufLen * b \in Nat
         /\ BufLen * (a + 1) = BufLen * a + BufLen
         /\ a < b => BufLen * a + BufLen <= BufLen * b
         /\ a <= b => BufLen * a <= BufLen * b
         /\ a = b => BufLen * a = BufLen * b
  <1>1. BufLen * a \in Nat /\ BufLen * (a + 1) = BufLen * a + BufLen /\ BufLen \in Nat
    BY Sizes
  <1>2. a <= b => BufLen * a <= BufLen * b /\ BufLen * b \in Nat
    BY Sizes, Multiplied
  <1>3. a + 1 <= b => BufLen * (a + 1) <= BufLen * b
    BY Sizes, Multiplied
  <1>4. BufLen * b \in Nat
    BY Sizes
  <1> QED
    BY <1>1, <1>2, <1>3, <1>4

(* The buffer holds what its block has on disc.                            *)
Same(s) ==
  /\ s.end = Most(0, Least(BufLen, Len(s.fd) - BufLen * s.block))
  /\ \A i \in 0 .. s.end - 1 : s.buf[i] = s.fd[BufLen * s.block + i + 1]

LEMMA SameIs ==
  ASSUME NEW s, DiscScb(s), BufLen * s.block <= Len(s.fd)
  PROVE  InBuf(s) = OnDisc(s) <=> Same(s)
  <1> DEFINE off == BufLen * s.block
             to == Least(Len(s.fd), off + BufLen)
             n == to - off
             D == OnDisc(s)
             I == InBuf(s)
  <1>1. /\ off \in Nat /\ Len(s.fd) \in Nat /\ off <= Len(s.fd) /\ s.end \in Nat
        /\ s.fd \in Seq(Bytes) /\ BufLen \in Nat
        /\ s.buf \in [0 .. BufLen - 1 -> Bytes] /\ s.end <= BufLen
    BY DiscFields, Sizes
  <1>2. D = SubSeq(s.fd, off + 1, to)
    <2>1. BufLen * (s.block + 1) = off + BufLen
      BY DiscFields, Blocks
    <2> QED
      BY <2>1 DEF OnDisc
  <1> HIDE DEF off
  <1>3. to \in Nat /\ n \in Nat /\ to <= Len(s.fd)
        /\ n = Most(0, Least(BufLen, Len(s.fd) - off))
    BY <1>1 DEF Least, Most
  <1> HIDE DEF to
  <1>4. D \in Seq(Bytes) /\ Len(D) = n /\ \A i \in 1 .. n : D[i] = s.fd[off + i]
    <2>1. off + 1 \in 1 .. Len(s.fd) + 1 /\ to \in off .. Len(s.fd)
      BY <1>1, <1>3
    <2>2. /\ SubSeq(s.fd, off + 1, to) \in Seq(Bytes)
          /\ Len(SubSeq(s.fd, off + 1, to)) = IF off + 1 <= to THEN to - (off + 1) + 1 ELSE 0
          /\ \A i \in 1 .. to - (off + 1) + 1 : SubSeq(s.fd, off + 1, to)[i] = s.fd[off + 1 + i - 1]
      <3>1. \A i \in off + 1 .. to : s.fd[i] \in Bytes
        BY <1>1, <1>3, ElementOfSeq
      <3>2. off + 1 \in Int /\ to \in Int
        BY <1>1, <1>3
      <3> QED
        BY <3>1, <3>2, SubSeqProperties
    <2>3. to - (off + 1) + 1 = n /\ (off + 1 <= to <=> n > 0)
      BY <1>1, <1>3, <2>1
    <2>4. \A i \in 1 .. n : off + 1 + i - 1 = off + i
      BY <1>1, <1>3
    <2> QED
      BY <1>2, <1>3, <2>2, <2>3, <2>4
  <1>5. I \in Seq(Bytes) /\ Len(I) = s.end /\ \A i \in 1 .. s.end : I[i] = s.buf[i - 1]
    <2>1. I = [i \in 1 .. s.end |-> s.buf[i - 1]]
      BY DEF InBuf
    <2>2. \A i \in 1 .. s.end : i - 1 \in 0 .. BufLen - 1
      BY <1>1
    <2>3. \A i \in 1 .. s.end : s.buf[i - 1] \in Bytes
      BY <1>1, <2>2
    <2> HIDE DEF I
    <2>4. I \in [1 .. s.end -> Bytes] /\ \A i \in 1 .. s.end : I[i] = s.buf[i - 1]
      BY <2>1, <2>3
    <2>5. I \in Seq(Bytes) /\ Len(I) = s.end
      BY <1>1, <2>4
    <2> QED
      BY <2>4, <2>5
  <1> HIDE DEF D, I, n
  <1>6. ASSUME I = D PROVE Same(s)
    <2>1. s.end = n
      BY <1>4, <1>5, <1>6
    <2>2. ASSUME NEW i \in 0 .. s.end - 1 PROVE s.buf[i] = s.fd[off + i + 1]
      <3>1. i + 1 \in 1 .. s.end /\ (i + 1) - 1 = i /\ off + (i + 1) = off + i + 1
        BY <1>1, SMTT(30)
      <3>2. I[i + 1] = s.buf[(i + 1) - 1] /\ D[i + 1] = s.fd[off + (i + 1)]
        BY <1>4, <1>5, <2>1, <3>1
      <3> QED
        BY <1>6, <3>1, <3>2
    <2> QED
      BY <1>3, <2>1, <2>2 DEF Same, off
  <1>7. ASSUME Same(s) PROVE I = D
    <2>1. s.end = n /\ \A i \in 0 .. s.end - 1 : s.buf[i] = s.fd[off + i + 1]
      BY <1>3, <1>7 DEF Same, off
    <2>2. ASSUME NEW i \in 1 .. n PROVE I[i] = D[i]
      <3>1. i - 1 \in 0 .. s.end - 1 /\ off + (i - 1) + 1 = off + i
        BY <1>1, <1>3, <2>1
      <3>2. s.buf[i - 1] = s.fd[off + (i - 1) + 1]
        BY <2>1, <3>1
      <3> QED
        BY <1>4, <1>5, <2>1, <3>1, <3>2
    <2> QED
      BY <1>4, <1>5, <2>1, <2>2, SameSeq
  <1> QED
    BY <1>6, <1>7 DEF I, D

LEMMA CoherentIs ==
  ASSUME NEW s, DiscScb(s), s.kind \in ByBlock
  PROVE  Coherent(s) <=> /\ s.pos <= s.end
                         /\ s.block <= s.lblock
                         /\ s.block < s.lblock => s.end = BufLen
                         /\ BufLen * s.lblock <= Len(s.fd)
                         /\ Len(s.fd) <= BufLen * s.lblock + BufLen
                         /\ ~s.write => Same(s)
  <1>1. s.block \in Nat /\ s.lblock \in Nat /\ Len(s.fd) \in Nat /\ BufLen \in Nat
    BY DiscFields, Sizes
  <1>2. /\ BufLen * s.block \in Nat /\ BufLen * s.lblock \in Nat
        /\ s.block <= s.lblock => BufLen * s.block <= BufLen * s.lblock
        /\ BufLen * (s.lblock + 1) = BufLen * s.lblock + BufLen
    BY <1>1, Blocks
  <1>3. s.block <= s.lblock /\ BufLen * s.lblock <= Len(s.fd)
          => (InBuf(s) = OnDisc(s) <=> Same(s))
    BY <1>1, <1>2, SameIs
  <1>4. Coherent(s) <=> /\ s.pos <= s.end
                        /\ s.block <= s.lblock
                        /\ s.block < s.lblock => s.end = BufLen
                        /\ BufLen * s.lblock <= Len(s.fd)
                        /\ Len(s.fd) <= BufLen * (s.lblock + 1)
                        /\ ~s.write => InBuf(s) = OnDisc(s)
    BY DEF Coherent, ByBlock
  <1> QED
    BY <1>2, <1>3, <1>4

(* A changed block written back: the last block is then known, and what    *)
(* was coherent is.                                                        *)
LEMMA PutKeeps ==
  ASSUME DiscHasRoom, NEW s, DiscScb(s), s.kind \in ByBlock, Settled(s)
  PROVE  LET q == PutIfChanged(s)
         IN  /\ Settled(q)
             /\ Coherent(s) => Coherent(q)
             /\ Len(s.fd) <= Len(q.fd)
  <1> DEFINE q == PutIfChanged(s)
             off == BufLen * s.block
             last == BufLen * s.lblock
  <1>1. /\ s.block \in Nat /\ s.lblock \in Nat /\ Len(s.fd) \in Nat /\ BufLen \in Nat
        /\ s.end \in Nat /\ s.end <= BufLen /\ s.pos \in Nat /\ s.write \in BOOLEAN
        /\ Capacity \in Nat /\ MaxLen \in Nat
    BY DiscFields, Sizes
  <1>2. /\ off \in Nat /\ last \in Nat
        /\ s.block < s.lblock => off + BufLen <= last
        /\ s.block <= s.lblock => off <= last
        /\ s.block = s.lblock => off = last
    BY <1>1, Blocks
  <1>3. CASE ~s.write
    <2>1. q = s
      BY <1>3 DEF PutIfChanged
    <2> QED
      BY <1>1, <2>1
  <1>4. CASE s.write
    <2>1. /\ s.block <= s.lblock /\ Len(s.fd) <= last + BufLen
          /\ s.kind = "out" => s.block = s.lblock
          /\ s.block = s.lblock => Len(s.fd) <= off + s.end
          /\ s.end > 0 /\ off < MaxLen /\ s.kind # "in"
          /\ s.block # s.lblock /\ last < Len(s.fd) => s.ldata = Len(s.fd) - last
      BY <1>4 DEF Settled
    <2>2. /\ DiscScb(q) /\ q.kind = s.kind /\ q.buf = s.buf /\ q.pos = s.pos
          /\ q.end = s.end /\ q.block = s.block /\ q.lblock = s.lblock /\ q.write = FALSE
          /\ q.fd = Written(s)
          /\ q.ldata = IF s.block = s.lblock THEN s.end ELSE s.ldata
      BY <1>4, <2>1, PutIs
    <2>3. Off(s) = off
      BY DEF Off, ByBlock
    <2>4. /\ Len(q.fd) = Most(Len(s.fd), Least(off + s.end, Capacity))
          /\ \A i \in 1 .. Len(q.fd) :
               i \in off + 1 .. off + s.end => q.fd[i] = s.buf[i - off - 1]
      BY <2>2, <2>3, WrittenIs
    <2> HIDE DEF off, last, q
    <2>5. Len(q.fd) = Most(Len(s.fd), off + s.end)
      BY <1>1, <1>2, <2>1, <2>4 DEF DiscHasRoom, Least
    <2>6. /\ Len(q.fd) \in Nat /\ Len(s.fd) <= Len(q.fd) /\ off + s.end <= Len(q.fd)
          /\ Len(q.fd) <= last + BufLen
          /\ s.block = s.lblock => Len(q.fd) = off + s.end
          /\ s.block # s.lblock /\ last < Len(q.fd) => Len(q.fd) = Len(s.fd)
      BY <1>1, <1>2, <2>1, <2>5 DEF Most
    <2>7. last < Len(q.fd) => q.ldata = Len(q.fd) - last
      <3>1. CASE s.block = s.lblock
        <4>1. q.ldata = s.end
          BY <2>2, <3>1
        <4> QED
          BY <1>1, <1>2, <2>6, <3>1, <4>1
      <3>2. CASE s.block # s.lblock
        <4>1. q.ldata = s.ldata
          BY <2>2, <3>2
        <4> QED
          BY <2>1, <2>6, <3>2, <4>1
      <3> QED
        BY <3>1, <3>2
    <2>8. Settled(q)
      BY <2>1, <2>2, <2>6, <2>7 DEF Settled, off, last
    <2>9. ASSUME Coherent(s) PROVE Coherent(q)
      <3>1. /\ s.pos <= s.end /\ last <= Len(s.fd)
            /\ s.block < s.lblock => s.end = BufLen
        BY <2>9, CoherentIs DEF last
      <3>2. s.end = Most(0, Least(BufLen, Len(q.fd) - off))
        <4>1. CASE s.block = s.lblock
          BY <1>1, <1>2, <2>6, <4>1 DEF Most, Least
        <4>2. CASE s.block < s.lblock
          BY <1>1, <1>2, <2>6, <3>1, <4>2, SMTT(30) DEF Most, Least
        <4> QED
          BY <1>1, <2>1, <4>1, <4>2
      <3>3. ASSUME NEW i \in 0 .. s.end - 1 PROVE s.buf[i] = q.fd[off + i + 1]
        <4>1. off + i + 1 \in 1 .. Len(q.fd) /\ off + i + 1 \in off + 1 .. off + s.end
          BY <1>1, <1>2, <2>6
        <4>2. (off + i + 1) - off - 1 = i
          BY <1>1, <1>2
        <4> QED
          BY <2>4, <4>1, <4>2
      <3>4. Same(q)
        BY <2>2, <3>2, <3>3 DEF Same, off
      <3>5. last <= Len(q.fd)
        BY <1>1, <1>2, <2>6, <3>1
      <3> QED
        BY <2>1, <2>2, <2>6, <3>1, <3>4, <3>5, CoherentIs DEF last
    <2> QED
      BY <2>6, <2>8, <2>9 DEF q
  <1> QED
    BY <1>1, <1>3, <1>4

(* A block read into the buffer of a control block that is not changed.    *)
LEMMA ReadKeeps ==
  ASSUME NEW q, DiscScb(q), q.kind \in ByBlock, Settled(q), ~q.write,
         NEW t, DiscScb(t), t.kind = q.kind, t.block <= q.lblock, t.lblock = q.lblock,
         t.kind = "out" => t.block = t.lblock,
         t.ldata = q.ldata, t.write = FALSE, t.fd = q.fd, t.pos = 0, Same(t)
  PROVE  /\ Settled(t)
         /\ BufLen * q.lblock <= Len(q.fd) =>
              /\ Coherent(t)
              /\ t.block < t.lblock => t.end = BufLen
              /\ t.block = t.lblock => t.end = Len(q.fd) - BufLen * q.lblock
  <1> DEFINE off == BufLen * t.block
             last == BufLen * q.lblock
  <1>1. /\ t.block \in Nat /\ q.lblock \in Nat /\ Len(q.fd) \in Nat /\ BufLen \in Nat
        /\ t.end \in Nat /\ t.end <= BufLen /\ q.write \in BOOLEAN
    BY DiscFields, Sizes
  <1>2. /\ off \in Nat /\ last \in Nat
        /\ t.block < q.lblock => off + BufLen <= last
        /\ t.block <= q.lblock => off <= last
        /\ t.block = q.lblock => off = last
    BY <1>1, Blocks
  <1>3. /\ Len(q.fd) <= last + BufLen
        /\ last < Len(q.fd) => q.ldata = Len(q.fd) - last
        /\ q.kind = "in" => q.ldata = Len(q.fd) - last
    BY DEF Settled
  <1>4. t.end = Most(0, Least(BufLen, Len(q.fd) - off))
    BY DEF Same
  <1> HIDE DEF off, last
  <1>5. t.block = t.lblock => Len(q.fd) <= off + t.end
    BY <1>1, <1>2, <1>3, <1>4 DEF Most, Least
  <1>6. Settled(t)
    BY <1>3, <1>5 DEF Settled, off, last
  <1>7. ASSUME last <= Len(q.fd)
        PROVE  /\ t.block < t.lblock => t.end = BufLen
               /\ t.block = t.lblock => t.end = Len(q.fd) - last
    BY <1>1, <1>2, <1>3, <1>4, <1>7, SMTT(30) DEF Most, Least
  <1>8. ASSUME last <= Len(q.fd) PROVE Coherent(t)
    <2>1. t.pos <= t.end
      BY <1>1
    <2> QED
      BY <1>3, <1>7, <1>8, <2>1, CoherentIs DEF last
  <1> QED
    BY <1>6, <1>7, <1>8 DEF last

-----------------------------------------------------------------------------
(* What the calls leave settled and, of a coherent control block, coherent *)
(* and without the aborts of the safety checks.                            *)
Alarms == {5005, 9999}
Firm(s, r) ==
  /\ Settled(r.s)
  /\ Coherent(s) => Coherent(r.s) /\ r.code \notin Alarms

LEMMA FirmIs ==
  ASSUME NEW s, NEW t, Settled(t), Coherent(s) => Coherent(t)
  PROVE  Firm(s, Ok(t)) /\ Firm(s, Fails(t)) /\ Firm(s, Refused(t)) /\ Firm(s, Sure(t))
  <1>1. /\ Ok(t).s = t /\ Fails(t).s = t /\ Refused(t).s = t /\ Sure(t).s = t
        /\ Ok(t).code = 0 /\ Fails(t).code = 0 /\ Refused(t).code = 999 /\ Sure(t).code = 0
    BY DEF Ok, Fails, Refused, Sure, Aborts
  <1> QED
    BY <1>1 DEF Firm, Alarms

LEMMA RdfnFirm ==
  ASSUME DiscHasRoom, NEW s, DiscScb(s), s.kind \in {"in", "inout"}, Settled(s)
  PROVE  Firm(s, Fh0Rdfn(s))
  <1> DEFINE q == PutIfChanged(s)
             t == NextBlock(s)
             b == IF s.end >= BufLen THEN s.block + 1 ELSE s.block
  <1>1. s.kind \in ByBlock /\ s.kind # "out"
    BY DEF ByBlock
  <1>2. /\ s.block \in Nat /\ s.lblock \in Nat /\ s.block <= s.lblock /\ s.end \in Nat
        /\ BufLen \in Nat
    BY <1>1, DiscFields, Sizes DEF Settled
  <1>3. /\ Firm(s, Ok(s)) /\ Firm(s, Fails(s))
    BY FirmIs, Zenon
  <1>4. ASSUME s.block # s.lblock
        PROVE  /\ Settled(t)
               /\ Coherent(s) => Coherent(t) /\ (t.end = BufLen \/ s.lblock = t.block)
    <2>1. /\ DiscScb(q) /\ q.kind = s.kind /\ q.lblock = s.lblock /\ q.write = FALSE
      BY PutIs
    <2>2. Settled(q) /\ (Coherent(s) => Coherent(q))
      BY <1>1, PutKeeps
    <2>3. /\ DiscScb(t) /\ t.kind = s.kind /\ t.block = b /\ t.lblock = s.lblock
          /\ t.ldata = q.ldata /\ t.write = FALSE /\ t.fd = q.fd /\ t.pos = 0
          /\ t.end = Most(0, Least(BufLen, Len(q.fd) - BufLen * b))
          /\ \A i \in 0 .. t.end - 1 : t.buf[i] = q.fd[BufLen * b + i + 1]
      BY NextBlockIs
    <2> HIDE DEF q, t
    <2>4. b <= s.lblock
      BY <1>2, <1>4
    <2> HIDE DEF b
    <2>5. Same(t)
      BY <2>3 DEF Same
    <2>6. /\ Settled(t)
          /\ BufLen * q.lblock <= Len(q.fd) =>
               /\ Coherent(t)
               /\ t.block < t.lblock => t.end = BufLen
      BY <1>1, <2>1, <2>2, <2>3, <2>4, <2>5, ReadKeeps, ZenonT(40)
    <2>7. Coherent(s) => BufLen * q.lblock <= Len(q.fd)
      BY <1>1, <2>1, <2>2, CoherentIs
    <2>8. t.block < t.lblock \/ s.lblock = t.block
      BY <1>2, <2>3, <2>4, DiscFields
    <2> QED
      BY <2>3, <2>6, <2>7, <2>8
  <1> HIDE DEF t
  <1>5. ASSUME s.block # s.lblock PROVE Firm(s, Ok(t))
    BY <1>4, <1>5, FirmIs, Zenon
  <1>6. ASSUME s.block # s.lblock, ~(t.end = BufLen \/ s.lblock = t.block)
        PROVE  Firm(s, Lost(t))
    <2>1. Settled(t) /\ ~Coherent(s)
      BY <1>4, <1>6, Zenon
    <2>2. Lost(t).s = t
      BY DEF Lost, Aborts
    <2> QED
      BY <2>1, <2>2 DEF Firm
  <1>7. Fh0Rdfn(s) = IF s.pos < s.end THEN Ok(s)
                     ELSE IF s.block = s.lblock THEN Fails(s)
                     ELSE IF t.end = BufLen \/ s.lblock = t.block THEN Ok(t) ELSE Lost(t)
    BY RdfnIs DEF t
  <1>8. CASE s.pos < s.end
    BY <1>3, <1>7, <1>8, Zenon
  <1>9. CASE ~(s.pos < s.end) /\ s.block = s.lblock
    BY <1>3, <1>7, <1>9, Zenon
  <1>10. CASE ~(s.pos < s.end) /\ s.block # s.lblock
    <2>1. CASE t.end = BufLen \/ s.lblock = t.block
      BY <1>5, <1>7, <1>10, <2>1, Zenon
    <2>2. CASE ~(t.end = BufLen \/ s.lblock = t.block)
      BY <1>6, <1>7, <1>10, <2>2, Zenon
    <2> QED
      BY <2>1, <2>2
  <1> QED
    BY <1>8, <1>9, <1>10

LEMMA WrfnFirm ==
  ASSUME DiscHasRoom, NEW s, DiscScb(s), s.kind \in {"out", "inout"}, Settled(s)
  PROVE  /\ Firm(s, Fh0Wrfn(s)) /\ Fh0Wrfn(s).code = 0
         /\ s.pos >= s.bufend => /\ Fh0Wrfn(s).s.block = s.block + 1
                                 /\ Fh0Wrfn(s).s.pos = 0
  <1> DEFINE q == PutIfChanged(s)
             l == Longer(s)
             m == Moved(s)
             g == GetBuf(m)
             off == BufLen * s.block
             last == BufLen * s.lblock
  <1>1. s.kind \in ByBlock /\ s.kind # "in"
    BY DEF ByBlock
  <1>2. /\ s.block \in Nat /\ s.lblock \in Nat /\ s.block <= s.lblock /\ s.end \in Nat
        /\ s.end <= BufLen /\ s.pos \in Nat /\ s.bufend = BufLen /\ BufLen \in Nat \ {0}
        /\ s.kind = "out" => s.block = s.lblock
    BY <1>1, DiscFields, Sizes DEF Settled
  <1>3. /\ DiscScb(q) /\ q.kind = s.kind /\ q.lblock = s.lblock /\ q.write = FALSE
        /\ q.block = s.block /\ q.end = s.end /\ q.pos = s.pos
    BY PutIs
  <1>4. Settled(q) /\ (Coherent(s) => Coherent(q))
    BY <1>1, PutKeeps
  <1>5. /\ DiscScb(m) /\ DiscScb(l) /\ m.kind = s.kind /\ l.kind = s.kind
        /\ m.block = s.block + 1 /\ l.block = s.block + 1
        /\ m.lblock = s.lblock /\ l.lblock = s.block + 1
        /\ m.pos = 0 /\ l.pos = 0 /\ l.end = 0 /\ m.write = FALSE /\ l.write = FALSE
        /\ m.ldata = q.ldata /\ l.ldata = q.ldata /\ m.fd = q.fd /\ l.fd = q.fd
    BY MovedIs
  <1>6. /\ DiscScb(g) /\ g.kind = m.kind /\ g.block = m.block /\ g.lblock = m.lblock
        /\ g.ldata = m.ldata /\ g.write = m.write /\ g.fd = m.fd /\ g.pos = 0
        /\ g.end = Most(0, Least(BufLen, Len(m.fd) - BufLen * m.block))
        /\ \A i \in 0 .. g.end - 1 : g.buf[i] = m.fd[BufLen * m.block + i + 1]
    BY <1>5, GetIs
  <1>7. Len(q.fd) \in Nat /\ off \in Nat /\ last \in Nat /\ (s.block = s.lblock => off = last)
        /\ BufLen * (s.block + 1) = off + BufLen
    BY <1>2, <1>3, DiscFields, Blocks
  <1> HIDE DEF q, m, l, g
  <1>8. ASSUME s.block = s.lblock PROVE Settled(l)
    <2>1. Len(q.fd) <= last + BufLen
      BY <1>1, <1>3, <1>4 DEF Settled
    <2>2. Len(q.fd) <= BufLen * l.block /\ BufLen * l.block \in Nat
      BY <1>2, <1>5, <1>7, <1>8, <2>1
    <2> HIDE DEF off, last
    <2>3. /\ l.block = l.lblock /\ Len(l.fd) <= BufLen * l.lblock + BufLen
          /\ Len(l.fd) <= BufLen * l.block + l.end /\ ~(BufLen * l.lblock < Len(l.fd))
      BY <1>2, <1>5, <1>7, <2>2
    <2>4. l.block <= l.lblock
      BY <1>2, <1>5
    <2> QED
      BY <1>1, <1>5, <2>3, <2>4 DEF Settled
  <1>9. ASSUME s.block = s.lblock, s.pos >= s.bufend, Coherent(s) PROVE Coherent(l)
    <2>1. /\ q.pos <= q.end /\ last <= Len(q.fd) /\ Len(q.fd) <= last + BufLen /\ Same(q)
      BY <1>1, <1>3, <1>4, <1>9, CoherentIs
    <2>2. q.end = BufLen /\ q.end = Most(0, Least(BufLen, Len(q.fd) - off))
      <3>1. q.end = BufLen
        BY <1>2, <1>3, <1>9, <2>1
      <3> QED
        BY <1>3, <2>1, <3>1 DEF Same
    <2> HIDE DEF off, last
    <2>3. Len(q.fd) = last + BufLen
      BY <1>2, <1>7, <1>9, <2>1, <2>2 DEF Most, Least
    <2>4. BufLen * l.block = Len(l.fd) /\ BufLen * l.lblock = Len(l.fd)
      BY <1>5, <1>7, <1>9, <2>3
    <2>5. l.end = Most(0, Least(BufLen, Len(l.fd) - BufLen * l.block))
      BY <1>2, <1>5, <1>7, <2>3, <2>4 DEF Most, Least
    <2>6. Same(l)
      BY <1>5, <2>5 DEF Same
    <2>7. /\ l.pos <= l.end /\ l.block <= l.lblock /\ ~(l.block < l.lblock)
          /\ BufLen * l.lblock <= Len(l.fd) /\ Len(l.fd) <= BufLen * l.lblock + BufLen
      BY <1>2, <1>5, <1>7, <2>3, <2>4
    <2> QED
      BY <1>1, <1>5, <2>6, <2>7, CoherentIs
  <1>10. ASSUME s.block # s.lblock PROVE Settled(g) /\ (Coherent(s) => Coherent(g))
    <2>1. g.block <= q.lblock
      BY <1>2, <1>3, <1>5, <1>6, <1>10
    <2>2. Same(g)
      BY <1>6 DEF Same
    <2>3. /\ g.kind = q.kind /\ g.lblock = q.lblock /\ g.ldata = q.ldata /\ g.write = FALSE
          /\ g.fd = q.fd /\ g.pos = 0 /\ g.kind # "out"
      BY <1>2, <1>3, <1>5, <1>6, <1>10
    <2>4. Settled(g) /\ (BufLen * q.lblock <= Len(q.fd) => Coherent(g))
      BY <1>1, <1>3, <1>4, <1>6, <2>1, <2>2, <2>3, ReadKeeps
    <2>5. Coherent(s) => BufLen * q.lblock <= Len(q.fd)
      BY <1>1, <1>3, <1>4, CoherentIs
    <2> QED
      BY <2>4, <2>5
  <1>11. Fh0Wrfn(s) = IF s.pos < s.bufend THEN Ok(q)
                      ELSE IF s.block + 1 > s.lblock THEN Ok(l)
                      ELSE Ok(IF s.kind = "inout" THEN g ELSE m)
    BY WrfnIs DEF q, l, m, g
  <1>12. \A t : Ok(t).s = t /\ Ok(t).code = 0
    BY DEF Ok
  <1>13. CASE s.pos < s.bufend
    <2>1. Firm(s, Ok(q))
      BY <1>4, FirmIs, Zenon
    <2>2. Fh0Wrfn(s) = Ok(q)
      BY <1>11, <1>13, Zenon
    <2>3. ~(s.pos >= s.bufend)
      BY <1>2, <1>13
    <2> QED
      BY <1>12, <2>1, <2>2, <2>3, Zenon
  <1>14. CASE s.pos >= s.bufend /\ s.block = s.lblock
    <2>1. Firm(s, Ok(l))
      BY <1>8, <1>9, <1>14, FirmIs, Zenon
    <2>2. ~(s.pos < s.bufend) /\ s.block + 1 > s.lblock
      BY <1>2, <1>14
    <2>3. Fh0Wrfn(s) = Ok(l)
      BY <1>11, <2>2, Zenon
    <2> QED
      BY <1>5, <1>12, <2>1, <2>3, Zenon
  <1>15. CASE s.pos >= s.bufend /\ s.block # s.lblock
    <2>1. Firm(s, Ok(g))
      BY <1>10, <1>15, FirmIs, Zenon
    <2>2. ~(s.pos < s.bufend) /\ ~(s.block + 1 > s.lblock) /\ s.kind = "inout"
      BY <1>2, <1>15
    <2>3. Fh0Wrfn(s) = Ok(g)
      BY <1>11, <2>2, Zenon
    <2>4. g.block = s.block + 1 /\ g.pos = 0
      BY <1>5, <1>6
    <2> QED
      BY <1>12, <2>1, <2>3, <2>4, Zenon
  <1> QED
    BY <1>2, <1>13, <1>14, <1>15

(* The place in a file of a stream that reads or writes at its place.      *)
Where(s) == BufLen * s.block + s.pos

LEMMA RamSettled ==
  ASSUME NEW s, s.kind \in {"ram", "append"}
  PROVE  Settled(s)
  BY DEF Settled, ByBlock

LEMMA RoomFirm ==
  ASSUME DiscHasRoom, NEW s, OpenScb(s), s.kind # "in", Settled(s)
  PROVE  LET d == Room(s)
         IN  /\ Firm(s, d) /\ d.code = 0
             /\ d.ok /\ s.kind \in ByBlock => Where(d.s) = Where(s)
  <1> DEFINE d == Room(s)
  <1>1. /\ s.pos \in Nat /\ s.pos <= s.bufend /\ s.bufend \in Nat \ {0}
        /\ s.kind \in {"out", "inout", "append", "ram"} /\ s.block \in Nat
    BY OpenFields DEF DiscKind
  <1>2. CASE ~(s.pos >= s.bufend)
    <2>1. d = Ok(s)
      BY <1>2 DEF Room
    <2>2. Ok(s).s = s /\ Ok(s).code = 0
      BY DEF Ok
    <2>3. Firm(s, Ok(s))
      BY FirmIs, Zenon
    <2> QED
      BY <2>1, <2>2, <2>3
  <1>3. CASE s.pos >= s.bufend
    <2>1. d = DepleteOf(s)
      BY <1>3 DEF Room
    <2>2. CASE s.kind \in {"out", "inout"}
      <3>1. DiscScb(s) /\ s.bufend = BufLen /\ s.pos = BufLen
        BY <1>1, <1>3, <2>2, OpenFields, DiscFields DEF DiscKind
      <3>2. d = Fh0Wrfn(s)
        BY <2>1, <2>2 DEF DepleteOf
      <3>3. Firm(s, d) /\ d.code = 0 /\ d.s.block = s.block + 1 /\ d.s.pos = 0
        BY <1>3, <2>2, <3>1, <3>2, WrfnFirm
      <3>4. BufLen * (s.block + 1) = BufLen * s.block + BufLen /\ BufLen * s.block \in Nat
        BY <1>1, Blocks
      <3>5. BufLen \in Nat
        BY Sizes
      <3> HIDE DEF d
      <3>6. Where(d.s) = Where(s)
        BY <3>1, <3>3, <3>4, <3>5 DEF Where
      <3> QED
        BY <3>3, <3>6 DEF d
    <2>3. CASE s.kind = "append"
      <3>1. DiscScb(s) /\ s.bufend = BufLen
        BY <1>1, <2>3, OpenFields, DiscFields DEF DiscKind
      <3>2. d = Fh0Wrfn(s)
        BY <2>1, <2>3 DEF DepleteOf
      <3>3. d = Ok(Longer(s)) \/ d = Ok(Moved(s))
        <4>1. ~(s.pos < s.bufend)
          BY <1>1, <1>3
        <4>2. s.kind # "inout"
          BY <2>3
        <4> HIDE DEF d
        <4>3. CASE s.block + 1 > s.lblock
          BY <3>1, <3>2, <4>1, <4>3, WrfnIs, Zenon
        <4>4. CASE ~(s.block + 1 > s.lblock)
          BY <3>1, <3>2, <4>1, <4>2, <4>4, WrfnIs, Zenon
        <4> QED
          BY <4>3, <4>4
      <3>4. \A t \in {Longer(s), Moved(s)} :
              t.kind = "append" /\ t.pos = 0 /\ t.end = 0 /\ t.write = FALSE
        BY <2>3, <3>1, MovedIs
      <3>5. \A t \in {Longer(s), Moved(s)} : Settled(t) /\ Coherent(t)
        BY <3>4 DEF Settled, Coherent, ByBlock
      <3>6. \A t \in {Longer(s), Moved(s)} : Firm(s, Ok(t))
        BY <3>5, FirmIs, Zenon
      <3>7. \A t : Ok(t).code = 0
        BY DEF Ok
      <3>8. s.kind \notin ByBlock
        BY <2>3 DEF ByBlock
      <3> HIDE DEF d
      <3> QED
        BY <3>3, <3>6, <3>7, <3>8 DEF d
    <2>4. CASE s.kind = "ram"
      <3>1. RamScb(s) /\ s.kind \notin ByBlock
        BY <2>4, OpenFields DEF ByBlock
      <3>2. d = Fails(s) \/ d = Ok(Grown(s))
        <4>1. d = RamWrfn(s)
          BY <2>1, <2>4 DEF DepleteOf
        <4> HIDE DEF d
        <4> QED
          BY <4>1, RamWrfnIs
      <3>3. /\ RamScb(Grown(s)) /\ Grown(s).kind = "ram" /\ Grown(s).pos = s.pos
            /\ Grown(s).end = s.end /\ Grown(s).bufend = 2 * s.bufend
        BY <2>4, <3>1, GrownIs
      <3>4. Settled(Grown(s)) /\ Settled(s)
        BY <2>4, <3>3, RamSettled
      <3>5. Coherent(s) => Coherent(Grown(s))
        <4>1. Coherent(s) => s.pos <= s.end
          BY <2>4 DEF Coherent
        <4>2. s.pos <= s.end => Grown(s).pos <= Grown(s).end /\ Grown(s).end <= Grown(s).bufend
          BY <3>1, <3>3, RamFields
        <4> QED
          BY <3>3, <4>1, <4>2 DEF Coherent
      <3>6. Firm(s, Fails(s)) /\ Firm(s, Ok(Grown(s)))
        BY <3>4, <3>5, FirmIs, Zenon
      <3>7. \A t : Ok(t).code = 0 /\ Fails(t).code = 0
        BY DEF Ok, Fails
      <3> HIDE DEF d
      <3> QED
        BY <3>1, <3>2, <3>6, <3>7 DEF d
    <2> QED
      BY <1>1, <2>2, <2>3, <2>4
  <1> QED
    BY <1>2, <1>3

LEMMA BytePutFirm ==
  ASSUME NEW u, OpenScb(u), u.pos < u.bufend, u.kind # "in", Settled(u), NEW b \in Bytes,
         u.kind \in ByBlock => BufLen * u.block < MaxLen
  PROVE  LET v == BytePut(u, b)
         IN  /\ Settled(v)
             /\ Coherent(u) => Coherent(v)
             /\ Where(v) = Where(u) + 1
  <1> DEFINE v == BytePut(u, b)
  <1>1. /\ OpenScb(v) /\ v.kind = u.kind /\ v.pos = u.pos + 1
        /\ v.end = Most(u.end, u.pos + 1) /\ v.block = u.block /\ v.write = TRUE
        /\ v.bufend = u.bufend /\ v.lblock = u.lblock /\ v.ldata = u.ldata /\ v.fd = u.fd
    BY BytePutIs
  <1>2. /\ u.pos \in Nat /\ u.end \in Nat /\ u.end <= u.bufend /\ u.bufend \in Nat
        /\ u.block \in Nat /\ u.lblock \in Nat /\ Len(u.fd) \in Nat
        /\ u.kind \in {"out", "inout", "append", "ram"}
        /\ BufLen * u.block \in Nat /\ BufLen * u.lblock \in Nat /\ BufLen \in Nat
    BY OpenFields, Blocks, Sizes DEF DiscKind
  <1> HIDE DEF v
  <1>3. /\ v.pos <= v.end /\ v.end >= u.end /\ v.end > 0 /\ v.end <= u.bufend /\ v.end \in Nat
    BY <1>1, <1>2, SMTT(30) DEF Most
  <1>4. Where(v) = Where(u) + 1
    BY <1>1, <1>2 DEF Where
  <1>5. CASE u.kind \in {"out", "inout"}
    <2>1. DiscScb(u) /\ u.kind \in ByBlock /\ u.bufend = BufLen /\ DiscScb(v)
      BY <1>1, <1>5, OpenFields, DiscFields DEF DiscKind, ByBlock
    <2>2. /\ u.block <= u.lblock /\ (u.kind = "out" => u.block = u.lblock)
          /\ Len(u.fd) <= BufLen * u.lblock + BufLen
          /\ u.block = u.lblock => Len(u.fd) <= BufLen * u.block + u.end
          /\ u.block # u.lblock /\ BufLen * u.lblock < Len(u.fd) =>
               u.ldata = Len(u.fd) - BufLen * u.lblock
          /\ BufLen * u.block < MaxLen
      BY <2>1 DEF Settled
    <2>3. u.block = u.lblock => Len(u.fd) <= BufLen * u.block + v.end
      BY <1>2, <1>3, <2>2
    <2>4. Settled(v)
      BY <1>1, <1>3, <1>5, <2>2, <2>3 DEF Settled
    <2>5. ASSUME Coherent(u) PROVE Coherent(v)
      <3>1. /\ u.block < u.lblock => u.end = BufLen
            /\ BufLen * u.lblock <= Len(u.fd) /\ Len(u.fd) <= BufLen * u.lblock + BufLen
        BY <2>1, <2>5, CoherentIs
      <3>2. u.block < u.lblock => v.end = BufLen
        BY <1>2, <1>3, <2>1, <3>1
      <3> QED
        BY <1>1, <1>3, <2>1, <2>2, <3>1, <3>2, CoherentIs
    <2> QED
      BY <1>4, <2>4, <2>5 DEF v
  <1>6. CASE u.kind = "append"
    <2>1. Settled(v)
      BY <1>1, <1>6, RamSettled
    <2>2. Coherent(u) => Coherent(v)
      <3>1. Coherent(u) => u.pos = u.end
        BY <1>6 DEF Coherent
      <3>2. u.pos = u.end => v.pos = v.end
        BY <1>1, <1>2 DEF Most
      <3> QED
        BY <1>1, <1>6, <3>1, <3>2 DEF Coherent
    <2> QED
      BY <1>4, <2>1, <2>2 DEF v
  <1>7. CASE u.kind = "ram"
    <2>1. Settled(v)
      BY <1>1, <1>7, RamSettled
    <2>2. Coherent(v)
      BY <1>1, <1>3, <1>7 DEF Coherent
    <2> QED
      BY <1>4, <2>1, <2>2 DEF v
  <1> QED
    BY <1>2, <1>5, <1>6, <1>7

LEMMA PutByteFirm ==
  ASSUME DiscHasRoom, NEW s, s.kind # "in", NEW r, Result(r, s), Firm(s, r), r.code = 0,
         NEW b \in Bytes, NEW w,
         r.ok /\ s.kind \in ByBlock => Where(r.s) = w /\ w < MaxLen
  PROVE  LET v == PutByte(r, b)
         IN  /\ Firm(s, v) /\ v.code = 0
             /\ v.ok /\ s.kind \in ByBlock => Where(v.s) = w + 1
  <1> DEFINE d == Room(r.s)
             p == BytePut(d.s, b)
  <1>1. OpenScb(r.s) /\ r.s.kind = s.kind /\ r.ok \in BOOLEAN /\ Settled(r.s)
    BY DEF Result, Outcome, Firm
  <1>2. /\ Result(d, r.s) /\ (d.ok => d.s.pos < d.s.bufend)
        /\ Firm(r.s, d) /\ d.code = 0
        /\ d.ok /\ r.s.kind \in ByBlock => Where(d.s) = Where(r.s)
    BY <1>1, RoomIs, RoomFirm
  <1>3. OpenScb(d.s) /\ d.s.kind = s.kind /\ d.ok \in BOOLEAN /\ Settled(d.s)
    BY <1>1, <1>2 DEF Result, Outcome, Firm
  <1>4. Coherent(s) => Coherent(d.s)
    BY <1>2 DEF Firm
  <1>5. Firm(s, d)
    BY <1>2, <1>3, <1>4 DEF Firm
  <1>6. PutByte(r, b) = IF ~r.ok THEN r ELSE IF ~d.ok THEN d ELSE Ok(p)
    BY PutByteIs
  <1> HIDE DEF d
  <1>7. ASSUME r.ok, d.ok
        PROVE  /\ Firm(s, Ok(p)) /\ Ok(p).code = 0
               /\ s.kind \in ByBlock => Where(Ok(p).s) = w + 1
    <2>1. s.kind \in ByBlock => Where(d.s) = w /\ BufLen * d.s.block < MaxLen
      <3>1. s.kind \in ByBlock => Where(d.s) = w /\ w < MaxLen
        BY <1>1, <1>2, <1>7
      <3>2. d.s.pos \in Nat /\ BufLen * d.s.block \in Nat /\ MaxLen \in Nat
        BY <1>3, OpenFields, Blocks, Sizes
      <3> QED
        BY <3>1, <3>2 DEF Where
    <2>2. Settled(p) /\ (Coherent(d.s) => Coherent(p)) /\ Where(p) = Where(d.s) + 1
      BY <1>2, <1>3, <1>7, <2>1, BytePutFirm
    <2> HIDE DEF p
    <2>3. Firm(s, Ok(p))
      BY <1>4, <2>2, FirmIs, Zenon
    <2>4. Ok(p).s = p /\ Ok(p).code = 0
      BY DEF Ok
    <2> QED
      BY <2>1, <2>2, <2>3, <2>4
  <1> HIDE DEF p
  <1>8. CASE ~r.ok
    BY <1>6, <1>8
  <1>9. CASE r.ok /\ ~d.ok
    BY <1>2, <1>5, <1>6, <1>9
  <1>10. CASE r.ok /\ d.ok
    BY <1>6, <1>7, <1>10
  <1> QED
    BY <1>1, <1>3, <1>8, <1>9, <1>10

LEMMA PutBytesFirm ==
  ASSUME DiscHasRoom, NEW s, OpenScb(s), s.kind # "in", Settled(s), NEW d \in Seq(Byte),
         s.kind \in ByBlock => Where(s) + Len(d) <= MaxLen
  PROVE  Firm(s, PutBytes(s, d)) /\ PutBytes(s, d).code = 0
  <1> DEFINE In(i, r) == /\ Result(r, s) /\ Firm(s, r) /\ r.code = 0
                         /\ r.ok /\ s.kind \in ByBlock => Where(r.s) = Where(s) + i
             T == [i \in 0 .. Len(d) |-> {r \in Outcome : In(i, r)}]
  <1>1. Len(d) \in Nat /\ Where(s) \in Nat /\ MaxLen \in Nat
    <2>1. Len(d) \in Nat
      BY LenProperties
    <2>2. s.pos \in Nat /\ BufLen * s.block \in Nat /\ MaxLen \in Nat
      BY OpenFields, Blocks, Sizes
    <2> QED
      BY <2>1, <2>2 DEF Where
  <1>2. \A i \in 0 .. Len(d) : \A r : r \in T[i] <=> In(i, r)
    BY DEF Result
  <1>3. In(0, Ok(s))
    <2>1. Result(Ok(s), s) /\ Firm(s, Ok(s))
      BY ResultIs, FirmIs, Zenon
    <2>2. Ok(s).s = s /\ Ok(s).code = 0
      BY DEF Ok
    <2> QED
      BY <1>1, <2>1, <2>2
  <1>4. ASSUME NEW i \in 1 .. Len(d), NEW r, In(i - 1, r), NEW b \in Byte
        PROVE  In(i, PutByte(r, b))
    <2> DEFINE w == Where(s) + (i - 1)
    <2>1. b \in Bytes /\ w + 1 = Where(s) + i
      BY <1>1, Sizes
    <2>2. r.ok /\ s.kind \in ByBlock => Where(r.s) = w /\ w < MaxLen
      BY <1>1, <1>4
    <2> HIDE DEF w
    <2>3. /\ Firm(s, PutByte(r, b)) /\ PutByte(r, b).code = 0
          /\ PutByte(r, b).ok /\ s.kind \in ByBlock => Where(PutByte(r, b).s) = w + 1
      BY <1>4, <2>1, <2>2, PutByteFirm
    <2>4. Result(PutByte(r, b), s)
      BY <1>4, <2>1, PutByteResult
    <2> QED
      BY <2>1, <2>3, <2>4
  <1> HIDE DEF T, In
  <1>5. Ok(s) \in T[0]
    BY <1>1, <1>2, <1>3
  <1>6. \A i \in 1 .. Len(d) : \A r \in T[i - 1] : \A b \in Byte : PutByte(r, b) \in T[i]
    <2> SUFFICES ASSUME NEW i \in 1 .. Len(d), NEW r \in T[i - 1], NEW b \in Byte
                 PROVE  PutByte(r, b) \in T[i]
      OBVIOUS
    <2>1. i - 1 \in 0 .. Len(d) /\ i \in 0 .. Len(d)
      BY <1>1
    <2>2. In(i - 1, r)
      BY <1>2, <2>1
    <2>3. In(i, PutByte(r, b))
      BY <1>4, <2>2
    <2> QED
      BY <1>2, <2>1, <2>3
  <1>7. PutBytes(s, d) \in T[Len(d)]
    BY <1>5, <1>6, PutBytesKeeps
  <1>8. In(Len(d), PutBytes(s, d))
    BY <1>1, <1>2, <1>7
  <1> QED
    BY <1>8 DEF In

LEMMA PosKeeps ==
  ASSUME NEW s, OpenScb(s), Settled(s), NEW p \in 0 .. s.bufend
  PROVE  LET u == [s EXCEPT !.pos = p]
         IN  /\ Settled(u)
             /\ Coherent(s) /\ s.kind # "append" /\ p <= s.end => Coherent(u)
  <1> DEFINE u == [s EXCEPT !.pos = p]
  <1>1. /\ OpenScb(u) /\ u.pos = p /\ u.kind = s.kind /\ u.buf = s.buf
        /\ u.end = s.end /\ u.block = s.block /\ u.write = s.write /\ u.bufend = s.bufend
        /\ u.lblock = s.lblock /\ u.ldata = s.ldata /\ u.fd = s.fd
    BY PosSet
  <1> HIDE DEF u
  <1>2. Settled(u)
    BY <1>1 DEF Settled
  <1>3. ASSUME Coherent(s), s.kind # "append", p <= s.end PROVE Coherent(u)
    <2>1. CASE s.kind \in ByBlock
      <3>1. DiscScb(s) /\ DiscScb(u)
        BY <1>1, <2>1, OpenFields DEF ByBlock, DiscKind
      <3>2. Same(s) => Same(u)
        BY <1>1 DEF Same
      <3>3. /\ s.block <= s.lblock
            /\ s.block < s.lblock => s.end = BufLen
            /\ BufLen * s.lblock <= Len(s.fd)
            /\ Len(s.fd) <= BufLen * s.lblock + BufLen
            /\ ~s.write => Same(s)
        BY <1>3, <2>1, <3>1, CoherentIs
      <3> QED
        BY <1>1, <1>3, <2>1, <3>1, <3>2, <3>3, CoherentIs
    <2>2. CASE s.kind = "ram"
      BY <1>1, <1>3, <2>2 DEF Coherent
    <2> QED
      BY <1>3, <2>1, <2>2, OpenFields DEF ByBlock, DiscKind
  <1> QED
    BY <1>2, <1>3 DEF u

LEMMA TakenFirm ==
  ASSUME NEW s, s.kind # "append", NEW r, Reading(r, s), Firm(s, r),
         NEW u, OpenScb(u), u.kind = s.kind, u.pos < u.end, Settled(u),
         Coherent(s) => Coherent(u)
  PROVE  Firm(s, Taken(r, u, r.code))
  <1> DEFINE p == u.pos + 1
             v == [u EXCEPT !.pos = p]
  <1>1. u.pos \in Nat /\ u.end \in Nat /\ u.end <= u.bufend /\ u.bufend \in Nat
    BY OpenFields
  <1>2. p \in 0 .. u.bufend /\ p <= u.end
    BY <1>1
  <1>3. Taken(r, u, r.code).s = v
    BY DEF Taken
  <1>4. Taken(r, u, r.code).code = r.code
    BY DEF Taken
  <1> HIDE DEF p
  <1>5. Settled(v) /\ (Coherent(u) => Coherent(v))
    BY <1>2, PosKeeps
  <1> HIDE DEF v
  <1> QED
    BY <1>3, <1>4, <1>5, Zenon DEF Firm

LEMMA GetByteFirm ==
  ASSUME DiscHasRoom, NEW s, s.kind # "append", NEW r, Reading(r, s), Firm(s, r)
  PROVE  Firm(s, GetByte(r))
  <1> DEFINE t == Replenish(r.s)
  <1>1. /\ r.ok \in BOOLEAN /\ OpenScb(r.s) /\ r.s.kind = s.kind /\ Settled(r.s)
        /\ Coherent(s) => Coherent(r.s) /\ r.code \notin Alarms
    BY DEF Reading, Input, Firm
  <1>2. OpenScb(t.s) /\ t.s.kind = s.kind /\ t.ok \in BOOLEAN
    <2>1. Result(t, r.s)
      BY <1>1, ReplenishResult
    <2> QED
      BY <1>1, <2>1 DEF Result, Outcome
  <1>3. Firm(r.s, t)
    <2>1. CASE r.s.kind \in {"in", "inout"}
      <3>1. DiscScb(r.s)
        BY <1>1, <2>1, OpenFields DEF DiscKind
      <3> QED
        BY <1>1, <2>1, <3>1, RdfnFirm DEF Replenish
    <2>2. CASE r.s.kind \notin {"in", "inout"}
      <3>1. t = Fails(r.s)
        BY <2>2 DEF Replenish
      <3>2. Firm(r.s, Fails(r.s))
        BY <1>1, FirmIs, Zenon
      <3> QED
        BY <3>1, <3>2, Zenon
    <2> QED
      BY <2>1, <2>2
  <1> HIDE DEF t
  <1>4. Settled(t.s) /\ (Coherent(s) => Coherent(t.s) /\ t.code \notin Alarms)
    BY <1>1, <1>3 DEF Firm
  <1>5. Firm(s, Stuck(r, t))
    <2>1. Stuck(r, t).s = t.s /\ Stuck(r, t).code = t.code
      BY DEF Stuck
    <2> QED
      BY <1>4, <2>1 DEF Firm
  <1>6. GetByte(r) = CASE ~r.ok -> r
                       [] r.ok /\ r.s.pos < r.s.end -> Taken(r, r.s, r.code)
                       [] OTHER -> IF t.ok /\ t.s.pos < t.s.end THEN Taken(r, t.s, r.code)
                                   ELSE Stuck(r, t)
    BY GetByteIs DEF t
  <1>7. CASE ~r.ok
    BY <1>6, <1>7
  <1>8. CASE r.ok /\ r.s.pos < r.s.end
    <2>1. GetByte(r) = Taken(r, r.s, r.code)
      BY <1>6, <1>8
    <2>2. Firm(s, Taken(r, r.s, r.code))
      BY <1>1, <1>8, TakenFirm, Zenon
    <2> QED
      BY <2>1, <2>2, Zenon
  <1>9. CASE r.ok /\ ~(r.s.pos < r.s.end)
    <2>1. GetByte(r) = IF t.ok /\ t.s.pos < t.s.end THEN Taken(r, t.s, r.code) ELSE Stuck(r, t)
      BY <1>6, <1>9
    <2>2. CASE t.ok /\ t.s.pos < t.s.end
      <3>1. Firm(s, Taken(r, t.s, r.code))
        BY <1>2, <1>4, <2>2, TakenFirm, Zenon
      <3> QED
        BY <2>1, <2>2, <3>1
    <2>3. CASE ~(t.ok /\ t.s.pos < t.s.end)
      BY <1>5, <2>1, <2>3
    <2> QED
      BY <2>2, <2>3
  <1> QED
    BY <1>1, <1>7, <1>8, <1>9

LEMMA GetBytesFirm ==
  ASSUME DiscHasRoom, NEW s, OpenScb(s), s.kind # "append", Settled(s), NEW k \in Nat
  PROVE  Firm(s, GetBytes(s, k))
  <1> DEFINE T == {r \in Input : Reading(r, s) /\ Firm(s, r)}
             a == [s |-> s, ok |-> TRUE, code |-> 0, got |-> <<>>]
  <1>1. \A r : r \in T <=> Reading(r, s) /\ Firm(s, r)
    BY DEF Reading
  <1>2. a \in T
    <2>1. s \in UNION {ScbRec(n) : n \in Nat}
      BY Sizes DEF OpenScb, DiscScb, RamScb
    <2>2. <<>> \in Seq(Bytes) /\ 0 \in Codes
      BY EmptySeq DEF Codes
    <2>3. Reading(a, s)
      BY <2>1, <2>2 DEF Input, Reading
    <2>4. Firm(s, a)
      BY DEF Firm, Alarms
    <2> QED
      BY <1>1, <2>3, <2>4, Zenon
  <1> HIDE DEF T
  <1>3. \A r \in T : GetByte(r) \in T
    BY <1>1, GetByteReads, GetByteFirm
  <1>4. GetBytes(s, k) \in T
    BY <1>2, <1>3, GetBytesKeeps
  <1> QED
    BY <1>1, <1>4

(* Another block reached, and its place p: it is among the bytes read if   *)
(* point has found it in the file, and ldata is not out of date.           *)
LEMMA ReachedFirm ==
  ASSUME DiscHasRoom, NEW s, DiscScb(s), s.kind \in {"in", "inout"}, Settled(s),
         NEW b \in Nat, b # s.block, NEW p \in Nat, p <= BufLen, ~Past(s, b, p)
  PROVE  /\ Settled(Reached(s, b))
         /\ Coherent(s) /\ ~StaleEnd(s) => /\ Coherent(Reached(s, b))
                                           /\ p <= Reached(s, b).end
                                           /\ Checked(s, b)
  <1> DEFINE q == PutIfChanged(s)
             t == Reached(s, b)
             last == BufLen * s.lblock
  <1>1. /\ s.kind \in ByBlock /\ s.kind # "out" /\ b <= s.lblock
        /\ s.block \in Nat /\ s.lblock \in Nat /\ s.ldata \in Nat /\ s.ldata <= BufLen
        /\ BufLen \in Nat /\ last \in Nat /\ Len(s.fd) \in Nat /\ s.end \in Nat
    BY DiscFields, Sizes DEF ByBlock, Past
  <1>2. /\ DiscScb(q) /\ q.kind = s.kind /\ q.lblock = s.lblock /\ q.write = FALSE
        /\ q.block = s.block /\ (s.block # s.lblock => q.ldata = s.ldata)
    BY PutIs
  <1>3. Settled(q) /\ (Coherent(s) => Coherent(q)) /\ Len(s.fd) <= Len(q.fd)
    BY <1>1, PutKeeps
  <1>4. /\ DiscScb(t) /\ t.kind = s.kind /\ t.block = b /\ t.lblock = s.lblock
        /\ t.ldata = q.ldata /\ t.write = FALSE /\ t.fd = q.fd /\ t.pos = 0
        /\ t.end = Most(0, Least(BufLen, Len(q.fd) - BufLen * b))
        /\ \A i \in 0 .. t.end - 1 : t.buf[i] = q.fd[BufLen * b + i + 1]
    BY ReachedIs, ZenonT(40)
  <1> HIDE DEF q, t
  <1>5. Same(t)
    BY <1>4 DEF Same
  <1>6. /\ Settled(t)
        /\ last <= Len(q.fd) => /\ Coherent(t)
                                /\ t.block < t.lblock => t.end = BufLen
                                /\ t.block = t.lblock => t.end = Len(q.fd) - last
    <2>1. /\ t.kind = q.kind /\ t.block <= q.lblock /\ t.lblock = q.lblock /\ t.kind # "out"
          /\ q.kind \in ByBlock
      BY <1>1, <1>2, <1>4
    <2>2. /\ Settled(t)
          /\ BufLen * q.lblock <= Len(q.fd) =>
               /\ Coherent(t)
               /\ t.block < t.lblock => t.end = BufLen
               /\ t.block = t.lblock => t.end = Len(q.fd) - BufLen * q.lblock
      BY <1>2, <1>3, <1>4, <1>5, <2>1, ReadKeeps
    <2>3. BufLen * q.lblock = last
      BY <1>2
    <2> HIDE DEF last
    <2> QED
      BY <2>2, <2>3
  <1>7. ASSUME Coherent(s), ~StaleEnd(s)
        PROVE  Coherent(t) /\ p <= t.end /\ Checked(s, b)
    <2>1. /\ last <= Len(s.fd) /\ s.block <= s.lblock /\ (s.block < s.lblock => s.end = BufLen)
      BY <1>1, <1>7, CoherentIs
    <2>2. Len(q.fd) \in Nat /\ last <= Len(q.fd)
      BY <1>1, <1>2, <1>3, <2>1, DiscFields
    <2>3. CASE b < s.lblock
      <3>1. t.end = BufLen
        BY <1>4, <1>6, <2>2, <2>3
      <3> QED
        BY <1>6, <2>2, <3>1 DEF Checked, t
    <2>4. CASE b = s.lblock
      <3>1. s.block # s.lblock /\ s.end = BufLen /\ t.end = Len(q.fd) - last
        BY <1>1, <1>4, <1>6, <2>1, <2>2, <2>4
      <3>2. p <= s.ldata /\ q.ldata = s.ldata
        BY <1>1, <1>2, <2>4, <3>1 DEF Past
      <3>3. s.ldata <= Len(q.fd) - last
        <4>1. CASE last < Len(q.fd)
          <5>1. q.ldata = Len(q.fd) - last
            BY <1>1, <1>2, <1>3, <3>1, <4>1 DEF Settled
          <5> QED
            BY <1>1, <2>2, <3>2, <5>1
        <4>2. CASE last = Len(q.fd)
          <5>1. Len(s.fd) = last
            BY <1>1, <1>3, <2>1, <2>2, <4>2
          <5>2. s.ldata = 0
            <6>1. CASE s.kind = "in"
              <7>1. s.ldata = Len(s.fd) - last
                BY <1>1, <6>1 DEF Settled
              <7> QED
                BY <1>1, <5>1, <7>1
            <6>2. CASE s.kind = "inout"
              BY <1>1, <1>7, <3>1, <5>1, <6>2 DEF StaleEnd
            <6> QED
              BY <6>1, <6>2
          <5> QED
            BY <1>1, <2>2, <4>2, <5>2
        <4> QED
          BY <1>1, <2>2, <4>1, <4>2
      <3>4. p <= t.end
        BY <1>1, <2>2, <3>1, <3>2, <3>3
      <3>5. s.end >= t.ldata
        BY <1>1, <1>4, <3>1, <3>2
      <3>6. Checked(s, b)
        BY <2>4, <3>5 DEF Checked, t
      <3> QED
        BY <1>6, <2>2, <3>4, <3>6
    <2> QED
      BY <1>1, <2>3, <2>4
  <1> QED
    BY <1>6, <1>7 DEF t

(* Pointing into a file: unless ldata is out of date it keeps a coherent   *)
(* control block coherent.                                                 *)
Pointed(s, r) == Settled(r.s) /\ (~StaleEnd(s) => Firm(s, r))

LEMMA PointInFirm ==
  ASSUME DiscHasRoom, NEW s, OpenScb(s), Readable(s), Settled(s), NEW b \in Int,
         NEW p \in Nat, s.kind \in DiscKind => p <= BufLen
  PROVE  LET r == PointIn(s, b, p)
         IN  /\ Pointed(s, r)
             /\ r.ok => b \in Nat /\ r.s.block = b /\ r.s.pos = p
             /\ r.ok <=> ~Past(s, b, p)
  <1> DEFINE t == Reached(s, b)
             v == [s EXCEPT !.pos = p]
             w == [t EXCEPT !.pos = p]
  <1>1. /\ s.pos \in Nat /\ s.end \in Nat /\ s.end <= s.bufend /\ s.bufend \in Nat
        /\ s.block \in Nat /\ s.lblock \in Nat /\ s.ldata \in Nat /\ s.ldata <= BufLen
        /\ BufLen \in Nat /\ s.kind \in {"in", "inout", "ram"}
    BY OpenFields, Sizes DEF Readable
  <1>2. CASE Past(s, b, p)
    <2>1. Firm(s, Refused(s))
      BY FirmIs, Zenon
    <2>2. PointIn(s, b, p) = Refused(s)
      BY <1>2 DEF PointIn
    <2>3. Refused(s).ok = FALSE /\ Refused(s).s = s
      BY DEF Refused, Aborts
    <2> QED
      BY <1>2, <2>1, <2>2, <2>3 DEF Pointed
  <1>3. ASSUME ~Past(s, b, p)
        PROVE  /\ b \in Nat /\ b <= s.lblock /\ p \in 0 .. s.bufend
               /\ s.kind = "ram" => b = s.block
               /\ s.kind = "ram" => p <= s.end
               /\ b = s.block /\ s.block = s.lblock => p <= s.end
    <2>1. b \in Nat /\ b <= s.lblock
      BY <1>1, <1>3 DEF Past
    <2>2. s.block = s.lblock /\ b = s.lblock => p <= s.end
      BY <1>1, <1>3 DEF Past
    <2>3. CASE s.kind = "ram"
      <3>1. s.block = 0 /\ s.lblock = 0 /\ b = 0
        BY <1>1, <2>1, <2>3, OpenFields, RamFields
      <3>2. p <= s.end
        BY <2>2, <3>1
      <3> QED
        BY <1>1, <2>1, <3>1, <3>2
    <2>4. CASE s.kind \in {"in", "inout"}
      <3>1. s.bufend = BufLen /\ p <= BufLen
        BY <2>4, OpenFields, DiscFields DEF DiscKind
      <3> QED
        BY <1>1, <2>1, <2>2, <2>4, <3>1
    <2> QED
      BY <1>1, <2>3, <2>4
  <1>4. CASE ~Past(s, b, p) /\ b = s.block
    <2>1. PointIn(s, b, p) = Ok(v)
      BY <1>4 DEF PointIn
    <2>2. /\ Settled(v) /\ (Coherent(s) /\ s.kind # "append" /\ p <= s.end => Coherent(v))
      BY <1>3, <1>4, PosKeeps
    <2>3. v.pos = p /\ v.block = s.block
      BY <1>3, <1>4, PosSet
    <2> HIDE DEF v
    <2>4. Coherent(s) => p <= s.end
      <3>1. CASE s.kind = "ram" \/ s.block = s.lblock
        BY <1>3, <1>4, <3>1
      <3>2. CASE s.kind # "ram" /\ s.block # s.lblock
        <4>1. DiscScb(s) /\ s.kind \in ByBlock /\ p <= BufLen
          BY <1>1, <3>2, OpenFields DEF DiscKind, ByBlock
        <4>2. Coherent(s) => (s.block < s.lblock => s.end = BufLen)
          BY <4>1, CoherentIs
        <4> QED
          BY <1>1, <1>3, <1>4, <3>2, <4>1, <4>2
      <3> QED
        BY <3>1, <3>2
    <2>5. Firm(s, Ok(v))
      <3>1. Coherent(s) => Coherent(v)
        BY <1>1, <2>2, <2>4
      <3> QED
        BY <2>2, <3>1, FirmIs, Zenon
    <2>6. Ok(v).ok = TRUE /\ Ok(v).s = v
      BY DEF Ok
    <2>7. b \in Nat
      BY <1>3, <1>4
    <2>8. Settled(Ok(v).s)
      BY <2>2, <2>6
    <2> QED
      BY <1>4, <2>1, <2>3, <2>5, <2>6, <2>7, <2>8 DEF Pointed
  <1>5. CASE ~Past(s, b, p) /\ b # s.block
    <2>1. DiscScb(s) /\ s.kind \in {"in", "inout"} /\ p <= BufLen /\ b \in Nat
      BY <1>1, <1>3, <1>5, OpenFields DEF DiscKind
    <2>2. DiscScb(t) /\ t.kind = s.kind /\ t.block = b /\ OpenScb(t) /\ t.bufend = BufLen
      BY <2>1, ReachedIs, DiscFields DEF OpenScb
    <2>3. /\ Settled(t)
          /\ Coherent(s) /\ ~StaleEnd(s) => Coherent(t) /\ p <= t.end /\ Checked(s, b)
      BY <1>5, <2>1, ReachedFirm
    <2> HIDE DEF t
    <2>4. p \in 0 .. t.bufend
      BY <2>1, <2>2
    <2>5. /\ Settled(w)
          /\ Coherent(t) /\ t.kind # "append" /\ p <= t.end => Coherent(w)
      BY <2>2, <2>3, <2>4, PosKeeps
    <2>6. w.pos = p /\ w.block = b
      BY <2>2, <2>4, PosSet
    <2> HIDE DEF w
    <2>7. Coherent(s) /\ ~StaleEnd(s) => Coherent(w) /\ Checked(s, b)
      BY <2>1, <2>2, <2>3, <2>5
    <2>8. PointIn(s, b, p) = IF Checked(s, b) THEN Sure(w) ELSE Unsure(w)
      BY <1>5 DEF PointIn, w, t
    <2>9. /\ Sure(w).s = w /\ Unsure(w).s = w /\ Sure(w).ok = TRUE /\ Unsure(w).ok = TRUE
      BY DEF Sure, Unsure, Aborts
    <2>10. CASE Checked(s, b)
      <3>1. ~StaleEnd(s) => Firm(s, Sure(w))
        <4>1. ~StaleEnd(s) => (Coherent(s) => Coherent(w))
          BY <2>7
        <4> QED
          BY <2>5, <4>1, FirmIs, Zenon
      <3>2. PointIn(s, b, p) = Sure(w)
        BY <2>8, <2>10
      <3> QED
        BY <1>5, <2>1, <2>5, <2>6, <2>9, <3>1, <3>2 DEF Pointed
    <2>11. CASE ~Checked(s, b)
      <3>1. ~StaleEnd(s) => ~Coherent(s)
        BY <2>7, <2>11
      <3>2. PointIn(s, b, p) = Unsure(w)
        BY <2>8, <2>11
      <3>3. Settled(Unsure(w).s)
        BY <2>5, <2>9
      <3>4. Pointed(s, Unsure(w))
        BY <3>1, <3>3 DEF Pointed, Firm
      <3> QED
        BY <1>5, <2>1, <2>6, <2>9, <3>2, <3>4
    <2> QED
      BY <2>10, <2>11
  <1> QED
    BY <1>2, <1>4, <1>5

LEMMA PointFirm ==
  ASSUME DiscHasRoom, NEW s, OpenScb(s), Settled(s), NEW b \in Int, NEW p \in Nat,
         s.kind \in DiscKind => p <= BufLen
  PROVE  LET r == Point(s, b, p)
         IN  /\ Pointed(s, r)
             /\ r.ok /\ s.kind \in ByBlock /\ b \in Nat => Where(r.s) = BufLen * b + p
  <1> DEFINE r == Point(s, b, p)
  <1>1. s.lblock \in Nat /\ BufLen \in Nat /\ BufLen <= BufLen
    BY OpenFields, Sizes
  <1>2. CASE ~Readable(s)
    <2>1. r = Fails(s)
      BY <1>2, PointIs, Zenon
    <2>2. Firm(s, Fails(s))
      BY FirmIs, Zenon
    <2>3. Fails(s).ok = FALSE /\ Fails(s).s = s
      BY DEF Fails
    <2> QED
      BY <2>1, <2>2, <2>3 DEF Pointed
  <1>3. CASE Readable(s) /\ p = 0 /\ b = s.lblock + 1
    <2> DEFINE i == PointIn(s, s.lblock, BufLen)
    <2>1. r = i
      BY <1>3, PointIs
    <2>2. Pointed(s, i) /\ (i.ok => i.s.block = s.lblock /\ i.s.pos = BufLen)
      BY <1>1, <1>3, PointInFirm
    <2>3. BufLen * (s.lblock + 1) = BufLen * s.lblock + BufLen /\ BufLen * s.lblock \in Nat
      BY <1>1, Blocks
    <2> HIDE DEF i, r
    <2>4. i.ok => Where(i.s) = BufLen * b + p
      BY <1>1, <1>3, <2>2, <2>3 DEF Where
    <2> QED
      BY <2>1, <2>2, <2>4 DEF r
  <1>4. CASE Readable(s) /\ ~(p = 0 /\ b = s.lblock + 1)
    <2> DEFINE i == PointIn(s, b, p)
    <2>1. r = i
      BY <1>4, PointIs
    <2>2. Pointed(s, i) /\ (i.ok => i.s.block = b /\ i.s.pos = p)
      BY <1>4, PointInFirm
    <2> HIDE DEF i, r
    <2>3. i.ok => Where(i.s) = BufLen * b + p
      BY <2>2 DEF Where
    <2> QED
      BY <2>1, <2>2, <2>3 DEF r
  <1> QED
    BY <1>2, <1>3, <1>4

LEMMA RecordPointFirm ==
  ASSUME DiscHasRoom, NEW s, OpenScb(s), Settled(s), NEW n \in Nat
  PROVE  /\ Pointed(s, RecordPoint(s, n))
         /\ RecordPoint(s, n).ok /\ s.kind \in ByBlock => Where(RecordPoint(s, n).s) = RecLen * n
  <1> DEFINE a == RecLen * n
             b == a \div s.bufend
             p == a % s.bufend
  <1>1. /\ RecordPoint(s, n) = Point(s, b, p) /\ a \in Nat /\ b \in Nat /\ p \in Nat
        /\ p < s.bufend /\ a = s.bufend * b + p
    BY RecordPointIs
  <1>2. s.bufend \in Nat /\ (s.kind \in DiscKind => s.bufend = BufLen)
    BY OpenFields, DiscFields
  <1> HIDE DEF b, p
  <1>3. b \in Int /\ (s.kind \in DiscKind => p <= BufLen)
    BY <1>1, <1>2
  <1>4. /\ Pointed(s, Point(s, b, p))
        /\ Point(s, b, p).ok /\ s.kind \in ByBlock /\ b \in Nat =>
             Where(Point(s, b, p).s) = BufLen * b + p
    BY <1>1, <1>3, PointFirm
  <1>5. s.kind \in ByBlock => a = BufLen * b + p
    BY <1>1, <1>2 DEF ByBlock, DiscKind
  <1> HIDE DEF a
  <1> QED
    BY <1>1, <1>4, <1>5 DEF a

LEMMA GetRecordFirm ==
  ASSUME DiscHasRoom, NEW s, OpenScb(s), Readable(s), Settled(s), NEW n \in Nat
  PROVE  Pointed(s, GetRecord(s, n))
  <1> DEFINE p == RecordPoint(s, n)
             r == GetBytes(p.s, RecLen)
             c == IF p.code # 0 THEN p.code ELSE r.code
  <1>1. OpenScb(p.s) /\ p.s.kind = s.kind
    BY RecordPointResult DEF Result
  <1>2. Pointed(s, p)
    BY RecordPointFirm
  <1>3. p.s.kind # "append" /\ Settled(p.s)
    BY <1>1, <1>2 DEF Readable, Pointed
  <1>4. Firm(p.s, r)
    BY <1>1, <1>3, GetBytesFirm, Sizes
  <1>5. GetRecord(s, n).s = r.s /\ GetRecord(s, n).code = c
    <2>1. r \in Input
      BY <1>1, GetBytesReads, Sizes DEF Reading
    <2>2. GetRecord(s, n) = [r EXCEPT !.code = c]
      BY DEF GetRecord
    <2> HIDE DEF r, c, p
    <2> QED
      BY <2>1, <2>2 DEF Input
  <1>6. c \in {p.code, r.code}
    OBVIOUS
  <1> HIDE DEF p, r, c
  <1>7. ASSUME ~StaleEnd(s), Coherent(s)
        PROVE  Coherent(r.s) /\ p.code \notin Alarms /\ r.code \notin Alarms
    BY <1>2, <1>4, <1>7 DEF Pointed, Firm
  <1>8. Settled(r.s)
    BY <1>4 DEF Firm
  <1> QED
    BY <1>5, <1>6, <1>7, <1>8 DEF Pointed, Firm

LEMMA FilledFirm ==
  ASSUME NEW s, OpenScb(s), s.kind # "append", Settled(s)
  PROVE  /\ Settled(Filled(s)) /\ Where(Filled(s)) = Where(s)
         /\ Coherent(s) => Coherent(Filled(s))
  <1> DEFINE u == Filled(s)
  <1>1. /\ OpenScb(u) /\ u.kind = s.kind /\ u.buf = s.buf /\ u.pos = s.pos
        /\ u.end = IF s.pos >= s.bufend THEN Most(s.end, s.pos) ELSE s.end
        /\ u.block = s.block /\ u.write = s.write /\ u.bufend = s.bufend
        /\ u.lblock = s.lblock /\ u.ldata = s.ldata /\ u.fd = s.fd
    BY FilledIs
  <1>2. /\ s.pos \in Nat /\ s.end \in Nat /\ s.kind \in DiscKind \cup {"ram"}
        /\ BufLen * s.block \in Nat /\ Len(s.fd) \in Nat
    BY OpenFields, Blocks
  <1> HIDE DEF u
  <1>3. u.end \in Nat /\ u.end >= s.end /\ (s.pos <= s.end => u.end = s.end)
    BY <1>1, <1>2 DEF Most
  <1>4. Settled(u)
    <2>1. Len(s.fd) <= BufLen * s.block + s.end => Len(s.fd) <= BufLen * s.block + u.end
      BY <1>2, <1>3
    <2>2. s.end > 0 => u.end > 0
      BY <1>2, <1>3
    <2> QED
      BY <1>1, <2>1, <2>2 DEF Settled
  <1>5. Where(u) = Where(s)
    BY <1>1 DEF Where
  <1>6. ASSUME Coherent(s) PROVE Coherent(u)
    <2>1. CASE s.kind \in ByBlock
      <3>1. DiscScb(s) /\ DiscScb(u)
        BY <1>1, <2>1, OpenFields DEF ByBlock, DiscKind
      <3>2. /\ s.pos <= s.end /\ s.block <= s.lblock
            /\ s.block < s.lblock => s.end = BufLen
            /\ BufLen * s.lblock <= Len(s.fd)
            /\ Len(s.fd) <= BufLen * s.lblock + BufLen
            /\ ~s.write => Same(s)
        BY <1>6, <2>1, <3>1, CoherentIs
      <3>3. u.end = s.end
        BY <1>3, <3>2
      <3>4. Same(s) => Same(u)
        BY <1>1, <3>3 DEF Same
      <3> QED
        BY <1>1, <2>1, <3>1, <3>2, <3>3, <3>4, CoherentIs
    <2>2. CASE s.kind = "ram"
      BY <1>1, <1>3, <1>6, <2>2 DEF Coherent
    <2> QED
      BY <1>2, <2>1, <2>2 DEF ByBlock, DiscKind
  <1> QED
    BY <1>4, <1>5, <1>6 DEF u

LEMMA PutRecordFirm ==
  ASSUME DiscHasRoom, NEW s, OpenScb(s), Settled(s), NEW n \in Nat, NEW d \in Seq(Byte),
         Len(d) = RecLen, RecLen * (n + 1) <= MaxLen
  PROVE  Pointed(s, PutRecord(s, n, d))
  <1> DEFINE p == RecordPoint(s, n)
             u == Filled(p.s)
             r == PutBytes(u, d)
  <1>1. CASE s.kind \notin {"inout", "ram"}
    <2>1. PutRecord(s, n, d) = Refused(s)
      BY <1>1, PutRecordIs, Zenon
    <2>2. Firm(s, Refused(s))
      BY FirmIs, Zenon
    <2> QED
      BY <2>1, <2>2 DEF Pointed, Firm
  <1>2. OpenScb(p.s) /\ p.s.kind = s.kind
    BY RecordPointResult DEF Result
  <1>3. Pointed(s, p) /\ (p.ok /\ s.kind \in ByBlock => Where(p.s) = RecLen * n)
    BY RecordPointFirm
  <1>4. CASE s.kind \in {"inout", "ram"} /\ ~p.ok
    <2>1. PutRecord(s, n, d) = p
      BY <1>4, PutRecordIs, Zenon
    <2> QED
      BY <1>3, <2>1
  <1>5. CASE s.kind \in {"inout", "ram"} /\ p.ok
    <2>1. PutRecord(s, n, d) = r
      BY <1>5, PutRecordIs, Zenon
    <2> HIDE DEF p
    <2>2. Settled(p.s) /\ p.s.kind # "append"
      BY <1>2, <1>3, <1>5 DEF Pointed
    <2>3. OpenScb(u) /\ u.kind = s.kind
      BY <1>2, FilledIs
    <2>4. Settled(u) /\ Where(u) = Where(p.s) /\ (Coherent(p.s) => Coherent(u))
      BY <1>2, <2>2, FilledFirm
    <2> HIDE DEF u
    <2>5. u.kind \in ByBlock => Where(u) + Len(d) <= MaxLen
      <3>1. RecLen * (n + 1) = RecLen * n + RecLen
        BY Sizes
      <3> QED
        BY <1>3, <1>5, <2>3, <2>4, <3>1
    <2>6. Firm(u, r) /\ r.code = 0
      BY <1>5, <2>3, <2>4, <2>5, PutBytesFirm
    <2> HIDE DEF r
    <2>7. 0 \notin Alarms
      BY DEF Alarms
    <2>8. Settled(r.s) /\ (Coherent(p.s) => Coherent(r.s)) /\ r.code \notin Alarms
      BY <2>4, <2>6, <2>7 DEF Firm
    <2>9. ~StaleEnd(s) /\ Coherent(s) => Coherent(p.s)
      BY <1>3 DEF Pointed, Firm
    <2> QED
      BY <2>1, <2>8, <2>9 DEF Pointed, Firm
  <1> QED
    BY <1>1, <1>4, <1>5

LEMMA FirmPoints ==
  ASSUME NEW s, NEW r, Firm(s, r)
  PROVE  Pointed(s, r)
  BY DEF Pointed, Firm

LEMMA AppendPointFirm ==
  ASSUME DiscHasRoom, NEW s, OpenScb(s), Settled(s)
  PROVE  Pointed(s, AppendPoint(s))
  <1> DEFINE p == IF s.block = s.lblock THEN Most(s.ldata, s.end) ELSE s.ldata
  <1>1. /\ s.end \in Nat /\ s.end <= s.bufend /\ s.ldata \in Nat /\ s.ldata <= BufLen
        /\ BufLen \in Nat /\ s.bufend \in Nat /\ s.lblock \in Int
        /\ s.kind \in DiscKind => s.bufend = BufLen
    BY OpenFields, DiscFields, Sizes
  <1>2. p \in Nat /\ (s.kind \in DiscKind => p <= BufLen)
    BY <1>1 DEF Most
  <1>3. AppendPoint(s) = IF s.kind \notin {"inout", "ram"} THEN Fails(s)
                         ELSE Point(s, s.lblock, p)
    BY DEF AppendPoint
  <1> HIDE DEF p
  <1>4. Pointed(s, Point(s, s.lblock, p))
    BY <1>1, <1>2, PointFirm
  <1>5. Pointed(s, Fails(s))
    BY FirmIs, FirmPoints, Zenon
  <1> QED
    BY <1>3, <1>4, <1>5

LEMMA StepPointFirm ==
  ASSUME DiscHasRoom, NEW s, OpenScb(s), Settled(s), NEW words \in Int
  PROVE  Pointed(s, StepPoint(s, words))
  <1>1. Pointed(s, Fails(s))
    BY FirmIs, FirmPoints, Zenon
  <1>2. ASSUME NEW b \in Int, NEW q \in Nat, s.kind \in DiscKind => q <= BufLen
        PROVE  Pointed(s, Point(s, b, q))
    BY <1>2, PointFirm
  <1> QED
    BY <1>1, <1>2, StepPointIs

LEMMA UnreadFirm ==
  ASSUME NEW s, OpenScb(s), s.kind # "append", Settled(s)
  PROVE  Firm(s, IF s.pos <= 0 THEN Fails(s) ELSE Ok([s EXCEPT !.pos = @ - 1]))
  <1> DEFINE p == s.pos - 1
             u == [s EXCEPT !.pos = p]
  <1>1. s.pos \in Nat /\ s.end \in Nat /\ s.pos <= s.bufend /\ s.bufend \in Nat
        /\ s.kind \in DiscKind \cup {"ram"}
    BY OpenFields
  <1>2. Firm(s, Fails(s))
    BY FirmIs, Zenon
  <1>3. ASSUME s.pos > 0 PROVE Firm(s, Ok(u))
    <2>1. p \in 0 .. s.bufend /\ p <= s.pos
      BY <1>1, <1>3
    <2> HIDE DEF p
    <2>2. Settled(u) /\ (Coherent(s) /\ s.kind # "append" /\ p <= s.end => Coherent(u))
      BY <2>1, PosKeeps
    <2>3. Coherent(s) => s.pos <= s.end
      BY <1>1 DEF Coherent, DiscKind
    <2>4. Coherent(s) => p <= s.end
      BY <1>1, <2>1, <2>3
    <2> HIDE DEF u
    <2> QED
      BY <2>2, <2>4, FirmIs, Zenon
  <1>4. CASE s.pos <= 0
    BY <1>2, <1>4
  <1>5. CASE s.pos > 0
    <2>1. ~(s.pos <= 0)
      BY <1>1, <1>5
    <2> QED
      BY <1>3, <1>5, <2>1
  <1> QED
    BY <1>1, <1>4, <1>5

LEMMA DepleteFirm ==
  ASSUME DiscHasRoom, NEW s, OpenScb(s), Writable(s), Settled(s)
  PROVE  LET r == DepleteOf(s)
         IN  /\ Settled(r.s) /\ r.code = 0
             /\ Coherent(s) => Coherent(r.s) \/ HalfAppended(r.s)
  <1> DEFINE r == DepleteOf(s)
  <1>1. s.pos \in Nat /\ s.bufend \in Nat /\ s.kind \in {"out", "inout", "append", "ram"}
    BY OpenFields DEF Writable
  <1>2. \A t : Ok(t).s = t /\ Ok(t).code = 0 /\ Fails(t).s = t /\ Fails(t).code = 0
    BY DEF Ok, Fails
  <1>3. CASE s.kind \in {"out", "inout"}
    <2>1. DiscScb(s) /\ r = Fh0Wrfn(s)
      BY <1>3, OpenFields DEF DiscKind, DepleteOf
    <2>2. Firm(s, r) /\ r.code = 0
      BY <1>3, <2>1, WrfnFirm
    <2> QED
      BY <2>2 DEF Firm
  <1>4. CASE s.kind = "append"
    <2> DEFINE q == PutIfChanged(s)
    <2>1. DiscScb(s) /\ r = Fh0Wrfn(s)
      BY <1>4, OpenFields DEF DiscKind, DepleteOf
    <2>2. q.kind = s.kind /\ q.pos = s.pos /\ q.end = s.end /\ q.write = FALSE /\ q.end \in Nat
      BY <2>1, PutIs, DiscFields
    <2>3. \A t \in {Longer(s), Moved(s)} :
            t.kind = "append" /\ t.pos = 0 /\ t.end = 0 /\ t.write = FALSE
      BY <1>4, <2>1, MovedIs
    <2>4. \A t \in {Longer(s), Moved(s)} : Settled(t) /\ Coherent(t)
      BY <2>3 DEF Settled, Coherent, ByBlock
    <2>5. r = Ok(q) \/ r = Ok(Longer(s)) \/ r = Ok(Moved(s))
      <3> HIDE DEF q, r
      <3>1. CASE s.pos < s.bufend
        BY <2>1, <3>1, WrfnIs, Zenon DEF q
      <3>2. CASE ~(s.pos < s.bufend) /\ s.block + 1 > s.lblock
        BY <2>1, <3>2, WrfnIs, Zenon
      <3>3. CASE ~(s.pos < s.bufend) /\ ~(s.block + 1 > s.lblock)
        <4>1. s.kind # "inout"
          BY <1>4
        <4> QED
          BY <2>1, <3>3, <4>1, WrfnIs, Zenon
      <3> QED
        BY <3>1, <3>2, <3>3
    <2> HIDE DEF q
    <2>6. Settled(q)
      BY <1>4, <2>2, RamSettled
    <2>7. Coherent(s) => Coherent(q) \/ HalfAppended(q)
      <3>1. Coherent(s) => s.pos = s.end
        BY <1>4 DEF Coherent
      <3>2. CASE q.end = 0
        BY <1>4, <2>2, <3>1, <3>2 DEF Coherent
      <3>3. CASE q.end # 0
        BY <1>4, <2>2, <3>3 DEF HalfAppended
      <3> QED
        BY <3>2, <3>3
    <2> HIDE DEF r
    <2> QED
      BY <1>2, <2>4, <2>5, <2>6, <2>7 DEF r
  <1>5. CASE s.kind = "ram"
    <2>1. RamScb(s) /\ r = RamWrfn(s)
      BY <1>5, OpenFields DEF DepleteOf
    <2>2. r = Fails(s) \/ r = Ok(Grown(s))
      <3> HIDE DEF r
      <3> QED
        BY <2>1, RamWrfnIs
    <2>3. /\ Grown(s).kind = "ram" /\ Grown(s).pos = s.pos
          /\ Grown(s).end = s.end /\ Grown(s).bufend = 2 * s.bufend
      BY <1>5, <2>1, GrownIs
    <2>4. Settled(Grown(s))
      BY <2>3, RamSettled
    <2>5. Coherent(s) => Coherent(Grown(s))
      <3>1. Coherent(s) => s.pos <= s.end
        BY <1>5 DEF Coherent
      <3>2. s.pos <= s.end => Grown(s).pos <= Grown(s).end /\ Grown(s).end <= Grown(s).bufend
        BY <2>1, <2>3, RamFields
      <3> QED
        BY <2>3, <3>1, <3>2 DEF Coherent
    <2> HIDE DEF r
    <2> QED
      BY <1>2, <2>2, <2>4, <2>5 DEF r
  <1> QED
    BY <1>1, <1>3, <1>4, <1>5

LEMMA NewFirm ==
  ASSUME NEW fd \in Seq(Bytes)
  PROVE  /\ Settled(NewScb("out", BufLen, <<>>)) /\ Coherent(NewScb("out", BufLen, <<>>))
         /\ Settled(NewScb("append", BufLen, fd)) /\ Coherent(NewScb("append", BufLen, fd))
         /\ Settled(NewScb("ram", RamLen, fd)) /\ Coherent(NewScb("ram", RamLen, fd))
  <1>1. \A k, len, f : /\ NewScb(k, len, f).kind = k /\ NewScb(k, len, f).pos = 0
                       /\ NewScb(k, len, f).end = 0 /\ NewScb(k, len, f).block = 0
                       /\ NewScb(k, len, f).lblock = 0 /\ NewScb(k, len, f).ldata = 0
                       /\ NewScb(k, len, f).write = FALSE /\ NewScb(k, len, f).fd = f
                       /\ NewScb(k, len, f).bufend = len
    BY DEF NewScb
  <1>2. Settled(NewScb("append", BufLen, fd)) /\ Settled(NewScb("ram", RamLen, fd))
    BY <1>1, RamSettled
  <1>3. Coherent(NewScb("append", BufLen, fd))
    BY <1>1 DEF Coherent
  <1>4. Coherent(NewScb("ram", RamLen, fd))
    BY <1>1, Sizes DEF Coherent
  <1> DEFINE u == NewScb("out", BufLen, <<>>)
  <1>5. /\ u.kind = "out" /\ u.pos = 0 /\ u.end = 0 /\ u.block = 0 /\ u.lblock = 0
        /\ u.write = FALSE /\ u.fd = <<>>
    BY <1>1
  <1>6. DiscScb(u)
    <2>1. <<>> \in Seq(Bytes)
      BY EmptySeq
    <2> QED
      BY <2>1, NewIs DEF DiscKind
  <1> HIDE DEF u
  <1>7. Len(u.fd) = 0 /\ BufLen * u.block = 0 /\ BufLen * u.lblock = 0 /\ BufLen \in Nat
    BY <1>5, Sizes, EmptySeq
  <1>8. Settled(u)
    BY <1>5, <1>7 DEF Settled
  <1>9. Same(u)
    BY <1>5, <1>7 DEF Same, Most, Least
  <1>10. Coherent(u)
    BY <1>5, <1>6, <1>7, <1>9, CoherentIs DEF ByBlock
  <1> QED
    BY <1>2, <1>3, <1>4, <1>8, <1>10 DEF u

LEMMA SizedFirm ==
  ASSUME NEW k \in {"in", "inout"}, NEW fd \in Seq(Bytes)
  PROVE  LET t == Sized(NewScb(k, BufLen, fd)) IN Settled(t) /\ Coherent(t)
  <1> DEFINE s == NewScb(k, BufLen, fd)
             t == Sized(s)
             last == BufLen * t.lblock
  <1>1. DiscScb(s) /\ s.kind = k /\ s.block = 0 /\ s.write = FALSE /\ s.fd = fd
    <2>1. k \in DiscKind
      BY DEF DiscKind
    <2>2. DiscScb(s)
      BY <2>1, NewIs
    <2> QED
      BY <2>2 DEF NewScb
  <1> HIDE DEF s
  <1>2. /\ DiscScb(t) /\ t.kind = k /\ t.block = 0 /\ t.write = FALSE
        /\ t.fd = fd /\ t.pos = 0
        /\ t.lblock = Len(fd) \div BufLen /\ t.ldata = Len(fd) % BufLen
        /\ t.end = Most(0, Least(BufLen, Len(fd) - BufLen * t.block))
        /\ \A i \in 0 .. t.end - 1 : t.buf[i] = fd[BufLen * t.block + i + 1]
    BY <1>1, SizedIs
  <1> HIDE DEF t
  <1>3. Same(t)
    BY <1>2 DEF Same
  <1>4. /\ Len(fd) \in Nat /\ BufLen \in Nat \ {0} /\ t.lblock \in Nat /\ last \in Nat
        /\ BufLen * t.block = 0 /\ t.end \in Nat
    BY <1>2, Sizes, DiscFields
  <1>5. Len(fd) = last + t.ldata /\ t.ldata \in Nat /\ t.ldata < BufLen
    BY <1>2, <1>4, DivModIs
  <1>6. (t.lblock = 0 => last = 0) /\ (0 < t.lblock => BufLen <= last)
    <2>1. BufLen * 0 = 0
      BY Sizes
    <2> QED
      BY <1>4, <2>1, Blocks
  <1> HIDE DEF last
  <1>7. t.end = Most(0, Least(BufLen, Len(fd)))
    BY <1>2, <1>4
  <1>8. /\ t.block = t.lblock => Len(fd) <= t.end
        /\ t.block < t.lblock => t.end = BufLen
        /\ Len(fd) <= last + BufLen /\ last <= Len(fd) /\ t.ldata = Len(fd) - last
        /\ t.block <= t.lblock
    <2> DEFINE n == Len(fd)
               l == t.ldata
               e == t.end
    <2>1. t.block = 0 /\ n \in Nat
      BY <1>2, <1>4
    <2>2. /\ n = last + l /\ l \in Nat /\ l < BufLen /\ e = Most(0, Least(BufLen, n))
      BY <1>5, <1>7
    <2> HIDE DEF n, l, e
    <2>3. n <= last + BufLen /\ last <= n /\ l = n - last
      BY <1>4, <2>1, <2>2
    <2>4. CASE t.lblock = 0
      <3>1. n <= e
        BY <1>4, <1>6, <2>1, <2>2, <2>4 DEF Most, Least
      <3> QED
        BY <2>1, <2>3, <2>4, <3>1 DEF n, l, e
    <2>5. CASE 0 < t.lblock
      <3>1. e = BufLen
        BY <1>4, <1>6, <2>1, <2>2, <2>5 DEF Most, Least
      <3> QED
        BY <1>4, <2>1, <2>3, <2>5, <3>1 DEF n, l, e
    <2> QED
      BY <1>4, <2>4, <2>5
  <1>9. Settled(t)
    <2>1. t.block = t.lblock => Len(t.fd) <= BufLen * t.block + t.end
      BY <1>2, <1>4, <1>8
    <2> QED
      BY <1>2, <1>8, <2>1 DEF Settled, last
  <1>10. Coherent(t)
    <2>1. t.pos <= t.end
      BY <1>2, <1>4
    <2> QED
      BY <1>2, <1>3, <1>8, <2>1, CoherentIs DEF ByBlock, last
  <1> QED
    BY <1>9, <1>10 DEF t, s

(* What a step does to a settled control block.                            *)
Firmly ==
  /\ Settled(scb')
  /\ Coherent(scb) /\ ~StaleEnd(scb) =>
       (Coherent(scb') \/ HalfAppended(scb')) /\ code' \notin Alarms

LEMMA FirmStep ==
  ASSUME NEW r, Pointed(scb, r), scb' = r.s, code' = r.code
  PROVE  Firmly
  BY DEF Pointed, Firm, Firmly

LEMMA FirmFindstream ==
  ASSUME Kept, NEW k \in Kinds, Findstream(k)
  PROVE  Firmly
  <1>1. scb.fd \in Seq(Bytes)
    BY OpenFields DEF Kept, Shut
  <1>2. code' \notin Alarms
    BY DEF Findstream, Alarms
  <1>3. k \in {"in", "out", "inout", "append", "ram"}
    BY FileStreamAssumption DEF FileStreamAssumption
  <1>4. /\ Settled(NewScb("out", BufLen, <<>>)) /\ Coherent(NewScb("out", BufLen, <<>>))
        /\ Settled(NewScb("append", BufLen, scb.fd)) /\ Coherent(NewScb("append", BufLen, scb.fd))
        /\ Settled(NewScb("ram", RamLen, scb.fd)) /\ Coherent(NewScb("ram", RamLen, scb.fd))
    BY <1>1, NewFirm, Zenon
  <1>5. \A j \in {"in", "inout"} : /\ Settled(Sized(NewScb(j, BufLen, scb.fd)))
                                   /\ Coherent(Sized(NewScb(j, BufLen, scb.fd)))
    BY <1>1, SizedFirm
  <1>6. \/ \E j \in {"in", "inout"} : scb' = Sized(NewScb(j, BufLen, scb.fd))
        \/ scb' = NewScb("out", BufLen, <<>>)
        \/ scb' = NewScb("append", BufLen, scb.fd)
        \/ scb' = NewScb("ram", RamLen, scb.fd)
    BY <1>3 DEF Findstream, Fh0Findinput, Fh0Findinoutput, Fh0Findoutput, RamStream
  <1>7. Settled(scb') /\ Coherent(scb')
    BY <1>4, <1>5, <1>6
  <1> QED
    BY <1>2, <1>7 DEF Firmly

LEMMA FirmEndstream ==
  ASSUME Endstream
  PROVE  Firmly
  <1>1. scb'.kind = "none" /\ code' = 0
    BY ClosedIs DEF Endstream
  <1> QED
    BY <1>1 DEF Firmly, Settled, Coherent, ByBlock, Alarms

LEMMA FirmWrite ==
  ASSUME DiscHasRoom, OpenScb(scb), Writable(scb), Settled(scb), NEW d \in Seq(Byte),
         Place(scb) + Len(d) <= MaxLen, Does(PutBytes(scb, d))
  PROVE  Firmly
  <1>1. scb.kind # "in"
    BY DEF Writable
  <1>2. scb.kind \in ByBlock => Place(scb) = Where(scb)
    <2>1. CASE scb.kind \in ByBlock
      <3>1. scb.bufend = BufLen /\ scb.block \in Nat /\ BufLen \in Nat /\ scb.kind # "append"
        BY <2>1, OpenFields, DiscFields, Sizes DEF ByBlock, DiscKind
      <3>2. scb.block * scb.bufend = BufLen * scb.block
        BY <3>1
      <3> QED
        BY <3>1, <3>2 DEF Place, Where
    <2> QED
      BY <2>1
  <1>3. scb.kind \in ByBlock => Where(scb) + Len(d) <= MaxLen
    BY <1>2
  <1>4. Firm(scb, PutBytes(scb, d))
    BY <1>1, <1>3, PutBytesFirm
  <1> QED
    BY <1>4, FirmPoints, FirmStep DEF Does

LEMMA FirmNext ==
  ASSUME DiscHasRoom, Kept, Settled(scb), Next
  PROVE  Firmly
  <1>1. Readable(scb) \/ Writable(scb) => scb.kind # "none"
    BY DEF Readable, Writable
  <1>2. scb.kind # "none" => OpenScb(scb)
    BY KeptOpen
  <1>3. Readable(scb) => scb.kind # "append"
    BY DEF Readable
  <1>4. CASE \E k \in Kinds : Findstream(k)
    BY <1>4, FirmFindstream
  <1>5. CASE Endstream
    BY <1>5, FirmEndstream
  <1>6. CASE Binrdch
    <2>1. Firm(scb, GetBytes(scb, 1))
      BY <1>1, <1>2, <1>3, <1>6, GetBytesFirm DEF Binrdch
    <2> QED
      BY <1>6, <2>1, FirmPoints, FirmStep DEF Binrdch, Reads
  <1>7. CASE Unrdch
    <2>1. Readable(scb) /\ Does(IF scb.pos <= 0 THEN Fails(scb) ELSE Ok([scb EXCEPT !.pos = @ - 1]))
      BY <1>7 DEF Unrdch
    <2> DEFINE r == IF scb.pos <= 0 THEN Fails(scb) ELSE Ok([scb EXCEPT !.pos = @ - 1])
    <2>2. Firm(scb, r)
      BY <1>1, <1>2, <1>3, <2>1, UnreadFirm
    <2> HIDE DEF r
    <2>3. Does(r)
      BY <2>1 DEF r
    <2> QED
      BY <2>2, <2>3, FirmPoints, FirmStep DEF Does
  <1>8. CASE Deplete
    <2> DEFINE r == DepleteOf(scb)
    <2>1. OpenScb(scb) /\ Writable(scb) /\ scb' = r.s /\ code' = r.code
      BY <1>1, <1>2, <1>8 DEF Deplete, Does
    <2>2. /\ Settled(r.s) /\ r.code = 0
          /\ Coherent(scb) => Coherent(r.s) \/ HalfAppended(r.s)
      BY <2>1, DepleteFirm
    <2> QED
      BY <2>1, <2>2 DEF Firmly, Alarms
  <1>9. CASE Appendstream
    <2>1. Pointed(scb, AppendPoint(scb))
      BY <1>2, <1>9, AppendPointFirm DEF Appendstream
    <2> QED
      BY <1>9, <2>1, FirmStep DEF Appendstream, Does
  <1>10. CASE Rewindstream
    <2>1. Pointed(scb, Point(scb, 0, 0))
      BY <1>2, <1>10, PointFirm, Sizes DEF Rewindstream
    <2> QED
      BY <1>10, <2>1, FirmStep DEF Rewindstream, Does
  <1>11. ASSUME NEW b \in Byte, Binwrch(b) PROVE Firmly
    <2> DEFINE d == <<b>>
    <2>1. d \in Seq(Byte) /\ Len(d) = 1
      OBVIOUS
    <2> HIDE DEF d
    <2>2. Writable(scb) /\ Does(PutBytes(scb, d)) /\ Place(scb) < MaxLen
      BY <1>11 DEF Binwrch, d
    <2>3. CASE scb.kind \in ByBlock
      <3>1. Place(scb) \in Nat
        <4>1. scb.block \in Nat /\ scb.bufend \in Nat /\ scb.pos \in Nat /\ scb.kind # "append"
          BY <1>1, <1>2, <2>2, <2>3, OpenFields DEF ByBlock
        <4>2. scb.block * scb.bufend \in Nat
          BY <4>1
        <4> QED
          BY <4>1, <4>2 DEF Place
      <3>2. Place(scb) + Len(d) <= MaxLen
        BY <2>1, <2>2, <3>1, Sizes
      <3> QED
        BY <1>1, <1>2, <2>1, <2>2, <3>2, FirmWrite
    <2>4. CASE scb.kind \notin ByBlock
      <3>1. Firm(scb, PutBytes(scb, d))
        BY <1>1, <1>2, <2>1, <2>2, <2>4, PutBytesFirm DEF Writable, ByBlock
      <3> QED
        BY <2>2, <3>1, FirmPoints, FirmStep DEF Does
    <2> QED
      BY <2>3, <2>4
  <1>12. ASSUME NEW n \in 1 .. RecLen, Readwords(n) PROVE Firmly
    <2>1. n * BytesPerWord \in Nat
      BY Sizes
    <2>2. Firm(scb, GetBytes(scb, n * BytesPerWord))
      BY <1>1, <1>2, <1>3, <1>12, <2>1, GetBytesFirm DEF Readwords
    <2> QED
      BY <1>12, <2>2, FirmPoints, FirmStep DEF Readwords, Reads
  <1>13. ASSUME NEW b \in Byte, NEW c \in Byte, Writewords(<<b, c>>) PROVE Firmly
    <2> DEFINE d == <<b, c>>
    <2>1. d \in Seq(Byte)
      OBVIOUS
    <2> HIDE DEF d
    <2>2. Writable(scb) /\ Does(PutBytes(scb, d)) /\ Place(scb) + Len(d) <= MaxLen
      BY <1>13 DEF Writewords, d
    <2> QED
      BY <1>1, <1>2, <2>1, <2>2, FirmWrite
  <1>14. ASSUME NEW blkno \in 0 .. MaxLen \div BufLen, NEW pos \in 0 .. BufLen,
                PointTo(blkno, pos)
         PROVE  Firmly
    <2>1. Pointed(scb, Point(scb, blkno, pos))
      <3>1. blkno \in Int /\ pos \in Nat /\ pos <= BufLen
        BY Sizes
      <3> QED
        BY <1>2, <1>14, <3>1, PointFirm DEF PointTo
    <2> QED
      BY <1>14, <2>1, FirmStep DEF PointTo, Does
  <1>15. ASSUME NEW n \in 0 .. MaxLen \div RecLen, GetRec(n) PROVE Firmly
    <2>1. Pointed(scb, GetRecord(scb, n))
      BY <1>1, <1>2, <1>15, GetRecordFirm DEF GetRec
    <2> QED
      BY <1>15, <2>1, FirmStep DEF GetRec, Reads
  <1>16. ASSUME NEW n \in 0 .. MaxLen \div RecLen, NEW b \in Byte,
                PutRec(n, [i \in 1 .. RecLen |-> b])
         PROVE  Firmly
    <2> DEFINE d == [i \in 1 .. RecLen |-> b]
    <2>1. d \in Seq(Byte) /\ Len(d) = RecLen
      <3>1. RecLen \in Nat
        BY Sizes
      <3> QED
        BY <3>1, IsASeq, LenProperties
    <2> HIDE DEF d
    <2>2. scb.kind # "none" /\ Does(PutRecord(scb, n, d)) /\ RecLen * (n + 1) <= MaxLen
      BY <1>16 DEF PutRec, d
    <2>3. Pointed(scb, PutRecord(scb, n, d))
      BY <1>2, <2>1, <2>2, PutRecordFirm
    <2> QED
      BY <2>2, <2>3, FirmStep DEF Does
  <1>17. ASSUME NEW n \in -2 .. 2, Stepstream(n) PROVE Firmly
    <2>1. n \in Int
      OBVIOUS
    <2>2. Pointed(scb, StepPoint(scb, n))
      BY <1>1, <1>2, <1>17, <2>1, StepPointFirm DEF Stepstream
    <2> QED
      BY <1>17, <2>2, FirmStep DEF Stepstream, Does
  <1> QED
    BY <1>4, <1>5, <1>6, <1>7, <1>8, <1>9, <1>10, <1>11, <1>12, <1>13, <1>14,
       <1>15, <1>16, <1>17, Zenon DEF Next

(* The inductive invariant.                                                *)
Stable == Kept /\ Settled(scb)

LEMMA StableInit == Init => Stable
  <1> SUFFICES ASSUME Init PROVE Stable
    OBVIOUS
  <1>1. scb.kind = "none"
    BY ClosedIs DEF Init
  <1> QED
    BY <1>1, KeptInit DEF Stable, Settled, ByBlock

LEMMA StableNext ==
  ASSUME DiscHasRoom
  PROVE  Stable /\ [Next]_vars => Stable'
  <1> SUFFICES ASSUME Stable, [Next]_vars PROVE Stable'
    OBVIOUS
  <1>1. Kept'
    BY KeptNext DEF Stable
  <1>2. CASE Next
    BY <1>1, <1>2, FirmNext DEF Stable, Firmly
  <1>3. CASE UNCHANGED vars
    BY <1>1, <1>3 DEF Stable, Settled, vars
  <1> QED
    BY <1>2, <1>3

(***************************************************************************)
(* No sequence of calls makes a control block disagree with its file, with *)
(* the two exceptions that CoherenceKept names, and then the safety checks *)
(* of point and fh0rdfn do not abort: for every length of blocks and       *)
(* records, as long as the disc has room.                                  *)
(***************************************************************************)
THEOREM StaysCoherent ==
  ASSUME DiscHasRoom
  PROVE  Spec => CoherenceKept
  <1>1. Stable /\ [Next]_vars =>
          [Coherent(scb) /\ ~StaleEnd(scb) =>
             /\ Coherent(scb') \/ HalfAppended(scb')
             /\ code' \notin {5005, 9999}]_vars
    BY FirmNext DEF Stable, Firmly, Alarms
  <1> QED
    BY <1>1, StableInit, StableNext, PTL DEF Spec, CoherenceKept

-----------------------------------------------------------------------------
(* Records.  LastBytes is what point takes for the bytes of the last block *)
(* of a stream to a file, and is right unless ldata is out of date.        *)
LastBytes(s) == IF s.block = s.lblock THEN s.end ELSE s.ldata

LEMMA SizeIs ==
  ASSUME NEW s, DiscScb(s), s.kind \in {"in", "inout"}, Settled(s), Coherent(s), ~StaleEnd(s)
  PROVE  /\ Len(Content(s)) = BufLen * s.lblock + LastBytes(s)
         /\ LastBytes(s) \in Nat /\ LastBytes(s) <= BufLen
  <1> DEFINE off == BufLen * s.block
             last == BufLen * s.lblock
             size == Len(Content(s))
             n == Len(s.fd)
  <1>1. /\ s.kind \in ByBlock /\ s.block \in Nat /\ s.lblock \in Nat /\ s.write \in BOOLEAN
        /\ s.end \in Nat /\ s.end <= BufLen /\ s.ldata \in Nat /\ s.ldata <= BufLen
        /\ BufLen \in Nat /\ n \in Nat /\ off \in Nat /\ last \in Nat
    BY DiscFields, Sizes DEF ByBlock
  <1>2. size = IF s.write THEN Most(n, off + s.end) ELSE n
    <2>1. Off(s) = off
      BY DEF Off
    <2> QED
      BY <2>1, ContentIs
  <1>3. /\ s.block <= s.lblock /\ last <= n /\ n <= last + BufLen
        /\ s.block < s.lblock => s.end = BufLen
        /\ ~s.write => s.end = Most(0, Least(BufLen, n - off))
    BY <1>1, CoherentIs DEF Same
  <1>4. /\ s.block = s.lblock => off = last
        /\ s.block < s.lblock => off + BufLen <= last
    BY <1>1, Blocks
  <1>5. /\ s.block = s.lblock => n <= off + s.end
        /\ s.block # s.lblock /\ last < n => s.ldata = n - last
        /\ s.kind = "in" => s.ldata = n - last
    BY <1>1 DEF Settled
  <1>6. s.kind = "inout" /\ s.block # s.lblock /\ n = last => ~(s.ldata > 0)
    BY DEF StaleEnd
  <1> HIDE DEF off, last, size, n
  <1>7. CASE s.block = s.lblock
    <2>1. size = last + s.end
      <3>1. CASE s.write
        BY <1>1, <1>2, <1>4, <1>5, <1>7, <3>1 DEF Most
      <3>2. CASE ~s.write
        BY <1>1, <1>2, <1>3, <1>4, <1>7, <3>2 DEF Most, Least
      <3> QED
        BY <3>1, <3>2
    <2> QED
      BY <1>1, <1>7, <2>1 DEF LastBytes, size, last
  <1>8. CASE s.block # s.lblock
    <2>1. s.block < s.lblock
      BY <1>1, <1>3, <1>8
    <2>2. size = n
      BY <1>1, <1>2, <1>3, <1>4, <2>1 DEF Most
    <2>3. n = last + s.ldata
      <3>1. CASE last < n
        BY <1>1, <1>5, <1>8, <3>1
      <3>2. CASE last = n
        <4>1. s.ldata = 0
          BY <1>1, <1>5, <1>6, <1>8, <3>2
        <4> QED
          BY <1>1, <3>2, <4>1
      <3> QED
        BY <1>1, <1>3, <3>1, <3>2
    <2> QED
      BY <1>1, <1>8, <2>2, <2>3 DEF LastBytes, size, last
  <1> QED
    BY <1>7, <1>8

(* point is content with the places of the stream and the one behind it.   *)
LEMMA PointOk ==
  ASSUME DiscHasRoom, NEW s, DiscScb(s), s.kind \in {"in", "inout"}, Settled(s), Coherent(s),
         ~StaleEnd(s), NEW b \in Nat, NEW p \in Nat, p < BufLen
  PROVE  Point(s, b, p).ok <=> BufLen * b + p <= Len(Content(s))
  <1> DEFINE e == LastBytes(s)
             last == BufLen * s.lblock
             size == Len(Content(s))
             off == BufLen * b
  <1>1. size = last + e /\ e \in Nat /\ e <= BufLen
    BY SizeIs
  <1>2. OpenScb(s) /\ Readable(s)
    BY DEF OpenScb, Readable
  <1>3. s.lblock \in Nat /\ BufLen \in Nat \ {0} /\ last \in Nat /\ off \in Nat
    BY DiscFields, Sizes, Blocks
  <1>4. /\ b < s.lblock => off + BufLen <= last
        /\ b = s.lblock => off = last
        /\ b = s.lblock + 1 => off = last + BufLen
        /\ b > s.lblock => off >= last + BufLen
        /\ b > s.lblock + 1 => off >= last + BufLen + BufLen
    <2>1. /\ b < s.lblock => off + BufLen <= last
          /\ b = s.lblock => off = last
          /\ s.lblock < b => last + BufLen <= off
          /\ BufLen * (s.lblock + 1) = last + BufLen
      BY <1>3, Blocks
    <2>2. s.lblock + 1 < b => BufLen * (s.lblock + 1) + BufLen <= off
      BY <1>3, Blocks
    <2>3. b = s.lblock + 1 => off = BufLen * (s.lblock + 1)
      OBVIOUS
    <2> HIDE DEF off, last
    <2> QED
      BY <1>3, <2>1, <2>2, <2>3
  <1>5. \A c \in Nat, d \in Nat : Past(s, c, d) <=> c > s.lblock \/ (c = s.lblock /\ d > e)
    BY DEF Past, LastBytes
  <1> HIDE DEF e, last, size, off
  <1>6. CASE p = 0 /\ b = s.lblock + 1
    <2> DEFINE i == PointIn(s, s.lblock, BufLen)
    <2>1. i.ok <=> ~Past(s, s.lblock, BufLen)
      <3>1. s.lblock \in Int /\ BufLen \in Nat /\ BufLen <= BufLen
        BY <1>3
      <3> QED
        BY <1>2, <3>1, PointInFirm
    <2>2. Point(s, b, p) = i
      BY <1>2, <1>6, PointIs, Zenon
    <2> HIDE DEF i
    <2>3. Past(s, s.lblock, BufLen) <=> BufLen > e
      BY <1>3, <1>5
    <2>4. off + p <= size <=> ~(BufLen > e)
      BY <1>1, <1>3, <1>4, <1>6
    <2> QED
      BY <2>1, <2>2, <2>3, <2>4 DEF off, size
  <1>7. CASE ~(p = 0 /\ b = s.lblock + 1)
    <2> DEFINE i == PointIn(s, b, p)
    <2>1. i.ok <=> ~Past(s, b, p)
      <3>1. b \in Int /\ p <= BufLen
        BY <1>3
      <3> QED
        BY <1>2, <3>1, PointInFirm
    <2>2. Point(s, b, p) = i
      BY <1>2, <1>7, PointIs, Zenon
    <2> HIDE DEF i
    <2>3. Past(s, b, p) <=> b > s.lblock \/ (b = s.lblock /\ p > e)
      BY <1>5
    <2>4. off + p <= size <=> ~(b > s.lblock \/ (b = s.lblock /\ p > e))
      <3>1. CASE b < s.lblock
        BY <1>1, <1>3, <1>4, <3>1
      <3>2. CASE b = s.lblock
        BY <1>1, <1>3, <1>4, <3>2
      <3>3. CASE b = s.lblock + 1
        BY <1>1, <1>3, <1>4, <1>7, <3>3
      <3>4. CASE b > s.lblock + 1
        BY <1>1, <1>3, <1>4, <3>4
      <3> QED
        BY <1>3, <3>1, <3>2, <3>3, <3>4
    <2> QED
      BY <2>1, <2>2, <2>3, <2>4 DEF off, size
  <1> QED
    BY <1>6, <1>7

(* recordnote at the place of a record gives its number.                   *)
LEMMA NoteIs ==
  ASSUME NEW s, NEW n \in Nat, s.block \in Nat, s.bufend \in Nat, s.pos \in Nat,
         s.block * s.bufend + s.pos = RecLen * n
  PROVE  RecordNote(s) = n
  <1> DEFINE off == s.block * s.bufend
             d == off \div RecLen
             m == off % RecLen
  <1>1. off \in Nat /\ RecLen \in Nat \ {0}
    BY Sizes
  <1> HIDE DEF off
  <1>2. /\ d \in Nat /\ m \in Nat /\ m < RecLen /\ off = RecLen * d + m /\ RecLen * d \in Nat
    BY <1>1, DivModIs
  <1>3. RecordNote(s) = d + ((m + s.pos) \div RecLen)
    BY DEF RecordNote, off
  <1> HIDE DEF d, m
  <1>4. off + s.pos = RecLen * n /\ RecLen * n \in Nat
    BY <1>1 DEF off
  <1>5. d <= n
    <2>1. CASE d > n
      <3>1. RecLen * d >= RecLen * (n + 1) /\ RecLen * (n + 1) = RecLen * n + RecLen
        BY <1>1, <1>2, <2>1, Multiplied
      <3> QED
        BY <1>1, <1>2, <1>4, <3>1
    <2> QED
      BY <1>2, <2>1
  <1>6. n - d \in Nat /\ RecLen * n = RecLen * d + RecLen * (n - d) /\ RecLen * (n - d) \in Nat
    <2>1. \A c \in Nat : RecLen * (d + c) = RecLen * d + RecLen * c /\ RecLen * c \in Nat
      BY <1>1, <1>2
    <2>2. n - d \in Nat /\ d + (n - d) = n
      BY <1>2, <1>5
    <2> QED
      BY <2>1, <2>2
  <1>7. m + s.pos = RecLen * (n - d) + 0
    BY <1>1, <1>2, <1>4, <1>6
  <1>8. (m + s.pos) \div RecLen = n - d
    <2>1. 0 \in 0 .. RecLen - 1
      BY <1>1
    <2>2. (RecLen * (n - d) + 0) \div RecLen = n - d
      BY <1>1, <1>6, <2>1, DivModUnique
    <2> QED
      BY <1>7, <2>2
  <1> QED
    BY <1>2, <1>3, <1>5, <1>8

(***************************************************************************)
(* recordpoint finds every record of a file that starts in the stream or   *)
(* just after it and no other, at its place, and recordnote gives its      *)
(* number back, whatever the lengths of blocks and records.  (A RAM stream *)
(* is left out: when its buffer has grown, point takes the place behind    *)
(* the last byte to be in front of it.)                                    *)
(***************************************************************************)
THEOREM RecordsFound ==
  ASSUME DiscHasRoom
  PROVE  Spec => []RecordPlace
  <1>1. ASSUME Stable, scb.kind \in {"in", "inout"}, Coherent(scb), ~StaleEnd(scb),
               NEW n \in Nat
        PROVE  LET r == RecordPoint(scb, n)
               IN  /\ r.ok <=> RecLen * n <= Len(Content(scb))
                   /\ r.ok => Place(r.s) = RecLen * n /\ RecordNote(r.s) = n
    <2> DEFINE a == RecLen * n
               b == a \div scb.bufend
               p == a % scb.bufend
               r == RecordPoint(scb, n)
    <2>1. Settled(scb) /\ OpenScb(scb) /\ scb.kind \in {"in", "inout"}
      BY <1>1, KeptOpen DEF Stable
    <2>2. DiscScb(scb) /\ scb.bufend = BufLen
      BY <2>1, OpenFields, DiscFields DEF DiscKind
    <2>3. /\ r = Point(scb, b, p) /\ a \in Nat /\ b \in Nat /\ p \in Nat
          /\ p < scb.bufend /\ a = scb.bufend * b + p
      BY <2>1, RecordPointIs
    <2> HIDE DEF b, p
    <2>4. Point(scb, b, p).ok <=> BufLen * b + p <= Len(Content(scb))
      BY <1>1, <2>1, <2>2, <2>3, PointOk
    <2>5. r.ok <=> a <= Len(Content(scb))
      BY <2>2, <2>3, <2>4
    <2>6. OpenScb(r.s) /\ r.s.kind = scb.kind
      BY <2>1, RecordPointResult DEF Result
    <2>7. r.ok => Where(r.s) = a
      BY <2>1, RecordPointFirm DEF ByBlock
    <2> HIDE DEF r, a
    <2>8. /\ r.s.block \in Nat /\ r.s.pos \in Nat /\ r.s.bufend = BufLen /\ BufLen \in Nat
          /\ r.s.kind # "append"
      BY <2>1, <2>6, OpenFields, DiscFields, Sizes DEF DiscKind
    <2>9. Place(r.s) = Where(r.s)
      <3>1. r.s.block * r.s.bufend = BufLen * r.s.block
        BY <2>8
      <3> QED
        BY <2>8, <3>1 DEF Place, Where
    <2>10. r.ok => Place(r.s) = a /\ r.s.block * r.s.bufend + r.s.pos = a
      BY <2>7, <2>8, <2>9 DEF Place
    <2>11. r.ok => RecordNote(r.s) = n
      <3>1. ASSUME r.ok PROVE RecordNote(r.s) = n
        <4>1. r.s.block * r.s.bufend + r.s.pos = RecLen * n
          BY <2>10, <3>1 DEF a
        <4>2. r.s.bufend \in Nat
          BY <2>8
        <4> QED
          BY <2>8, <4>1, <4>2, NoteIs
      <3> QED
        BY <3>1
    <2> QED
      BY <2>5, <2>10, <2>11 DEF r, a
  <1>2. Stable => RecordPlace
    <2> SUFFICES ASSUME Stable PROVE RecordPlace
      OBVIOUS
    <2>1. \A n \in 0 .. MaxLen \div RecLen : n \in Nat
      OBVIOUS
    <2> QED
      BY <1>1, <2>1 DEF RecordPlace
  <1> QED
    BY <1>2, StableInit, StableNext, PTL DEF Spec

-----------------------------------------------------------------------------
(* Depletes.  A buffer that has been written back and then changed shows   *)
(* the same bytes as one that has only been changed.                       *)
LEMMA PutUnseen ==
  ASSUME DiscHasRoom, NEW s, DiscScb(s), s.kind \in {"out", "inout"}, Settled(s), Coherent(s),
         s.pos < s.bufend, NEW b \in Byte
  PROVE  Content(BytePut(PutIfChanged(s), b)) = Content(BytePut(s, b))
  <1> DEFINE q == PutIfChanged(s)
             v == BytePut(q, b)
             w == BytePut(s, b)
             off == BufLen * s.block
             n == Len(s.fd)
             e == w.end
             C == Content(s)
             V == Content(v)
             W == Content(w)
  <1>1. /\ s.kind \in ByBlock /\ s.kind # "append" /\ b \in Bytes /\ off \in Nat /\ n \in Nat
        /\ s.end \in Nat /\ s.end <= BufLen /\ s.bufend = BufLen /\ BufLen \in Nat
        /\ s.pos \in Nat /\ s.write \in BOOLEAN /\ OpenScb(s) /\ Capacity \in Nat
        /\ MaxLen \in Nat
    BY DiscFields, Sizes DEF ByBlock, OpenScb
  <1>2. /\ DiscScb(q) /\ OpenScb(q) /\ q.kind = s.kind /\ q.buf = s.buf /\ q.pos = s.pos
        /\ q.end = s.end /\ q.block = s.block /\ q.bufend = BufLen
    BY PutIs, DiscFields DEF OpenScb
  <1>3. Off(s) = off /\ off <= n
    <2>1. Off(s) = off
      BY <1>1 DEF Off
    <2> QED
      BY <2>1, CoherentOff
  <1>4. q.fd = C
    <2>1. s.write => off < MaxLen
      BY <1>1 DEF Settled
    <2>2. s.write => off + s.end <= Capacity
      BY <1>1, <2>1 DEF DiscHasRoom
    <2> QED
      BY <1>3, <2>2, StoredIs
  <1>5. /\ C \in Seq(Bytes) /\ Len(C) = IF s.write THEN Most(n, off + s.end) ELSE n
        /\ \A i \in 1 .. Len(C) :
             C[i] = IF s.write /\ i \in off + 1 .. off + s.end THEN s.buf[i - off - 1]
                    ELSE IF i <= n THEN s.fd[i] ELSE 0
    BY <1>3, ContentIs
  <1>6. /\ OpenScb(w) /\ w.kind = s.kind /\ w.end = Most(s.end, s.pos + 1)
        /\ w.block = s.block /\ w.write = TRUE /\ w.bufend = s.bufend /\ w.fd = s.fd
        /\ \A i \in 0 .. s.bufend - 1 : w.buf[i] = IF i = s.pos THEN b ELSE s.buf[i]
    BY <1>1, BytePutShows
  <1> HIDE DEF q
  <1>7. /\ OpenScb(v) /\ v.kind = q.kind /\ v.end = Most(q.end, q.pos + 1)
        /\ v.block = q.block /\ v.write = TRUE /\ v.bufend = q.bufend /\ v.fd = q.fd
        /\ \A i \in 0 .. q.bufend - 1 : v.buf[i] = IF i = q.pos THEN b ELSE q.buf[i]
    <2>1. /\ OpenScb(q) /\ q.pos < q.bufend /\ b \in Bytes
          /\ q.pos \in Nat /\ q.bufend \in Nat /\ q.end \in Nat
      BY <1>1, <1>2
    <2> QED
      BY <2>1, BytePutShows, ZenonT(60)
  <1> HIDE DEF v, w
  <1>8. /\ DiscScb(v) /\ DiscScb(w) /\ Off(v) = off /\ Off(w) = off
    <2>1. DiscScb(v) /\ DiscScb(w)
      BY <1>1, <1>2, <1>6, <1>7, OpenFields DEF DiscKind
    <2> QED
      BY <1>1, <1>2, <1>6, <1>7, <2>1 DEF Off
  <1>9. /\ v.end = e /\ e \in Nat /\ e >= s.end /\ e <= BufLen
        /\ \A i \in 0 .. BufLen - 1 : v.buf[i] = w.buf[i]
    <2>1. v.end = e
      BY <1>2, <1>6, <1>7
    <2>2. e \in Nat /\ e >= s.end /\ e <= BufLen
      BY <1>1, <1>6 DEF Most
    <2>3. \A i \in 0 .. BufLen - 1 : v.buf[i] = w.buf[i]
      BY <1>1, <1>2, <1>6, <1>7
    <2> QED
      BY <2>1, <2>2, <2>3
  <1>10. /\ W \in Seq(Bytes) /\ Len(W) = Most(n, off + e)
         /\ \A i \in 1 .. Len(W) : W[i] = IF i \in off + 1 .. off + e THEN w.buf[i - off - 1]
                                          ELSE IF i <= n THEN s.fd[i] ELSE 0
    BY <1>6, <1>8, ContentIs
  <1>11. /\ V \in Seq(Bytes) /\ Len(V) = Most(Len(C), off + e)
         /\ \A i \in 1 .. Len(V) : V[i] = IF i \in off + 1 .. off + e THEN v.buf[i - off - 1]
                                          ELSE IF i <= Len(C) THEN C[i] ELSE 0
    BY <1>4, <1>7, <1>8, <1>9, ContentIs
  <1> HIDE DEF off, n, e, C, V, W
  <1>12. /\ Len(C) \in Nat /\ Len(C) >= n /\ Len(C) <= Most(n, off + e)
         /\ Len(V) = Len(W) /\ Len(W) \in Nat
    <2>1. /\ n \in Nat /\ off \in Nat /\ e \in Nat /\ s.end \in Nat /\ s.end <= e
          /\ s.write \in BOOLEAN
      BY <1>1, <1>9, Zenon DEF n, off
    <2>2. /\ Len(C) = IF s.write THEN Most(n, off + s.end) ELSE n
          /\ Len(V) = Most(Len(C), off + e) /\ Len(W) = Most(n, off + e)
      BY <1>5, <1>10, <1>11, Zenon
    <2>3. Len(C) \in Nat /\ Len(C) >= n /\ Len(C) <= Most(n, off + e)
      BY <2>1, <2>2 DEF Most
    <2> QED
      BY <2>1, <2>2, <2>3 DEF Most
  <1>13. ASSUME NEW i \in 1 .. Len(V) PROVE V[i] = W[i]
    <2>1. CASE i \in off + 1 .. off + e
      <3>1. i - off - 1 \in 0 .. BufLen - 1
        BY <1>1, <1>9, <1>12, <2>1
      <3>2. v.buf[i - off - 1] = w.buf[i - off - 1]
        BY <1>9, <3>1
      <3> QED
        BY <1>10, <1>11, <1>12, <2>1, <3>2
    <2>2. CASE i \notin off + 1 .. off + e /\ i <= Len(C)
      <3>1. i \in 1 .. Len(C) /\ i \notin off + 1 .. off + s.end
        BY <1>1, <1>9, <1>12, <2>2
      <3>2. C[i] = IF i <= n THEN s.fd[i] ELSE 0
        BY <1>5, <3>1
      <3> QED
        BY <1>10, <1>11, <1>12, <2>2, <3>2
    <2>3. CASE i \notin off + 1 .. off + e /\ ~(i <= Len(C))
      <3>1. ~(i <= n)
        BY <1>1, <1>12, <2>3
      <3> QED
        BY <1>10, <1>11, <1>12, <2>3, <3>1
    <2> QED
      BY <2>1, <2>2, <2>3
  <1>14. V = W
    BY <1>10, <1>11, <1>12, <1>13, SameSeq
  <1> QED
    BY <1>14 DEF V, W, v, w, q

LEMMA DepleteUnseen ==
  ASSUME DiscHasRoom, NEW s, DiscScb(s), s.kind \in {"out", "inout"}, Settled(s), Coherent(s),
         NEW b \in Byte
  PROVE  Content(PutBytes(DepleteOf(s).s, <<b>>).s) = Content(PutBytes(s, <<b>>).s)
  <1> DEFINE r == DepleteOf(s)
             t == r.s
             q == PutIfChanged(s)
  <1>1. r = Fh0Wrfn(s) /\ s.pos \in Nat /\ s.bufend \in Nat
    BY DiscFields, Sizes DEF DepleteOf
  <1>2. \A u : Ok(u).s = u /\ Ok(u).ok = TRUE
    BY DEF Ok
  <1>3. \A u : u.pos < u.bufend /\ ~(u.pos >= u.bufend) => PutByte(Ok(u), b) = Ok(BytePut(u, b))
    <2> SUFFICES ASSUME NEW u, ~(u.pos >= u.bufend) PROVE PutByte(Ok(u), b) = Ok(BytePut(u, b))
      OBVIOUS
    <2>1. Room(u) = Ok(u)
      BY DEF Room
    <2>2. PutByte(Ok(u), b) = IF ~Ok(u).ok THEN Ok(u)
                              ELSE IF ~Room(Ok(u).s).ok THEN Room(Ok(u).s)
                              ELSE Ok(BytePut(Room(Ok(u).s).s, b))
      BY PutByteIs, Zenon
    <2> QED
      BY <1>2, <2>1, <2>2
  <1>4. PutBytes(s, <<b>>) = PutByte(Ok(s), b) /\ PutBytes(t, <<b>>) = PutByte(Ok(t), b)
    BY PutOneIs, Zenon
  <1>5. CASE s.pos < s.bufend
    <2>1. t = q
      <3>1. r = Ok(q)
        BY <1>1, <1>5, WrfnIs
      <3> QED
        BY <1>2, <3>1
    <2>2. q.pos = s.pos /\ q.bufend = s.bufend
      BY PutIs, DiscFields
    <2>3. ~(s.pos >= s.bufend) /\ q.pos < q.bufend /\ ~(q.pos >= q.bufend)
      BY <1>1, <1>5, <2>2
    <2> HIDE DEF r, q
    <2>4. PutByte(Ok(s), b) = Ok(BytePut(s, b)) /\ PutByte(Ok(q), b) = Ok(BytePut(q, b))
      BY <1>3, <1>5, <2>3, Zenon
    <2>5. Content(BytePut(q, b)) = Content(BytePut(s, b))
      BY <1>5, PutUnseen DEF q
    <2>6. PutBytes(s, <<b>>).s = BytePut(s, b) /\ PutBytes(t, <<b>>).s = BytePut(q, b)
      BY <1>2, <1>4, <2>1, <2>4, Zenon
    <2> QED
      BY <2>5, <2>6, Zenon DEF r
  <1>6. CASE ~(s.pos < s.bufend)
    <2>1. s.pos >= s.bufend
      BY <1>1, <1>6
    <2>2. Room(s) = r /\ r.ok = TRUE /\ t.pos < t.bufend
      BY <1>1, <2>1, WrfnResult DEF Room
    <2>3. ~(t.pos >= t.bufend)
      <3>1. OpenScb(t)
        BY <1>1, WrfnResult DEF Result
      <3> QED
        BY <2>2, <3>1, OpenFields
    <2> HIDE DEF r
    <2>4. PutByte(Ok(s), b) = IF ~Ok(s).ok THEN Ok(s)
                              ELSE IF ~Room(Ok(s).s).ok THEN Room(Ok(s).s)
                              ELSE Ok(BytePut(Room(Ok(s).s).s, b))
      BY PutByteIs, Zenon
    <2>5. PutByte(Ok(s), b) = Ok(BytePut(t, b))
      BY <1>2, <2>2, <2>4
    <2>6. PutByte(Ok(t), b) = Ok(BytePut(t, b))
      BY <1>3, <2>2, <2>3
    <2>7. PutBytes(t, <<b>>) = PutBytes(s, <<b>>)
      BY <1>4, <2>5, <2>6, Zenon
    <2> QED
      BY <2>7, Zenon DEF r
  <1> QED
    BY <1>5, <1>6

(***************************************************************************)
(* What a program writes next to a file opened for output or for both does *)
(* not depend on whether the buffer has been depleted before it.  (To a    *)
(* file opened for appending it does: HalfAppended.)                       *)
(***************************************************************************)
THEOREM DepletesUnseen ==
  ASSUME DiscHasRoom
  PROVE  Spec => []DepleteIsTransparent
  <1>1. ASSUME Stable, scb.kind \in {"out", "inout"}, Coherent(scb), NEW b \in Byte
        PROVE  Content(PutBytes(DepleteOf(scb).s, <<b>>).s) = Content(PutBytes(scb, <<b>>).s)
    <2>1. Settled(scb) /\ scb.kind \in {"out", "inout"} /\ scb.kind # "none"
      BY <1>1 DEF Stable
    <2>2. DiscScb(scb)
      BY <1>1, <2>1, KeptOpen, OpenFields DEF Stable, DiscKind
    <2> QED
      BY <1>1, <2>1, <2>2, DepleteUnseen
  <1>2. Stable => DepleteIsTransparent
    BY <1>1 DEF DepleteIsTransparent
  <1> QED
    BY <1>2, StableInit, StableNext, PTL DEF Spec
=============================================================================
