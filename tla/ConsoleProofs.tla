---------------------------- MODULE ConsoleProofs ---------------------------
(***************************************************************************)
(* Proofs about the streams of the console, for any number of places, any  *)
(* size of buffer and whatever is typed and written: the control blocks    *)
(* keep their buffers, the screen shows what is written, and all streams   *)
(* to the keyboard read one text, the one typed with its corrections made. *)
(***************************************************************************)
EXTENDS Console, LeastNumber, FiniteSetTheorems, SequenceTheorems, TLAPS

-----------------------------------------------------------------------------
(* The inductive invariant: types; which call is going on; the blocks and  *)
(* their buffers; and what is on the screen.                               *)
Character == Char \cup {"cr"}
Data == [0 .. BufEnd - 1 -> Character]
BufRec == [use : {"buf"}, data : Data]
ScbRec == [use : {"scb"}, id : {"in", "out", "inout", "append"},
           type : {"console", "nil", "file"}, buf : Place \cup {Null},
           pos : 0 .. BufEnd, end : 0 .. BufEnd]
MemRec == {Free} \cup BufRec \cup ScbRec
CallRec == [on : {"none", "rdch", "space", "sign", "digits"}, neg : BOOLEAN,
            sum : Nat, from : Nat]

MemOK == mem \in [Place -> MemRec]
NamesOK ==
  /\ keyboard \in Place /\ screen \in Place /\ keyboard # screen
  /\ cis \in Place \cup {Null} /\ cos \in Place \cup {Null}
  /\ held \subseteq Place /\ ended \subseteq {keyboard, screen} /\ left \subseteq Place
InputOK ==
  /\ input \in Seq(Char) /\ at \in 0 .. Len(input)
  /\ call \in CallRec /\ fill \in NotFilling .. BufEnd - 1
  /\ before \in Nat /\ number \in Int

(* A read or readn is of the keyboard or of NIL:, and only the keyboard's  *)
(* buffer is filled, when all of it has been read.                         *)
CallKnown ==
  /\ call.on # "none" => /\ ended = {} /\ cis \in Blocks
                         /\ mem[cis].type \in {"console", "nil"} /\ mem[cis].id # "out"
  /\ fill # NotFilling => /\ call.on # "none" /\ mem[cis].type = "console"
                          /\ mem[cis].pos = mem[cis].end

PlacesFit == \A s \in Blocks : /\ mem[s].pos <= mem[s].end
                               /\ mem[s].type = "nil" => mem[s].end = 0

InUse == {v \in Place : mem[v].use = "buf"}
Selected ==
  /\ \A s \in (held \cup {keyboard, screen, cis, cos}) \ (ended \cup {Null}) : s \in Blocks
  /\ cis \notin ended \cup {Null} => mem[cis].id \in {"in", "inout"}
  /\ cos \notin ended \cup {Null} => mem[cos].id \in {"out", "append", "inout"}
BuffersKept ==
  /\ \A s \in Blocks : IF mem[s].type = "nil" THEN mem[s].buf = Null ELSE mem[s].buf \in InUse
  /\ \A s, t \in Blocks : mem[s].buf = mem[t].buf => s = t \/ mem[s].buf = Null
  /\ InUse = Buffers \cup left /\ Buffers \cap left = {}
Consoles ==
  /\ \A s \in Blocks : mem[s].type = "console" => s \in {keyboard, screen} \ ended
  /\ keyboard \notin ended => mem[keyboard].type = "console" /\ mem[keyboard].id = "in"
  /\ screen \notin ended => mem[screen].type = "console" /\ mem[screen].id = "out"
Streams == /\ Selected /\ BuffersKept /\ Consoles
           /\ Blocks \subseteq held \cup {keyboard, screen}

Types == MemOK /\ NamesOK /\ InputOK
StreamsInv == Types /\ CallKnown /\ PlacesFit /\ Streams

-----------------------------------------------------------------------------
(* The places of memory.                                                   *)
LEMMA Positive == Null \notin Place /\ Place \subseteq Nat /\ BufEnd \in Nat \ {0}
  BY ConsoleAssumption DEF ConsoleAssumption, Null

LEMMA Kinds ==
  ASSUME MemOK, NEW v \in Place
  PROVE  /\ mem[v].use \in {"free", "buf", "scb"}
         /\ mem[v].use = "free" => mem[v] = Free
         /\ mem[v].use = "buf" => mem[v] \in BufRec
         /\ mem[v].use = "scb" => mem[v] \in ScbRec
  <1>1. mem[v] \in MemRec
    BY DEF MemOK
  <1>2. CASE mem[v] = Free
    BY <1>2 DEF Free
  <1>3. CASE mem[v] \in BufRec
    BY <1>3 DEF BufRec
  <1>4. CASE mem[v] \in ScbRec
    BY <1>4 DEF ScbRec
  <1> QED
    BY <1>1, <1>2, <1>3, <1>4 DEF MemRec

LEMMA ABlock ==
  ASSUME MemOK, NEW s \in Blocks
  PROVE  /\ s \in Place /\ mem[s] \in ScbRec /\ mem[s].use = "scb" /\ IsScb(s)
         /\ mem[s].id \in {"in", "out", "inout", "append"}
         /\ mem[s].type \in {"console", "nil", "file"} /\ mem[s].buf \in Place \cup {Null}
         /\ mem[s].pos \in 0 .. BufEnd /\ mem[s].end \in 0 .. BufEnd
  BY Kinds, Positive DEF Blocks, ScbRec, IsScb

LEMMA ABuffer ==
  ASSUME MemOK, NEW b \in InUse
  PROVE  b \in Place /\ mem[b] \in BufRec /\ mem[b].data \in Data /\ b \notin Blocks
  BY Kinds DEF InUse, BufRec, Blocks

(* A free place is found, and another.                                     *)
LEMMA LowestIs ==
  ASSUME NEW V \in SUBSET Place, V # {}
  PROVE  Lowest(V) \in V
  <1>1. \E v \in V : \A w \in V : v <= w
    BY LeastNat, Positive
  <1> QED
    BY <1>1 DEF Lowest

LEMMA BlockIsFree ==
  ASSUME MemOK, Places # {}
  PROVE  Block \in Place /\ mem[Block].use = "free"
  BY LowestIs DEF Block, Places

LEMMA TwoFree ==
  ASSUME MemOK, Cardinality(Places) > 1
  PROVE  /\ Block \in Place /\ mem[Block].use = "free" /\ Places # {}
         /\ Second \in Place /\ mem[Second].use = "free" /\ Second # Block
  <1>1. Places # {}
    BY FS_EmptySet
  <1>2. Block \in Places /\ Places \subseteq Place
    BY <1>1, LowestIs DEF Block, Places
  <1>3. Places \ {Block} # {}
    <2>1. SUFFICES ASSUME Places = {Block} PROVE FALSE
      BY <1>2
    <2>2. Cardinality({Block}) = 1
      BY FS_Singleton
    <2> QED
      BY <2>1, <2>2
  <1>4. Second \in Places \ {Block}
    BY <1>2, <1>3, LowestIs DEF Second
  <1> QED
    BY <1>1, <1>2, <1>4 DEF Places

(* The records that are put into places.                                   *)
LEMMA NewRecords ==
  ASSUME NEW id \in {"in", "out", "inout", "append"}, NEW type \in {"console", "nil", "file"},
         NEW b \in Place \cup {Null}
  PROVE  /\ Scb(id, type, b) \in ScbRec /\ Scb(id, type, b) \in MemRec
         /\ Scb(id, type, b).id = id
         /\ Scb(id, type, b).type = type /\ Scb(id, type, b).buf = b
         /\ Scb(id, type, b).pos = 0 /\ Scb(id, type, b).end = 0
         /\ Buf \in BufRec /\ Buf \in MemRec /\ Buf.use = "buf"
         /\ Scb(id, type, b).use = "scb" /\ Free \in MemRec /\ Free.use = "free"
  <1>1. Buf \in BufRec /\ Buf.use = "buf"
    BY ConsoleAssumption DEF ConsoleAssumption, Buf, BufRec, Data, Character
  <1>2. Free.use = "free"
    BY DEF Free
  <1>3. Scb(id, type, b) \in ScbRec
    BY Positive DEF Scb, ScbRec
  <1> QED
    BY <1>1, <1>2, <1>3 DEF Scb, MemRec

-----------------------------------------------------------------------------
(* Steps that change what is in blocks and buffers, but not which there    *)
(* are.                                                                    *)
SameBlock(v) ==
  /\ mem'[v].use = mem[v].use
  /\ mem[v].use = "scb" => /\ mem'[v].id = mem[v].id /\ mem'[v].type = mem[v].type
                           /\ mem'[v].buf = mem[v].buf
SameBlocks == \A v \in Place : SameBlock(v)

LEMMA SameStreams ==
  ASSUME Types, Streams, SameBlocks, UNCHANGED <<keyboard, screen>>, UNCHANGED streamvars
  PROVE  Streams' /\ Blocks' = Blocks
  <1>1. UNCHANGED <<keyboard, screen, cis, cos, held, ended, left>>
    BY DEF streamvars
  <1>2. Blocks' = Blocks /\ InUse' = InUse
    BY DEF SameBlocks, SameBlock, Blocks, InUse
  <1>3. \A s \in Blocks : /\ mem'[s].id = mem[s].id /\ mem'[s].type = mem[s].type
                          /\ mem'[s].buf = mem[s].buf
    BY DEF SameBlocks, SameBlock, Blocks
  <1>4. Buffers' = Buffers
    BY <1>2, <1>3 DEF Buffers
  <1>5. keyboard \notin ended => keyboard \in Blocks
    BY Positive DEF Streams, Selected, Types, NamesOK
  <1>6. screen \notin ended => screen \in Blocks
    BY Positive DEF Streams, Selected, Types, NamesOK
  <1>7. Selected'
    BY <1>1, <1>2, <1>3 DEF Streams, Selected
  <1>8. BuffersKept'
    BY <1>1, <1>2, <1>3, <1>4 DEF Streams, BuffersKept
  <1>9. Consoles'
    BY <1>1, <1>2, <1>3, <1>5, <1>6 DEF Streams, Consoles
  <1> QED
    BY <1>1, <1>2, <1>7, <1>8, <1>9 DEF Streams

(* The place of a stream is moved.                                         *)
LEMMA PlaceMoved ==
  ASSUME MemOK, NEW s \in Blocks, NEW p \in 0 .. BufEnd, mem' = [mem EXCEPT ![s].pos = p]
  PROVE  /\ MemOK' /\ SameBlocks /\ mem'[s].pos = p /\ mem'[s].end = mem[s].end
         /\ \A v \in Place : v # s => mem'[v] = mem[v]
  <1> DEFINE r == [mem[s] EXCEPT !.pos = p]
  <1>1. s \in Place /\ mem[s] \in ScbRec
    BY ABlock
  <1>2. /\ r \in ScbRec /\ r.use = "scb" /\ r.pos = p /\ r.end = mem[s].end
        /\ r.id = mem[s].id /\ r.type = mem[s].type /\ r.buf = mem[s].buf /\ mem[s].use = "scb"
    BY <1>1 DEF ScbRec
  <1>3. r \in MemRec
    BY <1>2 DEF MemRec
  <1>4. mem' = [mem EXCEPT ![s] = r]
    OBVIOUS
  <1> HIDE DEF r
  <1>5. MemOK'
    BY <1>3, <1>4 DEF MemOK
  <1>6. mem'[s] = r /\ \A v \in Place : v # s => mem'[v] = mem[v]
    BY <1>1, <1>4 DEF MemOK
  <1>7. SameBlocks
    BY <1>2, <1>6 DEF SameBlocks, SameBlock
  <1> QED
    BY <1>2, <1>5, <1>6, <1>7

(* A buffer is changed.                                                    *)
LEMMA BufferChanged ==
  ASSUME MemOK, NEW b \in InUse, NEW d \in Data, mem' = [mem EXCEPT ![b].data = d]
  PROVE  /\ MemOK' /\ SameBlocks /\ mem'[b].data = d
         /\ \A v \in Place : v # b => mem'[v] = mem[v]
  <1> DEFINE r == [mem[b] EXCEPT !.data = d]
  <1>1. b \in Place /\ mem[b] \in BufRec /\ mem[b].use = "buf"
    BY ABuffer DEF InUse
  <1>2. r \in BufRec /\ r.use = "buf" /\ r.data = d
    BY <1>1 DEF BufRec
  <1>3. r \in MemRec
    BY <1>2 DEF MemRec
  <1>4. mem' = [mem EXCEPT ![b] = r]
    OBVIOUS
  <1> HIDE DEF r
  <1>5. MemOK'
    BY <1>3, <1>4 DEF MemOK
  <1>6. mem'[b] = r /\ \A v \in Place : v # b => mem'[v] = mem[v]
    BY <1>1, <1>4 DEF MemOK
  <1>7. SameBlocks
    BY <1>1, <1>2, <1>6 DEF SameBlocks, SameBlock
  <1> QED
    BY <1>2, <1>5, <1>6, <1>7

(* A buffer is changed, and the place of its stream with it.               *)
BufferAndPlace(s, b, d, q, p) == mem' = [mem EXCEPT ![b].data = d, ![s].pos = q, ![s].end = p]

LEMMA BufferMoved ==
  ASSUME MemOK, NEW s \in Blocks, NEW b \in InUse, NEW d \in Data,
         NEW q \in 0 .. BufEnd, NEW p \in 0 .. BufEnd,
         BufferAndPlace(s, b, d, q, p)
  PROVE  /\ MemOK' /\ SameBlocks /\ mem'[b].data = d /\ mem'[s].pos = q /\ mem'[s].end = p
         /\ \A v \in Place \ {b, s} : mem'[v] = mem[v]
  <1> DEFINE r == [mem[b] EXCEPT !.data = d]
             e == [[mem[s] EXCEPT !.pos = q] EXCEPT !.end = p]
  <1>1. b \in Place /\ mem[b] \in BufRec /\ mem[b].use = "buf" /\ b \notin Blocks
    BY ABuffer DEF InUse
  <1>2. r \in BufRec /\ r.use = "buf" /\ r.data = d
    BY <1>1 DEF BufRec
  <1>3. s \in Place /\ mem[s] \in ScbRec /\ s # b
    BY <1>1, ABlock
  <1>4. /\ e \in ScbRec /\ e.use = "scb" /\ e.pos = q /\ e.end = p
        /\ e.id = mem[s].id /\ e.type = mem[s].type /\ e.buf = mem[s].buf /\ mem[s].use = "scb"
    BY <1>3 DEF ScbRec
  <1>5. r \in MemRec /\ e \in MemRec
    BY <1>2, <1>4 DEF MemRec
  <1>6. mem' = [[mem EXCEPT ![b] = r] EXCEPT ![s] = e]
    BY <1>1, <1>3 DEF MemOK, BufferAndPlace
  <1> HIDE DEF r, e
  <1>7. MemOK'
    BY <1>1, <1>3, <1>5, <1>6 DEF MemOK
  <1>8. mem'[b] = r /\ mem'[s] = e /\ \A v \in Place \ {b, s} : mem'[v] = mem[v]
    BY <1>1, <1>3, <1>6 DEF MemOK
  <1>9. SameBlocks
    BY <1>1, <1>2, <1>4, <1>8 DEF SameBlocks, SameBlock
  <1> QED
    BY <1>2, <1>4, <1>7, <1>8, <1>9

-----------------------------------------------------------------------------
(* Streams are found: nothing in use is touched.                           *)
UsedKept == \A v \in Place : mem[v].use # "free" => mem'[v] = mem[v]

LEMMA BlocksInUse ==
  ASSUME Types, Streams
  PROVE  /\ keyboard \notin ended => keyboard \in Blocks
         /\ screen \notin ended => screen \in Blocks
         /\ cis \notin ended \cup {Null} => cis \in Blocks
         /\ cos \notin ended \cup {Null} => cos \in Blocks
  BY Positive DEF Streams, Selected, Types, NamesOK

LEMMA NotCalling ==
  ASSUME Types, CallKnown, call.on = "none", UNCHANGED callvars
  PROVE  fill = NotFilling /\ CallKnown'
  BY DEF CallKnown, callvars

LEMMA InputSame ==
  ASSUME InputOK, UNCHANGED typedvars, UNCHANGED callvars
  PROVE  InputOK'
  BY DEF InputOK, typedvars, callvars

LEMMA FindConsoleStreams ==
  ASSUME StreamsInv, NEW id \in {"in", "out"}, FindConsole(id)
  PROVE  StreamsInv' /\ mem' = mem
  <1>1. /\ mem' = mem /\ UNCHANGED <<keyboard, screen, cis, cos, ended, left>> /\ call.on = "none"
        /\ held' \in {held \cup {keyboard}, held \cup {screen}}
        /\ UNCHANGED typedvars /\ UNCHANGED callvars
    BY DEF FindConsole, memvars
  <1>2. Types' /\ CallKnown'
    BY <1>1, NotCalling, InputSame DEF StreamsInv, Types, MemOK, NamesOK
  <1>3. Blocks' = Blocks /\ InUse' = InUse /\ Buffers' = Buffers
    BY <1>1 DEF Blocks, InUse, Buffers
  <1>4. PlacesFit' /\ Selected' /\ BuffersKept' /\ Consoles'
    BY <1>1, <1>3 DEF StreamsInv, PlacesFit, Streams, Selected, BuffersKept, Consoles
  <1> QED
    BY <1>1, <1>2, <1>3, <1>4 DEF StreamsInv, Streams

(* A block is taken, and a buffer for it unless it is of NIL:.             *)
LEMMA NewStream ==
  ASSUME StreamsInv, UNCHANGED <<keyboard, screen, cis, cos, ended, left>>,
         NEW b \in Place, NEW c \in Place \cup {Null}, b # c, mem[b].use = "free",
         NEW id \in {"in", "out", "inout", "append"},
         mem'[b] = Scb(id, IF c = Null THEN "nil" ELSE "file", c),
         c # Null => mem[c].use = "free" /\ mem'[c] = Buf,
         \A v \in Place \ {b, c} : mem'[v] = mem[v], held' = held \cup {b}
  PROVE  UsedKept /\ Streams' /\ PlacesFit'
  <1>1. /\ mem'[b].use = "scb" /\ mem'[b].buf = c /\ mem'[b].pos = 0 /\ mem'[b].end = 0
        /\ mem'[b].type = IF c = Null THEN "nil" ELSE "file"
        /\ Buf.use = "buf"
    BY NewRecords
  <1>2. Blocks' = Blocks \cup {b} /\ b \notin Blocks /\ c \notin Blocks
    <2>1. c # Null => mem'[c].use = "buf"
      BY <1>1
    <2>2. \A v \in Place : v = b \/ (v = c /\ c # Null) \/ (v \in Place \ {b, c} /\ mem'[v] = mem[v])
      BY Positive
    <2>3. \A v \in Place : mem'[v].use = "scb" <=> mem[v].use = "scb" \/ v = b
      BY <1>1, <2>1, <2>2
    <2>4. c \notin Blocks /\ b \notin Blocks
      BY Positive DEF Blocks
    <2> QED
      BY <2>3, <2>4 DEF Blocks
  <1>3. \A s \in Blocks : mem'[s] = mem[s] /\ s # b
    BY <1>2 DEF Blocks
  <1>4. InUse' = InUse \cup ({c} \ {Null}) /\ c \notin InUse
    BY <1>1, Positive, ZenonT(40) DEF InUse
  <1>5. \A s \in Blocks : mem[s].buf # c \/ c = Null
    BY <1>4 DEF StreamsInv, Streams, BuffersKept
  <1>6. Buffers' = Buffers \cup ({c} \ {Null})
    <2>1. {mem'[s].buf : s \in Blocks'} = {mem[s].buf : s \in Blocks} \cup {c}
      BY <1>1, <1>2, <1>3
    <2> QED
      BY <2>1 DEF Buffers
  <1>7. UsedKept
    BY Positive DEF UsedKept
  <1>8. Selected'
    BY <1>2, <1>3, BlocksInUse DEF StreamsInv, Streams, Selected
  <1>9. BuffersKept'
    <2>1. \A s \in Blocks' : IF mem'[s].type = "nil" THEN mem'[s].buf = Null
                             ELSE mem'[s].buf \in InUse'
      BY <1>1, <1>2, <1>3, <1>4 DEF StreamsInv, Streams, BuffersKept
    <2>2. \A s, t \in Blocks' : mem'[s].buf = mem'[t].buf => s = t \/ mem'[s].buf = Null
      BY <1>1, <1>2, <1>3, <1>5 DEF StreamsInv, Streams, BuffersKept
    <2>3. InUse' = Buffers' \cup left' /\ Buffers' \cap left' = {}
      BY <1>4, <1>6 DEF StreamsInv, Streams, BuffersKept
    <2> QED
      BY <2>1, <2>2, <2>3 DEF BuffersKept
  <1>10. Consoles'
    BY <1>1, <1>2, <1>3, BlocksInUse DEF StreamsInv, Streams, Consoles
  <1>11. PlacesFit'
    BY <1>1, <1>2, <1>3 DEF StreamsInv, PlacesFit
  <1>12. Blocks' \subseteq held' \cup {keyboard', screen'}
    BY <1>2 DEF StreamsInv, Streams
  <1> QED
    BY <1>7, <1>8, <1>9, <1>10, <1>11, <1>12 DEF Streams

LEMMA FindNilStreams ==
  ASSUME StreamsInv, NEW id \in {"in", "out", "inout", "append"}, FindNil(id)
  PROVE  StreamsInv' /\ UsedKept
  <1> DEFINE e == Scb(id, "nil", Null)
  <1>1. /\ Places # {} /\ mem' = [mem EXCEPT ![Block] = e] /\ call.on = "none"
        /\ UNCHANGED <<keyboard, screen, cis, cos, ended, left>> /\ held' = held \cup {Block}
        /\ UNCHANGED typedvars /\ UNCHANGED callvars
    BY DEF FindNil
  <1>2. Block \in Place /\ mem[Block].use = "free" /\ e \in MemRec
    BY <1>1, BlockIsFree, NewRecords DEF StreamsInv, Types
  <1> HIDE DEF e
  <1>3. MemOK' /\ mem'[Block] = e /\ \A v \in Place \ {Block, Null} : mem'[v] = mem[v]
    BY <1>1, <1>2 DEF StreamsInv, Types, MemOK
  <1>4. Block # Null /\ Null \in Place \cup {Null}
    BY <1>2, Positive
  <1>5. UsedKept /\ Streams' /\ PlacesFit'
    BY <1>1, <1>2, <1>3, <1>4, NewStream DEF e
  <1>6. Types' /\ CallKnown'
    BY <1>1, <1>2, <1>3, NotCalling, InputSame DEF StreamsInv, Types, NamesOK
  <1> QED
    BY <1>5, <1>6 DEF StreamsInv

LEMMA FindFileStreams ==
  ASSUME StreamsInv, NEW id \in {"in", "out", "inout", "append"}, FindFile(id)
  PROVE  StreamsInv' /\ UsedKept
  <1> DEFINE e == Scb(id, "file", Second)
  <1>1. /\ Cardinality(Places) > 1 /\ mem' = [mem EXCEPT ![Block] = e, ![Second] = Buf]
        /\ UNCHANGED <<keyboard, screen, cis, cos, ended, left>> /\ held' = held \cup {Block}
        /\ UNCHANGED typedvars /\ UNCHANGED callvars /\ call.on = "none"
    BY DEF FindFile
  <1>2. /\ Block \in Place /\ mem[Block].use = "free" /\ Second \in Place /\ Second # Block
        /\ mem[Second].use = "free"
    BY <1>1, TwoFree DEF StreamsInv, Types
  <1>3. e \in MemRec /\ Buf \in MemRec
    BY <1>2, NewRecords
  <1> HIDE DEF e
  <1>4. /\ MemOK' /\ mem'[Block] = e /\ mem'[Second] = Buf
        /\ \A v \in Place \ {Block, Second} : mem'[v] = mem[v]
    BY <1>1, <1>2, <1>3 DEF StreamsInv, Types, MemOK
  <1>5. Second # Null /\ Second \in Place \cup {Null}
    BY <1>2, Positive
  <1>6. UsedKept /\ Streams' /\ PlacesFit'
    BY <1>1, <1>2, <1>4, <1>5, NewStream DEF e
  <1>7. Types' /\ CallKnown'
    BY <1>1, <1>2, <1>4, NotCalling, InputSame DEF StreamsInv, Types, NamesOK
  <1> QED
    BY <1>6, <1>7 DEF StreamsInv

(* A buffer is left behind.                                                *)
LEMMA FindUnreadableStreams ==
  ASSUME StreamsInv, FindUnreadable
  PROVE  StreamsInv' /\ UsedKept
  <1>1. /\ Cardinality(Places) > 1 /\ mem' = [mem EXCEPT ![Second] = Buf]
        /\ left' = left \cup {Second} /\ UNCHANGED <<keyboard, screen, cis, cos, held, ended>>
        /\ UNCHANGED typedvars /\ UNCHANGED callvars /\ call.on = "none"
    BY DEF FindUnreadable
  <1>2. Second \in Place /\ mem[Second].use = "free" /\ Buf \in MemRec /\ Buf.use = "buf"
    BY <1>1, TwoFree, NewRecords DEF StreamsInv, Types
  <1>3. /\ MemOK' /\ mem'[Second] = Buf /\ \A v \in Place : v # Second => mem'[v] = mem[v]
    BY <1>1, <1>2 DEF StreamsInv, Types, MemOK
  <1>4. Blocks' = Blocks /\ InUse' = InUse \cup {Second} /\ Second \notin InUse
    BY <1>2, <1>3 DEF Blocks, InUse
  <1>5. \A s \in Blocks : mem'[s] = mem[s]
    BY <1>2, <1>3 DEF Blocks
  <1>6. Buffers' = Buffers
    BY <1>4, <1>5 DEF Buffers
  <1>7. Selected'
    BY <1>1, <1>4, <1>5, BlocksInUse DEF StreamsInv, Streams, Selected
  <1>8. BuffersKept'
    BY <1>1, <1>4, <1>5, <1>6 DEF StreamsInv, Streams, BuffersKept
  <1>9. Consoles'
    BY <1>1, <1>4, <1>5, BlocksInUse DEF StreamsInv, Streams, Consoles
  <1>10. PlacesFit'
    BY <1>4, <1>5 DEF StreamsInv, PlacesFit
  <1>11. Types' /\ CallKnown'
    BY <1>1, <1>2, <1>3, NotCalling, InputSame DEF StreamsInv, Types, NamesOK
  <1>12. UsedKept
    BY <1>2, <1>3 DEF UsedKept
  <1> QED
    BY <1>1, <1>4, <1>7, <1>8, <1>9, <1>10, <1>11, <1>12 DEF StreamsInv, Streams

(* Streams are selected.                                                   *)
LEMMA SelectStreams ==
  ASSUME StreamsInv,
         CommandEnds \/ \E s \in Place : Selectinput(s) \/ Selectoutput(s)
  PROVE  StreamsInv' /\ mem' = mem
  <1>1. /\ mem' = mem /\ UNCHANGED <<keyboard, screen, ended, left>> /\ call.on = "none"
        /\ UNCHANGED typedvars /\ UNCHANGED callvars
    BY DEF CommandEnds, Selectinput, Selectoutput, memvars
  <1>2. /\ held' \subseteq held /\ held \subseteq held' \cup {keyboard, screen}
        /\ cis' \in {cis, keyboard} \/ (cis' \in Blocks /\ mem[cis'].id \in {"in", "inout"})
        /\ cos' \in {cos, screen} \/ (cos' \in Blocks /\ mem[cos'].id \in {"out", "append", "inout"})
    <2>1. CASE CommandEnds
      BY <2>1 DEF CommandEnds
    <2>2. ASSUME NEW s \in Place, Selectinput(s)
          PROVE  held' = held /\ cos' = cos /\ cis' \in Blocks /\ mem[cis'].id \in {"in", "inout"}
      BY <2>2 DEF Selectinput, IsScb, Blocks
    <2>3. ASSUME NEW s \in Place, Selectoutput(s)
          PROVE  /\ held' = held /\ cis' = cis /\ cos' \in Blocks
                 /\ mem[cos'].id \in {"out", "append", "inout"}
      BY <2>3 DEF Selectoutput, IsScb, Blocks
    <2> QED
      BY <2>1, <2>2, <2>3
  <1>3. Blocks' = Blocks /\ InUse' = InUse /\ Buffers' = Buffers
    BY <1>1 DEF Blocks, InUse, Buffers
  <1>4. Selected'
    BY <1>1, <1>2, <1>3 DEF StreamsInv, Streams, Selected, Consoles
  <1>5. BuffersKept' /\ Consoles' /\ PlacesFit'
    BY <1>1, <1>3 DEF StreamsInv, Streams, BuffersKept, Consoles, PlacesFit
  <1>6. Types' /\ CallKnown'
    <2>1. cis' \in Place \cup {Null} /\ cos' \in Place \cup {Null}
      BY <1>2 DEF StreamsInv, Types, NamesOK, Blocks
    <2>2. NamesOK'
      BY <1>1, <1>2, <2>1 DEF StreamsInv, Types, NamesOK
    <2> QED
      BY <1>1, <2>2, NotCalling, InputSame DEF StreamsInv, Types, MemOK
  <1>7. Blocks' \subseteq held' \cup {keyboard', screen'}
    BY <1>1, <1>2, <1>3 DEF StreamsInv, Streams
  <1> QED
    BY <1>1, <1>4, <1>5, <1>6, <1>7 DEF StreamsInv, Streams

(* A stream is ended: its block and its buffer are given back.             *)
LEMMA EndstreamStreams ==
  ASSUME StreamsInv, NEW s \in Place, Endstream(s)
  PROVE  /\ StreamsInv' /\ s \in Blocks
         /\ \A t \in Blocks \ {s} : /\ mem'[t] = mem[t] /\ t \in Blocks'
                                    /\ mem[t].buf # Null => mem'[mem[t].buf] = mem[mem[t].buf]
         /\ ended' = ended \cup ({s} \cap {keyboard, screen})
         /\ before' = IF s = keyboard /\ s \notin ended THEN before + mem[s].pos ELSE before
         /\ UNCHANGED <<keyboard, screen, input, at, text, got, number, call, fill, shown, written>>
         /\ call.on = "none"
  <1>1. /\ mem' = [v \in Place |-> IF v = s \/ v = mem[s].buf THEN Free ELSE mem[v]]
        /\ cis' = (IF cis = s THEN Null ELSE cis) /\ cos' = (IF cos = s THEN Null ELSE cos)
        /\ held' = held \ {s} /\ ended' = ended \cup ({s} \cap {keyboard, screen})
        /\ before' = IF s = keyboard /\ s \notin ended THEN before + mem[s].pos ELSE before
        /\ UNCHANGED <<keyboard, screen, left, input, at, text, got, number>>
        /\ UNCHANGED callvars /\ UNCHANGED screenvars /\ call.on = "none" /\ IsScb(s)
    BY DEF Endstream, Deselected
  <1> DEFINE b == mem[s].buf
  <1>2. s \in Blocks /\ s # Null /\ MemOK
    BY <1>1 DEF IsScb, Blocks, StreamsInv, Types
  <1>3. /\ b \in Place \cup {Null} /\ mem[s].pos \in 0 .. BufEnd /\ b # s
        /\ b # Null => b \in InUse
    <2>1. b \in Place \cup {Null} /\ mem[s].pos \in 0 .. BufEnd
      BY <1>2, ABlock
    <2>2. b # Null => b \in InUse
      BY <1>2 DEF StreamsInv, Streams, BuffersKept
    <2> QED
      BY <1>2, <2>1, <2>2, ABuffer
  <1> HIDE DEF b
  <1>4. /\ MemOK' /\ Free.use = "free"
        /\ \A v \in Place : mem'[v] = IF v \in {s, b} THEN Free ELSE mem[v]
    <2>1. Free \in MemRec /\ Free.use = "free"
      BY DEF MemRec, Free
    <2> QED
      BY <1>1, <2>1 DEF StreamsInv, Types, MemOK, b
  <1>5. Blocks' = Blocks \ {s}
    <2>1. b \notin Blocks
      BY <1>2, <1>3, ABuffer, Positive DEF Blocks
    <2>2. \A v \in Place : mem'[v].use = "scb" <=> mem[v].use = "scb" /\ v # s /\ v # b
      BY <1>4
    <2> QED
      BY <2>1, <2>2 DEF Blocks
  <1>6. InUse' = InUse \ {b}
    BY <1>2, <1>4, ABlock DEF InUse
  <1>7. \A t \in Blocks' : mem'[t] = mem[t] /\ t \in Blocks /\ t # s /\ t # b
    BY <1>2, <1>3, <1>4, <1>5, Positive DEF Blocks, InUse
  <1>8. \A t \in Blocks' : mem[t].buf # Null => mem[t].buf # b /\ mem[t].buf # s
    <2>1. \A t \in Blocks' : mem[t].buf # Null => mem[t].buf \in InUse
      BY <1>7 DEF StreamsInv, Streams, BuffersKept
    <2>2. s \notin InUse
      BY <1>2, ABuffer
    <2>3. \A t \in Blocks' : mem[t].buf = b => t = s \/ b = Null
      BY <1>2, <1>7 DEF StreamsInv, Streams, BuffersKept, b
    <2> QED
      BY <1>7, <2>1, <2>2, <2>3
  <1>9. Buffers' = Buffers \ {b}
    <2>1. Buffers = ({mem[t].buf : t \in Blocks'} \cup {b}) \ {Null}
      BY <1>2, <1>5 DEF Buffers, b
    <2>2. Buffers' = {mem[t].buf : t \in Blocks'} \ {Null}
      BY <1>7 DEF Buffers
    <2> QED
      BY <1>8, <2>1, <2>2
  <1>10. Selected'
    <2>1. \A t \in (held' \cup {keyboard', screen', cis', cos'}) \ (ended' \cup {Null}) : t \in Blocks'
      <3> SUFFICES ASSUME NEW t \in (held' \cup {keyboard', screen', cis', cos'}) \ (ended' \cup {Null})
                   PROVE  t \in Blocks'
        OBVIOUS
      <3>1. t # s
        BY <1>1, <1>2
      <3>2. t \in (held \cup {keyboard, screen, cis, cos}) \ (ended \cup {Null})
        BY <1>1
      <3> QED
        BY <1>5, <3>1, <3>2 DEF StreamsInv, Streams, Selected
    <2>2. cis' \notin ended' \cup {Null} => cis' = cis /\ cis \notin ended \cup {Null} /\ cis \in Blocks'
      BY <1>1, <2>1
    <2>3. cos' \notin ended' \cup {Null} => cos' = cos /\ cos \notin ended \cup {Null} /\ cos \in Blocks'
      BY <1>1, <2>1
    <2> QED
      BY <1>7, <2>1, <2>2, <2>3 DEF StreamsInv, Streams, Selected
  <1>11. BuffersKept'
    <2>1. \A t \in Blocks' : IF mem'[t].type = "nil" THEN mem'[t].buf = Null
                             ELSE mem'[t].buf \in InUse'
      BY <1>6, <1>7, <1>8, ABuffer, Positive DEF StreamsInv, Streams, BuffersKept, InUse
    <2>2. \A t, u \in Blocks' : mem'[t].buf = mem'[u].buf => t = u \/ mem'[t].buf = Null
      BY <1>7 DEF StreamsInv, Streams, BuffersKept
    <2>3. b # Null => b \in Buffers
      BY <1>2 DEF Buffers, b
    <2>4. Null \notin InUse
      BY Positive DEF InUse
    <2>5. InUse' = Buffers' \cup left' /\ Buffers' \cap left' = {}
      BY <1>1, <1>6, <1>9, <2>3, <2>4 DEF StreamsInv, Streams, BuffersKept
    <2> QED
      BY <2>1, <2>2, <2>5 DEF BuffersKept
  <1>12. Consoles'
    <2>1. \A t \in Blocks' : mem'[t].type = "console" => t \in {keyboard', screen'} \ ended'
      BY <1>1, <1>7 DEF StreamsInv, Streams, Consoles
    <2>2. keyboard' \notin ended' => keyboard' \in Blocks'
      BY <1>1, <1>5, BlocksInUse DEF StreamsInv
    <2>3. screen' \notin ended' => screen' \in Blocks'
      BY <1>1, <1>5, BlocksInUse DEF StreamsInv
    <2> QED
      BY <1>1, <1>7, <2>1, <2>2, <2>3 DEF StreamsInv, Streams, Consoles
  <1>13. PlacesFit'
    BY <1>7 DEF StreamsInv, PlacesFit
  <1>14. Types'
    <2>1. NamesOK'
      BY <1>1 DEF StreamsInv, Types, NamesOK
    <2>2. before' \in Nat
      BY <1>1, <1>3 DEF StreamsInv, Types, InputOK
    <2>3. InputOK'
      BY <1>1, <2>2 DEF StreamsInv, Types, InputOK, callvars
    <2> QED
      BY <1>4, <2>1, <2>3 DEF Types
  <1>15. CallKnown'
    BY <1>1, NotCalling DEF StreamsInv
  <1>16. \A t \in Blocks \ {s} : mem[t].buf # Null => mem'[mem[t].buf] = mem[mem[t].buf]
    <2>1. \A t \in Blocks \ {s} : t \in Blocks' /\ mem[t].buf \in Place \cup {Null}
      BY <1>2, <1>5, ABlock
    <2> QED
      BY <1>4, <1>8, <2>1
  <1>17. Blocks' \subseteq held' \cup {keyboard', screen'}
    BY <1>1, <1>5 DEF StreamsInv, Streams
  <1> QED
    BY <1>1, <1>2, <1>5, <1>7, <1>10, <1>11, <1>12, <1>13, <1>14, <1>15, <1>16, <1>17
       DEF StreamsInv, Streams, callvars, screenvars

-----------------------------------------------------------------------------
(* Reading: only the keyboard or NIL: is read, and the screen is not       *)
(* touched.                                                                *)
ScreenKept == screen \notin ended' =>
  /\ screen \notin ended /\ mem'[screen] = mem[screen]
  /\ mem'[mem[screen].buf] = mem[mem[screen].buf]

LEMMA ReadingWhat ==
  ASSUME StreamsInv, call.on # "none"
  PROVE  /\ MemOK /\ cis \in Blocks /\ cis \in Place /\ ended = {} /\ cis # screen
         /\ screen \in Blocks /\ screen \in Place /\ mem[screen].buf \in InUse
         /\ mem[cis].pos \in 0 .. mem[cis].end /\ mem[cis].end \in 0 .. BufEnd
         /\ mem[cis].type \in {"console", "nil"}
         /\ mem[cis].type = "nil" => /\ mem[cis].pos = 0 /\ mem[cis].end = 0
                                     /\ cis # keyboard
         /\ mem[cis].type = "console" => /\ cis = keyboard /\ mem[cis].buf \in InUse
                                         /\ mem[cis].buf # mem[screen].buf
  <1>1. /\ MemOK /\ cis \in Blocks /\ ended = {} /\ mem[cis].type \in {"console", "nil"}
        /\ mem[cis].id # "out"
    BY DEF StreamsInv, Types, CallKnown
  <1>2. screen \in Blocks /\ keyboard \in Blocks
    BY <1>1, BlocksInUse DEF StreamsInv
  <1>3. /\ mem[screen].type = "console" /\ mem[screen].id = "out"
        /\ mem[keyboard].type = "console"
        /\ mem[cis].type = "console" => cis \in {keyboard, screen}
    BY <1>1 DEF StreamsInv, Streams, Consoles
  <1>4. /\ mem[screen].buf \in InUse
        /\ mem[cis].type = "console" => mem[cis].buf \in InUse
    BY <1>1, <1>2, <1>3 DEF StreamsInv, Streams, BuffersKept
  <1>5. mem[cis].type = "console" => mem[cis].buf # mem[screen].buf
    BY <1>1, <1>2, <1>3, <1>4, ABuffer, Positive DEF StreamsInv, Streams, BuffersKept
  <1>6. /\ mem[cis].pos \in 0 .. BufEnd /\ mem[cis].end \in 0 .. BufEnd
        /\ mem[cis].pos <= mem[cis].end /\ (mem[cis].type = "nil" => mem[cis].end = 0)
    BY <1>1, ABlock DEF StreamsInv, PlacesFit
  <1>7. mem[cis].pos \in 0 .. mem[cis].end /\ (mem[cis].type = "nil" => mem[cis].pos = 0)
    BY <1>6, Positive
  <1>8. screen \in Place /\ cis \in Place
    BY <1>1, <1>2 DEF Blocks
  <1> QED
    BY <1>1, <1>2, <1>3, <1>4, <1>5, <1>6, <1>7, <1>8

(* A character is given: the place goes on, or back again.                 *)
LEMMA GivenDoes ==
  ASSUME StreamsInv, call.on # "none", NEW ch, NEW at1 \in 0 .. mem[cis].end, Given(ch, at1)
  PROVE  /\ call' \in CallRec /\ number' \in Int
         /\ got' = IF cis = keyboard THEN ch ELSE got
         /\ \E p \in {at1, Unrdch(at1)} : At1(p) /\ p \in 0 .. mem[cis].end
  <1>1. /\ call \in CallRec /\ number \in Int /\ mem[cis].end \in Nat /\ call.sum \in Nat
        /\ call.neg \in BOOLEAN
    BY ReadingWhat, Positive DEF StreamsInv, Types, InputOK, CallRec
  <1>2. Idle \in CallRec
    BY DEF Idle, CallRec
  <1>3. Unrdch(at1) \in 0 .. mem[cis].end
    BY <1>1 DEF Unrdch
  <1>4. CASE call.on = "rdch"
    <2>1. Returns(number, at1)
      BY <1>4 DEF Given
    <2> QED
      BY <2>1, <1>1, <1>2 DEF Returns, Given
  <1>5. CASE call.on \in {"space", "sign", "digits"} /\ ch \in DOMAIN Digit
    <2>1. call' = [call EXCEPT !.on = "digits", !.sum = More(ch)] /\ number' = number /\ At1(at1)
      <3> DEFINE D == DOMAIN Digit
      <3>1. call.on \in {"space", "sign", "digits"} /\ ch \in D /\ call.on # "rdch"
        BY <1>5
      <3>2. CASE call.on = "space"
        <4>1. ch \notin {"sp", "nl"} /\ ch # "-"
          BY <1>5 DEF Digit
        <4> QED
          BY <3>2, <4>1, <1>5 DEF Given
      <3>3. CASE call.on # "space"
        BY <3>1, <3>3 DEF Given
      <3> QED
        BY <3>2, <3>3
    <2>2. More(ch) \in Nat
      BY <1>1, <1>5 DEF More, Digit
    <2>3. call' \in CallRec
      BY <1>1, <2>1, <2>2 DEF CallRec
    <2> QED
      BY <2>1, <2>3, <1>1 DEF Given
  <1>6. CASE call.on = "space" /\ ch \in {"sp", "nl"}
    <2>1. ch \notin DOMAIN Digit
      BY <1>6 DEF Digit
    <2>2. UNCHANGED <<call, number>> /\ At1(at1)
      BY <1>6, <2>1 DEF Given
    <2> QED
      BY <2>2, <1>1 DEF Given
  <1>7. CASE call.on = "space" /\ ch = "-"
    <2>1. ch \notin DOMAIN Digit
      BY <1>7 DEF Digit
    <2>2. call' = [call EXCEPT !.on = "sign", !.neg = TRUE] /\ number' = number /\ At1(at1)
      BY <1>7, <2>1 DEF Given
    <2>3. call' \in CallRec
      BY <1>1, <2>2 DEF CallRec
    <2> QED
      BY <2>2, <2>3, <1>1 DEF Given
  <1>8. CASE /\ ~(call.on = "rdch")
             /\ ~(call.on \in {"space", "sign", "digits"} /\ ch \in DOMAIN Digit)
             /\ ~(call.on = "space" /\ ch \in {"sp", "nl"})
             /\ ~(call.on = "space" /\ ch = "-")
    <2>1. Returns(IF call.neg THEN -call.sum ELSE call.sum, Unrdch(at1))
      BY <1>8 DEF Given
    <2>2. (IF call.neg THEN -call.sum ELSE call.sum) \in Int
      BY <1>1
    <2> QED
      BY <2>1, <2>2, <1>2, <1>3 DEF Returns, Given
  <1> QED
    BY <1>4, <1>5, <1>6, <1>7, <1>8

(* The place of the stream that is read is moved in its buffer.            *)
LEMMA MovedInBuffer ==
  ASSUME StreamsInv, call.on # "none", NEW p \in 0 .. mem[cis].end, At1(p),
         UNCHANGED <<keyboard, screen>>, UNCHANGED streamvars,
         call' \in CallRec, number' \in Int, fill' = NotFilling,
         UNCHANGED <<input, at, before>>
  PROVE  /\ StreamsInv' /\ ScreenKept /\ mem'[cis].pos = p /\ mem'[cis].end = mem[cis].end
         /\ SameBlocks /\ \A v \in Place : v # cis => mem'[v] = mem[v]
  <1>1. /\ MemOK /\ cis \in Blocks /\ cis \in Place /\ cis # screen
        /\ screen \in Place /\ mem[screen].buf \in InUse /\ mem[cis].end \in 0 .. BufEnd
        /\ ended = {} /\ mem[cis].type \in {"console", "nil"} /\ mem[cis].id # "out"
    BY ReadingWhat DEF StreamsInv, CallKnown
  <1>2. p \in 0 .. BufEnd /\ mem' = [mem EXCEPT ![cis].pos = p]
    BY <1>1, Positive DEF At1
  <1>3. /\ MemOK' /\ SameBlocks /\ mem'[cis].pos = p /\ mem'[cis].end = mem[cis].end
        /\ \A v \in Place : v # cis => mem'[v] = mem[v]
    BY <1>1, <1>2, PlaceMoved
  <1>4. Streams' /\ Blocks' = Blocks
    BY <1>3, SameStreams DEF StreamsInv
  <1>5. /\ UNCHANGED <<keyboard, screen, cis, cos, held, ended, left>>
        /\ SameBlock(cis)
    BY <1>1, <1>3 DEF streamvars, SameBlocks
  <1>6. PlacesFit'
    <2>1. \A s \in Blocks : s \in Place /\ SameBlock(s) /\ mem[s].use = "scb"
      BY <1>3 DEF SameBlocks, Blocks
    <2>2. p <= mem[cis].end
      BY <1>1
    <2> QED
      BY <1>1, <1>3, <1>4, <2>1, <2>2 DEF StreamsInv, PlacesFit, SameBlock
  <1>7. fill' \in NotFilling .. BufEnd - 1
    BY Positive DEF NotFilling
  <1>8. Types'
    BY <1>3, <1>5, <1>7 DEF StreamsInv, Types, NamesOK, InputOK
  <1>9. CallKnown'
    BY <1>1, <1>4, <1>5 DEF CallKnown, SameBlock, Blocks
  <1>10. ScreenKept
    BY <1>1, <1>3, ABuffer DEF ScreenKept
  <1> QED
    BY <1>3, <1>4, <1>6, <1>8, <1>9, <1>10 DEF StreamsInv

LEMMA TakeStreams ==
  ASSUME StreamsInv, TakeCr \/ Take, UNCHANGED <<keyboard, screen>>, UNCHANGED streamvars
  PROVE  StreamsInv' /\ ScreenKept
  <1>1. /\ call.on # "none" /\ fill = NotFilling /\ mem[cis].pos < mem[cis].end
        /\ UNCHANGED <<fill, input, at, before>>
    BY DEF TakeCr, Take, Reading, Stream
  <1>2. mem[cis].pos + 1 \in 0 .. mem[cis].end
    BY <1>1, ReadingWhat, Positive
  <1>3. CASE TakeCr
    <2>1. At1(mem[cis].pos + 1) /\ call' = call /\ number' = number
      BY <1>3 DEF TakeCr, Stream
    <2>2. call' \in CallRec /\ number' \in Int
      BY <2>1 DEF StreamsInv, Types, InputOK
    <2> QED
      BY <1>1, <1>2, <2>1, <2>2, MovedInBuffer
  <1>4. CASE Take
    <2>1. Given(mem[mem[cis].buf].data[mem[cis].pos], mem[cis].pos + 1)
      BY <1>4 DEF Take, Stream
    <2>2. call' \in CallRec /\ number' \in Int /\ \E p \in 0 .. mem[cis].end : At1(p)
      BY <1>1, <1>2, <2>1, GivenDoes
    <2> QED
      BY <1>1, <2>2, MovedInBuffer
  <1> QED
    BY <1>3, <1>4

LEMMA ReplenishNilStreams ==
  ASSUME StreamsInv, ReplenishNil, UNCHANGED <<keyboard, screen>>, UNCHANGED streamvars
  PROVE  StreamsInv' /\ ScreenKept /\ cis # keyboard
         /\ \A v \in Place : v # cis => mem'[v] = mem[v]
  <1>1. /\ call.on # "none" /\ fill = NotFilling /\ mem[cis].type = "nil"
        /\ Given("eof", mem[cis].pos) /\ UNCHANGED <<fill, input, at, before>>
    BY DEF ReplenishNil, Reading, Stream
  <1>2. mem[cis].pos \in 0 .. mem[cis].end /\ cis # keyboard
    BY <1>1, ReadingWhat
  <1>3. call' \in CallRec /\ number' \in Int /\ \E p \in 0 .. mem[cis].end : At1(p)
    BY <1>1, <1>2, GivenDoes
  <1> QED
    BY <1>1, <1>2, <1>3, MovedInBuffer

(* The buffer is to be filled, or a character is taken out of it.          *)
LEMMA FillStreams ==
  ASSUME StreamsInv, Replenish \/ SardchErases,
         UNCHANGED <<keyboard, screen>>, UNCHANGED streamvars
  PROVE  /\ StreamsInv' /\ ScreenKept /\ cis = keyboard
         /\ UNCHANGED <<mem, before, call, got, number, input, text>>
  <1>1. /\ UNCHANGED <<mem, before, call, got, number, input, text>> /\ call.on # "none"
        /\ mem[cis].type = "console" /\ mem[cis].pos >= mem[cis].end
    <2>1. CASE Replenish
      BY <2>1 DEF Replenish, Reading, Stream
    <2>2. CASE SardchErases
      <3>1. mem[cis].type = "console" /\ mem[cis].pos = mem[cis].end /\ call.on # "none"
        BY <2>2 DEF StreamsInv, CallKnown, SardchErases, Typing
      <3>2. mem[cis].end \in Nat
        BY <3>1, ReadingWhat, Positive
      <3> QED
        BY <2>2, <3>1, <3>2 DEF SardchErases
    <2> QED
      BY <2>1, <2>2
  <1>2. fill' \in 0 .. BufEnd - 1 /\ at' \in 0 .. Len(input)
    <2>1. fill \in NotFilling .. BufEnd - 1 /\ at \in 0 .. Len(input) /\ BufEnd \in Nat \ {0}
          /\ Len(input) \in Nat
      BY Positive, LenProperties DEF StreamsInv, Types, InputOK
    <2>2. CASE Replenish
      BY <2>1, <2>2 DEF Replenish
    <2>3. CASE SardchErases
      BY <2>1, <2>3 DEF SardchErases, Typing, NotFilling
    <2> QED
      BY <2>2, <2>3
  <1>3. SameBlocks
    BY <1>1 DEF SameBlocks, SameBlock
  <1>4. Streams' /\ Blocks' = Blocks
    BY <1>3, SameStreams DEF StreamsInv
  <1>5. UNCHANGED <<cis, cos, held, ended, left>>
    BY DEF streamvars
  <1>6. PlacesFit'
    BY <1>1, <1>4 DEF StreamsInv, PlacesFit
  <1>7. fill' \in NotFilling .. BufEnd - 1
    BY <1>2, Positive DEF NotFilling
  <1>8. Types'
    BY <1>1, <1>2, <1>5, <1>7 DEF StreamsInv, Types, MemOK, NamesOK, InputOK
  <1>9. mem[cis].pos = mem[cis].end
    BY <1>1, ReadingWhat, Positive
  <1>10. CallKnown'
    BY <1>1, <1>4, <1>5, <1>9 DEF StreamsInv, CallKnown
  <1>11. ScreenKept /\ cis = keyboard
    BY <1>1, <1>5, ReadingWhat DEF ScreenKept
  <1> QED
    BY <1>1, <1>4, <1>6, <1>8, <1>10, <1>11 DEF StreamsInv

(* The buffer is filled to p: it is read from its beginning.               *)
LEMMA FilledStreams ==
  ASSUME StreamsInv, fill # NotFilling, NEW d \in Data, NEW p \in 0 .. BufEnd, Filled(d, p),
         UNCHANGED <<keyboard, screen>>, UNCHANGED streamvars,
         UNCHANGED <<call, number, input>>, at' \in 0 .. Len(input)
  PROVE  /\ StreamsInv' /\ ScreenKept /\ SameBlocks /\ mem'[mem[cis].buf].data = d
         /\ mem'[cis].pos = 0 /\ mem'[cis].end = p
  <1>1. /\ call.on # "none" /\ mem[cis].type = "console" /\ mem[cis].pos = mem[cis].end
    BY DEF StreamsInv, CallKnown
  <1>2. /\ MemOK /\ cis \in Blocks /\ cis \in Place /\ cis # screen /\ mem[cis].id # "out"
        /\ screen \in Place /\ mem[screen].buf \in InUse /\ mem[cis].end \in Nat
        /\ mem[cis].buf \in InUse /\ mem[cis].buf # mem[screen].buf /\ ended = {}
        /\ screen \in Blocks
    BY <1>1, ReadingWhat, Positive DEF StreamsInv, CallKnown
  <1> DEFINE b == mem[cis].buf
  <1>3. /\ BufferAndPlace(cis, b, d, 0, p)
        /\ before' = before + mem[cis].end /\ fill' = NotFilling
    BY DEF Filled, Stream, BufferAndPlace
  <1>4. 0 \in 0 .. BufEnd
    BY Positive
  <1> HIDE DEF b
  <1>5. /\ MemOK' /\ SameBlocks /\ mem'[b].data = d /\ mem'[cis].pos = 0 /\ mem'[cis].end = p
        /\ \A v \in Place \ {b, cis} : mem'[v] = mem[v]
    BY <1>2, <1>3, <1>4, BufferMoved DEF b
  <1>6. Streams' /\ Blocks' = Blocks
    BY <1>5, SameStreams DEF StreamsInv
  <1>7. UNCHANGED <<cis, cos, held, ended, left>> /\ SameBlock(cis) /\ b \notin Blocks
    BY <1>2, <1>5, ABuffer DEF streamvars, SameBlocks, b
  <1>8. PlacesFit'
    <2>1. \A s \in Blocks : s \in Place /\ SameBlock(s) /\ mem[s].use = "scb" /\ s # b
      BY <1>5, <1>7 DEF SameBlocks, Blocks
    <2>2. 0 <= p
      OBVIOUS
    <2> QED
      BY <1>1, <1>5, <1>6, <2>1, <2>2 DEF StreamsInv, PlacesFit, SameBlock
  <1>9. fill' \in NotFilling .. BufEnd - 1 /\ before' \in Nat
    BY <1>2, <1>3, Positive, SMTT(30) DEF NotFilling, StreamsInv, Types, InputOK
  <1>10. Types'
    BY <1>5, <1>7, <1>9 DEF StreamsInv, Types, NamesOK, InputOK
  <1>11. CallKnown'
    BY <1>1, <1>2, <1>3, <1>6, <1>7 DEF CallKnown, SameBlock, Blocks
  <1>12. ScreenKept
    BY <1>2, <1>5, <1>7, ABuffer DEF ScreenKept, b
  <1> QED
    BY <1>5, <1>6, <1>8, <1>10, <1>11, <1>12 DEF StreamsInv, b

(* A character is put into the buffer, or the input is at its end.         *)
LEMMA SardchStoresStreams ==
  ASSUME StreamsInv, SardchStores, UNCHANGED <<keyboard, screen>>, UNCHANGED streamvars
  PROVE  StreamsInv' /\ ScreenKept
  <1>1. /\ fill # NotFilling /\ at < Len(input) /\ at' = at + 1
        /\ UNCHANGED <<call, got, number, input, text>>
    BY DEF SardchStores, Typing
  <1>2. call.on # "none" /\ mem[cis].type = "console" /\ mem[cis].pos = mem[cis].end
    BY <1>1 DEF StreamsInv, CallKnown
  <1>3. /\ MemOK /\ cis \in Blocks /\ cis \in Place /\ cis # screen /\ screen \in Place
        /\ screen \in Blocks
        /\ mem[cis].buf \in InUse /\ mem[screen].buf \in InUse /\ mem[cis].buf # mem[screen].buf
    BY <1>2, ReadingWhat
  <1>4. fill \in 0 .. BufEnd - 1 /\ fill + 1 \in 0 .. BufEnd /\ at' \in 0 .. Len(input)
        /\ Ch \in Character
    <2>1. fill \in NotFilling .. BufEnd - 1 /\ at \in 0 .. Len(input) /\ BufEnd \in Nat
          /\ input \in Seq(Char) /\ Len(input) \in Nat
      BY Positive, LenProperties DEF StreamsInv, Types, InputOK
    <2>2. fill \in 0 .. BufEnd - 1
      BY <1>1, <2>1 DEF NotFilling
    <2>3. Ch \in Char
      BY <1>1, <2>1, ElementOfSeq DEF Ch
    <2> QED
      BY <1>1, <2>1, <2>2, <2>3 DEF Character
  <1> DEFINE b == mem[cis].buf
             d == [mem[b].data EXCEPT ![fill] = Ch]
  <1>5. d \in Data
    BY <1>3, <1>4, ABuffer DEF Data
  <1>6. \/ Filled(d, fill + 1)
        \/ mem' = [mem EXCEPT ![b].data = d] /\ fill' = fill + 1 /\ before' = before
           /\ fill + 1 # BufEnd
    BY DEF SardchStores, Stream
  <1> HIDE DEF b, d
  <1>7. CASE Filled(d, fill + 1)
    BY <1>1, <1>4, <1>5, <1>7, FilledStreams
  <1>8. CASE mem' = [mem EXCEPT ![b].data = d] /\ fill' = fill + 1 /\ before' = before
             /\ fill + 1 # BufEnd
    <2>1. MemOK' /\ SameBlocks /\ \A v \in Place : v # b => mem'[v] = mem[v]
      BY <1>3, <1>5, <1>8, BufferChanged DEF b
    <2>2. Streams' /\ Blocks' = Blocks
      BY <2>1, SameStreams DEF StreamsInv
    <2>3. UNCHANGED <<cis, cos, held, ended, left>> /\ b \notin Blocks
      BY <1>3, ABuffer DEF streamvars, b
    <2>4. \A s \in Blocks : mem'[s] = mem[s]
      BY <2>1, <2>3 DEF Blocks
    <2>5. PlacesFit'
      BY <2>2, <2>4 DEF StreamsInv, PlacesFit
    <2>6. fill' \in NotFilling .. BufEnd - 1
      BY <1>4, <1>8, Positive DEF NotFilling
    <2>7. Types'
      BY <1>1, <1>4, <1>8, <2>1, <2>3, <2>6 DEF StreamsInv, Types, NamesOK, InputOK
    <2>8. CallKnown'
      BY <1>1, <1>2, <1>3, <2>2, <2>3, <2>4 DEF StreamsInv, CallKnown
    <2>9. ScreenKept
      BY <1>3, <2>1, <2>3, <2>4, ABuffer, ReadingWhat, <1>2 DEF ScreenKept, b
    <2> QED
      BY <2>2, <2>5, <2>7, <2>8, <2>9 DEF StreamsInv
  <1> QED
    BY <1>6, <1>7, <1>8

LEMMA SardchEndsStreams ==
  ASSUME StreamsInv, SardchEnds, UNCHANGED <<keyboard, screen>>, UNCHANGED streamvars
  PROVE  StreamsInv' /\ ScreenKept
  <1>1. /\ fill # NotFilling /\ UNCHANGED <<input, at, text>>
        /\ \/ fill > 0 /\ Filled(mem[mem[cis].buf].data, fill) /\ UNCHANGED <<call, got, number>>
           \/ /\ fill = 0 /\ fill' = NotFilling /\ before' = before
              /\ Given("eof", mem[cis].pos)
    BY DEF SardchEnds, Stream
  <1>2. call.on # "none" /\ mem[cis].type = "console"
    BY <1>1 DEF StreamsInv, CallKnown
  <1>3. CASE fill > 0 /\ Filled(mem[mem[cis].buf].data, fill) /\ UNCHANGED <<call, got, number>>
    <2>1. mem[mem[cis].buf].data \in Data
      BY <1>2, ReadingWhat, ABuffer
    <2>2. fill \in 0 .. BufEnd
      BY <1>3, Positive DEF StreamsInv, Types, InputOK, NotFilling
    <2>3. at' \in 0 .. Len(input)
      BY <1>1 DEF StreamsInv, Types, InputOK
    <2> QED
      BY <1>1, <1>3, <2>1, <2>2, <2>3, FilledStreams
  <1>4. CASE fill = 0 /\ fill' = NotFilling /\ before' = before /\ Given("eof", mem[cis].pos)
    <2>1. mem[cis].pos \in 0 .. mem[cis].end
      BY <1>2, ReadingWhat
    <2>2. call' \in CallRec /\ number' \in Int /\ \E p \in 0 .. mem[cis].end : At1(p)
      BY <1>2, <1>4, <2>1, GivenDoes
    <2> QED
      BY <1>1, <1>2, <1>4, <2>2, MovedInBuffer
  <1> QED
    BY <1>1, <1>3, <1>4

LEMMA ReadStreams ==
  ASSUME StreamsInv, ReadSteps
  PROVE  StreamsInv' /\ ScreenKept /\ UNCHANGED <<keyboard, screen, shown, written>>
  <1>1. /\ TakeCr \/ Take \/ ReplenishNil \/ Replenish \/ SardchErases \/ SardchStores
             \/ SardchEnds
        /\ UNCHANGED <<keyboard, screen>> /\ UNCHANGED streamvars /\ UNCHANGED screenvars
    BY DEF ReadSteps
  <1>2. StreamsInv' /\ ScreenKept
    BY <1>1, TakeStreams, ReplenishNilStreams, FillStreams, SardchStoresStreams,
       SardchEndsStreams
  <1> QED
    BY <1>1, <1>2 DEF screenvars

LEMMA BeginsStreams ==
  ASSUME StreamsInv, NEW what \in {"rdch", "space"}, Begins(what)
  PROVE  /\ StreamsInv' /\ mem' = mem
         /\ UNCHANGED <<ended, keyboard, screen, shown, written>>
  <1>1. /\ call.on = "none" /\ Readable /\ ended = {}
        /\ call' = [Idle EXCEPT !.on = what, !.from = before + Pos]
        /\ UNCHANGED <<fill, before, input, at, text, got, number>>
        /\ UNCHANGED <<mem, keyboard, screen, cis, cos, held, ended, left, shown, written>>
    BY DEF Begins, memvars, streamvars, screenvars
  <1>2. cis \in Blocks /\ mem[cis].type \in {"console", "nil"} /\ mem[cis].id # "out"
    BY <1>1 DEF Readable, IsScb, Blocks, StreamsInv, Types, NamesOK
  <1>3. Pos \in Nat
    <2>1. keyboard \in Blocks
      BY <1>1, BlocksInUse DEF StreamsInv
    <2>2. mem[keyboard].pos \in Nat
      BY <2>1, ABlock, Positive DEF StreamsInv, Types
    <2> QED
      BY <2>2 DEF Pos
  <1>4. call' \in CallRec /\ call'.on = what
    <2>1. before + Pos \in Nat
      BY <1>3 DEF StreamsInv, Types, InputOK
    <2>2. call' = [on |-> what, neg |-> FALSE, sum |-> 0, from |-> before + Pos]
      BY <1>1 DEF Idle
    <2> QED
      BY <2>1, <2>2 DEF CallRec
  <1>5. fill = NotFilling
    BY <1>1 DEF StreamsInv, CallKnown
  <1>6. Blocks' = Blocks /\ InUse' = InUse /\ Buffers' = Buffers
    BY <1>1 DEF Blocks, InUse, Buffers
  <1>7. CallKnown'
    BY <1>1, <1>2, <1>5, <1>6 DEF CallKnown
  <1>8. Types'
    BY <1>1, <1>4 DEF StreamsInv, Types, MemOK, NamesOK, InputOK
  <1>9. PlacesFit' /\ Selected' /\ BuffersKept' /\ Consoles' /\ Streams'
    BY <1>1, <1>6 DEF StreamsInv, PlacesFit, Streams, Selected, BuffersKept, Consoles
  <1> QED
    BY <1>1, <1>7, <1>8, <1>9 DEF StreamsInv

-----------------------------------------------------------------------------
(* The screen: what is shown and what is in the buffer, one after the      *)
(* other.                                                                  *)
ScreenRec == [data : Data, pos : 0 .. BufEnd, end : 0 .. BufEnd, shown : Seq(Character)]
Content(r) == r.shown \o FirstOf(r.data, r.pos)

LEMMA FirstOfIs ==
  ASSUME NEW d \in Data, NEW n \in 0 .. BufEnd
  PROVE  /\ FirstOf(d, n) \in Seq(Character) /\ Len(FirstOf(d, n)) = n
         /\ \A i \in 1 .. n : FirstOf(d, n)[i] = d[i - 1]
  <1>1. \A i \in 1 .. n : d[i - 1] \in Character
    BY Positive DEF Data
  <1>2. n \in Nat
    BY Positive
  <1>3. FirstOf(d, n) \in [1 .. n -> Character]
    BY <1>1, <1>2 DEF FirstOf
  <1>4. FirstOf(d, n) \in Seq(Character)
    BY <1>2, <1>3 DEF Seq
  <1>5. Len(FirstOf(d, n)) = n
    BY <1>2, <1>3, <1>4, LenProperties
  <1> QED
    BY <1>4, <1>5 DEF FirstOf

LEMMA DepletedIs ==
  ASSUME NEW r \in ScreenRec
  PROVE  /\ Depleted(r) \in ScreenRec /\ Depleted(r).pos = 0 /\ Depleted(r).end = 0
         /\ Depleted(r).data = r.data /\ Content(Depleted(r)) = Content(r)
  <1>1. /\ r.data \in Data /\ r.pos \in 0 .. BufEnd /\ r.shown \in Seq(Character)
    BY DEF ScreenRec
  <1>2. FirstOf(r.data, r.pos) \in Seq(Character)
    BY <1>1, FirstOfIs
  <1>3. Content(r) \in Seq(Character)
    BY <1>1, <1>2, ConcatProperties DEF Content
  <1>4. /\ Depleted(r).shown = Content(r) /\ Depleted(r).pos = 0 /\ Depleted(r).end = 0
        /\ Depleted(r).data = r.data
    BY DEF Depleted, Content, ScreenRec
  <1>5. Depleted(r) \in ScreenRec
    <2> DEFINE t == Content(r)
    <2>3. Depleted(r) = [r EXCEPT !.shown = t, !.pos = 0, !.end = 0]
      BY DEF Depleted, Content
    <2> HIDE DEF t
    <2>1. Depleted(r) = [data |-> r.data, pos |-> 0, end |-> 0, shown |-> t]
      BY <2>3 DEF ScreenRec
    <2>2. 0 \in 0 .. BufEnd
      BY Positive
    <2> QED
      BY <1>1, <1>3, <2>1, <2>2 DEF ScreenRec, t
  <1>6. FirstOf(r.data, 0) = << >>
    <2>1. FirstOf(r.data, 0) \in Seq(Character) /\ Len(FirstOf(r.data, 0)) = 0
      BY <1>1, FirstOfIs, Positive
    <2> QED
      BY <2>1, EmptySeq
  <1>7. Content(Depleted(r)) = Content(r) \o << >>
    BY <1>4, <1>6 DEF Content
  <1>8. Content(r) \o << >> = Content(r)
    BY <1>3, ConcatEmptySeq
  <1> QED
    BY <1>4, <1>5, <1>7, <1>8

LEMMA PutIs ==
  ASSUME NEW r \in ScreenRec, NEW c \in Character
  PROVE  /\ Put(r, c) \in ScreenRec /\ Content(Put(r, c)) = Content(r) \o <<c>>
         /\ r.pos <= r.end => Put(r, c).pos <= Put(r, c).end
  <1> DEFINE f == IF r.pos >= BufEnd THEN Depleted(r) ELSE r
             d == [f.data EXCEPT ![f.pos] = c]
             n == f.pos + 1
  <1>1. /\ f \in ScreenRec /\ Content(f) = Content(r) /\ f.pos < BufEnd
        /\ r.pos <= r.end => f.pos <= f.end
    BY DepletedIs, Positive DEF ScreenRec
  <1>2. Put(r, c) = [f EXCEPT !.data[f.pos] = c, !.pos = f.pos + 1,
                              !.end = IF f.end < f.pos + 1 THEN f.pos + 1 ELSE @]
    BY DEF Put
  <1> HIDE DEF f
  <1>3. /\ f.data \in Data /\ f.pos \in 0 .. BufEnd - 1 /\ f.end \in 0 .. BufEnd
        /\ f.shown \in Seq(Character) /\ n \in 0 .. BufEnd /\ f.pos \in 0 .. BufEnd
    BY <1>1, Positive DEF ScreenRec
  <1>4. d \in Data
    BY <1>3 DEF Data
  <1>5. Put(r, c) = [data |-> d, pos |-> n, end |-> IF f.end < n THEN n ELSE f.end,
                     shown |-> f.shown]
    BY <1>1, <1>2 DEF ScreenRec
  <1>6. /\ \A i \in 1 .. f.pos : d[i - 1] = f.data[i - 1]
        /\ d[n - 1] = c
    BY <1>3, Positive DEF Data
  <1> HIDE DEF d
  <1>7. FirstOf(d, n) = FirstOf(f.data, f.pos) \o <<c>>
    <2>1. /\ FirstOf(d, n) \in Seq(Character) /\ Len(FirstOf(d, n)) = n
          /\ \A i \in 1 .. n : FirstOf(d, n)[i] = d[i - 1]
      BY <1>3, <1>4, FirstOfIs
    <2>2. /\ FirstOf(f.data, f.pos) \in Seq(Character) /\ Len(FirstOf(f.data, f.pos)) = f.pos
          /\ \A i \in 1 .. f.pos : FirstOf(f.data, f.pos)[i] = f.data[i - 1]
      BY <1>3, FirstOfIs
    <2> DEFINE s == FirstOf(d, n)
               t == FirstOf(f.data, f.pos)
    <2> HIDE DEF s, t
    <2>3. t \o <<c>> \in Seq(Character) /\ Len(t \o <<c>>) = n
      BY <1>3, <2>2 DEF t
    <2>4. \A i \in 1 .. n : (t \o <<c>>)[i] = IF i = n THEN c ELSE t[i]
      BY <1>3, <2>2 DEF t
    <2>5. \A i \in 1 .. n : s[i] = IF i = n THEN c ELSE t[i]
      <3> SUFFICES ASSUME NEW i \in 1 .. n PROVE s[i] = IF i = n THEN c ELSE t[i]
        OBVIOUS
      <3>1. s[i] = d[i - 1]
        BY <2>1 DEF s
      <3>2. CASE i = n
        BY <1>6, <3>1, <3>2
      <3>3. CASE i # n
        <4>1. i \in 1 .. f.pos
          BY <1>3, <3>3, Positive
        <4>2. t[i] = f.data[i - 1]
          BY <2>2, <4>1 DEF t
        <4> QED
          BY <1>6, <3>1, <3>3, <4>1, <4>2
      <3> QED
        BY <3>2, <3>3
    <2>6. s \in Seq(Character) /\ Len(s) = n
      BY <2>1 DEF s
    <2>7. s = t \o <<c>>
      BY <2>3, <2>4, <2>5, <2>6, SeqEqual
    <2> QED
      BY <2>7 DEF s, t
  <1>8. Put(r, c) \in ScreenRec /\ (r.pos <= r.end => Put(r, c).pos <= Put(r, c).end)
    BY <1>1, <1>3, <1>4, <1>5 DEF ScreenRec
  <1>9. Content(Put(r, c)) = f.shown \o (FirstOf(f.data, f.pos) \o <<c>>)
    <2>1. Put(r, c).data = d /\ Put(r, c).pos = n /\ Put(r, c).shown = f.shown
      BY <1>5
    <2> HIDE DEF n
    <2> QED
      BY <1>7, <2>1, Zenon DEF Content
  <1>10. f.shown \o (FirstOf(f.data, f.pos) \o <<c>>) = (f.shown \o FirstOf(f.data, f.pos)) \o <<c>>
    <2>1. FirstOf(f.data, f.pos) \in Seq(Character) /\ <<c>> \in Seq(Character)
      BY <1>3, FirstOfIs
    <2>2. f.shown \in Seq(Character)
      BY <1>3
    <2> QED
      <3> DEFINE x == f.shown
                 y == FirstOf(f.data, f.pos)
                 z == <<c>>
      <3>1. x \in Seq(Character) /\ y \in Seq(Character) /\ z \in Seq(Character)
        BY <2>1, <2>2
      <3> HIDE DEF x, y, z
      <3>2. (x \o y) \o z = x \o (y \o z)
        BY <3>1, ConcatAssociative
      <3> QED
        BY <3>2 DEF x, y, z
  <1> QED
    BY <1>1, <1>8, <1>9, <1>10 DEF Content

(* What is put on the screen by writing a character.                       *)
Written(c) == IF c = "nl" THEN <<"nl", "cr">> ELSE <<c>>

LEMMA PuttingIs ==
  ASSUME NEW r \in ScreenRec, r.pos <= r.end, NEW c \in Character
  PROVE  /\ Putting(r, c) \in ScreenRec /\ Putting(r, c).pos <= Putting(r, c).end
         /\ Content(Putting(r, c)) = Content(r) \o Written(c)
         /\ c = "nl" => Putting(r, c).pos = 0
  <1>1. /\ Put(r, c) \in ScreenRec /\ Content(Put(r, c)) = Content(r) \o <<c>>
        /\ Put(r, c).pos <= Put(r, c).end
    BY PutIs
  <1>2. CASE c # "nl"
    BY <1>1, <1>2 DEF Putting, Written
  <1>3. CASE c = "nl"
    <2> DEFINE p == Put(Put(r, c), "cr")
    <2>1. p \in ScreenRec /\ Content(p) = (Content(r) \o <<c>>) \o <<"cr">>
      BY <1>1, PutIs DEF Character
    <2>2. Putting(r, c) = Depleted(p)
      BY <1>3 DEF Putting
    <2> HIDE DEF p
    <2>3. /\ Depleted(p) \in ScreenRec /\ Depleted(p).pos = 0 /\ Depleted(p).end = 0
          /\ Content(Depleted(p)) = Content(p)
      BY <2>1, DepletedIs
    <2>4. Content(r) \in Seq(Character)
      BY FirstOfIs, ConcatProperties DEF ScreenRec, Content
    <2>5. (Content(r) \o <<c>>) \o <<"cr">> = Content(r) \o <<c, "cr">>
      <3>1. (Content(r) \o <<c>>) \o <<"cr">> = Content(r) \o (<<c>> \o <<"cr">>)
        BY <2>4, ConcatAssociative DEF Character
      <3>2. <<c>> \o <<"cr">> = <<c, "cr">>
        <4>1. /\ <<c>> \in Seq(Character) /\ <<"cr">> \in Seq(Character)
              /\ <<c, "cr">> \in Seq(Character) /\ Len(<<c, "cr">>) = 2
              /\ Len(<<c>>) = 1 /\ Len(<<"cr">>) = 1
          BY DEF Character
        <4>2. /\ <<c>> \o <<"cr">> \in Seq(Character) /\ Len(<<c>> \o <<"cr">>) = 2
              /\ (<<c>> \o <<"cr">>)[1] = c /\ (<<c>> \o <<"cr">>)[2] = "cr"
          BY <4>1, ConcatProperties
        <4>3. \A i \in 1 .. 2 : (<<c>> \o <<"cr">>)[i] = <<c, "cr">>[i]
          <5>1. <<c, "cr">>[1] = c /\ <<c, "cr">>[2] = "cr"
            OBVIOUS
          <5>2. 1 .. 2 = {1, 2}
            OBVIOUS
          <5> QED
            BY <4>2, <5>1, <5>2
        <4> QED
          BY <4>1, <4>2, <4>3, SeqEqual
      <3> QED
        BY <3>1, <3>2
    <2> QED
      BY <1>3, <2>1, <2>2, <2>3, <2>5 DEF Written
  <1> QED
    BY <1>2, <1>3

-----------------------------------------------------------------------------
(* Writing: only the screen's block and its buffer are changed.            *)
KeyboardKept ==
  /\ mem'[keyboard] = mem[keyboard] /\ mem'[mem[keyboard].buf] = mem[mem[keyboard].buf]

LEMMA WritingWhere ==
  ASSUME StreamsInv, ToScreen
  PROVE  /\ MemOK /\ screen \in Blocks /\ screen \in Place /\ mem[screen].buf \in InUse
         /\ keyboard \in Blocks /\ keyboard \in Place /\ mem[keyboard].buf \in InUse
         /\ mem[keyboard].buf # mem[screen].buf /\ keyboard # screen
         /\ shown \in Seq(Character) => OnScreen \in ScreenRec
         /\ OnScreen.pos <= OnScreen.end
  <1>1. ended = {} /\ MemOK /\ keyboard # screen
    BY DEF ToScreen, StreamsInv, Types, NamesOK
  <1>2. screen \in Blocks /\ keyboard \in Blocks
    BY <1>1, BlocksInUse DEF StreamsInv
  <1>3. mem[screen].buf \in InUse /\ mem[keyboard].buf \in InUse
    BY <1>1, <1>2 DEF StreamsInv, Streams, Consoles, BuffersKept
  <1>4. mem[keyboard].buf # mem[screen].buf
    BY <1>1, <1>2, <1>3, ABuffer, Positive DEF StreamsInv, Streams, BuffersKept
  <1>5. /\ mem[mem[screen].buf].data \in Data /\ mem[screen].pos \in 0 .. BufEnd
        /\ mem[screen].end \in 0 .. BufEnd /\ mem[screen].pos <= mem[screen].end
    BY <1>1, <1>2, <1>3, ABuffer, ABlock DEF StreamsInv, PlacesFit
  <1>6. shown \in Seq(Character) => OnScreen \in ScreenRec
    BY <1>5 DEF OnScreen, ScreenRec
  <1>7. OnScreen.pos <= OnScreen.end
    BY <1>5 DEF OnScreen
  <1>8. screen \in Place /\ keyboard \in Place
    BY <1>2 DEF Blocks
  <1> QED
    BY <1>1, <1>2, <1>3, <1>4, <1>6, <1>7, <1>8

LEMMA WritingStreams ==
  ASSUME StreamsInv, ToScreen, NEW r \in ScreenRec, r.pos <= r.end, NowOnScreen(r),
         UNCHANGED <<keyboard, screen>>, UNCHANGED streamvars, UNCHANGED typedvars,
         UNCHANGED callvars
  PROVE  /\ StreamsInv' /\ KeyboardKept /\ SameBlocks /\ OnScreen' = r
  <1>1. /\ MemOK /\ screen \in Blocks /\ screen \in Place /\ mem[screen].buf \in InUse
        /\ keyboard \in Blocks /\ keyboard \in Place /\ mem[keyboard].buf \in InUse
        /\ mem[keyboard].buf # mem[screen].buf /\ keyboard # screen
    BY WritingWhere
  <1>2. /\ r.data \in Data /\ r.pos \in 0 .. BufEnd /\ r.end \in 0 .. BufEnd
        /\ r = [data |-> r.data, pos |-> r.pos, end |-> r.end, shown |-> r.shown]
    BY DEF ScreenRec
  <1> DEFINE b == mem[screen].buf
  <1> SUFFICES ASSUME NEW d, d = r.data, NEW q, q = r.pos, NEW p, p = r.end
               PROVE  StreamsInv' /\ KeyboardKept /\ SameBlocks /\ OnScreen' = r
    OBVIOUS
  <1>3. BufferAndPlace(screen, b, d, q, p) /\ shown' = r.shown
    BY DEF NowOnScreen, BufferAndPlace
  <1>4. b \in InUse /\ d \in Data /\ q \in 0 .. BufEnd /\ p \in 0 .. BufEnd
    BY <1>1, <1>2
  <1> HIDE DEF b
  <1>5. /\ MemOK' /\ SameBlocks /\ mem'[b].data = d /\ mem'[screen].pos = q
        /\ mem'[screen].end = p /\ \A v \in Place \ {b, screen} : mem'[v] = mem[v]
    BY <1>1, <1>3, <1>4, BufferMoved
  <1>6. Streams' /\ Blocks' = Blocks
    BY <1>5, SameStreams DEF StreamsInv
  <1>7. /\ UNCHANGED <<cis, cos, held, ended, left>> /\ SameBlock(screen)
        /\ mem[screen].use = "scb"
    BY <1>1, <1>5 DEF streamvars, SameBlocks, Blocks
  <1>8. b \notin Blocks
    BY <1>1, <1>4, ABuffer
  <1>9. PlacesFit'
    <2>1. \A s \in Blocks : /\ s \in Place /\ SameBlock(s) /\ mem[s].use = "scb" /\ s # b
                            /\ s # screen => mem'[s] = mem[s]
      BY <1>5, <1>8 DEF SameBlocks, Blocks
    <2>2. q <= p /\ mem'[screen].type # "nil"
      <3>1. mem[screen].type = "console"
        BY DEF ToScreen, StreamsInv, Streams, Consoles
      <3> QED
        BY <1>7, <3>1 DEF SameBlock
    <2> QED
      BY <1>5, <1>6, <2>1, <2>2 DEF StreamsInv, PlacesFit
  <1>10. Types'
    BY <1>5, <1>7, InputSame DEF StreamsInv, Types, NamesOK
  <1>11. CallKnown'
    BY NotCalling DEF StreamsInv, ToScreen
  <1>12. KeyboardKept
    BY <1>1, <1>5, <1>8, ABuffer DEF KeyboardKept, b
  <1>13. OnScreen' = r
    <2>1. mem'[screen'].buf = b /\ screen' = screen
      BY <1>7 DEF SameBlock, b
    <2>2. OnScreen' = [data |-> d, pos |-> q, end |-> p, shown |-> r.shown]
      BY <1>3, <1>5, <2>1 DEF OnScreen
    <2> QED
      BY <1>2, <2>2
  <1> QED
    BY <1>5, <1>6, <1>9, <1>10, <1>11, <1>12, <1>13 DEF StreamsInv

(* The invariant of the screen: what is shown and what waits for its line  *)
(* to end is what was written, and it does not end in a new line, for a    *)
(* carriage return follows.                                                *)
ScreenInv == screen \notin ended =>
  /\ shown \in Seq(Character) /\ written \in Seq(Character)
  /\ Content(OnScreen) = written
  /\ written # << >> => written[Len(written)] # "nl"
  /\ Len(written) > 1 /\ written[Len(written) - 1] = "nl" => OnScreen.pos = 0

LEMMA ScreenInvKept ==
  ASSUME ScreenInv, ScreenKept, UNCHANGED <<screen, shown, written>>
  PROVE  ScreenInv'
  <1>1. screen \notin ended' => OnScreen' = OnScreen
    BY DEF ScreenKept, OnScreen
  <1> QED
    BY <1>1 DEF ScreenInv, ScreenKept, Content

LEMMA WrchScreen ==
  ASSUME StreamsInv, ScreenInv, NEW c \in Writable, Wrch(c)
  PROVE  StreamsInv' /\ ScreenInv' /\ KeyboardKept
  <1> DEFINE r == Putting(OnScreen, c)
  <1>1. /\ ToScreen /\ NowOnScreen(r)
        /\ written' = written \o Written(c)
        /\ UNCHANGED <<keyboard, screen>>
        /\ UNCHANGED streamvars /\ UNCHANGED typedvars /\ UNCHANGED callvars
    BY DEF Wrch, Written
  <1>2. c \in Character
    BY ConsoleAssumption DEF ConsoleAssumption, Character
  <1>3. /\ shown \in Seq(Character) /\ written \in Seq(Character)
        /\ Content(OnScreen) = written
        /\ written # << >> => written[Len(written)] # "nl"
    BY <1>1 DEF ScreenInv, ToScreen
  <1>4. OnScreen \in ScreenRec /\ OnScreen.pos <= OnScreen.end
    BY <1>1, <1>3, WritingWhere
  <1>5. /\ r \in ScreenRec /\ r.pos <= r.end /\ Content(r) = Content(OnScreen) \o Written(c)
        /\ c = "nl" => r.pos = 0
    BY <1>2, <1>4, PuttingIs
  <1> HIDE DEF r
  <1>6. StreamsInv' /\ KeyboardKept /\ OnScreen' = r
    BY <1>1, <1>5, WritingStreams
  <1>7. shown' \in Seq(Character)
    BY <1>1, <1>5 DEF NowOnScreen, ScreenRec
  <1>8. Content(OnScreen)' = written'
    BY <1>1, <1>3, <1>5, <1>6 DEF Content
  <1>9. CASE c = "nl"
    <2>1. /\ <<"nl", "cr">> \in Seq(Character) /\ Len(<<"nl", "cr">>) = 2
          /\ <<"nl", "cr">>[2] = "cr" /\ written' = written \o <<"nl", "cr">>
      BY <1>1, <1>2, <1>9 DEF Written, Character
    <2>2. /\ written' \in Seq(Character) /\ Len(written') = Len(written) + 2
          /\ written'[Len(written')] = "cr" /\ Len(written) \in Nat
      BY <1>3, <2>1, ConcatProperties, LenProperties
    <2> QED
      BY <1>5, <1>6, <1>7, <1>8, <1>9, <2>2 DEF ScreenInv
  <1>10. CASE c # "nl"
    <2>1. /\ <<c>> \in Seq(Character) /\ Len(<<c>>) = 1
          /\ <<c>>[1] = c /\ written' = written \o <<c>>
      BY <1>1, <1>2, <1>10 DEF Written
    <2>2. /\ written' \in Seq(Character) /\ Len(written') = Len(written) + 1
          /\ written'[Len(written')] = c /\ Len(written) \in Nat
          /\ \A i \in 1 .. Len(written) : written'[i] = written[i]
      BY <1>3, <2>1, ConcatProperties, LenProperties
    <2>3. Len(written') > 1 => written'[Len(written') - 1] # "nl"
      <3>1. Len(written') > 1 => Len(written) \in 1 .. Len(written) /\ written # << >>
                                 /\ Len(written') - 1 = Len(written)
        BY <1>3, <2>2, EmptySeq
      <3> QED
        BY <1>3, <2>2, <3>1
    <2> QED
      BY <1>6, <1>7, <1>8, <1>10, <2>2, <2>3 DEF ScreenInv
  <1> QED
    BY <1>6, <1>9, <1>10

LEMMA DepleteScreen ==
  ASSUME StreamsInv, ScreenInv, Deplete
  PROVE  StreamsInv' /\ ScreenInv' /\ KeyboardKept
  <1> DEFINE r == Depleted(OnScreen)
  <1>1. /\ ToScreen /\ NowOnScreen(r) /\ UNCHANGED <<keyboard, screen, written>>
        /\ UNCHANGED streamvars /\ UNCHANGED typedvars /\ UNCHANGED callvars
    BY DEF Deplete
  <1>2. /\ shown \in Seq(Character) /\ Content(OnScreen) = written
    BY <1>1 DEF ScreenInv, ToScreen
  <1>3. OnScreen \in ScreenRec
    BY <1>1, <1>2, WritingWhere
  <1>4. r \in ScreenRec /\ r.pos = 0 /\ r.end = 0 /\ Content(r) = Content(OnScreen)
    BY <1>3, DepletedIs
  <1> HIDE DEF r
  <1>5. StreamsInv' /\ KeyboardKept /\ OnScreen' = r
    BY <1>1, <1>4, WritingStreams
  <1>6. shown' \in Seq(Character)
    BY <1>1, <1>4 DEF NowOnScreen, ScreenRec
  <1>7. Content(OnScreen)' = written'
    BY <1>1, <1>2, <1>4, <1>5 DEF Content
  <1> QED
    BY <1>1, <1>4, <1>5, <1>6, <1>7 DEF ScreenInv, ToScreen

-----------------------------------------------------------------------------
(* The invariant holds at the beginning and is kept by every step.         *)
ConsoleInv == StreamsInv /\ ScreenInv

LEMMA ConsoleInit ==
  ASSUME Init
  PROVE  ConsoleInv
  <1>1. {1, 2, 3, 4} \subseteq Place /\ Typed \subseteq Seq(Char)
    BY ConsoleAssumption DEF ConsoleAssumption
  <1>2. /\ mem[1] = Scb("in", "console", 2) /\ mem[2] = Buf /\ mem[3] = Scb("out", "console", 4)
        /\ mem[4] = Buf /\ \A v \in Place \ {1, 2, 3, 4} : mem[v] = Free
    BY <1>1 DEF Init
  <1>3. /\ keyboard = 1 /\ screen = 3 /\ cis = 1 /\ cos = 3 /\ held = {} /\ ended = {}
        /\ left = {} /\ input \in Typed /\ at = 0 /\ call = Idle /\ fill = NotFilling
        /\ before = 0 /\ number = 0 /\ shown = << >> /\ written = << >>
    BY DEF Init
  <1>4. /\ mem[1] \in ScbRec /\ mem[1].use = "scb" /\ mem[1].id = "in" /\ mem[1].buf = 2
        /\ mem[1].type = "console" /\ mem[1].pos = 0 /\ mem[1].end = 0
    BY <1>1, <1>2, NewRecords
  <1>5. /\ mem[3] \in ScbRec /\ mem[3].use = "scb" /\ mem[3].id = "out" /\ mem[3].buf = 4
        /\ mem[3].type = "console" /\ mem[3].pos = 0 /\ mem[3].end = 0
    BY <1>1, <1>2, NewRecords
  <1>6. /\ Buf \in BufRec /\ Buf.use = "buf" /\ Free.use = "free" /\ Free \in MemRec
        /\ Buf \in MemRec
    BY NewRecords
  <1>7. MemOK
    <2>1. \A v \in Place : mem[v] \in MemRec
      BY <1>1, <1>2, <1>4, <1>5, <1>6 DEF MemRec
    <2>2. mem = [v \in Place |-> mem[v]]
      BY DEF Init
    <2> QED
      BY <2>1, <2>2 DEF MemOK
  <1>8. Blocks = {1, 3} /\ InUse = {2, 4}
    BY <1>1, <1>2, <1>4, <1>5, <1>6 DEF Blocks, InUse
  <1>9. Buffers = {2, 4}
    BY <1>4, <1>5, <1>8 DEF Buffers, Null
  <1>10. Types
    <2>1. call \in CallRec
      BY <1>3 DEF Idle, CallRec
    <2>2. at \in 0 .. Len(input) /\ input \in Seq(Char)
      BY <1>1, <1>3, LenProperties
    <2>3. fill \in NotFilling .. BufEnd - 1
      BY <1>3, Positive DEF NotFilling
    <2> QED
      BY <1>1, <1>3, <1>7, <2>1, <2>2, <2>3 DEF Types, NamesOK, InputOK
  <1>11. CallKnown /\ PlacesFit
    BY <1>3, <1>4, <1>5, <1>8 DEF CallKnown, PlacesFit, Idle
  <1>12. Streams
    <2>1. Selected
      BY <1>3, <1>4, <1>5, <1>8 DEF Selected, Null
    <2>2. BuffersKept
      BY <1>3, <1>4, <1>5, <1>8, <1>9 DEF BuffersKept
    <2>3. Consoles
      BY <1>3, <1>4, <1>5, <1>8 DEF Consoles
    <2> QED
      BY <1>3, <1>8, <2>1, <2>2, <2>3 DEF Streams
  <1>13. ScreenInv
    <2>1. OnScreen.pos = 0 /\ OnScreen.data \in Data /\ OnScreen.shown = << >>
      BY <1>2, <1>3, <1>5, <1>6 DEF OnScreen, BufRec
    <2>2. FirstOf(OnScreen.data, 0) \in Seq(Character) /\ Len(FirstOf(OnScreen.data, 0)) = 0
      BY <2>1, FirstOfIs, Positive
    <2>3. FirstOf(OnScreen.data, 0) = << >>
      BY <2>2, EmptySeq
    <2>4. Content(OnScreen) = << >>
      BY <2>1, <2>3 DEF Content
    <2> QED
      BY <1>3, <2>1, <2>4 DEF ScreenInv
  <1> QED
    BY <1>10, <1>11, <1>12, <1>13 DEF ConsoleInv, StreamsInv

KeyboardStays == keyboard \notin ended' => keyboard \notin ended /\ KeyboardKept

LEMMA InConsoleUse ==
  ASSUME StreamsInv, NEW s \in {keyboard, screen}, s \notin ended
  PROVE  /\ s \in Place /\ s \in Blocks /\ mem[s].use = "scb"
         /\ mem[s].buf \in Place /\ mem[s].buf \in InUse /\ mem[s].buf # Null
         /\ mem[mem[s].buf].use = "buf"
  <1>1. s \in Blocks /\ mem[s].type = "console"
    BY BlocksInUse DEF StreamsInv, Streams, Consoles
  <1>2. mem[s].buf \in InUse
    BY <1>1 DEF StreamsInv, Streams, BuffersKept
  <1> QED
    BY <1>1, <1>2, Positive DEF Blocks, InUse

LEMMA FindsKeep ==
  ASSUME StreamsInv, Finds
  PROVE  /\ StreamsInv' /\ ScreenKept /\ KeyboardStays
         /\ UNCHANGED <<keyboard, screen, ended, shown, written>>
         /\ UNCHANGED typedvars /\ UNCHANGED callvars
  <1>1. Direction \subseteq {"in", "out", "inout", "append"}
    BY ConsoleAssumption DEF ConsoleAssumption
  <1>2. /\ StreamsInv' /\ (mem' = mem \/ UsedKept)
        /\ UNCHANGED <<keyboard, screen, ended, shown, written>>
        /\ UNCHANGED typedvars /\ UNCHANGED callvars
    <2>1. ASSUME NEW id \in {"in", "out"}, FindConsole(id)
          PROVE  /\ StreamsInv' /\ mem' = mem
                 /\ UNCHANGED <<keyboard, screen, ended, shown, written>>
                 /\ UNCHANGED typedvars /\ UNCHANGED callvars
      BY <2>1, FindConsoleStreams DEF FindConsole, memvars, screenvars
    <2>2. ASSUME NEW id \in Direction, FindNil(id)
          PROVE  /\ StreamsInv' /\ UsedKept
                 /\ UNCHANGED <<keyboard, screen, ended, shown, written>>
                 /\ UNCHANGED typedvars /\ UNCHANGED callvars
      BY <1>1, <2>2, FindNilStreams DEF FindNil, screenvars
    <2>3. ASSUME NEW id \in Direction, FindFile(id)
          PROVE  /\ StreamsInv' /\ UsedKept
                 /\ UNCHANGED <<keyboard, screen, ended, shown, written>>
                 /\ UNCHANGED typedvars /\ UNCHANGED callvars
      BY <1>1, <2>3, FindFileStreams DEF FindFile, screenvars
    <2>4. ASSUME FindUnreadable
          PROVE  /\ StreamsInv' /\ UsedKept
                 /\ UNCHANGED <<keyboard, screen, ended, shown, written>>
                 /\ UNCHANGED typedvars /\ UNCHANGED callvars
      BY <2>4, FindUnreadableStreams DEF FindUnreadable, screenvars
    <2> QED
      BY <2>1, <2>2, <2>3, <2>4 DEF Finds
  <1>3. ScreenKept
    BY <1>2, InConsoleUse DEF ScreenKept, UsedKept
  <1>4. KeyboardStays
    BY <1>2, InConsoleUse DEF KeyboardStays, KeyboardKept, UsedKept
  <1> QED
    BY <1>2, <1>3, <1>4

LEMMA ConsoleNext ==
  ASSUME ConsoleInv, [Next]_vars
  PROVE  ConsoleInv'
  <1> USE DEF ConsoleInv
  <1>1. CASE Finds
    BY <1>1, FindsKeep, ScreenInvKept
  <1>2. CASE CommandEnds \/ \E s \in Place : Selectinput(s) \/ Selectoutput(s)
    <2>1. StreamsInv' /\ mem' = mem
      BY <1>2, SelectStreams
    <2>2. UNCHANGED <<screen, ended, shown, written>>
      BY <1>2 DEF CommandEnds, Selectinput, Selectoutput, memvars, screenvars
    <2> QED
      BY <2>1, <2>2, ScreenInvKept DEF ScreenKept
  <1>3. ASSUME NEW s \in Place, Endstream(s) PROVE ConsoleInv'
    <2>1. /\ StreamsInv' /\ s \in Blocks
          /\ \A t \in Blocks \ {s} : /\ mem'[t] = mem[t]
                                     /\ mem[t].buf # Null => mem'[mem[t].buf] = mem[mem[t].buf]
          /\ ended' = ended \cup ({s} \cap {keyboard, screen})
          /\ UNCHANGED <<keyboard, screen, shown, written>>
      BY <1>3, EndstreamStreams
    <2>2. screen \notin ended' => screen \notin ended /\ screen # s
      BY <2>1
    <2>3. screen \notin ended => screen \in Blocks /\ mem[screen].buf # Null
      BY InConsoleUse
    <2>4. ScreenKept
      BY <2>1, <2>2, <2>3 DEF ScreenKept
    <2> QED
      BY <2>1, <2>4, ScreenInvKept
  <1>4. CASE Rdch \/ Readn
    <2>1. /\ StreamsInv' /\ mem' = mem /\ UNCHANGED <<ended, screen, shown, written>>
      BY <1>4, BeginsStreams DEF Rdch, Readn
    <2> QED
      BY <2>1, ScreenInvKept DEF ScreenKept
  <1>5. CASE ReadSteps
    BY <1>5, ReadStreams, ScreenInvKept
  <1>6. CASE \E c \in Writable : Wrch(c)
    BY <1>6, WrchScreen
  <1>7. CASE Deplete
    BY <1>7, DepleteScreen
  <1>8. CASE UNCHANGED vars
    <2>1. /\ UNCHANGED <<mem, keyboard, screen, cis, cos, held, ended, left, input, at, call>>
          /\ UNCHANGED <<fill, before, number, shown, written>>
      BY <1>8 DEF vars
    <2>2. Blocks' = Blocks /\ InUse' = InUse /\ Buffers' = Buffers /\ OnScreen' = OnScreen
      BY <2>1 DEF Blocks, InUse, Buffers, OnScreen
    <2>3. Types' /\ CallKnown' /\ PlacesFit'
      BY <2>1, <2>2 DEF StreamsInv, Types, MemOK, NamesOK, InputOK, CallKnown, PlacesFit
    <2>4. Selected' /\ BuffersKept' /\ Consoles' /\ Streams'
      BY <2>1, <2>2 DEF StreamsInv, Streams, Selected, BuffersKept, Consoles
    <2>5. ScreenInv'
      BY <2>1, <2>2 DEF ScreenInv, Content
    <2> QED
      BY <2>3, <2>4, <2>5 DEF StreamsInv
  <1> QED
    BY <1>1, <1>2, <1>3, <1>4, <1>5, <1>6, <1>7, <1>8 DEF Next

(* Every state a program can be in has the inductive invariant: blocks     *)
(* and buffers are one another's, a call reads what can be read, and the   *)
(* screen has what was written.                                            *)
THEOREM Invariant == Spec => []ConsoleInv
  <1>1. Init => ConsoleInv
    BY ConsoleInit
  <1>2. ConsoleInv /\ [Next]_vars => ConsoleInv'
    BY ConsoleNext
  <1> QED
    BY <1>1, <1>2, PTL DEF Spec

(* The variables keep their types, and a place in a buffer is not beyond   *)
(* its end.                                                                *)
THEOREM TypesKept == Spec => []TypeOK
  <1>1. ConsoleInv => TypeOK
    <2> SUFFICES ASSUME ConsoleInv PROVE TypeOK
      OBVIOUS
    <2>1. Types /\ PlacesFit /\ MemOK
      BY DEF ConsoleInv, StreamsInv, Types
    <2>2. ASSUME NEW v \in Place
          PROVE  \/ mem[v].use = "free"
                 \/ mem[v].use = "buf" /\ mem[v].data \in [0 .. BufEnd - 1 -> Char \cup {"cr"}]
                 \/ /\ mem[v].use = "scb" /\ mem[v].id \in {"in", "out", "inout", "append"}
                    /\ mem[v].pos \in 0 .. BufEnd /\ mem[v].end \in 0 .. BufEnd
                    /\ mem[v].pos <= mem[v].end
      <3>1. CASE mem[v].use = "free"
        BY <3>1
      <3>2. CASE mem[v].use = "buf"
        BY <2>1, <3>2, ABuffer DEF InUse, Data, Character
      <3>3. CASE mem[v].use = "scb"
        <4>1. v \in Blocks
          BY <3>3 DEF Blocks
        <4> QED
          BY <2>1, <4>1, ABlock DEF PlacesFit
      <3> QED
        BY <2>1, <3>1, <3>2, <3>3, Kinds
    <2> QED
      BY <2>1, <2>2 DEF TypeOK, Types, NamesOK, InputOK
  <1> QED
    BY <1>1, Invariant, PTL

(* Streams that are selected or held have control blocks of the right      *)
(* direction, no two share a buffer, and nothing else is in use but the    *)
(* buffers that a find has left behind.                                    *)
THEOREM BlocksAlwaysKept == Spec => []BlocksKept
  <1>1. ConsoleInv => BlocksKept
    BY DEF ConsoleInv, StreamsInv, Streams, Selected, BuffersKept, BlocksKept, InUse
  <1> QED
    BY <1>1, Invariant, PTL

(* What has been shown on the screen, and what is in its buffer behind it, *)
(* is what was written, and all of a line that has ended is shown.         *)
THEOREM ScreenAlwaysShows == Spec => []ScreenShowsWritten
  <1>1. ConsoleInv => ScreenShowsWritten
    BY DEF ConsoleInv, ScreenInv, OnScreen, Content, ScreenShowsWritten
  <1> QED
    BY <1>1, Invariant, PTL

-----------------------------------------------------------------------------
(* The lines typed: the recursion that defines them has a solution, and    *)
(* what is done after one character stays at the beginning of the text.    *)
LineRec == {e \in [done : Seq(Char), line : Seq(Char)] : Len(e.line) < BufEnd}

LEMMA NoLinesIs == NoLines \in LineRec /\ NoLines.done = << >> /\ NoLines.line = << >>
  BY Positive DEF NoLines, LineRec

(* The line with one more character, or the last one erased.               *)
Line(e, ch) == IF ch = "bs" THEN SubSeq(e.line, 1, Len(e.line) - 1) ELSE Append(e.line, ch)

LEMMA LineIs ==
  ASSUME NEW e \in LineRec, NEW ch \in Char
  PROVE  /\ Line(e, ch) \in Seq(Char) /\ Len(e.line) \in Nat
         /\ ch # "bs" => /\ Len(Line(e, ch)) = Len(e.line) + 1
                         /\ Line(e, ch)[Len(e.line) + 1] = ch
         /\ ch = "bs" => /\ Len(Line(e, ch)) = IF Len(e.line) > 0 THEN Len(e.line) - 1 ELSE 0
         /\ \A i \in 1 .. Len(e.line) : i <= Len(Line(e, ch)) => Line(e, ch)[i] = e.line[i]
  <1>1. e.line \in Seq(Char) /\ Len(e.line) \in Nat
    BY DEF LineRec
  <1>2. CASE ch = "bs"
    <2> DEFINE n == Len(e.line) - 1
               l == SubSeq(e.line, 1, n)
    <2>1. n \in Int /\ \A i \in 1 .. n : e.line[i] \in Char
      BY <1>1, ElementOfSeq
    <2>2. /\ l \in Seq(Char) /\ Len(l) = IF 1 <= n THEN n - 1 + 1 ELSE 0
          /\ \A i \in 1 .. n - 1 + 1 : l[i] = e.line[1 + i - 1]
      <3> HIDE DEF n
      <3> QED
        BY <2>1, SubSeqProperties
    <2>3. Line(e, ch) = l
      BY <1>2 DEF Line
    <2> HIDE DEF l
    <2>4. Len(l) = IF Len(e.line) > 0 THEN Len(e.line) - 1 ELSE 0
      BY <1>1, <2>2
    <2>5. \A i \in 1 .. Len(e.line) : i <= Len(l) => l[i] = e.line[i]
      <3> SUFFICES ASSUME NEW i \in 1 .. Len(e.line), i <= Len(l) PROVE l[i] = e.line[i]
        OBVIOUS
      <3>1. i \in 1 .. n - 1 + 1 /\ 1 + i - 1 = i
        BY <1>1, <2>4
      <3> QED
        BY <2>2, <3>1
    <2> QED
      BY <1>1, <1>2, <2>2, <2>3, <2>4, <2>5
  <1>3. CASE ch # "bs"
    <2>1. Line(e, ch) = Append(e.line, ch)
      BY <1>3 DEF Line
    <2> QED
      BY <1>1, <1>3, <2>1
  <1> QED
    BY <1>2, <1>3

LEMMA WithIs ==
  ASSUME NEW e \in LineRec, NEW ch \in Char
  PROVE  /\ With(e, ch) \in LineRec
         /\ IF ch = "nl" \/ Len(Line(e, ch)) = BufEnd
              THEN With(e, ch).done = e.done \o Line(e, ch) /\ With(e, ch).line = << >>
              ELSE With(e, ch).done = e.done /\ With(e, ch).line = Line(e, ch)
  <1>1. With(e, ch) = IF ch = "nl" \/ Len(Line(e, ch)) = BufEnd
                      THEN [done |-> e.done \o Line(e, ch), line |-> << >>]
                      ELSE [done |-> e.done, line |-> Line(e, ch)]
    BY DEF With, Line
  <1>2. /\ Line(e, ch) \in Seq(Char) /\ Len(Line(e, ch)) \in Nat
        /\ Len(Line(e, ch)) <= Len(e.line) + 1
    BY LineIs, LenProperties
  <1>3. /\ e.done \in Seq(Char) /\ e.line \in Seq(Char) /\ Len(e.line) < BufEnd
        /\ Len(e.line) \in Nat
    BY DEF LineRec
  <1>4. e.done \o Line(e, ch) \in Seq(Char)
    BY <1>2, <1>3, ConcatProperties
  <1>5. CASE ch = "nl" \/ Len(Line(e, ch)) = BufEnd
    <2>1. With(e, ch).done = e.done \o Line(e, ch) /\ With(e, ch).line = << >>
      BY <1>1, <1>5
    <2>2. With(e, ch) \in LineRec
      BY <1>1, <1>4, <1>5, Positive DEF LineRec
    <2> QED
      BY <1>5, <2>1, <2>2
  <1>6. CASE ~(ch = "nl" \/ Len(Line(e, ch)) = BufEnd)
    <2>1. With(e, ch).done = e.done /\ With(e, ch).line = Line(e, ch)
      BY <1>1, <1>6
    <2>2. Len(Line(e, ch)) < BufEnd
      BY <1>2, <1>3, <1>6, Positive
    <2>3. With(e, ch) \in LineRec
      BY <1>1, <1>2, <1>3, <1>6, <2>2 DEF LineRec
    <2> QED
      BY <1>6, <2>1, <2>3
  <1> QED
    BY <1>5, <1>6

LEMMA LinesAre ==
  ASSUME NEW t \in Seq(Char)
  PROVE  /\ Lines(t) \in [0 .. Len(t) -> LineRec] /\ Lines(t)[0] = NoLines
         /\ \A i \in 1 .. Len(t) : Lines(t)[i] = With(Lines(t)[i - 1], t[i])
  <1> DEFINE N == Len(t)
             S == Nat \X LineRec
             Step(p) == <<p[1] + 1, IF p[1] < N THEN With(p[2], t[p[1] + 1]) ELSE p[2]>>
             F == [p \in S |-> Step(p)]
             Solves(E) == E = [i \in 0 .. N |-> IF i = 0 THEN NoLines ELSE With(E[i - 1], t[i])]
  <1>1. N \in Nat /\ \A i \in 1 .. N : t[i] \in Char
    BY LenProperties, ElementOfSeq
  <1> HIDE DEF N
  <1>2. \A p \in S : Step(p) \in S
    <2> SUFFICES ASSUME NEW p \in S PROVE Step(p) \in S
      OBVIOUS
    <2>1. p[1] \in Nat /\ p[2] \in LineRec
      OBVIOUS
    <2>2. CASE p[1] < N
      <3>1. t[p[1] + 1] \in Char
        BY <1>1, <2>1, <2>2
      <3>2. With(p[2], t[p[1] + 1]) \in LineRec
        BY <2>1, <3>1, WithIs
      <3> QED
        BY <2>1, <2>2, <3>2
    <2>3. CASE ~(p[1] < N)
      BY <2>1, <2>3
    <2> QED
      BY <2>2, <2>3
  <1>3. F \in [S -> S] /\ <<0, NoLines>> \in S
    BY <1>2, NoLinesIs
  <1>4. PICK f : Iteration(S, F, <<0, NoLines>>, f)
    <2> HIDE DEF F, S
    <2> QED
      BY <1>3, Iterates
  <1>5. /\ f \in [Nat -> S] /\ f[0] = <<0, NoLines>>
        /\ \A n \in Nat : f[n + 1] = Step(f[n])
    BY <1>4 DEF Iteration
  <1>17. f[0][1] = 0 /\ f[0][2] = NoLines /\ \A n \in Nat : f[n][2] \in LineRec
    <2>1. \A n \in Nat : f[n] \in Nat \X LineRec
      BY <1>5
    <2> QED
      BY <1>5, <2>1
  <1>6. \A n \in Nat : f[n][1] = n
    <2> DEFINE T == {n \in Nat : f[n][1] # n}
    <2>1. SUFFICES ASSUME T # {} PROVE FALSE
      OBVIOUS
    <2>2. PICK n \in T : \A k \in T : n <= k
      BY <2>1, LeastNat
    <2>6. n \in Nat /\ f[n][1] # n
      OBVIOUS
    <2>7. n # 0 /\ n - 1 \in Nat
      BY <1>17, <2>6
    <2>3. n # 0 /\ n - 1 \in Nat /\ n - 1 \notin T /\ n \in Nat /\ f[n][1] # n
      <3> HIDE DEF T
      <3> QED
        BY <2>2, <2>6, <2>7
    <2>4. f[n - 1][1] = n - 1 /\ f[(n - 1) + 1] = Step(f[n - 1]) /\ (n - 1) + 1 = n
      BY <1>5, <2>3
    <2>5. f[n][1] = (n - 1) + 1
      BY <2>4
    <2> QED
      BY <2>3, <2>5
  <1> DEFINE E == [i \in 0 .. N |-> f[i][2]]
  <1>7. E \in [0 .. N -> LineRec] /\ E[0] = NoLines
    BY <1>1, <1>17
  <1>8. \A i \in 1 .. N : E[i] = With(E[i - 1], t[i])
    <2> SUFFICES ASSUME NEW i \in 1 .. N PROVE E[i] = With(E[i - 1], t[i])
      OBVIOUS
    <2>1. i - 1 \in Nat /\ (i - 1) + 1 = i /\ i - 1 < N /\ i - 1 \in 0 .. N /\ i \in 0 .. N
      BY <1>1
    <2>2. f[i] = Step(f[i - 1]) /\ f[i - 1][1] = i - 1
      BY <1>5, <1>6, <2>1
    <2>3. f[i][2] = With(f[i - 1][2], t[i])
      BY <2>1, <2>2
    <2> QED
      BY <2>1, <2>3
  <1>9. Solves(E)
    <2>2. E = [i \in 0 .. N |-> E[i]]
      OBVIOUS
    <2> HIDE DEF E
    <2> DEFINE G(i) == IF i = 0 THEN NoLines ELSE With(E[i - 1], t[i])
    <2>3. \A i \in 0 .. N : E[i] = G(i)
      <3> SUFFICES ASSUME NEW i \in 0 .. N PROVE E[i] = G(i)
        OBVIOUS
      <3>1. CASE i = 0
        BY <1>7, <3>1
      <3>2. CASE i # 0
        <4>1. i \in 1 .. N
          BY <1>1, <3>2
        <4> QED
          BY <1>8, <3>2, <4>1
      <3> QED
        BY <3>1, <3>2
    <2> HIDE DEF G
    <2>4. E = [i \in 0 .. N |-> G(i)]
      BY <2>2, <2>3
    <2> QED
      BY <2>4 DEF G
  <1>10. Lines(t) = CHOOSE G : Solves(G)
    BY DEF Lines, N
  <1>11. Solves(Lines(t))
    <2> HIDE DEF Solves
    <2> QED
      BY <1>9, <1>10
  <1>12. \A i \in 0 .. N : Lines(t)[i] = IF i = 0 THEN NoLines ELSE With(Lines(t)[i - 1], t[i])
    <2> DEFINE L == Lines(t)
    <2> HIDE DEF L
    <2>1. Solves(L)
      BY <1>11 DEF L
    <2>2. \A i \in 0 .. N : L[i] = IF i = 0 THEN NoLines ELSE With(L[i - 1], t[i])
      BY <2>1
    <2> QED
      BY <2>2 DEF L
  <1>13. \A i \in 0 .. N : Lines(t)[i] \in LineRec
    <2> DEFINE T == {i \in Nat : i <= N /\ Lines(t)[i] \notin LineRec}
    <2>1. SUFFICES ASSUME T # {} PROVE FALSE
      BY <1>1
    <2>2. PICK n \in T : \A k \in T : n <= k
      BY <2>1, LeastNat
    <2>3. n \in 0 .. N /\ Lines(t)[n] \notin LineRec
      BY <1>1, <2>2
    <2>4. n # 0
      BY <1>1, <1>12, <2>3, NoLinesIs
    <2>5. n - 1 \in Nat /\ n - 1 <= N /\ n - 1 \notin T
      BY <1>1, <2>2, <2>3, <2>4
    <2>6. Lines(t)[n - 1] \in LineRec /\ Lines(t)[n] = With(Lines(t)[n - 1], t[n]) /\ n \in 1 .. N
      BY <1>1, <1>12, <2>3, <2>4, <2>5
    <2> QED
      BY <1>1, <2>3, <2>6, WithIs
  <1>14. Lines(t) = [i \in 0 .. N |-> IF i = 0 THEN NoLines ELSE With(Lines(t)[i - 1], t[i])]
    BY <1>11
  <1>15. \A i \in 1 .. N : i \in 0 .. N /\ i # 0
    BY <1>1
  <1>16. Lines(t) = [i \in 0 .. N |-> Lines(t)[i]]
    BY <1>14, <1>12
  <1> QED
    BY <1>1, <1>12, <1>13, <1>15, <1>16 DEF N

(* What one text has at its beginning.                                     *)
StartOf(s, t) == Len(s) <= Len(t) /\ \A k \in 1 .. Len(s) : s[k] = t[k]

LEMMA ConcatStarts ==
  ASSUME NEW s \in Seq(Char), NEW t \in Seq(Char)
  PROVE  s \o t \in Seq(Char) /\ StartOf(s, s \o t) /\ Len(s \o t) = Len(s) + Len(t)
  BY ConcatProperties, LenProperties DEF StartOf

LEMMA ConcatEnds ==
  ASSUME NEW s \in Seq(Char), NEW t \in Seq(Char), NEW n, Len(s) = n
  PROVE  /\ Len(s \o t) = n + Len(t)
         /\ \A i \in 1 .. Len(t) : (s \o t)[n + i] = t[i]
  <1>1. /\ Len(s) \in Nat /\ Len(t) \in Nat /\ Len(s \o t) = Len(s) + Len(t)
        /\ \A i \in 1 .. Len(s) + Len(t) :
              (s \o t)[i] = IF i <= Len(s) THEN s[i] ELSE t[i - Len(s)]
    BY ConcatProperties, LenProperties
  <1>2. ASSUME NEW i \in 1 .. Len(t) PROVE (s \o t)[n + i] = t[i]
    <2>1. n + i \in 1 .. Len(s) + Len(t) /\ ~(n + i <= Len(s)) /\ (n + i) - Len(s) = i
      BY <1>1
    <2> QED
      BY <1>1, <2>1
  <1> QED
    BY <1>1, <1>2

LEMMA DoneGrows ==
  ASSUME NEW t \in Seq(Char), NEW i \in 1 .. Len(t)
  PROVE  StartOf(Lines(t)[i - 1].done, Lines(t)[i].done)
  <1> DEFINE e == Lines(t)[i - 1]
  <1>1. Len(t) \in Nat /\ i - 1 \in 0 .. Len(t) /\ t[i] \in Char
    BY LenProperties, ElementOfSeq
  <1>2. e \in LineRec /\ Lines(t)[i] = With(e, t[i])
    BY <1>1, LinesAre
  <1> HIDE DEF e
  <1>3. /\ \/ Lines(t)[i].done = e.done
           \/ Lines(t)[i].done = e.done \o Line(e, t[i])
    <2> DEFINE c == t[i]
               g == With(e, c)
    <2>1. c \in Char
      BY <1>1
    <2> HIDE DEF c
    <2>2. g.done = e.done \o Line(e, c) \/ g.done = e.done
      <3>1. CASE c = "nl" \/ Len(Line(e, c)) = BufEnd
        BY <1>2, <2>1, <3>1, WithIs
      <3>2. CASE ~(c = "nl" \/ Len(Line(e, c)) = BufEnd)
        BY <1>2, <2>1, <3>2, WithIs
      <3> QED
        BY <3>1, <3>2
    <2> QED
      BY <1>2, <2>2 DEF c
  <1>4. e.done \in Seq(Char) /\ Line(e, t[i]) \in Seq(Char) /\ Len(e.done) \in Nat
    BY <1>1, <1>2, LineIs, LenProperties DEF LineRec
  <1>5. StartOf(e.done, e.done)
    BY <1>4 DEF StartOf
  <1> QED
    BY <1>3, <1>4, <1>5, ConcatStarts DEF e

LEMMA DoneStarts ==
  ASSUME NEW t \in Seq(Char)
  PROVE  /\ Corrected(t) \in Seq(Char)
         /\ \A i \in 0 .. Len(t) : StartOf(Lines(t)[i].done, Corrected(t))
  <1> DEFINE N == Len(t)
             D(i) == Lines(t)[i].done
             C == Corrected(t)
  <1>1. N \in Nat
    BY LenProperties
  <1>2. \A i \in 0 .. N : Lines(t)[i] \in LineRec /\ D(i) \in Seq(Char)
    BY LinesAre DEF LineRec
  <1>3. C = D(N) \o Lines(t)[N].line /\ Lines(t)[N].line \in Seq(Char)
    BY <1>1, <1>2 DEF Corrected, LineRec
  <1>4. C \in Seq(Char) /\ StartOf(D(N), C)
    BY <1>1, <1>2, <1>3, ConcatStarts
  <1>5. \A i \in 1 .. N : StartOf(D(i - 1), D(i))
    BY DoneGrows
  <1>6. \A i \in 0 .. N : Len(D(i)) \in Nat
    BY <1>2, LenProperties
  <1> HIDE DEF N, D, C
  <1> DEFINE T == {n \in Nat : n <= N /\ ~StartOf(D(N - n), C)}
  <1>7. T = {}
    <2> SUFFICES ASSUME T # {} PROVE FALSE
      OBVIOUS
    <2>1. PICK n \in T : \A k \in T : n <= k
      BY LeastNat
    <2>2. n \in Nat /\ n <= N /\ ~StartOf(D(N - n), C)
      OBVIOUS
    <2>3. n # 0
      BY <1>1, <1>4, <2>2
    <2>4. n - 1 \in Nat /\ n - 1 \notin T /\ n - 1 <= N
      <3> HIDE DEF T
      <3> QED
        BY <1>1, <2>1, <2>2, <2>3
    <2>5. StartOf(D(N - (n - 1)), C)
      BY <2>4
    <2>6. N - (n - 1) \in 1 .. N /\ (N - (n - 1)) - 1 = N - n /\ N - n \in 0 .. N
      BY <1>1, <2>2, <2>3
    <2>7. StartOf(D(N - n), D(N - (n - 1)))
      BY <1>5, <2>6
    <2>8. Len(D(N - n)) \in Nat /\ Len(D(N - (n - 1))) \in Nat /\ Len(C) \in Nat
      BY <1>4, <1>6, <2>6, LenProperties
    <2>9. StartOf(D(N - n), C)
      BY <2>5, <2>7, <2>8 DEF StartOf
    <2> QED
      BY <2>2, <2>9
  <1>8. \A i \in 0 .. N : StartOf(D(i), C)
    <2> SUFFICES ASSUME NEW i \in 0 .. N PROVE StartOf(D(i), C)
      OBVIOUS
    <2>1. N - i \in Nat /\ N - i <= N /\ N - (N - i) = i
      BY <1>1
    <2>2. N - i \notin T
      <3> HIDE DEF T
      <3> QED
        BY <1>7
    <2> QED
      BY <2>1, <2>2
  <1> QED
    BY <1>4, <1>8 DEF N, D, C

-----------------------------------------------------------------------------
(***************************************************************************)
(* The keyboard's buffer is a part of the text typed, the one behind the   *)
(* characters of the buffers before it.  While it is being filled it has   *)
(* the line begun; when the input ends there, what it had is still there,  *)
(* for the input does not end in an erasure.  All that is done of the      *)
(* lines typed has been in a buffer, or all of the text has.               *)
(***************************************************************************)
Bytes == mem[mem[keyboard].buf].data
BufferIsText ==
  fill = NotFilling \/ (fill = 0 /\ at = Len(input)) =>
    \A i \in 0 .. mem[keyboard].end - 1 : Bytes[i] = text[before + i + 1]
AllGiven == at = Len(input) /\ before + mem[keyboard].end = Len(text)
DoneGiven == Len(Lines(input)[at].done) = before + mem[keyboard].end
LineIsFilled ==
  IF fill = NotFilling THEN (DoneGiven /\ Lines(input)[at].line = << >>) \/ AllGiven
  ELSE \/ /\ DoneGiven /\ Len(Lines(input)[at].line) = fill
          /\ \A i \in 0 .. fill - 1 : Bytes[i] = Lines(input)[at].line[i + 1]
       \/ fill = 0 /\ AllGiven
TextInv ==
  /\ input \in Typed /\ text = Corrected(input)
  /\ keyboard \notin ended => BufferIsText /\ LineIsFilled

LEMMA LineNow ==
  ASSUME Types, text = Corrected(input)
  PROVE  /\ Lines(input)[at] \in LineRec
         /\ Lines(input)[at].done \in Seq(Char) /\ Len(Lines(input)[at].done) \in Nat
         /\ Lines(input)[at].line \in Seq(Char) /\ Len(Lines(input)[at].line) \in Nat
         /\ StartOf(Lines(input)[at].done, text)
         /\ text \in Seq(Char) /\ Len(text) \in Nat
         /\ at = Len(input) => text = Lines(input)[at].done \o Lines(input)[at].line
  <1>1. input \in Seq(Char) /\ at \in 0 .. Len(input)
    BY DEF Types, InputOK
  <1>2. Lines(input)[at] \in LineRec
    BY <1>1, LinesAre
  <1>3. text \in Seq(Char) /\ StartOf(Lines(input)[at].done, text)
    BY <1>1, DoneStarts
  <1>4. at = Len(input) => text = Lines(input)[at].done \o Lines(input)[at].line
    BY DEF Corrected
  <1> QED
    BY <1>2, <1>3, <1>4, LenProperties DEF LineRec

(* How much of the text there is in buffers: all of it when the input is   *)
(* at its end and no line is begun.                                        *)
LEMMA GivenOfText ==
  ASSUME StreamsInv, TextInv, keyboard \notin ended
  PROVE  /\ before + mem[keyboard].end <= Len(text)
         /\ before \in Nat /\ mem[keyboard].end \in Nat /\ mem[keyboard].pos \in 0 .. mem[keyboard].end
         /\ fill = 0 /\ at = Len(input) =>
              before + mem[keyboard].end = Len(text)
         /\ fill = 0 => (DoneGiven /\ Lines(input)[at].line = << >>) \/ AllGiven
  <1> DEFINE e == Lines(input)[at]
  <1>1. /\ Types /\ text = Corrected(input) /\ LineIsFilled
    BY DEF StreamsInv, TextInv
  <1>2. /\ e.done \in Seq(Char) /\ Len(e.done) \in Nat /\ e.line \in Seq(Char)
        /\ Len(e.line) \in Nat /\ StartOf(e.done, text) /\ Len(text) \in Nat
        /\ at = Len(input) => text = e.done \o e.line
    BY <1>1, LineNow
  <1>3. keyboard \in Blocks
    BY InConsoleUse
  <1>4. mem[keyboard].end \in Nat /\ mem[keyboard].pos \in 0 .. mem[keyboard].end /\ before \in Nat
    <2>1. mem[keyboard].end \in 0 .. BufEnd /\ mem[keyboard].pos \in 0 .. BufEnd
      BY <1>1, <1>3, ABlock DEF Types
    <2>2. mem[keyboard].pos <= mem[keyboard].end
      BY <1>3 DEF StreamsInv, PlacesFit
    <2>3. before \in Nat
      BY <1>1 DEF Types, InputOK
    <2> QED
      BY <2>1, <2>2, <2>3, Positive
  <1> HIDE DEF e
  <1>5. DoneGiven \/ AllGiven
    BY <1>1 DEF LineIsFilled
  <1>6. DoneGiven => Len(e.done) = before + mem[keyboard].end
    BY DEF DoneGiven, e
  <1>7. before + mem[keyboard].end <= Len(text)
    BY <1>2, <1>4, <1>5, <1>6 DEF AllGiven, StartOf
  <1>8. fill = 0 => (DoneGiven /\ Len(e.line) = 0) \/ AllGiven
    BY <1>1 DEF LineIsFilled, NotFilling, e
  <1>9. Len(e.line) = 0 => e.line = << >>
    BY <1>2, EmptySeq
  <1>10. at = Len(input) /\ e.line = << >> => Len(text) = Len(e.done)
    BY <1>2, ConcatEmptySeq
  <1> QED
    BY <1>4, <1>6, <1>7, <1>8, <1>9, <1>10 DEF AllGiven, e

(* The place in the text.                                                  *)
PlaceOK == PlaceInText = IF keyboard \in ended THEN before ELSE before + mem[keyboard].pos

LEMMA PlaceIs == StreamsInv => PlaceOK
  <1> SUFFICES ASSUME StreamsInv PROVE PlaceOK
    OBVIOUS
  <1>1. before \in Nat
    BY DEF StreamsInv, Types, InputOK
  <1>2. keyboard \notin ended => IsScb(keyboard)
    BY InConsoleUse, Positive DEF IsScb
  <1> QED
    BY <1>1, <1>2 DEF PlaceOK, PlaceInText, Pos

LEMMA PlaceIsThen == StreamsInv' => PlaceOK'
  BY PlaceIs, PTL

(* Steps that leave the keyboard and what is typed alone.                  *)
LEMMA NothingRead ==
  ASSUME StreamsInv, StreamsInv', TextInv, KeyboardStays, ended \subseteq ended',
         UNCHANGED <<keyboard, input, text>>,
         keyboard \notin ended' => UNCHANGED <<at, fill, before>>,
         before' = PlaceInText \/ keyboard \notin ended', keyboard \in ended => before' = before
  PROVE  TextInv' /\ PlaceInText' = PlaceInText
  <1>1. PlaceOK /\ PlaceOK'
    BY PlaceIs, PlaceIsThen
  <1>2. PlaceInText' = PlaceInText
    BY <1>1 DEF PlaceOK, KeyboardStays, KeyboardKept
  <1>3. ASSUME keyboard' \notin ended' PROVE BufferIsText' /\ LineIsFilled'
    <2>1. /\ keyboard \notin ended /\ UNCHANGED <<at, fill, before, input, text, keyboard>>
          /\ mem'[keyboard'].end = mem[keyboard].end /\ Bytes' = Bytes
      BY <1>3 DEF KeyboardStays, KeyboardKept, Bytes
    <2>2. BufferIsText /\ LineIsFilled
      BY <2>1 DEF TextInv
    <2>3. BufferIsText'
      BY <2>1, <2>2 DEF BufferIsText
    <2>4. (DoneGiven' <=> DoneGiven) /\ (AllGiven' <=> AllGiven)
      BY <2>1 DEF DoneGiven, AllGiven
    <2>5. LineIsFilled'
      BY <2>1, <2>2, <2>4 DEF LineIsFilled
    <2> QED
      BY <2>3, <2>5
  <1> QED
    BY <1>2, <1>3 DEF TextInv

(* The place is moved in the keyboard's buffer.                            *)
LEMMA PlaceInBuffer ==
  ASSUME StreamsInv, TextInv, call.on # "none", cis = keyboard,
         NEW p \in 0 .. mem[cis].end, At1(p),
         UNCHANGED <<keyboard, screen>>, UNCHANGED streamvars,
         call' \in CallRec, number' \in Int, fill' = NotFilling,
         UNCHANGED <<input, at, before, text>>,
         fill = NotFilling \/ (fill = 0 /\ at = Len(input))
  PROVE  TextInv' /\ PlaceInText' = before + p /\ PlaceInText = before + mem[keyboard].pos
  <1>1. ended = {} /\ cis \in Blocks /\ mem[cis].type \in {"console", "nil"} /\ ended' = ended
    BY ReadingWhat DEF streamvars
  <1>2. /\ StreamsInv' /\ mem'[cis].pos = p /\ mem'[cis].end = mem[cis].end /\ SameBlocks
        /\ \A v \in Place : v # cis => mem'[v] = mem[v]
    BY MovedInBuffer
  <1>3. /\ keyboard \in Place /\ mem[keyboard].use = "scb" /\ mem[keyboard].buf \in Place
        /\ mem[mem[keyboard].buf].use = "buf"
    BY <1>1, InConsoleUse
  <1>4. mem'[keyboard].buf = mem[keyboard].buf /\ mem[keyboard].buf # cis
    BY <1>2, <1>3 DEF SameBlocks, SameBlock
  <1>5. Bytes' = Bytes /\ mem'[keyboard'].end = mem[keyboard].end
    BY <1>2, <1>3, <1>4 DEF Bytes
  <1>6. PlaceInText' = before + p /\ PlaceInText = before + mem[keyboard].pos
    <2>1. PlaceOK /\ PlaceOK'
      BY <1>2, PlaceIs, PlaceIsThen
    <2> QED
      BY <1>1, <1>2, <2>1 DEF PlaceOK
  <1>7. BufferIsText /\ LineIsFilled
    BY <1>1 DEF TextInv
  <1>8. BufferIsText'
    BY <1>5, <1>7 DEF BufferIsText
  <1>9. (DoneGiven' <=> DoneGiven) /\ (AllGiven' <=> AllGiven)
    BY <1>5 DEF DoneGiven, AllGiven
  <1>10. (DoneGiven /\ Lines(input)[at].line = << >>) \/ AllGiven
    <2>1. CASE fill = NotFilling
      BY <1>7, <2>1 DEF LineIsFilled
    <2>2. CASE fill = 0
      BY <1>1, <2>2, GivenOfText
    <2> QED
      BY <2>1, <2>2
  <1>11. LineIsFilled'
    BY <1>9, <1>10 DEF LineIsFilled
  <1> QED
    BY <1>6, <1>8, <1>11 DEF TextInv

-----------------------------------------------------------------------------
(* What a step does to the text that is read: nothing, or what the promise *)
(* allows.                                                                 *)
Mapped == [Abs!Next]_<<text, PlaceInText, got>>

LEMMA TakeReads ==
  ASSUME StreamsInv, TextInv, TakeCr \/ Take,
         UNCHANGED <<keyboard, screen>>, UNCHANGED streamvars
  PROVE  TextInv' /\ Mapped
  <1> DEFINE q == mem[cis].pos
             ch == mem[mem[cis].buf].data[q]
  <1>1. /\ call.on # "none" /\ fill = NotFilling /\ q < mem[cis].end
        /\ UNCHANGED <<fill, input, at, text, before>>
    BY DEF TakeCr, Take, Reading, Stream
  <1>2. /\ cis = keyboard /\ ended = {} /\ q \in 0 .. mem[cis].end /\ mem[cis].end \in 0 .. BufEnd
    BY <1>1, ReadingWhat, Positive
  <1>3. /\ before + mem[keyboard].end <= Len(text) /\ before \in Nat
        /\ mem[keyboard].end \in Nat
    BY <1>2, GivenOfText
  <1>4. q \in Nat /\ q + 1 \in 0 .. mem[cis].end /\ q \in 0 .. mem[cis].end - 1
    BY <1>1, <1>2, <1>3
  <1>5. ch = text[before + q + 1]
    BY <1>1, <1>2, <1>4 DEF TextInv, BufferIsText, Bytes
  <1>6. Len(text) \in Nat
    BY LineNow DEF StreamsInv, TextInv
  <1>7. CASE TakeCr
    <2>1. At1(q + 1) /\ ch = "cr" /\ UNCHANGED <<call, number, got>>
      BY <1>7 DEF TakeCr, Stream
    <2>2. call' \in CallRec /\ number' \in Int
      BY <2>1 DEF StreamsInv, Types, InputOK
    <2> HIDE DEF q, ch
    <2>3. TextInv' /\ PlaceInText' = before + (q + 1) /\ PlaceInText = before + q
      BY <1>1, <1>2, <1>4, <2>1, <2>2, PlaceInBuffer DEF q
    <2>5. PlaceInText < Len(text) /\ text[PlaceInText + 1] = "cr"
      <3>1. PlaceInText < Len(text)
        BY <1>2, <1>3, <1>4, <1>6, <2>3
      <3>2. text[PlaceInText + 1] = ch
        BY <1>3, <1>4, <1>5, <2>3
      <3> QED
        BY <2>1, <3>1, <3>2
    <2>6. PlaceInText' = PlaceInText + 1 /\ got' = got
      BY <1>3, <1>4, <2>1, <2>3
    <2>4. Abs!Skip
      BY <2>5, <2>6 DEF Abs!Skip
    <2> QED
      BY <1>1, <2>3, <2>4 DEF Mapped, Abs!Next
  <1>8. CASE Take
    <2>1. Given(ch, q + 1) /\ ch # "cr"
      BY <1>8 DEF Take, Stream
    <2> HIDE DEF q, ch
    <2>2. /\ call' \in CallRec /\ number' \in Int /\ got' = ch
          /\ \E p \in {q + 1, Unrdch(q + 1)} : At1(p) /\ p \in 0 .. mem[cis].end
      BY <1>1, <1>2, <1>4, <2>1, GivenDoes
    <2>3. PICK p \in {q + 1, q} : At1(p) /\ p \in 0 .. mem[cis].end
      BY <1>4, <2>2 DEF Unrdch
    <2>4. TextInv' /\ PlaceInText' = before + p /\ PlaceInText = before + q
      BY <1>1, <1>2, <2>2, <2>3, PlaceInBuffer DEF q
    <2>5. /\ PlaceInText < Len(text) /\ text[PlaceInText + 1] # "cr"
          /\ got' = text[PlaceInText + 1]
      <3>1. PlaceInText < Len(text)
        BY <1>2, <1>3, <1>4, <1>6, <2>4
      <3>2. text[PlaceInText + 1] = ch
        BY <1>3, <1>4, <1>5, <2>4
      <3> QED
        BY <2>1, <2>2, <3>1, <3>2
    <2>6. PlaceInText' = PlaceInText + 1 \/ PlaceInText' = PlaceInText
      BY <1>3, <1>4, <2>3, <2>4
    <2>7. Abs!Read \/ Abs!Peek
      BY <2>5, <2>6 DEF Abs!Read, Abs!Peek
    <2> QED
      BY <1>1, <2>4, <2>7 DEF Mapped, Abs!Next
  <1> QED
    BY <1>7, <1>8

LEMMA ReplenishNilReads ==
  ASSUME StreamsInv, TextInv, ReplenishNil,
         UNCHANGED <<keyboard, screen>>, UNCHANGED streamvars
  PROVE  TextInv' /\ Mapped
  <1>1. /\ call.on # "none" /\ fill = NotFilling /\ UNCHANGED <<fill, input, at, text, before>>
        /\ Given("eof", mem[cis].pos)
    BY DEF ReplenishNil, Reading, Stream
  <1>2. StreamsInv' /\ cis # keyboard /\ \A v \in Place : v # cis => mem'[v] = mem[v]
    BY ReplenishNilStreams
  <1>3. /\ ended = {} /\ ended' = ended /\ cis \in Blocks /\ mem[cis].pos \in 0 .. mem[cis].end
    BY <1>1, ReadingWhat DEF streamvars
  <1>4. KeyboardStays
    BY <1>2, <1>3, InConsoleUse, ABuffer DEF KeyboardStays, KeyboardKept, StreamsInv, Types
  <1>5. got' = got
    BY <1>1, <1>2, <1>3, GivenDoes
  <1>6. TextInv' /\ PlaceInText' = PlaceInText
    BY <1>1, <1>2, <1>3, <1>4, NothingRead
  <1> QED
    BY <1>1, <1>5, <1>6 DEF Mapped

LEMMA NextLine ==
  ASSUME Types, at < Len(input)
  PROVE  /\ at + 1 \in 1 .. Len(input) /\ Ch \in Char /\ Len(input) \in Nat /\ at \in Nat
         /\ Lines(input)[at + 1] = With(Lines(input)[at], Ch)
  <1>1. input \in Seq(Char) /\ at \in 0 .. Len(input) /\ Len(input) \in Nat
    BY LenProperties DEF Types, InputOK
  <1>2. at + 1 \in 1 .. Len(input) /\ at \in Nat /\ (at + 1) - 1 = at
    BY <1>1
  <1>3. Ch \in Char
    BY <1>1, <1>2, ElementOfSeq DEF Ch
  <1> QED
    BY <1>1, <1>2, <1>3, LinesAre DEF Ch

(* A line is begun, or its last character erased: the buffer is as it was. *)
LEMMA FillReads ==
  ASSUME StreamsInv, TextInv, EndsWithoutErasing, Replenish \/ SardchErases,
         UNCHANGED <<keyboard, screen>>, UNCHANGED streamvars
  PROVE  TextInv' /\ Mapped
  <1> DEFINE e == Lines(input)[at]
  <1>1. /\ StreamsInv' /\ cis = keyboard
        /\ UNCHANGED <<mem, before, call, got, number, input, text>>
    BY FillStreams
  <1>2. call.on # "none"
    BY DEF Replenish, SardchErases, Typing, Reading, StreamsInv, CallKnown
  <1>3. ended = {} /\ UNCHANGED ended
    BY <1>2, ReadingWhat DEF streamvars
  <1>4. PlaceInText' = PlaceInText
    <2>1. PlaceOK /\ PlaceOK'
      BY <1>1, PlaceIs, PlaceIsThen
    <2> QED
      BY <1>1, <1>3, <2>1 DEF PlaceOK
  <1>5. BufferIsText /\ LineIsFilled /\ input \in Typed /\ text = Corrected(input)
    BY <1>3 DEF TextInv
  <1>6. /\ e \in LineRec /\ Len(e.line) \in Nat
    BY <1>5, LineNow DEF StreamsInv
  <1>7. BufferIsText' /\ LineIsFilled'
    <2>1. CASE Replenish
      <3>1. fill = NotFilling /\ fill' = 0 /\ at' = at
        BY <2>1 DEF Replenish, Reading
      <3>2. BufferIsText'
        BY <1>1, <1>5, <3>1 DEF BufferIsText, Bytes
      <3>3. (DoneGiven /\ e.line = << >>) \/ AllGiven
        BY <1>5, <3>1 DEF LineIsFilled
      <3>4. (DoneGiven' <=> DoneGiven) /\ (AllGiven' <=> AllGiven) /\ Lines(input')[at'] = e
        BY <1>1, <3>1 DEF DoneGiven, AllGiven
      <3>5. fill' # NotFilling
        BY <3>1 DEF NotFilling
      <3>6. e.line = << >> => Len(e.line) = 0
        BY EmptySeq
      <3> HIDE DEF e
      <3>7. LineIsFilled'
        BY <3>1, <3>3, <3>4, <3>5, <3>6 DEF LineIsFilled
      <3> QED
        BY <3>2, <3>7
    <2>2. CASE SardchErases
      <3>1. /\ fill # NotFilling /\ at < Len(input) /\ Ch = "bs" /\ at' = at + 1
            /\ fill' = (IF fill > 0 THEN fill - 1 ELSE 0)
        BY <2>2 DEF SardchErases, Typing
      <3>2. /\ at + 1 \in 1 .. Len(input) /\ Ch \in Char /\ Len(input) \in Nat /\ at \in Nat
            /\ Lines(input)[at + 1] = With(e, Ch)
        BY <3>1, NextLine DEF StreamsInv
      <3>3. fill \in Nat
        BY <3>1, Positive DEF StreamsInv, Types, InputOK, NotFilling
      <3>4. /\ DoneGiven /\ Len(e.line) = fill /\ \A i \in 0 .. fill - 1 : Bytes[i] = e.line[i + 1]
        BY <1>5, <3>1, <3>2 DEF LineIsFilled, AllGiven
      <3>5. /\ Len(Line(e, Ch)) = IF fill > 0 THEN fill - 1 ELSE 0
            /\ \A i \in 1 .. fill : i <= Len(Line(e, Ch)) => Line(e, Ch)[i] = e.line[i]
            /\ Len(e.line) < BufEnd
        BY <1>6, <3>1, <3>2, <3>4, LineIs DEF LineRec
      <3>6. With(e, Ch).done = e.done /\ With(e, Ch).line = Line(e, Ch)
        <4>1. Len(Line(e, Ch)) # BufEnd /\ Ch # "nl"
          BY <3>1, <3>3, <3>4, <3>5, Positive
        <4> QED
          BY <1>6, <3>2, <4>1, WithIs
      <3>7. fill' \in Nat /\ fill' # NotFilling /\ fill' <= fill /\ Len(Line(e, Ch)) = fill'
        BY <3>1, <3>3, <3>5 DEF NotFilling
      <3>8. ~(fill' = 0 /\ at' = Len(input))
        <4>1. at' = Len(input) => input # << >> /\ input[Len(input)] = "bs"
          BY <3>1, <3>2, EmptySeq DEF Ch
        <4> QED
          BY <1>5, <4>1 DEF EndsWithoutErasing
      <3>9. BufferIsText'
        BY <1>1, <3>7, <3>8 DEF BufferIsText
      <3>10. Bytes' = Bytes /\ mem'[keyboard'].end = mem[keyboard].end /\ DoneGiven'
        BY <1>1, <3>1, <3>2, <3>4, <3>6 DEF Bytes, DoneGiven
      <3>11. \A i \in 0 .. fill' - 1 : Bytes'[i] = Line(e, Ch)[i + 1]
        <4>1. ASSUME NEW i \in Nat, i + 1 <= fill' PROVE Bytes'[i] = Line(e, Ch)[i + 1]
          <5>1. i \in 0 .. fill - 1 /\ i + 1 \in 1 .. fill
            BY <3>3, <3>7, <4>1
          <5>2. i + 1 <= Len(Line(e, Ch))
            BY <3>7, <4>1
          <5> QED
            BY <3>4, <3>5, <3>10, <5>1, <5>2
        <4>2. \A i \in 0 .. fill' - 1 : i \in Nat /\ i + 1 <= fill'
          <5>1. ASSUME NEW n \in Nat PROVE \A i \in 0 .. n - 1 : i \in Nat /\ i + 1 <= n
            OBVIOUS
          <5>2. fill' \in Nat
            BY <3>7
          <5> QED
            BY <5>1, <5>2
        <4> QED
          BY <4>1, <4>2
      <3>12. Lines(input')[at'].line = Line(e, Ch)
        BY <1>1, <3>1, <3>2, <3>6
      <3> HIDE DEF e
      <3>13. LineIsFilled'
        BY <3>7, <3>10, <3>11, <3>12 DEF LineIsFilled
      <3> QED
        BY <3>9, <3>13
    <2> QED
      BY <2>1, <2>2
  <1> QED
    BY <1>1, <1>4, <1>5, <1>7 DEF TextInv, Mapped

(* The buffer has been filled: what is in it is behind what was given.     *)
Follows(d, p) == \A i \in 0 .. p - 1 : d[i] = text[before + mem[keyboard].end + i + 1]
GivenThen(p) ==
  \/ /\ Len(Lines(input)[at'].done) = before + mem[keyboard].end + p
     /\ Lines(input)[at'].line = << >>
  \/ at' = Len(input) /\ before + mem[keyboard].end + p = Len(text)

LEMMA FilledReads ==
  ASSUME StreamsInv, TextInv, fill # NotFilling, NEW d \in Data, NEW p \in 0 .. BufEnd,
         Filled(d, p), UNCHANGED <<keyboard, screen>>, UNCHANGED streamvars,
         UNCHANGED <<call, number, input, text>>, at' \in 0 .. Len(input),
         Follows(d, p), GivenThen(p)
  PROVE  TextInv' /\ PlaceInText' = PlaceInText
  <1>1. /\ call.on # "none" /\ mem[cis].type = "console" /\ mem[cis].pos = mem[cis].end
    BY DEF StreamsInv, CallKnown
  <1>2. cis = keyboard /\ ended = {} /\ ended' = ended /\ cis \in Blocks
    BY <1>1, ReadingWhat DEF streamvars
  <1>3. /\ StreamsInv' /\ SameBlocks /\ mem'[mem[keyboard].buf].data = d
        /\ mem'[keyboard].pos = 0 /\ mem'[keyboard].end = p
    BY <1>2, FilledStreams
  <1>4. /\ before' = before + mem[keyboard].end /\ fill' = NotFilling /\ before \in Nat
        /\ mem[keyboard].end \in Nat /\ p \in Nat
    BY <1>2, GivenOfText, Positive DEF Filled, Stream
  <1>5. keyboard \in Place /\ mem[keyboard].use = "scb"
    BY <1>2, InConsoleUse
  <1>6. Bytes' = d
    BY <1>3, <1>5 DEF Bytes, SameBlocks, SameBlock
  <1>7. PlaceInText' = PlaceInText
    <2>1. PlaceOK /\ PlaceOK'
      BY <1>3, PlaceIs, PlaceIsThen
    <2> QED
      BY <1>1, <1>2, <1>3, <1>4, <2>1 DEF PlaceOK
  <1>8. BufferIsText'
    BY <1>3, <1>4, <1>6 DEF BufferIsText, Follows
  <1>9. LineIsFilled'
    BY <1>3, <1>4 DEF LineIsFilled, DoneGiven, AllGiven, GivenThen
  <1> QED
    BY <1>7, <1>8, <1>9 DEF TextInv

LEMMA SardchStoresReads ==
  ASSUME StreamsInv, TextInv, SardchStores,
         UNCHANGED <<keyboard, screen>>, UNCHANGED streamvars
  PROVE  TextInv' /\ Mapped
  <1> DEFINE e == Lines(input)[at]
             l == Line(e, Ch)
             b == mem[keyboard].buf
             d == [mem[b].data EXCEPT ![fill] = Ch]
  <1>1. /\ fill # NotFilling /\ at < Len(input) /\ Ch # "bs" /\ at' = at + 1
        /\ UNCHANGED <<call, got, number, input, text>>
    BY DEF SardchStores, Typing
  <1>2. call.on # "none" /\ mem[cis].type = "console"
    BY <1>1 DEF StreamsInv, CallKnown
  <1>3. /\ cis = keyboard /\ ended = {} /\ ended' = ended /\ b \in InUse /\ keyboard \in Blocks
        /\ MemOK
    BY <1>2, ReadingWhat DEF streamvars
  <1>4. /\ BufferIsText /\ LineIsFilled /\ input \in Typed /\ text = Corrected(input) /\ Types
    BY <1>3 DEF TextInv, StreamsInv
  <1>5. /\ at + 1 \in 1 .. Len(input) /\ Ch \in Char /\ Len(input) \in Nat /\ at \in Nat
        /\ Lines(input)[at + 1] = With(e, Ch)
    BY <1>1, <1>4, NextLine
  <1>6. /\ e \in LineRec /\ Len(e.line) \in Nat /\ e.done \in Seq(Char) /\ Len(e.done) \in Nat
        /\ Len(text) \in Nat
    BY <1>4, LineNow
  <1>7. fill \in 0 .. BufEnd - 1 /\ fill \in Nat
    BY <1>1, <1>4, Positive DEF Types, InputOK, NotFilling
  <1>8. /\ DoneGiven /\ Len(e.line) = fill /\ \A i \in 0 .. fill - 1 : Bytes[i] = e.line[i + 1]
    BY <1>1, <1>4, <1>5 DEF LineIsFilled, AllGiven
  <1> DEFINE n == before + mem[keyboard].end
  <1>9. Len(e.done) = n /\ n \in Nat
    BY <1>3, <1>8, GivenOfText DEF DoneGiven
  <1>10. /\ l \in Seq(Char) /\ Len(l) = fill + 1 /\ l[fill + 1] = Ch
         /\ \A i \in 1 .. fill : l[i] = e.line[i]
    <2>1. /\ l \in Seq(Char) /\ Len(l) = fill + 1 /\ l[fill + 1] = Ch
          /\ \A i \in 1 .. fill : i <= Len(l) => l[i] = e.line[i]
      BY <1>1, <1>5, <1>6, <1>8, LineIs
    <2> HIDE DEF l
    <2> QED
      BY <1>7, <2>1
  <1>11. mem[b].data \in Data /\ d \in Data
    <2>1. mem[b].data \in Data
      BY <1>3, ABuffer
    <2>2. Ch \in Character
      BY <1>5 DEF Character
    <2> QED
      BY <1>7, <2>1, <2>2 DEF Data
  <1>12. \A i \in 0 .. fill : d[i] = l[i + 1]
    <2> SUFFICES ASSUME NEW i \in 0 .. fill PROVE d[i] = l[i + 1]
      OBVIOUS
    <2>1. i \in 0 .. BufEnd - 1 /\ i \in Nat
      BY <1>7, Positive
    <2>2. d[i] = IF i = fill THEN Ch ELSE mem[b].data[i]
      BY <1>11, <2>1 DEF Data
    <2> HIDE DEF d, l
    <2>3. CASE i = fill
      BY <1>10, <2>2, <2>3
    <2>4. CASE i # fill
      <3>1. i \in 0 .. fill - 1 /\ i + 1 \in 1 .. fill
        BY <1>7, <2>1, <2>4
      <3> QED
        BY <1>8, <1>10, <2>2, <2>4, <3>1 DEF Bytes
    <2> QED
      BY <2>3, <2>4
  <1>13. \/ Filled(d, fill + 1) /\ (Ch = "nl" \/ fill + 1 = BufEnd)
         \/ /\ mem' = [mem EXCEPT ![b].data = d] /\ fill' = fill + 1 /\ before' = before
            /\ ~(Ch = "nl" \/ fill + 1 = BufEnd)
    BY <1>3 DEF SardchStores, Stream
  <1> HIDE DEF d, e, l, n
  <1>14. CASE Filled(d, fill + 1) /\ (Ch = "nl" \/ fill + 1 = BufEnd)
    <2>1. Lines(input)[at'].done = e.done \o l /\ Lines(input)[at'].line = << >>
      BY <1>1, <1>5, <1>6, <1>10, <1>14, WithIs DEF l
    <2>2. /\ Len(e.done \o l) = n + (fill + 1)
          /\ \A i \in 1 .. fill + 1 : (e.done \o l)[n + i] = l[i]
      <3> DEFINE s == e.done
      <3>1. s \in Seq(Char) /\ l \in Seq(Char) /\ Len(s) = n
        BY <1>6, <1>9, <1>10
      <3> HIDE DEF s
      <3>2. Len(s \o l) = n + Len(l) /\ \A i \in 1 .. Len(l) : (s \o l)[n + i] = l[i]
        BY <3>1, ConcatEnds
      <3> QED
        BY <1>10, <3>2 DEF s
    <2>3. at' \in 0 .. Len(input) /\ StartOf(e.done \o l, text)
      <3>1. at' \in 0 .. Len(input)
        BY <1>1, <1>5
      <3>2. input \in Seq(Char)
        BY <1>4 DEF Types, InputOK
      <3> QED
        BY <1>4, <2>1, <3>1, <3>2, DoneStarts
    <2>4. \A i \in 0 .. (fill + 1) - 1 : d[i] = text[n + i + 1]
      <3> SUFFICES ASSUME NEW i \in 0 .. fill PROVE d[i] = text[n + i + 1]
        BY <1>7
      <3>1. i + 1 \in 1 .. fill + 1 /\ i \in Nat /\ n + (i + 1) = n + i + 1
        BY <1>7, <1>9
      <3>2. d[i] = (e.done \o l)[n + (i + 1)]
        BY <1>12, <2>2, <3>1
      <3>3. n + (i + 1) \in 1 .. Len(e.done \o l)
        BY <1>7, <1>9, <2>2, <3>1
      <3>4. d[i] = text[n + (i + 1)]
        BY <2>3, <3>2, <3>3 DEF StartOf
      <3> QED
        BY <3>1, <3>4
    <2>5. fill + 1 \in 0 .. BufEnd
      BY <1>7, Positive
    <2>6. TextInv' /\ PlaceInText' = PlaceInText
      <3>1. GivenThen(fill + 1) /\ Follows(d, fill + 1)
        <4>1. Len(Lines(input)[at'].done) = n + (fill + 1)
          BY <2>1, <2>2
        <4>2. /\ Len(Lines(input)[at'].done) = before + mem[keyboard].end + (fill + 1)
              /\ Lines(input)[at'].line = << >>
          <5>1. Lines(input)[at'].line = << >>
            BY <2>1
          <5> QED
            BY <4>1, <5>1 DEF n
        <4>3. GivenThen(fill + 1)
          BY <4>2 DEF GivenThen
        <4>4. \A i \in 0 .. (fill + 1) - 1 : d[i] = text[before + mem[keyboard].end + i + 1]
          BY <2>4 DEF n
        <4>5. Follows(d, fill + 1)
          BY <4>4 DEF Follows
        <4> QED
          BY <4>3, <4>5
      <3>2. /\ Filled(d, fill + 1) /\ d \in Data /\ at' \in 0 .. Len(input)
            /\ fill # NotFilling /\ UNCHANGED <<call, number, input, text>>
        BY <1>1, <1>11, <1>14, <2>3
      <3> QED
        BY <2>5, <3>1, <3>2, FilledReads
    <2> QED
      BY <1>1, <2>6 DEF Mapped
  <1>15. CASE /\ mem' = [mem EXCEPT ![b].data = d] /\ fill' = fill + 1 /\ before' = before
              /\ ~(Ch = "nl" \/ fill + 1 = BufEnd)
    <2>1. Lines(input)[at'].done = e.done /\ Lines(input)[at'].line = l
      BY <1>1, <1>5, <1>6, <1>10, <1>15, WithIs DEF l
    <2>2. /\ MemOK' /\ SameBlocks /\ mem'[b].data = d
          /\ \A v \in Place : v # b => mem'[v] = mem[v]
      <3> HIDE DEF b
      <3> QED
        BY <1>3, <1>11, <1>15, BufferChanged
    <2>3. b # keyboard /\ keyboard \in Place
      BY <1>3, ABuffer, ABlock
    <2>4. StreamsInv'
      BY SardchStoresStreams
    <2>5. mem'[keyboard] = mem[keyboard] /\ Bytes' = d
      BY <2>2, <2>3 DEF Bytes
    <2>6. PlaceInText' = PlaceInText
      <3>1. PlaceOK /\ PlaceOK'
        BY <2>4, PlaceIs, PlaceIsThen
      <3> QED
        BY <1>3, <1>15, <2>5, <3>1 DEF PlaceOK
    <2>7. fill' # NotFilling /\ fill' # 0 /\ fill' - 1 = fill
      BY <1>7, <1>15 DEF NotFilling
    <2>8. BufferIsText'
      BY <2>7 DEF BufferIsText
    <2>9. DoneGiven'
      BY <1>1, <1>8, <1>15, <2>1, <2>5 DEF DoneGiven, e
    <2>10. Lines(input')[at'].line = l
      BY <1>1, <2>1
    <2>11. LineIsFilled'
      <3>1. Len(l) = fill' /\ \A i \in 0 .. fill' - 1 : Bytes'[i] = l[i + 1]
        BY <1>10, <1>12, <1>15, <2>5, <2>7
      <3> QED
        BY <2>7, <2>9, <2>10, <3>1 DEF LineIsFilled
    <2> QED
      BY <1>1, <1>4, <2>6, <2>8, <2>11 DEF TextInv, Mapped
  <1> QED
    BY <1>13, <1>14, <1>15

(* The input ends: the line begun is given, or nothing is.                 *)
LEMMA SardchEndsReads ==
  ASSUME StreamsInv, TextInv, SardchEnds,
         UNCHANGED <<keyboard, screen>>, UNCHANGED streamvars
  PROVE  TextInv' /\ Mapped
  <1> DEFINE e == Lines(input)[at]
  <1>1. /\ fill # NotFilling /\ at = Len(input) /\ UNCHANGED <<input, at, text>>
        /\ \/ fill > 0 /\ Filled(mem[mem[cis].buf].data, fill) /\ UNCHANGED <<call, got, number>>
           \/ /\ fill = 0 /\ fill' = NotFilling /\ before' = before
              /\ Given("eof", mem[cis].pos)
    BY DEF SardchEnds, Stream
  <1>2. /\ call.on # "none" /\ mem[cis].type = "console" /\ mem[cis].pos = mem[cis].end
    BY <1>1 DEF StreamsInv, CallKnown
  <1>3. /\ cis = keyboard /\ ended = {} /\ mem[keyboard].buf \in InUse
        /\ mem[cis].pos \in 0 .. mem[cis].end /\ MemOK
    BY <1>2, ReadingWhat
  <1>4. LineIsFilled /\ text = Corrected(input) /\ Types
    BY <1>3 DEF TextInv, StreamsInv
  <1>5. /\ e.done \in Seq(Char) /\ Len(e.done) \in Nat /\ e.line \in Seq(Char)
        /\ Len(e.line) \in Nat /\ text = e.done \o e.line /\ Len(text) \in Nat
    BY <1>1, <1>4, LineNow
  <1>6. before \in Nat /\ mem[keyboard].end \in Nat
    BY <1>3, GivenOfText
  <1>7. at \in 0 .. Len(input)
    BY <1>4 DEF Types, InputOK
  <1> HIDE DEF e
  <1>8. CASE fill > 0 /\ Filled(mem[mem[cis].buf].data, fill) /\ UNCHANGED <<call, got, number>>
    <2> DEFINE d == mem[mem[keyboard].buf].data
               n == before + mem[keyboard].end
    <2>1. /\ Len(e.done) = n /\ Len(e.line) = fill /\ n \in Nat
          /\ \A i \in 0 .. fill - 1 : d[i] = e.line[i + 1]
      BY <1>1, <1>4, <1>6, <1>8 DEF LineIsFilled, DoneGiven, Bytes, e
    <2>2. d \in Data /\ fill \in 0 .. BufEnd /\ fill \in Nat
      <3>1. d \in Data
        BY <1>3, ABuffer
      <3> QED
        BY <1>4, <1>8, <3>1, Positive DEF Types, InputOK, NotFilling
    <2> HIDE DEF d, n
    <2>3. /\ Len(text) = n + fill
          /\ \A i \in 1 .. fill : text[n + i] = e.line[i]
      <3> DEFINE s == e.done
                 t == e.line
      <3>1. s \in Seq(Char) /\ t \in Seq(Char) /\ Len(s) = n /\ text = s \o t /\ Len(t) = fill
        BY <1>5, <2>1
      <3> HIDE DEF s, t
      <3>2. Len(s \o t) = n + Len(t) /\ \A i \in 1 .. Len(t) : (s \o t)[n + i] = t[i]
        BY <3>1, ConcatEnds
      <3> QED
        BY <3>1, <3>2 DEF t
    <2>4. \A i \in 0 .. fill - 1 : d[i] = text[n + i + 1]
      <3> SUFFICES ASSUME NEW i \in 0 .. fill - 1 PROVE d[i] = text[n + i + 1]
        OBVIOUS
      <3>1. i \in Nat /\ i + 1 \in 1 .. fill /\ d[i] = e.line[i + 1]
        BY <2>1, <2>2
      <3>2. n + (i + 1) = n + i + 1
        BY <2>1, <3>1
      <3>3. text[n + (i + 1)] = e.line[i + 1]
        BY <2>3, <3>1
      <3> QED
        BY <3>1, <3>2, <3>3
    <2>5. Filled(d, fill) /\ at' = Len(input) /\ at' \in 0 .. Len(input)
      BY <1>1, <1>3, <1>7, <1>8 DEF d
    <2>6. TextInv' /\ PlaceInText' = PlaceInText
      <3>1. GivenThen(fill) /\ Follows(d, fill)
        BY <2>3, <2>4, <2>5 DEF GivenThen, Follows, n
      <3> QED
        BY <1>1, <1>8, <2>2, <2>5, <3>1, FilledReads
    <2> QED
      BY <1>1, <1>8, <2>6 DEF Mapped
  <1>9. CASE fill = 0 /\ fill' = NotFilling /\ before' = before /\ Given("eof", mem[cis].pos)
    <2> DEFINE q == mem[keyboard].pos
    <2>1. before + q = Len(text) /\ q \in Nat /\ q \in 0 .. mem[keyboard].end
      BY <1>1, <1>2, <1>3, <1>9, GivenOfText
    <2>2. /\ call' \in CallRec /\ number' \in Int /\ got' = "eof"
          /\ \E p \in {mem[cis].pos, Unrdch(mem[cis].pos)} : At1(p) /\ p \in 0 .. mem[cis].end
      BY <1>2, <1>3, <1>9, GivenDoes
    <2>3. PICK p \in {q, Unrdch(q)} : At1(p) /\ p \in 0 .. mem[cis].end
      BY <1>3, <2>2
    <2> HIDE DEF q
    <2>4. TextInv' /\ PlaceInText' = before + p /\ PlaceInText = before + q
      BY <1>1, <1>2, <1>3, <1>9, <2>2, <2>3, PlaceInBuffer DEF q
    <2>5. PlaceInText = Len(text)
      BY <2>1, <2>4
    <2>6. PlaceInText' = PlaceInText \/ (PlaceInText > 0 /\ PlaceInText' = PlaceInText - 1)
      BY <1>6, <2>1, <2>3, <2>4 DEF Unrdch
    <2>7. Abs!ReadEnd \/ Abs!PeekEnd
      BY <2>2, <2>5, <2>6 DEF Abs!ReadEnd, Abs!PeekEnd
    <2> QED
      BY <1>1, <2>4, <2>7 DEF Mapped, Abs!Next
  <1> QED
    BY <1>1, <1>8, <1>9

-----------------------------------------------------------------------------
(* Every step keeps the buffer a part of the text, and reads as promised.  *)
LEMMA OtherSteps ==
  ASSUME StreamsInv, StreamsInv', TextInv, KeyboardStays, ended' = ended,
         UNCHANGED <<keyboard, input, at, text, fill, before, got>>
  PROVE  TextInv' /\ Mapped
  <1>1. PlaceOK
    BY PlaceIs
  <1>2. before' = PlaceInText \/ keyboard \notin ended'
    BY <1>1 DEF PlaceOK
  <1>3. TextInv' /\ PlaceInText' = PlaceInText
    BY <1>2, NothingRead
  <1> QED
    BY <1>3 DEF Mapped

LEMMA EndstreamReads ==
  ASSUME StreamsInv, TextInv, NEW s \in Place, Endstream(s)
  PROVE  TextInv' /\ Mapped
  <1>1. /\ StreamsInv' /\ s \in Blocks
        /\ \A t \in Blocks \ {s} : /\ mem'[t] = mem[t]
                                   /\ mem[t].buf # Null => mem'[mem[t].buf] = mem[mem[t].buf]
        /\ ended' = ended \cup ({s} \cap {keyboard, screen})
        /\ before' = IF s = keyboard /\ s \notin ended THEN before + mem[s].pos ELSE before
        /\ UNCHANGED <<keyboard, input, at, text, got, fill>>
    BY EndstreamStreams
  <1>2. keyboard \notin ended' => keyboard \notin ended /\ keyboard # s
    BY <1>1
  <1>3. keyboard \notin ended => keyboard \in Blocks /\ mem[keyboard].buf # Null
    BY InConsoleUse
  <1>4. KeyboardStays
    BY <1>1, <1>2, <1>3 DEF KeyboardStays, KeyboardKept
  <1>5. before' = PlaceInText \/ keyboard \notin ended'
    BY <1>1, PlaceIs DEF PlaceOK
  <1>6. /\ ended \subseteq ended' /\ (keyboard \in ended => before' = before)
        /\ keyboard \notin ended' => UNCHANGED <<at, fill, before>>
    BY <1>1, <1>2
  <1>7. TextInv' /\ PlaceInText' = PlaceInText
    BY <1>1, <1>4, <1>5, <1>6, NothingRead
  <1> QED
    BY <1>1, <1>7 DEF Mapped

LEMMA TextNext ==
  ASSUME StreamsInv, StreamsInv', ScreenInv, TextInv, EndsWithoutErasing, [Next]_vars
  PROVE  TextInv' /\ Mapped
  <1>1. CASE Finds
    BY <1>1, FindsKeep, OtherSteps DEF typedvars, callvars
  <1>2. CASE CommandEnds \/ \E s \in Place : Selectinput(s) \/ Selectoutput(s)
    <2>1. /\ mem' = mem /\ ended' = ended /\ keyboard' = keyboard
          /\ UNCHANGED typedvars /\ UNCHANGED callvars
      BY <1>2, SelectStreams DEF CommandEnds, Selectinput, Selectoutput, memvars
    <2>2. KeyboardStays
      BY <2>1 DEF KeyboardStays, KeyboardKept
    <2> QED
      BY <2>1, <2>2, OtherSteps DEF typedvars, callvars
  <1>3. ASSUME NEW s \in Place, Endstream(s) PROVE TextInv' /\ Mapped
    BY <1>3, EndstreamReads
  <1>4. CASE Rdch \/ Readn
    <2>1. /\ mem' = mem /\ ended' = ended /\ keyboard' = keyboard
      BY <1>4, BeginsStreams DEF Rdch, Readn
    <2>2. UNCHANGED <<input, at, text, fill, before, got>>
      BY <1>4 DEF Rdch, Readn, Begins
    <2>3. KeyboardStays
      BY <2>1 DEF KeyboardStays, KeyboardKept
    <2> QED
      BY <2>1, <2>2, <2>3, OtherSteps
  <1>5. CASE ReadSteps
    <2>1. UNCHANGED <<keyboard, screen>> /\ UNCHANGED streamvars
      BY <1>5 DEF ReadSteps
    <2>2. CASE TakeCr \/ Take
      BY <2>1, <2>2, TakeReads
    <2>3. CASE ReplenishNil
      BY <2>1, <2>3, ReplenishNilReads
    <2>4. CASE Replenish \/ SardchErases
      BY <2>1, <2>4, FillReads
    <2>5. CASE SardchStores
      BY <2>1, <2>5, SardchStoresReads
    <2>6. CASE SardchEnds
      BY <2>1, <2>6, SardchEndsReads
    <2> QED
      BY <1>5, <2>2, <2>3, <2>4, <2>5, <2>6 DEF ReadSteps
  <1>6. CASE Deplete \/ \E c \in Writable : Wrch(c)
    <2>1. KeyboardKept
      BY <1>6, WrchScreen, DepleteScreen
    <2>2. /\ ToScreen /\ ended' = ended /\ keyboard' = keyboard
          /\ UNCHANGED typedvars /\ UNCHANGED callvars
      BY <1>6 DEF Deplete, Wrch, streamvars
    <2>3. KeyboardStays
      BY <2>1, <2>2 DEF KeyboardStays, ToScreen
    <2> QED
      BY <2>2, <2>3, OtherSteps DEF typedvars, callvars
  <1>7. CASE UNCHANGED vars
    <2>1. UNCHANGED <<mem, ended, keyboard, input, at, text, fill, before, got>>
      BY <1>7 DEF vars
    <2>2. KeyboardStays
      BY <2>1 DEF KeyboardStays, KeyboardKept
    <2> QED
      BY <2>1, <2>2, OtherSteps
  <1> QED
    BY <1>1, <1>2, <1>3, <1>4, <1>5, <1>6, <1>7 DEF Next

LEMMA TextInit ==
  ASSUME Init
  PROVE  TextInv /\ Abs!Init
  <1>1. /\ keyboard = 1 /\ ended = {} /\ input \in Typed /\ text = Corrected(input)
        /\ at = 0 /\ fill = NotFilling /\ before = 0 /\ got = "none"
    BY DEF Init
  <1>2. mem[1] = Scb("in", "console", 2)
    BY ConsoleAssumption DEF Init, ConsoleAssumption
  <1>3. mem[keyboard].pos = 0 /\ mem[keyboard].end = 0
    BY <1>1, <1>2 DEF Scb
  <1>4. input \in Seq(Char)
    BY <1>1, ConsoleAssumption DEF ConsoleAssumption
  <1>5. Lines(input)[at].done = << >> /\ Lines(input)[at].line = << >>
    BY <1>1, <1>4, LinesAre, NoLinesIs
  <1>6. BufferIsText /\ LineIsFilled
    BY <1>1, <1>3, <1>5 DEF BufferIsText, LineIsFilled, DoneGiven
  <1>7. PlaceOK
    BY ConsoleInit, PlaceIs DEF ConsoleInv
  <1>8. PlaceInText = 0
    BY <1>1, <1>3, <1>7 DEF PlaceOK
  <1> QED
    BY <1>1, <1>6, <1>8 DEF TextInv, Abs!Init

(* All that is read from the keyboard, by whichever streams, is one text   *)
(* in order, when no input ends in an erasure: nothing is lost or read     *)
(* twice, however the streams are found, selected and ended in between and *)
(* the lines are divided into buffers.                                     *)
THEOREM TextAlwaysRead ==
  ASSUME EndsWithoutErasing
  PROVE  Spec => ImplementsTypedText
  <1>1. Init => TextInv /\ Abs!Init
    BY TextInit
  <1>2. ConsoleInv /\ ConsoleInv' /\ TextInv /\ [Next]_vars => TextInv' /\ Mapped
    BY TextNext DEF ConsoleInv
  <1>3. Spec => []ConsoleInv
    BY Invariant
  <1> QED
    BY <1>1, <1>2, <1>3, PTL DEF Spec, ImplementsTypedText, Abs!Spec, Mapped
=============================================================================
