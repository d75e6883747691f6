------------------------------ MODULE Cintcode ------------------------------
(***************************************************************************)
(* The Cintcode machine of cintcode/sysc/cinterp.c, one instruction a      *)
(* step.                                                                   *)
(*                                                                         *)
(* The memory is one vector of words.  Code is read from it byte by byte,  *)
(* in little-ender order, through the same vector, so a store into a word  *)
(* changes the instructions packed in it.  pc is a byte address, p and g   *)
(* are word addresses here and byte addresses where they are saved.        *)
(*                                                                         *)
(* The word size is a parameter: word operands (LW, SPW, ...) have as many *)
(* bytes as a word, which is 4 in 32-bit Cintcode.  The registers st and   *)
(* mw are carried along by this interpreter and never used.                *)
(***************************************************************************)
EXTENDS Integers, Sequences, Bitwise, TLC

CONSTANTS
  BytesPerWord,  \* 1<<B2Wsh
  Memupb,        \* memupb, the upper bound of the memory in words
  G,             \* the address of the global vector
  Regs,          \* the vector the registers are dumped in
  Fill(_),       \* the words of the memory that nothing has been stored in
  SysResults,    \* what a system call can return, other than those done here
  FloatResults   \* what the floating point unit can return

ASSUME CintcodeAssumption ==
  /\ BytesPerWord \in Nat \ {0, 1}
  /\ Memupb \in Nat /\ G \in 0 .. Memupb /\ Regs \in 0 .. Memupb

VARIABLES
  a, b, c,       \* the registers, signed words
  p,             \* the stack frame
  pc,            \* the next instruction
  count,         \* instructions left before trap 3; negative: no limit
  mem,           \* the words that have been stored, as a function
  chk,           \* TRUE: the next fetch checks pc (label fetchchk)
  watch,         \* the watched word and its value, or Unwatched
  res            \* Run, or the result interpret has returned

machine == <<a, b, c, p, pc, count, mem, chk, watch, res>>

Run       == 99999999 \* interpret has not returned
Signal    == 99999998 \* the processor refused a division
Unwatched == <<>>

-----------------------------------------------------------------------------
(* Words.                                                                  *)
WordSize == 256 ^ BytesPerWord
BperW    == 8 * BytesPerWord
Signed(u, size) == IF u >= size \div 2 THEN u - size ELSE u
UWD(v)   == v % WordSize
WD(v)    == Signed(UWD(v), WordSize)

(* The division of C, which rounds towards zero. *)
Quot(x, y) ==
  LET Abs(v) == IF v < 0 THEN -v ELSE v
      q == Abs(x) \div Abs(y)
  IN  IF (x < 0) = (y < 0) THEN q ELSE -q
Remdr(x, y) == x - y * Quot(x, y)

-----------------------------------------------------------------------------
(* The views of the memory: W, B, SB, H, SH, GH and GW of the source.      *)
W(x) == IF x \in DOMAIN mem THEN mem[x] ELSE Fill(x)
B(x) == (W(x \div BytesPerWord) \div 256 ^ (x % BytesPerWord)) % 256
SB(x) == Signed(B(x), 256)
GH(x) == B(x) + 256 * B(x + 1)
H(i)  == GH(2 * i)
SH(i) == Signed(H(i), 65536)
GW(x) ==
  LET part[k \in 0 .. BytesPerWord] ==
        IF k = BytesPerWord THEN 0 ELSE B(x + k) + 256 * part[k + 1]
  IN  WD(part[0])

Wp(n) == W(p + n)
Wg(n) == W(G + n)

(* The memory after some words have been stored. *)
Stored(words) == words @@ mem

(* Faulty: the bytes of a word are counted from the other end. *)
ByteStoredBigender(x, v) ==
  LET w == x \div BytesPerWord
      place == 256 ^ (BytesPerWord - 1 - (x % BytesPerWord))
  IN  Stored(w :> WD(UWD(W(w)) + ((v % 256) - B(x)) * place))

(* The memory after byte v has been stored at byte address x. *)
ByteStored(x, v) ==
  LET w == x \div BytesPerWord
      place == 256 ^ (x % BytesPerWord)
  IN  Stored(w :> WD(UWD(W(w)) + ((v % 256) - B(x)) * place))

-----------------------------------------------------------------------------
(* The instruction at pc: its function code, where its operand bytes       *)
(* begin, and its operand as a record of value and length.                 *)
op == B(pc)
at == pc + 1

Operand(n, len) == [n |-> n, len |-> len]

(* f with the operand part of the code itself, f+n for n in ns. *)
Short(f, ns) == IF op - f \in ns THEN {Operand(op - f, 0)} ELSE {}

(* f, f+1, f+2: byte, halfword and word operand. *)
Sized(f) == CASE op = f     -> {Operand(B(at), 1)}
              [] op = f + 1 -> {Operand(GH(at), 2)}
              [] op = f + 2 -> {Operand(GW(at), BytesPerWord)}
              [] OTHER      -> {}

(* f, f+32, f+64: global 0 to 255, 256 to 511, and any global. *)
Global(f) == CASE op = f      -> {Operand(B(at), 1)}
               [] op = f + 32 -> {Operand(256 + B(at), 1)}
               [] op = f + 64 -> {Operand(GH(at), 2)}
               [] OTHER       -> {}

(* f, f+1: the byte address a relative instruction refers to, directly or  *)
(* through the signed halfword found at a an even distance.           *)
Indirect == LET i == (at \div 2) + B(at) IN 2 * i + SH(i)
Direct   == at + SB(at)
Relative(f) == CASE op = f     -> {Operand(Direct, 1)}
                 [] op = f + 1 -> {Operand(Indirect, 1)}
                 [] OTHER      -> {}

-----------------------------------------------------------------------------
(* The count after the instruction being executed. *)
Counted == IF count > 0 THEN count - 1 ELSE count

-----------------------------------------------------------------------------
(* How an instruction ends.                                                *)
Fetch(len) == pc' = at + len /\ chk' = FALSE /\ UNCHANGED <<watch, res>>
FetchAt(dest) == pc' = dest /\ chk' = FALSE /\ UNCHANGED <<watch, res>>
FetchChk(dest) == pc' = dest /\ chk' = TRUE /\ UNCHANGED <<watch, res>>

Load(v, len) == b' = a /\ a' = WD(v) /\ UNCHANGED <<c, p, mem>> /\ Fetch(len)

(* Faulty: A keeps the bits that do not fit in a word. *)
SetAWide(v, len) == a' = v /\ UNCHANGED <<b, c, p, mem>> /\ Fetch(len)

SetA(v, len) == a' = WD(v) /\ UNCHANGED <<b, c, p, mem>> /\ Fetch(len)
Store(x, v, len) ==
  mem' = Stored(x :> v) /\ UNCHANGED <<a, b, c, p>> /\ Fetch(len)

(* Label ret: interpret returns r, and the registers are dumped.           *)
Dump(newa, newpc, newcount) ==
     Regs :> newa @@ Regs + 1 :> b @@ Regs + 2 :> c
  @@ Regs + 3 :> p * BytesPerWord @@ Regs + 4 :> G * BytesPerWord
  @@ Regs + 6 :> newpc @@ Regs + 7 :> newcount

Return(r, newpc) ==
  /\ res' = r
  /\ pc' = newpc
  /\ mem' = Stored(Dump(a, newpc, count'))
  /\ UNCHANGED <<a, b, c, p, chk, watch>>

-----------------------------------------------------------------------------
(* Loading the A register; the old A goes to B.                            *)
LoadConstants ==
  \/ \E o \in Short(16, -1 .. 10) \cup Sized(96) : Load(o.n, o.len)
  \/ op = 14  /\ Load(-B(at), 1)                               \* LM
  \/ op = 206 /\ Load(-GH(at), 2)                              \* LMH
  \/ \E o \in Relative(12) : Load(o.n, o.len)                  \* LF

LoadLocals ==
  \/ \E o \in Short(128, 3 .. 16) \cup Sized(128) : Load(Wp(o.n), o.len)
  \/ \E o \in Sized(64) : Load(p + o.n, o.len)                 \* LLP

LoadGlobals ==
  \/ \E o \in Global(48) : Load(Wg(o.n), o.len)
  \/ \E o \in Global(50) : Load(G + o.n, o.len)                \* LLG

LoadStatics ==
  \/ \E o \in Relative(58) : Load(W(o.n \div BytesPerWord), o.len)
  \/ \E o \in Relative(90) : Load(o.n \div BytesPerWord, o.len)  \* LLL

(* L0P3 ... L4P4, L0G ... L2G: through a local or a global to word i.      *)
LoadIndirect ==
  \/ \E o \in Short(224, 3 .. 12) : Load(W(Wp(o.n)), 0)
  \/ \E o \in Short(240, 3 .. 6) : Load(W(Wp(o.n) + 1), 0)
  \/ \E o \in Short(244, 3 .. 5) : Load(W(Wp(o.n) + 2), 0)
  \/ \E o \in Short(247, 3 .. 4) : Load(W(Wp(o.n) + 3), 0)
  \/ \E o \in Short(249, 3 .. 4) : Load(W(Wp(o.n) + 4), 0)
  \/ \E i \in 0 .. 2 : \E o \in Global(45 + i) : Load(W(Wg(o.n) + i), o.len)

Stores ==
  \/ \E o \in Short(160, 3 .. 16) \cup Sized(160) : Store(p + o.n, a, o.len)
  \/ \E o \in Global(49) : Store(G + o.n, a, o.len)
  \/ \E o \in Relative(56) : Store(o.n \div BytesPerWord, a, o.len)

(* ST0P3, ST1P3, S0G; ST0 ... ST3 and STP3 ... STP5 store B.               *)
StoreIndirect ==
  \/ \E o \in Short(216, 3 .. 4) : Store(Wp(o.n), a, 0)
  \/ \E o \in Short(218, 3 .. 4) : Store(Wp(o.n) + 1, a, 0)
  \/ \E o \in Global(44) : Store(Wg(o.n), a, o.len)
  \/ \E o \in Short(148, 0 .. 3) : Store(a + o.n, b, 0)
  \/ \E o \in Short(149, 3 .. 5) : Store(a + Wp(o.n), b, 0)

(* RV ... RV6 and RVP3 ... RVP7. *)
Subscripts ==
  \/ \E o \in Short(116, 0 .. 6) : SetA(W(a + o.n), 0)
  \/ \E o \in Short(211, 3 .. 7) : SetA(W(a + Wp(o.n)), 0)

-----------------------------------------------------------------------------
(* Arithmetic on A alone, with an operand, and on B and A.                 *)
AddToA ==
  \/ \E o \in Short(208, 1 .. 5) \cup Sized(224) : SetA(a + o.n, o.len)
  \/ \E o \in Short(192, 3 .. 12) \cup Sized(192) : SetA(a + Wp(o.n), o.len)
  \/ \E o \in Global(51) : SetA(a + Wg(o.n), o.len)
  \/ \E o \in Short(176, 1 .. 4) : SetA(a - o.n, 0)
  \/ op = 237 /\ SetA(a - B(at), 1)                            \* S
  \/ op = 238 /\ SetA(a - GH(at), 2)                           \* SH

(***************************************************************************)
(* The results of shifting x left or right by n.  A shift by a negative    *)
(* amount is left open by C: the processor uses the low bits of the        *)
(* amount, or shifts everything out.                                       *)
(***************************************************************************)
Amounts(n) == CASE n >= BperW -> {BperW}
                [] n \in 0 .. BperW - 1 -> {n}
                [] OTHER -> {n % BperW, BperW}
LeftShifts(x, n)  == {IF s = BperW THEN 0 ELSE x * 2 ^ s : s \in Amounts(n)}
RightShifts(x, n) == {IF s = BperW THEN 0 ELSE UWD(x) \div 2 ^ s : s \in Amounts(n)}

(* The words made of the bits of two words. *)
AndBits(x, y) == UWD(x) & UWD(y)
OrBits(x, y)  == UWD(x) | UWD(y)
XorBits(x, y) == UWD(x) ^^ UWD(y)
NotBits(x)    == -1 - x

Arithmetic ==
  \/ op = 52  /\ SetA(b * a, 0)
  \/ op = 84  /\ SetA(b + a, 0)
  \/ op = 85  /\ SetA(b - a, 0)
  \/ op = 241 /\ SetA(-a, 0)
  \/ op = 242 /\ SetA(NotBits(a), 0)
  \/ op = 88  /\ SetA(AndBits(b, a), 0)
  \/ op = 89  /\ SetA(OrBits(b, a), 0)
  \/ op = 55  /\ SetA(XorBits(b, a), 0)
  \/ op = 86  /\ \E v \in LeftShifts(b, a) : SetA(v, 0)
  \/ op = 87  /\ \E v \in RightShifts(b, a) : SetA(v, 0)
  \/ op = 27  /\ SetA(0, 1)                                    \* FHOP

(***************************************************************************)
(* The results of a division, by a divisor that is not 0.  The most        *)
(* negative word by -1 has no result: the processor either stops the whole *)
(* program or gives what the word wraps to.                                *)
(***************************************************************************)
Divided(x, y, v) ==
  IF y = -1 /\ x = -(WordSize \div 2) THEN {v, Signal} ELSE {v}


(* DIV and REM.  A zero divisor is trap 5 at the instruction. *)
Divide ==
  /\ op \in {53, 54}
  /\ IF a = 0 THEN Return(5, pc)
     ELSE \E v \in Divided(b, a, IF op = 53 THEN Quot(b, a) ELSE Remdr(b, a)) :
            IF v = Signal THEN Return(Signal, pc) ELSE SetA(v, 0)

FloatCodes == {1} \cup (3 .. 17)

Float ==
  /\ op = 1
  /\ LET f == B(at)
     IN  \/ f = 0 /\ SetA(-1, 1)                               \* fl_avail
         \/ f \in FloatCodes /\ \E v \in FloatResults : SetA(v, IF f = 1 THEN 2 ELSE 1)
         \/ f # 0 /\ f \notin FloatCodes /\ Return(14, pc)

-----------------------------------------------------------------------------
(* Fields of words: SELLD len sh, and SELST op len sh.  A field of len     *)
(* bits begins sh bits up the word; one of length 0 is the rest of it.     *)
FieldSize(len, sh) == 2 ^ (IF len = 0 THEN BperW - sh ELSE len)

(* The shift of SELLD keeps the sign of the word, that of SELST does not.  *)
LoadField ==
  /\ op = 254
  /\ LET len == B(at)
         sh  == B(at + 1)
         val == W(a) \div 2 ^ sh
     IN  SetA(IF len = 0 THEN val ELSE val % FieldSize(len, sh), 2)

(* The values the assignment operator f makes of the field x and B; an     *)
(* empty set for an operator that does not exist.                          *)
Assigned(f, x) ==
  CASE f = 0       -> {b}
    [] f = 1       -> {W(x + b)}
    [] f \in 2 .. 5 -> FloatResults
    [] f = 6       -> {x * b}
    [] f = 7       -> IF b = 0 THEN {Signal} ELSE Divided(x, b, Quot(x, b))
    [] f = 8       -> IF b = 0 THEN {Signal} ELSE Divided(x, b, Remdr(x, b))
    [] f = 9       -> {x + b}
    [] f = 10      -> {x - b}
    [] f = 11      -> LeftShifts(x, b)
    [] f = 12      -> RightShifts(x, b)
    [] f = 13      -> {AndBits(x, b)}
    [] f = 14      -> {OrBits(x, b)}
    [] f = 15      -> {NotBits(XorBits(x, b))}
    [] f = 16      -> {XorBits(x, b)}
    [] OTHER       -> {}

StoreField ==
  /\ op = 255
  /\ LET sh   == B(at + 2)
         size == FieldSize(B(at + 1), sh)
         old  == (UWD(W(a)) \div 2 ^ sh) % size
         new  == Assigned(B(at), WD(old))
     IN  \/ new = {} /\ SetA(0, 3)
         \/ \E v \in new :
              IF v = Signal THEN Return(Signal, pc)
              ELSE Store(a, WD(UWD(W(a)) + ((v % size) - old) * 2 ^ sh), 3)

-----------------------------------------------------------------------------
(* Bytes, and moves between the registers.                                 *)
Bytes ==
  \/ op = 182 /\ SetA(B(a + b * BytesPerWord), 0)              \* GBYT
  \/ /\ op \in {183, 205}                                      \* PBYT, XPBYT
     /\ mem' = IF op = 183 THEN ByteStored(a + b * BytesPerWord, c)
                          ELSE ByteStored(b + a * BytesPerWord, c)
     /\ UNCHANGED <<a, b, c, p>>
     /\ Fetch(0)

Moves ==
  /\ \/ op = 184 /\ c' = a /\ UNCHANGED <<a, b>>               \* ATC
     \/ op = 207 /\ c' = b /\ UNCHANGED <<a, b>>               \* BTC
     \/ op = 185 /\ b' = a /\ UNCHANGED <<a, c>>               \* ATB
     \/ op = 181 /\ a' = b /\ b' = a /\ UNCHANGED c            \* XCH
     \/ op = 208 /\ UNCHANGED <<a, b, c>>                      \* NOP
  /\ UNCHANGED <<p, mem>>
  /\ Fetch(0)

-----------------------------------------------------------------------------
(***************************************************************************)
(* Calls.  The new frame is k words up: word 0 is the byte address of the  *)
(* caller's frame, 1 where to return to, 2 the function, 3 its first       *)
(* argument.  K takes the function from A and the argument from B; KnG     *)
(* takes the function from a global and the argument from A.               *)
(***************************************************************************)

(* Faulty: A still holds the function when it is entered. *)
CallWithA(k, ret, fn, arg) ==
  /\ mem' = Stored(   p + k     :> p * BytesPerWord @@ p + k + 1 :> ret
                   @@ p + k + 2 :> fn               @@ p + k + 3 :> arg)
  /\ p' = p + k
  /\ UNCHANGED <<a, b, c>>
  /\ FetchChk(fn)

Call(k, ret, fn, arg) ==
  /\ mem' = Stored(   p + k     :> p * BytesPerWord @@ p + k + 1 :> ret
                   @@ p + k + 2 :> fn               @@ p + k + 3 :> arg)
  /\ p' = p + k
  /\ a' = arg
  /\ UNCHANGED <<b, c>>
  /\ FetchChk(fn)

Calls ==
  \/ \E o \in Short(0, 3 .. 11) \cup Sized(32) : Call(o.n, at + o.len, a, b)
  \/ \E k \in 3 .. 11 :
       \E o \in Global(32 + k) : Call(k, at + o.len, Wg(o.n), a)

(* RTN, and MDIV, which is the whole of the function muldiv. *)
Returns ==
  /\ \/ op = 123 /\ UNCHANGED <<a, mem>>
     \/ /\ op = 239
        /\ LET by == IF Wp(5) = 0 THEN 1 ELSE Wp(5)
               ab == Wp(3) * Wp(4)
           IN  /\ a' = WD(Quot(ab, by))
               /\ mem' = Stored(G + 10 :> WD(Remdr(ab, by)))
  /\ p' = W(p) \div BytesPerWord
  /\ UNCHANGED <<b, c>>
  /\ FetchChk(Wp(1))

(* Faulty: the frame to go on in is read before the caller's is kept. *)
ChangeCoReadFirst ==
  /\ op = 240
  /\ mem' = (G + 7 :> Wp(4)) @@ Stored(Wg(7) :> Wp(0))
  /\ p' = W(Wp(4)) \div BytesPerWord
  /\ UNCHANGED <<a, b, c>>
  /\ FetchChk(Wp(1))

(***************************************************************************)
(* CHGCO, the body of changeco(val, cptr): the frame of the caller is kept *)
(* in the stack of the current coroutine, global 7, and the frame kept in  *)
(* the stack cptr becomes the current one.  The caller's word is stored    *)
(* first, so changing to the current coroutine is a return.                *)
(***************************************************************************)
ChangeCo ==
  /\ op = 240
  /\ LET kept == Stored(Wg(7) :> Wp(0))
         to   == Wp(4)
     IN  /\ mem' = (G + 7 :> to) @@ kept
         /\ p' = (IF to \in DOMAIN kept THEN kept[to] ELSE Fill(to)) \div BytesPerWord
  /\ UNCHANGED <<a, b, c>>
  /\ FetchChk(Wp(1))

-----------------------------------------------------------------------------
(* Jumps.  A relative jump is not followed by a check of pc.               *)
Relation == [f \in {28, 60, 92, 124, 156, 188} |->
               CASE f = 28  -> b = a [] f = 60  -> b # a [] f = 92  -> b < a
                 [] f = 124 -> b > a [] f = 156 -> b <= a [] f = 188 -> b >= a]
RelationToZero == [f \in {28, 60, 92, 124, 156, 188} |->
               CASE f = 28  -> a = 0 [] f = 60  -> a # 0 [] f = 92  -> a < 0
                 [] f = 124 -> a > 0 [] f = 156 -> a <= 0 [] f = 188 -> a >= 0]

Jumps ==
  /\ \/ \E o \in Relative(186) : FetchAt(o.n)
     \/ \E f \in DOMAIN Relation :
          \E o \in Relative(f) : FetchAt(IF Relation[f] THEN o.n ELSE at + 1)
     \/ \E f \in DOMAIN Relation :
          \E o \in Relative(f + 2) : FetchAt(IF RelationToZero[f] THEN o.n ELSE at + 1)
     \/ op = 155 /\ FetchChk(a)                                \* GOTO
  /\ UNCHANGED <<a, b, c, p, mem>>

(***************************************************************************)
(* SWB.  Halfwords from the next even address on: the number n of cases,   *)
(* the default, and n pairs of value and destination, in the order of a    *)
(* heap: the pairs below pair i are pairs 2i and 2i+1.  The halfword       *)
(* numbered 2i from the start is the value of pair i.                      *)
(***************************************************************************)
SwitchBinary ==
  /\ op = 146
  /\ LET k == (at + 1) \div 2
         Search[i \in Nat] ==
           CASE i > H(k)          -> 0
             [] a = H(k + 2 * i)  -> 2 * i
             [] OTHER             -> Search[IF a < H(k + 2 * i) THEN 2 * i + 1 ELSE 2 * i]
         q == k + Search[1] + 1
     IN  FetchChk(2 * q + SH(q))
  /\ UNCHANGED <<a, b, c, p, mem>>

(* SWL.  The number n of entries, the default, and the entries of 0 to n-1. *)
SwitchLabels ==
  /\ op = 147
  /\ LET k == (at + 1) \div 2
         q == k + 1 + (IF a \in 0 .. H(k) - 1 THEN a + 1 ELSE 0)
     IN  FetchChk(2 * q + SH(q))
  /\ UNCHANGED <<a, b, c, p, mem>>

-----------------------------------------------------------------------------
(* SYS.  The four calls the interpreter does itself or hands to dosys.     *)
System ==
  /\ op = 145
  /\ CASE a = -1 ->                                            \* Sys_setcount
            /\ a' = Counted /\ res' = -1 /\ pc' = at
            /\ mem' = Stored(Dump(Counted, at, Wp(4)))
            /\ UNCHANGED <<b, c, p, chk, watch>>
       [] a = 0 -> Return(Wp(4), at)                           \* Sys_quit
       [] a = 5 ->                                             \* Sys_watch
            /\ watch' = <<Wp(4), W(Wp(4))>>
            /\ pc' = at /\ chk' = FALSE
            /\ UNCHANGED <<a, b, c, p, mem, res>>
       [] OTHER ->
            /\ a' \in SysResults
            /\ mem' = Stored(Dump(a, at, Counted))
            /\ UNCHANGED <<b, c, p>>
            /\ Fetch(0)

(* BRK, and the function codes that are no instructions. *)
Break == op = 2 /\ Return(2, pc)
Illegal == op \in {0, 223} /\ Return(1, pc)

-----------------------------------------------------------------------------
(***************************************************************************)
(* The fetch.  The traps come in the order of the source: a pc outside the *)
(* memory, the watched word (only the slow interpreter, which runs while   *)
(* the count is not negative, looks at it), and the count.                 *)
(***************************************************************************)
PcBad    == chk /\ pc \notin 0 .. Memupb * BytesPerWord
WatchHit == /\ ~PcBad
            /\ count >= 0
            /\ watch # Unwatched
            /\ W(watch[1]) # watch[2]

(* Faulty: the trap comes one instruction early. *)
CountOutEarly == ~PcBad /\ ~WatchHit /\ count \in {0, 1}
CountOut == ~PcBad /\ ~WatchHit /\ count = 0

BadPcTrap == PcBad /\ UNCHANGED count /\ Return(4, pc)

CountTrap == CountOut /\ UNCHANGED count /\ Return(3, pc)

WatchTrap ==
  /\ WatchHit
  /\ LET x == watch[1]
     IN  /\ watch' = <<x, W(x)>>
         /\ mem' = (1 :> x @@ 2 :> W(x)) @@ Stored(Dump(a, pc, count))
  /\ res' = 11
  /\ UNCHANGED <<a, b, c, p, pc, count, chk>>

Instruction ==
  /\ ~PcBad /\ ~WatchHit /\ ~CountOut
  /\ count' = IF op = 145 /\ a = -1 THEN Wp(4) ELSE Counted
  /\ \/ LoadConstants \/ LoadLocals \/ LoadGlobals \/ LoadStatics
     \/ LoadIndirect  \/ Stores     \/ StoreIndirect \/ Subscripts
     \/ AddToA        \/ Arithmetic \/ Divide       \/ Float
     \/ LoadField     \/ StoreField \/ Bytes        \/ Moves
     \/ Calls         \/ Returns    \/ ChangeCo     \/ Jumps
     \/ SwitchBinary  \/ SwitchLabels
     \/ System        \/ Break      \/ Illegal

Step == /\ res = Run
        /\ BadPcTrap \/ WatchTrap \/ CountTrap \/ Instruction
=============================================================================
