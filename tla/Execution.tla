----------------------------- MODULE Execution -----------------------------
(***************************************************************************)
(* The code generator and the interpreter together: the instructions that  *)
(* Emission chooses for one operation of the compiler's stack machine are  *)
(* put in the memory and run by Cintcode, and what they have done when     *)
(* control leaves them is compared with the meaning of the operation.      *)
(*                                                                         *)
(* The interpreter may be entered with a count, so that it returns between *)
(* two instructions of an operation; the loop of boot (and its debugger)   *)
(* then enters it again from the registers it has dumped.                  *)
(***************************************************************************)
EXTENDS Cintcode, FiniteSets

CONSTANTS
  Operations,  \* the operations to compile and run
  Frame,       \* P before the operation
  Words,       \* some words of the memory before the operation
  Starts,      \* the byte addresses code can begin at
  Counts       \* the counts the interpreter can be entered with

E == INSTANCE Emission WITH WordBytes <- BytesPerWord

VARIABLES
  task,        \* the operation, the addresses of its code, and of its labels
  start        \* the registers and the memory it began in

vars == <<machine, task, start>>

-----------------------------------------------------------------------------
(* The code of an operation.  An operation is a record: "do" says what it  *)
(* is, n, i and k are the numbers in it, regs the values of A, B and C and *)
(* words the memory it may begin in, body the code of the function called. *)
Opcode == [mul |-> 52, div |-> 53, rem |-> 54, add |-> 84, sub |-> 85,
           lshift |-> 86, rshift |-> 87, logand |-> 88, logor |-> 89,
           neqv |-> 55, neg |-> 241, not |-> 242, xch |-> 181, atb |-> 185,
           atc |-> 184, btc |-> 207, nop |-> 208, getbyte |-> 182,
           putbyte |-> 183, xputbyte |-> 205, goto |-> 155, sys |-> 145,
           brk |-> 2, illegal |-> 223]

Relatives == [lf |-> 12, ll |-> 58, lll |-> 90, sl |-> 56, jump |-> 186]

Code(o) ==
  CASE o.do = "lp"    -> E!Genlp(o.n)
    [] o.do = "sp"    -> E!Gensp(o.n)
    [] o.do = "llp"   -> E!Genllp(o.n)
    [] o.do = "ap"    -> E!Genap(o.n)
    [] o.do = "lg"    -> E!Geng(48, o.n)
    [] o.do = "sg"    -> E!Geng(49, o.n)
    [] o.do = "llg"   -> E!Geng(50, o.n)
    [] o.do = "ag"    -> E!Geng(51, o.n)
    [] o.do = "lig"   -> E!Geng(45 + o.i, o.n)
    [] o.do = "s0g"   -> E!Geng(44, o.n)
    [] o.do = "lip"   -> E!Gen(<<224, 240, 244, 247, 249>>[o.i + 1] + o.n)
    [] o.do = "rv"    -> E!Gen(116 + o.n)
    [] o.do = "rvp"   -> E!Gen(211 + o.n)
    [] o.do = "st"    -> E!Gen(148 + o.n)
    [] o.do = "stp"   -> E!Gen(149 + o.n)
    [] o.do = "sip"   -> E!Gen(216 + 2 * o.i + o.n)
    [] o.do = "k"     -> E!Cgloadk(o.n)
    [] o.do = "addk"  -> E!Cgaddk(o.n)
    [] o.do = "abs"   -> E!Cgabs
    [] o.do = "rel"   -> E!Cgrelation(o.rel, o.place)
    [] o.do = "jump?" -> E!Cgjump(o.rel, o.sense, o.place, <<"out">>)
    [] o.do \in DOMAIN Relatives -> E!Genr(Relatives[o.do], <<"out">>)
    [] o.do = "far"   -> <<E!Byte(Relatives[o.to] + 1), E!Byte(o.n)>>
    [] o.do = "farjump?" -> <<E!Byte(E!Jmpfn[o.rel] + o.i + 1), E!Byte(o.n)>>
    [] o.do = "getfield" -> <<E!Byte(254), E!Byte(o.len), E!Byte(o.sh)>>
    [] o.do = "putfield" -> <<E!Byte(255), E!Byte(o.f), E!Byte(o.len), E!Byte(o.sh)>>
    [] o.do = "float" -> IF o.n = 1 THEN <<E!Byte(1), E!Byte(1), E!Byte(0)>> ELSE E!Genb(1, o.n)
    [] o.do = "call"  -> E!CallA(o.k)
    [] o.do = "callg" -> E!CallGlobal(o.k, o.n)
    [] o.do = "switch" -> E!Cgswitch(o.cases)
    [] o.do = "fhop"  -> E!Genb(27, 0)
    [] o.do = "watched" -> E!Gen(145) \o E!Gensp(5) \o E!Gen(208)
    [] OTHER          -> E!Gen(Opcode[o.do])

(* The labels outside the code of an operation that ends at byte x: the    *)
(* cases of a SWITCHON and its default two bytes apart, and "out", at the  *)
(* next word boundary but one.                                             *)
Word(x) == BytesPerWord * (x \div BytesPerWord + 2)
Labels(o, x) ==
  IF o.do = "switch"
  THEN [l \in {E!Default} \cup {E!Case(o.cases[i]) : i \in DOMAIN o.cases} |->
          x + 2 * (IF l = E!Default THEN 0
                   ELSE CHOOSE i \in DOMAIN o.cases : l = E!Case(o.cases[i]))]
  ELSE <<"out">> :> Word(x)

(* The words made of a sequence of bytes that begins at byte address x. *)
Packed(bytes, x) ==
  LET Last == x + Len(bytes) - 1
      At(y) == IF y \in x .. Last THEN bytes[y - x + 1] ELSE 0
      Sum(w) == LET part[k \in 0 .. BytesPerWord] ==
                      IF k = BytesPerWord THEN 0
                      ELSE At(w * BytesPerWord + k) + 256 * part[k + 1]
                IN  WD(part[0])
  IN  [w \in x \div BytesPerWord .. Last \div BytesPerWord |-> Sum(w)]

-----------------------------------------------------------------------------
Init ==
  \E o \in Operations : \E x \in Starts, r \in o.regs :
    LET code   == Code(o)
        placed == E!Placed(code, x)
        end    == placed[Len(code) + 1]
        labels == Labels(o, end)
        image  == Packed(E!Assembled(code, x, labels), x)
        at0    == [a |-> r[1], b |-> r[2], c |-> r[3], mem |-> o.words @@ Words @@ image]
    IN  /\ task = [op |-> o, from |-> x, end |-> end, labels |-> labels]
        /\ start = at0
        /\ a = at0.a /\ b = at0.b /\ c = at0.c /\ mem = at0.mem
        /\ p = Frame
        /\ pc = x
        /\ count \in Counts
        /\ chk = TRUE
        /\ watch = Unwatched
        /\ res = Run

(* Control is in the code of the operation, or in the function it called. *)
Working == res = Run /\ pc \in task.from .. task.end - 1 \cup task.op.body

Execute == Working /\ Step /\ UNCHANGED <<task, start>>

(***************************************************************************)
(* The registers are loaded from where they were dumped and interpret is   *)
(* entered again: at once after a change of the count, with the count the  *)
(* debugger chooses after trap 3.                                          *)
(***************************************************************************)
Reenter ==
  /\ res \in {-1, 3, 11}
  /\ a' = W(Regs) /\ b' = W(Regs + 1) /\ c' = W(Regs + 2)
  /\ p' = W(Regs + 3) \div BytesPerWord
  /\ pc' = W(Regs + 6)
  /\ count' \in IF res = 3 THEN {-1, 1} ELSE {W(Regs + 7)}
  /\ chk' = TRUE
  /\ res' = Run
  /\ UNCHANGED <<mem, watch, task, start>>

Next == Execute \/ Reenter

Spec == Init /\ [][Next]_vars /\ WF_vars(Next)

-----------------------------------------------------------------------------
(***************************************************************************)
(* What an operation means, said without its code: the registers and the   *)
(* stores it leaves, as a function of those it began with.  M is the       *)
(* memory it began in, and the frame, the globals and the arithmetic are   *)
(* those of the BCPL stack machine.                                        *)
(***************************************************************************)
M(x)  == IF x \in DOMAIN start.mem THEN start.mem[x] ELSE Fill(x)
Lo(n) == M(Frame + n)
Gl(n) == M(G + n)
MByte(v, i) ==
  LET x == v * BytesPerWord + i
  IN  (M(x \div BytesPerWord) \div 256 ^ (x % BytesPerWord)) % 256

Holds(rel, x, y) == CASE rel = "eq" -> x = y [] rel = "ne" -> x # y
                      [] rel = "ls" -> x < y [] rel = "gr" -> x > y
                      [] rel = "le" -> x <= y [] rel = "ge" -> x >= y

(* The relation between the two operands prepj found in these places. *)
HoldsAt(rel, place) ==
  CASE place = "ba" -> Holds(rel, start.b, start.a)
    [] place = "ab" -> Holds(rel, start.a, start.b)
    [] place = "a0" -> Holds(rel, start.a, 0)
    [] place = "0a" -> Holds(rel, 0, start.a)

Bit(x, i) == (UWD(x) \div 2 ^ i) % 2
FromBits(f) ==
  LET part[i \in 0 .. BperW] == IF i = BperW THEN 0 ELSE f[i] * 2 ^ i + part[i + 1]
  IN  WD(part[0])
Bits == 0 .. BperW - 1

(* A field of len bits from bit sh on; len = 0: all bits from sh on. *)
InField(o, i) == i >= o.sh /\ (o.len = 0 \/ i < o.sh + o.len)
Field(o, x) ==
  FromBits([i \in Bits |-> IF i + o.sh \in Bits /\ InField(o, i + o.sh)
                           THEN Bit(x, i + o.sh) ELSE 0])
WithField(o, x, v) ==
  FromBits([i \in Bits |-> IF InField(o, i) THEN Bit(v, i - o.sh) ELSE Bit(x, i)])
(* r is what is left of x after taking y from it a whole number of times:  *)
(* less than y, and with the sign of x.                                    *)
RemainderOf(r, x, y) ==
  /\ (r < 0 => x < 0) /\ (r > 0 => x > 0)
  /\ (IF r < 0 THEN -r ELSE r) < (IF y < 0 THEN -y ELSE y)

ByBits(x, y, F(_, _)) == FromBits([i \in Bits |-> F(Bit(x, i), Bit(y, i))])
Truncated(x, y) == CHOOSE q \in -999 .. 999 : RemainderOf(x - q * y, x, y)

(* What "field op:= y" makes of the field x, by the number of the operator *)
(* of the assignment; the operators 2 to 5 are those of floating point.    *)
FieldResult(f, x, y) ==
  CASE f = 0  -> y           [] f = 1  -> M(x + y)
    [] f = 6  -> x * y       [] f = 7  -> Truncated(x, y)
    [] f = 9  -> x + y       [] f = 8  -> x - y * Truncated(x, y)
    [] f = 10 -> x - y       [] f = 11 -> x * 2 ^ y
    [] f = 12 -> x \div 2 ^ y
    [] f = 13 -> ByBits(x, y, LAMBDA i, k : i * k)
    [] f = 14 -> ByBits(x, y, LAMBDA i, k : (i + k + i * k) % 2)
    [] f = 15 -> ByBits(x, y, LAMBDA i, k : (1 + i + k) % 2)
    [] f = 16 -> ByBits(x, y, LAMBDA i, k : (i + k) % 2)
    [] OTHER  -> 42

NoStore == <<>>
(* What A, B and C hold after it, and what it has stored. *)
Result(na, nb, stores) == [a |-> WD(na), b |-> nb, c |-> start.c, s |-> stores]

Meaning(o) ==
  LET a0 == start.a  b0 == start.b  c0 == start.c
      New(v) == Result(v, a0, NoStore)      \* loads push A into B
      Acc(v) == Result(v, b0, NoStore)
      Put(x, v) == Result(a0, b0, x :> v)
      out == task.labels[<<"out">>]
      FarOut == LET i == (task.from + 1) \div 2 + o.n IN 2 * i + o.off
  IN CASE o.do = "lp"  -> New(Lo(o.n))
       [] o.do = "sp"  -> Put(Frame + o.n, a0)
       [] o.do = "llp" -> New(Frame + o.n)
       [] o.do = "ap"  -> Acc(a0 + Lo(o.n))
       [] o.do = "lg"  -> New(Gl(o.n))
       [] o.do = "sg"  -> Put(G + o.n, a0)
       [] o.do = "llg" -> New(G + o.n)
       [] o.do = "ag"  -> Acc(a0 + Gl(o.n))
       [] o.do = "lig" -> New(M(Gl(o.n) + o.i))
       [] o.do = "s0g" -> Put(Gl(o.n), a0)
       [] o.do = "lip" -> New(M(Lo(o.n) + o.i))
       [] o.do = "rv"  -> Acc(M(a0 + o.n))
       [] o.do = "rvp" -> Acc(M(a0 + Lo(o.n)))
       [] o.do = "st"  -> Put(a0 + o.n, b0)
       [] o.do = "stp" -> Put(a0 + Lo(o.n), b0)
       [] o.do = "sip" -> Put(Lo(o.n) + o.i, a0)
       [] o.do = "k"   -> New(o.n)
       [] o.do = "addk" -> Acc(a0 + o.n)
       [] o.do = "abs" -> Acc(IF a0 < 0 THEN -a0 ELSE a0)
       [] o.do = "add" -> Acc(b0 + a0)
       [] o.do = "sub" -> Acc(b0 - a0)
       [] o.do = "mul" -> Acc(b0 * a0)
       [] o.do = "neg" -> Acc(-a0)
       [] o.do = "not" -> Acc(FromBits([i \in Bits |-> 1 - Bit(a0, i)]))
       [] o.do = "logand" -> Acc(FieldResult(13, b0, a0))
       [] o.do = "logor" -> Acc(FieldResult(14, b0, a0))
       [] o.do = "neqv" -> Acc(FieldResult(16, b0, a0))
       [] o.do = "lshift" -> Acc(FromBits([i \in Bits |->
                                  IF i - a0 \in Bits THEN Bit(b0, i - a0) ELSE 0]))
       [] o.do = "rshift" -> Acc(FromBits([i \in Bits |->
                                  IF i + a0 \in Bits THEN Bit(b0, i + a0) ELSE 0]))
       [] o.do = "div" -> Acc(FieldResult(7, b0, a0))
       [] o.do = "rem" -> Acc(FieldResult(8, b0, a0))
       [] o.do = "fhop" -> Acc(0)
       [] o.do = "float" -> Acc(IF o.n = 0 THEN -1 ELSE a)
       [] o.do = "xch" -> Result(b0, a0, NoStore)
       [] o.do = "atb" -> Result(a0, a0, NoStore)
       [] o.do = "atc" -> [Acc(a0) EXCEPT !.c = a0]
       [] o.do = "btc" -> [Acc(a0) EXCEPT !.c = b0]
       [] o.do = "getbyte" -> Acc(MByte(b0, a0))
       [] o.do = "getfield" -> Acc(Field(o, M(a0)))
       [] o.do = "putfield" ->
            IF o.f > 16 THEN Acc(0)
            ELSE Put(a0, WithField(o, M(a0), FieldResult(o.f, Field(o, M(a0)), b0)))
       [] o.do = "lf"  -> New(out)
       [] o.do = "ll"  -> New(M(out \div BytesPerWord))
       [] o.do = "lll" -> New(out \div BytesPerWord)
       [] o.do = "sl"  -> Put(out \div BytesPerWord, a0)
       [] o.do = "far" /\ o.to = "lf"  -> New(FarOut)
       [] o.do = "far" /\ o.to = "ll"  -> New(M(FarOut \div BytesPerWord))
       [] o.do = "far" /\ o.to = "lll" -> New(FarOut \div BytesPerWord)
       [] o.do = "far" /\ o.to = "sl"  -> Put(FarOut \div BytesPerWord, a0)
       [] OTHER -> Acc(a0)

-----------------------------------------------------------------------------
(* The operation is over: control has left its code, or interpret has      *)
(* returned for another reason than the count, the watch or setcount.      *)
Resumable == {-1, 3, 11}
Finished == res = Run /\ ~Working
Done == Finished \/ res \notin Resumable \cup {Run}

(* No word but those of stores, and the dumped registers, has changed. *)
OnlyStored(stores) ==
  \A x \in (DOMAIN mem \cup DOMAIN stores) \ (Regs .. Regs + 8) :
    W(x) = IF x \in DOMAIN stores THEN stores[x] ELSE M(x)

Control == {"jump", "jump?", "farjump?", "call", "callg", "switch", "goto",
            "sys", "watched", "brk", "illegal", "rel", "putbyte", "xputbyte"}
Trapping == \/ task.op.do \in {"brk", "illegal"}
            \/ task.op.do \in {"div", "rem"} /\ start.a = 0
            \/ task.op.do = "goto" /\ start.a \notin 0 .. Memupb * BytesPerWord
            \/ task.op.do = "float" /\ task.op.n \notin FloatCodes \cup {0}
            \/ task.op.do = "putfield" /\ task.op.f \in {7, 8} /\ start.b = 0
            \/ task.op.do = "div" /\ start.a = -1 /\ start.b = -(WordSize \div 2)

(***************************************************************************)
(* Registers are words, and a function is in a frame of its own.           *)
(***************************************************************************)
TypeOK ==
  /\ \A x \in {a, b, c} : x = WD(x)
  /\ p \in 0 .. Memupb /\ pc \in Int /\ chk \in BOOLEAN
  /\ count \in Int
  /\ res \in {Run, Signal} \cup (-1 .. 16)

(***************************************************************************)
(* The shortest code for an operation on a local, a global, a static, a    *)
(* constant, a word or a field does what the operation means, for numbers  *)
(* on both sides of every limit between two forms (gensp, genlp, geng,     *)
(* cgloadk, cgaddk against the cases of interpret): the right word is      *)
(* read or written and no other, A and B are what the code generator will  *)
(* believe they are, and control goes on behind the operand.  That the     *)
(* interpreter returned with a zero count in between makes no difference.  *)
(***************************************************************************)
InstructionsMean ==
  Finished /\ task.op.do \notin Control /\ ~Trapping =>
    LET m == Meaning(task.op)
    IN  /\ <<a, b, c, p, pc>> = <<m.a, m.b, m.c, Frame, task.end>>
        /\ OnlyStored(m.s)

(* s%i := c in either order of the registers changes byte i of s alone. *)
BytesStored ==
  Finished /\ task.op.do \in {"putbyte", "xputbyte"} =>
    LET s == IF task.op.do = "putbyte" THEN start.b ELSE start.a
        i == IF task.op.do = "putbyte" THEN start.a ELSE start.b
        at0 == s * BytesPerWord + i
    IN  \A x \in at0 - 2 * BytesPerWord .. at0 + 2 * BytesPerWord :
          B(x) = IF x = at0 THEN start.c % 256 ELSE MByte(0, x)

(***************************************************************************)
(* A conditional jump is taken exactly when the relation holds in the      *)
(* sense asked for, wherever prepj found the operands (in B and A, the     *)
(* other way round, or one of them zero), whatever the signs, and a        *)
(* relation compiled to a value is -1 or 0.  (compjfn, revjfn, jfn0.)      *)
(***************************************************************************)
JumpsDecide ==
  Finished =>
    LET o == task.op
        taken == HoldsAt(o.rel, o.place) = o.sense
        indirect == (task.from + 1) \div 2 + o.n
    IN  /\ o.do = "jump?" => pc = IF taken THEN task.labels[<<"out">>] ELSE task.end
        /\ o.do = "farjump?" => pc = IF taken THEN 2 * indirect + o.off ELSE task.end
        /\ o.do = "rel" => a = (IF taken THEN -1 ELSE 0) /\ pc = task.end

(***************************************************************************)
(* A SWITCHON goes to the label of the case equal to its value, or to the  *)
(* default if there is none: for the chain of comparisons that divides the *)
(* cases, for the table in heap order that SWB searches, padded to seven   *)
(* pairs, for the vector of SWL, and for the offset taken from the value   *)
(* before both.                                                            *)
(***************************************************************************)
SwitchDispatches ==
  Finished /\ task.op.do = "switch" =>
    pc = task.labels[IF \E i \in DOMAIN task.op.cases : task.op.cases[i] = start.a
                       THEN E!Case(start.a) ELSE E!Default]

(***************************************************************************)
(* A call, with the function in a global or in A, gives the function its   *)
(* first argument and a frame that lies above what the caller uses, and    *)
(* the return restores the caller: P, the place behind the call, and all   *)
(* the words below the new frame.  The function called adds one to its     *)
(* argument, or is muldiv.                                                 *)
(***************************************************************************)
CallsReturn ==
  Finished /\ task.op.do \in {"call", "callg"} /\ task.op.fn # "changeco" =>
    LET o   == task.op
        arg == IF o.do = "call" THEN start.b ELSE start.a
        x   == Lo(o.k + 4)
        y   == Lo(o.k + 5)
    IN  /\ p = Frame /\ pc = task.end
        /\ \A w \in DOMAIN mem \ (Regs .. Regs + 8) : w < Frame + o.k /\ w # G + 10 => W(w) = M(w)
        /\ o.fn = "add1" => a = arg + 1
        /\ o.fn = "muldiv" =>
             /\ arg * x = a * y + W(G + 10)
             /\ RemainderOf(W(G + 10), arg * x, y)

(***************************************************************************)
(* changeco(val, cptr) leaves the caller's frame in the stack of what was  *)
(* the current coroutine, and goes on behind the call in the frame that    *)
(* was kept in the stack cptr, with val in A: also when cptr is the        *)
(* current coroutine, where it must find the frame it has just left there. *)
(***************************************************************************)
CoroutineChanges ==
  Finished /\ task.op.do = "callg" /\ task.op.fn = "changeco" =>
    LET to   == Lo(task.op.k + 4)
        from == M(G + 7)
    IN  /\ pc = task.end /\ a = start.a
        /\ W(G + 7) = to
        /\ W(from) = Frame * BytesPerWord
        /\ p = IF to = from THEN Frame ELSE M(to) \div BytesPerWord

(***************************************************************************)
(* An instruction that cannot be done leaves interpret with the result for *)
(* it, at that instruction and with its operands in place, so that the     *)
(* debugger shows it and can go on after a repair.                         *)
(***************************************************************************)
TrapsStop ==
  Done /\ Trapping =>
    LET o == task.op
    IN  \/ /\ res = CASE o.do = "brk" -> 2     [] o.do = "illegal" -> 1
                     [] o.do = "goto" -> 4    [] o.do = "float" -> 14
                     [] o.do \in {"div", "rem"} /\ start.a = 0 -> 5
                     [] OTHER -> Signal
           /\ W(Regs + 6) = IF o.do = "goto" THEN start.a ELSE task.from
           /\ <<a, b, c, p>> = <<start.a, start.b, start.c, Frame>>
           /\ W(Regs) = a /\ W(Regs + 1) = b
        \/ start.a = -1 /\ res = Run


(***************************************************************************)
(* Every operation comes to its end, also when the interpreter is entered  *)
(* for one instruction at a time; a zero count does not stop it twice at   *)
(* the same place, and the search of SWB ends.                             *)
(***************************************************************************)
OperationsEnd == <>Done
=============================================================================
