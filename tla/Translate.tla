----------------------------- MODULE Translate -----------------------------
(***************************************************************************)
(* The code generator of the compiler, cintcode/com/bcplcgcin.b: how it    *)
(* translates OCODE statements into loads, stores and operations of the    *)
(* registers A, B and C.                                                   *)
(*                                                                         *)
(* It keeps the top of the stack as a list of items (SS), each of which    *)
(* says where a value is: a number, a variable not yet loaded, a register, *)
(* or its own word of the frame.  An operator waits in pendingop until the *)
(* next statement, and two lists say which variables and numbers registers *)
(* A and B are known to hold, so that a load can be left out.  All this is *)
(* right only if every instruction that changes a register or a variable   *)
(* is followed by the right change to the lists.                           *)
(*                                                                         *)
(* Here each statement is translated and the instructions for it are       *)
(* executed at once, so that what the code generator believes can be       *)
(* compared with the registers and the memory, and the whole with Ocode.   *)
(***************************************************************************)
EXTENDS Integers, Sequences

CONSTANTS
  Size, Frame, Entered,  \* those of Ocode
  Globals,               \* the words from Frame on that are globals; others are statics
  Initial,               \* the memory on entry
  Programs               \* the programs to translate

ASSUME TranslateAssumption ==
  /\ Size \in Nat /\ Frame \in 5 .. Size - 1 /\ Entered \in 4 .. Frame - 1
  /\ Globals \in 0 .. Size - Frame
  /\ Initial \in [0 .. Size - 1 -> 0 .. Size - 1]
  /\ \A p \in Programs : /\ p.items \in Nat /\ p.items >= 3 /\ p.length \in Nat
                           /\ p.numbers \subseteq Int /\ p.places \subseteq 3 .. Size - 1

VARIABLES
  g,       \* the code generator and the machine it generates code for
  base, cells, out,      \* those of Ocode
  program, \* its statements, their numbers and variables, and the size of SS
  steps    \* how many more there can be

vars == <<g, base, cells, out, program, steps>>

O == INSTANCE Ocode WITH
       mem <- [x \in 0 .. Size - 1 |-> IF x \in base .. Frame - 1 THEN 0 ELSE g.m[x]]

-----------------------------------------------------------------------------
(* A descriptor says where a value is: k is the kind, n its number, and    *)
(* i >= 0 that it is word i of what that variable points at (k_loc0,       *)
(* k_glob0, ...).  An item is a descriptor and the cell s it stands for.   *)
Desc(k, n)    == [k |-> k, i |-> -1, n |-> n]
InA           == Desc("a", 0)
InB           == Desc("b", 0)
InC           == Desc("c", 0)
Loc(n)        == Desc("loc", n)
Numb(n)       == Desc("numb", n)
Item(d, s)    == [d |-> d, s |-> s]
Kinds         == {"loc", "glob", "lab"}
IsDirect(d, k) == d.k = k /\ d.i = -1

(* The value of a descriptor.  Variables are named by their word. *)
Value(r, d) ==
  CASE d.k = "a"    -> r.a
    [] d.k = "b"    -> r.b
    [] d.k = "c"    -> r.c
    [] d.k = "numb" -> d.n % Size
    [] d.k = "lv"   -> d.n
    [] d.k \in Kinds /\ d.i = -1 -> r.m[d.n]
    [] d.k \in Kinds /\ d.i # -1 -> r.m[(r.m[d.n] + d.i) % Size]

Arg(r, n) == r.ss[Len(r.ss) + 1 - n].d
Top(r)    == Len(r.ss)

(* Item t is now described by d. *)
Set(r, t, d) == IF t = 0 THEN r ELSE [r EXCEPT !.ss[t].d = d]

-----------------------------------------------------------------------------
(* The lists of what A and B hold, and the instructions that change them.  *)
InRegA(r, d) == d = InA \/ d \in r.ia
InRegB(r, d) == d = InB \/ d \in r.ib

ForgetA(r)   == [r EXCEPT !.ia = {}]
ForgetB(r)   == [r EXCEPT !.ib = {}]
ForgetAll(r) == ForgetA(ForgetB(r))

(* What may still be true after a simple variable has been changed.        *)
Unchanged(d, e) == e.i = -1 /\ e # d

(* Faulty: what was loaded through another variable is still believed.     *)
ForgetOnlyVar(r, d) == [r EXCEPT !.ia = @ \ {d}, !.ib = @ \ {d}]

ForgetVar(r, d) ==
  [r EXCEPT !.ia = {e \in @ : Unchanged(d, e)}, !.ib = {e \in @ : Unchanged(d, e)}]
ForgetAllVars(r) ==
  [r EXCEPT !.ia = {e \in @ : e.k \notin Kinds}, !.ib = {e \in @ : e.k \notin Kinds}]

GenLoad(r, d) == [r EXCEPT !.b = r.a, !.a = Value(r, d), !.ib = r.ia, !.ia = {d}]
GenXch(r)     == [r EXCEPT !.b = r.a, !.a = r.b, !.ib = r.ia, !.ia = r.ib]
GenAtb(r)     == [r EXCEPT !.b = r.a, !.ib = r.ia]
GenOp(r, v)   == ForgetA([r EXCEPT !.a = v])
GenStore(r, x, v) == [r EXCEPT !.m[x] = v]

(* A has been stored in variable d. *)
Keep(r, d) == LET s == ForgetVar(r, d) IN [s EXCEPT !.ia = @ \cup {d}]

-----------------------------------------------------------------------------
(* Loading and storing items.                                              *)
StoreA(r, t) ==        \* storet of an item in A
  LET x == r.ss[t].s IN Set(Keep(GenStore(r, x, r.a), Loc(x)), t, Loc(x))

Dump(r) ==             \* storet of the topmost item in A
  LET inA == {t \in 1 .. Top(r) : r.ss[t].d = InA}
  IN  IF inA = {} THEN r ELSE StoreA(r, CHOOSE t \in inA : \A u \in inA : u <= t)

SetBA(r, x, y) == Set(Set(r, x, InB), y, InA)

(* Item x in A, and when pushing the old A in B. *)
Loaded(r, x, pushing) ==
  LET d == r.ss[x].d
  IN  CASE InRegA(r, d) ->
             Set(IF pushing /\ ~InRegB(r, d) THEN GenAtb(r) ELSE r, x, InA)
        [] ~InRegA(r, d) /\ InRegB(r, d) -> GenXch(r)
        [] OTHER -> GenLoad(r, d)

(* Faulty: the item that was in A is lost. *)
LoadValLosing(r, x, pushing) == Loaded(r, x, pushing)

LoadVal(r, x, pushing) ==
  Loaded(IF pushing \/ r.ss[x].d = InA THEN r ELSE Dump(r), x, pushing)

LoadA(r, x)   == Set(LoadVal(r, x, FALSE), x, InA)
Push(r, x, y) == SetBA(LoadVal(r, y, TRUE), x, y)

StoreT(r, t) ==
  IF r.ss[t].d = Loc(r.ss[t].s) THEN r ELSE StoreA(LoadA(r, t), t)

(* The items in set I, from the bottom up. *)
StoreItems(r, I) ==
  LET q[t \in 0 .. Top(r)] == IF t = 0 THEN r
                              ELSE IF t \in I THEN StoreT(q[t - 1], t) ELSE q[t - 1]
  IN  q[Top(r)]
StoreCells(r, x, y) ==    \* store(x, y)
  StoreItems(r, {t \in 1 .. Top(r) : r.ss[t].s \in x .. y})

(* loadboth: x in B and y in A, or the other way round if swapped.  No     *)
(* other item is in A.                                                     *)
Both(r, swapped) == [r |-> r, swapped |-> swapped]
BothLoaded(r, x, y) ==
  LET dx == r.ss[x].d
      dy == r.ss[y].d
      xa == InRegA(r, dx)  ya == InRegA(r, dy)
      xb == InRegB(r, dx)  yb == InRegB(r, dy)
  IN  IF xb /\ ya THEN Both(SetBA(r, x, y), FALSE)
      ELSE IF xa /\ yb THEN Both(SetBA(r, y, x), TRUE)
      ELSE IF xa /\ ya THEN Both(SetBA(GenAtb(r), x, y), FALSE)
      ELSE IF xb /\ yb THEN Both(SetBA(GenAtb(Set(GenXch(r), y, InA)), x, y), FALSE)
      ELSE IF xa THEN Both(Push(r, x, y), FALSE)
      ELSE IF ya THEN Both(Push(r, y, x), TRUE)
      ELSE IF xb THEN Both(Push(Set(GenXch(r), x, InA), x, y), FALSE)
      ELSE IF yb THEN Both(Push(Set(GenXch(r), y, InA), y, x), TRUE)
      ELSE Both(Push(LoadA(r, x), x, y), FALSE)

LoadBoth(r, x, y) ==
  BothLoaded(StoreItems(r, {t \in 1 .. Top(r) : t \notin {x, y} /\ r.ss[t].d = InA}), x, y)

Straight(l, x, y) == IF l.swapped THEN SetBA(GenXch(l.r), x, y) ELSE l.r
LoadBA(r, x, y) == Straight(LoadBoth(r, x, y), x, y)

-----------------------------------------------------------------------------
(* The simulated stack.                                                    *)
Own(s) == Item(Loc(s), s)
InitStack(r, n) == [r EXCEPT !.ssp = n, !.pending = "none", !.ss = <<Own(n - 2), Own(n - 1)>>]

(* Faulty: one item too many before the lowest is stored. *)
MakeRoomLate(r) == IF Top(r) <= program.items THEN r ELSE [StoreT(r, 1) EXCEPT !.ss = Tail(@)]

MakeRoom(r) == IF Top(r) < program.items THEN r ELSE [StoreT(r, 1) EXCEPT !.ss = Tail(@)]
LoadT(r, d) ==         \* loadt, with no operator pending
  [MakeRoom(r) EXCEPT !.ss = Append(@, Item(d, r.ssp)), !.ssp = @ + 1]

StackTo(r, n) ==       \* stack(n)
  LET left == Top(r) - (r.ssp - n)     \* the items that stay
      Up[j \in 0 .. n - r.ssp] == IF j = 0 THEN r ELSE LoadT(Up[j - 1], Loc(r.ssp + j - 1))
  IN  CASE n >= r.ssp + 4 -> InitStack(StoreCells(r, 0, r.ssp - 1), n)
        [] n \in r.ssp .. r.ssp + 3 -> Up[n - r.ssp]
        [] n < r.ssp /\ left >= 2 -> [r EXCEPT !.ssp = n, !.ss = SubSeq(@, 1, left)]
        [] n < r.ssp /\ left = 1 ->
             [r EXCEPT !.ssp = n, !.ss = <<Own(n - 2), Item(@[1].d, n - 1)>>]
        [] OTHER -> InitStack(r, n)

Drop(r, n) == StackTo(r, r.ssp - n)

Lose1(r, d) ==         \* the top two items become one
  LET n    == Len(r.ss) - 2
      rest == IF n = 0 THEN <<Own(r.ssp - 3)>> ELSE SubSeq(r.ss, 1, n)
  IN  [r EXCEPT !.ssp = @ - 1, !.pending = "none", !.ss = Append(rest, Item(d, r.ssp - 2))]

SwapArgs(r) == Set(Set(r, Top(r), Arg(r, 2)), Top(r) - 1, Arg(r, 1))

-----------------------------------------------------------------------------
(* Operators.                                                              *)
IsZero(d) == d.k = "numb" /\ d.n = 0

Within(d, k, lo, hi) == IsDirect(d, k) /\ d.n \in lo .. hi

(* The operands an addition to A can name, the best first. *)
AddForm(j, d) == CASE j = 1 -> Within(d, "loc", 3, 12)
                   [] j = 2 -> Within(d, "numb", -4, 5)
                   [] j = 3 -> IsDirect(d, "loc")
                   [] j = 4 -> IsDirect(d, "glob")
                   [] j = 5 -> IsDirect(d, "numb")

(* An operation leaves its result in A.  B and A are the operands, or A    *)
(* and the top item, which the instruction names.                          *)
Result(r, v)    == Lose1(GenOp(r, v), InA)
OnBA(f, r)      == Result(r, O!Apply(f, r.b, r.a))
OnAItem(f, r)   == Result(r, O!Apply(f, r.a, Value(r, Arg(r, 1))))
Second(r)       == Top(r) - 1

(* Cgadd once neither operand is 0: one that is in A becomes the second.   *)
InPlace(r) ==
  IF InRegA(r, Arg(r, 1)) THEN LoadA(r, Top(r))
  ELSE IF InRegA(r, Arg(r, 2)) THEN LoadA(r, Second(r)) ELSE r
AddBy(r, form) ==
  LET u == IF AddForm(form, Arg(r, 2)) THEN SwapArgs(r) ELSE r
  IN  OnAItem("add", LoadA(u, Second(u)))
AddBoth(r) ==
  LET t == IF Arg(r, 1) = InA THEN SwapArgs(r) ELSE r
      forms == {j \in 1 .. 5 : AddForm(j, Arg(t, 2)) \/ AddForm(j, Arg(t, 1))}
  IN  IF forms # {} THEN AddBy(t, CHOOSE j \in forms : \A k \in forms : j <= k)
      ELSE OnBA("add", LoadBoth(t, Second(t), Top(t)).r)

AddZero(r) ==          \* to the top item, which may be waiting in the cell above
  LET d == Arg(r, 1)
  IN  IF d.k = "loc" /\ d.n = r.ssp - 1 THEN Lose1(LoadA(r, Top(r)), InA) ELSE Lose1(r, d)

Cgadd(r) ==
  IF IsZero(Arg(r, 1)) THEN Drop(r, 1)
  ELSE IF IsZero(Arg(r, 2)) THEN AddZero(r)
  ELSE AddBoth(InPlace(r))

(* Faulty: the relation does not know that the operands are swapped.       *)
InBAUntold(l, reversed) == [r |-> l.r, x |-> IF reversed THEN l.r.a ELSE l.r.b,
                            y |-> IF reversed THEN l.r.b ELSE l.r.a]

(* The operands of a relation are where the jump instruction finds them.   *)
Operands(r, x, y, exchanged) ==
  [r |-> r, x |-> IF exchanged THEN y ELSE x, y |-> IF exchanged THEN x ELSE y]
WithZero(r, reversed) == Operands(r, r.a, 0, reversed)
InBA(l, reversed)     == Operands(l.r, l.r.b, l.r.a, l.swapped # reversed)
Prepj(r) ==
  LET reversed == IsZero(Arg(r, 2))
      s == IF reversed THEN SwapArgs(r) ELSE r
  IN  IF IsZero(Arg(s, 1)) THEN WithZero(LoadA(s, Second(s)), reversed)
      ELSE InBA(LoadBoth(s, Second(s), Top(s)), reversed)

(* The value of a relation: a jump over FHOP to LM1. *)
Decided(p, true) ==
  Lose1(IF true THEN [p.r EXCEPT !.b = p.r.a, !.a = O!True] ELSE [p.r EXCEPT !.a = O!False], InA)
Relation(f, p) == ForgetAll(Decided(p, O!Apply(f, p.x, p.y) = O!True))

Dyadic == {"add", "sub", "mul", "eq", "ls"}

Negate(r) == GenOp(r, O!Negated(r.a))
Combine(f, r) ==       \* the pending operator f; none is pending any more
  CASE f = "none" -> r
    [] f = "neg"  -> Negate(LoadA(r, Top(r)))
    [] f \in O!Relations -> Relation(f, Prepj(r))
    [] f = "add"  -> Cgadd(r)
    [] f = "sub" /\ Arg(r, 1).k = "numb" -> Cgadd(Set(r, Top(r), Numb(-Arg(r, 1).n)))
    [] f = "sub" /\ Arg(r, 1).k # "numb" -> OnBA("sub", LoadBA(r, Second(r), Top(r)))
    [] f = "mul"  -> OnBA("mul", LoadBoth(r, Second(r), Top(r)).r)
Cgpendingop(r) == Combine(r.pending, [r EXCEPT !.pending = "none"])

-----------------------------------------------------------------------------
(* Reading and writing through an address.  The instructions can add a     *)
(* small number or one of the first locals to it: what to add is a         *)
(* descriptor too.                                                         *)
Swapped(r, P(_)) == IF P(Arg(r, 2)) THEN SwapArgs(r) ELSE r
Popped(r) == [Drop(r, 1) EXCEPT !.pending = "none"]
Indexed(r, by) == [r |-> r, by |-> by]

(* A pending addition of a number up to n or a local from 3 to p.          *)
Index(r, n, p) ==
  LET s == Swapped(r, LAMBDA d : d.k = "numb")
      t == Swapped(s, LAMBDA d : Within(d, "loc", 3, p))
  IN  IF r.pending # "add" THEN Indexed(Cgpendingop(r), Numb(0))
      ELSE IF Within(Arg(s, 1), "numb", 0, n) THEN Indexed(Popped(s), Arg(s, 1))
      ELSE IF Within(Arg(t, 1), "loc", 3, p) THEN Indexed(Popped(t), Arg(t, 1))
      ELSE Indexed(t, Desc("sum", 0))      \* the addition is still pending

Limits == <<12, 6, 5, 4, 4>>
CanWait(d, by) ==
  /\ by.k = "numb" /\ d.i = -1
  /\ \/ d.k = "glob" /\ by.n <= 2
     \/ d.k = "loc" /\ by.n <= 4 /\ d.n \in 3 .. Limits[by.n + 1]

Fetched(r, by) == GenOp(r, r.m[(r.a + Value(r, by)) % Size])
RvAt(r, by) ==
  LET d == Arg(r, 1)
  IN  IF CanWait(d, by) THEN Set(r, Top(r), [d EXCEPT !.i = by.n])
      ELSE Fetched(LoadA(r, Top(r)), by)
RvIndexed(x) == IF x.by.k = "sum" THEN RvAt(Cgpendingop(x.r), Numb(0)) ELSE RvAt(x.r, x.by)
Cgrv(r) == RvIndexed(Index(r, 6, 7))

Stored(r, at, v) == ForgetAllVars(Drop(GenStore(r, at % Size, v), 2))

StoreThrough(r, d, by) == Stored(r, r.m[d.n] + by.n, r.a)
StoreB(r, by)          == Stored(r, r.a + Value(r, by), r.b)
StoreAt(r, by) ==
  LET d == Arg(r, 1)
  IN  IF \/ IsDirect(d, "glob") /\ by = Numb(0)
         \/ Within(d, "loc", 3, 4) /\ by \in {Numb(0), Numb(1)}
      THEN StoreThrough(LoadA(r, Second(r)), d, by)
      ELSE StoreB(LoadBA(r, Second(r), Top(r)), by)

(* Addition to an address, when the value to be stored is in A already.    *)
Nameable(d) == d.i = -1 /\ d.k \in {"loc", "glob", "numb"}
StoreAtSum(r) ==
  IF Nameable(Arg(r, 1)) THEN StoreB(Cgadd(Push(r, Top(r) - 2, Second(r))), Numb(0))
  ELSE StoreAt(Cgpendingop(r), Numb(0))
StindIndexed(x) ==
  IF x.by.k # "sum" THEN StoreAt(x.r, x.by)
  ELSE IF Top(x.r) = 2 \/ Arg(x.r, 3) # InA THEN StoreAt(Cgpendingop(x.r), Numb(0))
  ELSE StoreAtSum(Swapped(x.r, Nameable))
Cgstind(r) == StindIndexed(Index(r, 3, 5))

StoreTop(r, d) == Drop(Keep(GenStore(r, d.n, r.a), d), 1)
StoreLoaded(r, d) == StoreTop(LoadA(r, Top(r)), d)
Storein(r, d) == StoreLoaded(Cgpendingop(r), d)

GetbyteBA(r) == Result(r, r.m[O!ByteAt(r.b, r.a)])
Getbyte(r) == GetbyteBA(LoadBA(r, Second(r), Top(r)))

(* The byte goes to C first. *)
AtoC(r) == [r EXCEPT !.c = r.a]
LoadTop(r) == LoadA(r, Top(r))
InCReg(r, x) ==
  IF x = 0 THEN Drop(AtoC(LoadTop(LoadT(r, Loc(r.ssp - 3)))), 1)
  ELSE IF InRegB(r, r.ss[x].d) THEN Set([r EXCEPT !.c = r.b], x, InC)
  ELSE Set(AtoC(LoadA(r, x)), x, InC)
PutC(l) ==
  LET r == l.r
  IN  ForgetAllVars(Drop(
        GenStore(r, IF l.swapped THEN O!ByteAt(r.a, r.b) ELSE O!ByteAt(r.b, r.a), r.c), 3))
PutbyteC(r) == PutC(LoadBoth(r, Second(r), Top(r)))
Putbyte(r) == PutbyteC(InCReg(r, Top(r) - 2))

-----------------------------------------------------------------------------
(***************************************************************************)
(* Calls.  k is where the new frame begins; its words are the links, the   *)
(* arguments from k+3 on, and the function on the top.  The first argument *)
(* goes in A, and the function is a global; or in B, and it is in A.       *)
(***************************************************************************)
ItemOf(r, s) ==        \* the item of cell s below the function, or 0
  IF \E t \in 1 .. Second(r) : r.ss[t].s = s
  THEN CHOOSE t \in 1 .. Second(r) : r.ss[t].s = s ELSE 0

(* The other arguments are stored, then the first one (item a1) is in A.   *)
OthersStored(r, a1, k) ==
  IF a1 # 0 /\ a1 = Top(r) - 2 /\ r.ss[a1].d = InA
  THEN Set(GenXch(StoreT(Push(r, a1, a1 + 1), a1 + 1)), a1, InA)
  ELSE StoreItems(r, {t \in 1 .. Second(r) : r.ss[t].s > k + 3})
(* Faulty: a single argument is forgotten. *)
FirstInAOfTwo(r, a1, k) ==
  IF k + 3 >= r.ssp - 2 THEN r
  ELSE IF a1 = 0 THEN [r EXCEPT !.b = r.a, !.a = r.m[k + 3]] ELSE LoadA(r, a1)

FirstInA(r, a1, k) ==
  IF k + 3 >= r.ssp - 1 THEN r
  ELSE IF a1 = 0 THEN [r EXCEPT !.b = r.a, !.a = r.m[k + 3]]
  ELSE LoadA(r, a1)

CallsGlobal(r, k) == IsDirect(Arg(r, 1), "glob") /\ k \in 3 .. 11
Given(r, k, fn, first) ==
  LET n == r.ssp - k - 4
  IN  [r |-> r, found |-> TRUE, fn |-> fn,
       args |-> [i \in 1 .. n |-> IF i = 1 THEN first ELSE r.m[k + i + 2]]]
GivenInB(r, k) == Given(r, k, r.a, r.b)
Passed(r, a1, k) ==
  IF CallsGlobal(r, k) THEN Given(r, k, r.m[Arg(r, 1).n], r.a)
  ELSE GivenInB(Push(r, a1, Top(r)), k)

Finding(x, a1) == [x EXCEPT !.found = a1 # 0 \/ x.args = <<>>]
ArgumentsOf(r, a1, k) == Finding(Passed(FirstInA(OthersStored(r, a1, k), a1, k), a1, k), a1)
BelowStored(r, k) == ArgumentsOf(r, ItemOf(r, k + 3), k)
Arguments(r, k) ==
  BelowStored(StoreItems(r, {t \in 1 .. Second(r) : r.ss[t].s < k /\ r.ss[t].d = InA}), k)

(* The function called leaves its result in A and anything in B, C and the *)
(* frame above k.                                                          *)
Returned(x, k) ==
  [x.r EXCEPT !.a = O!Result(x.fn, x.args), !.b = 0, !.c = 0,
              !.m = O!Effect([y \in DOMAIN @ |-> IF y \in k .. Frame - 1 THEN 0 ELSE @[y]])]

Cgapply(x, k, isfn) ==
  LET s == StackTo(ForgetAll(Returned(x, k)), k) IN IF isfn THEN LoadT(s, InA) ELSE s

(* JT jumps on the relation pending, or if the value is not FALSE; JF on   *)
(* the complement.                                                         *)
Complement(f) == CASE f = "eq" -> "ne" [] f = "ne" -> "eq" [] f = "ls" -> "ge"
JumpOn(f, p) == [r |-> Drop(p.r, 2), taken |-> O!Apply(f, p.x, p.y) = O!True]
JumpStored(f, sense, r) ==
  JumpOn(IF sense THEN f ELSE Complement(f), Prepj(StoreCells(r, 0, r.ssp - 3)))
Jumped(r, sense) ==
  IF r.pending \in O!Relations THEN JumpStored(r.pending, sense, [r EXCEPT !.pending = "none"])
  ELSE JumpStored("ne", sense, LoadT(Cgpendingop(r), Numb(0)))

AllStored(r) == StoreCells(r, 0, r.ssp - 1)
AtLabel(r) == [ForgetAll(AllStored(Cgpendingop(r))) EXCEPT !.a = 0, !.b = 0]

(* RES to a label that follows, and RSTACK. *)
InAOnly(r) == LoadTop(StoreCells(r, 0, r.ssp - 2))
ResultOf(r) == LoadT([ForgetAll(Drop(InAOnly(Cgpendingop(r)), 1)) EXCEPT !.b = 0], InA)

LinksRoom(r) == StackTo(r, r.ssp + 3)
Queried(r)   == LoadT(Cgpendingop(r), Loc(r.ssp))    \* ssp while the operator is pending

-----------------------------------------------------------------------------
Init ==
  /\ g = [ss |-> <<Own(Entered - 2), Own(Entered - 1)>>, ssp |-> Entered, pending |-> "none",
          ia |-> {Loc(3)}, ib |-> {}, a |-> Initial[3], b |-> 0, c |-> 0, m |-> Initial]
  /\ base = Entered /\ cells = <<>> /\ out = <<"start">>
  /\ program \in Programs /\ steps = program.length

Kind(x) == IF x < Frame THEN "loc" ELSE IF x < Frame + Globals THEN "glob" ELSE "lab"
Visible == [x \in 0 .. Size - 1 |-> IF x \in base .. Frame - 1 THEN 0 ELSE g.m[x]]
Named   == program.places \cap O!Assignable
In(s)   == s \in program.statements
Room(n) == base + Len(cells) + n < Frame
Same    == UNCHANGED <<base, out>>

(* A program does not read the frame above its locals. *)
Readable(addresses) == addresses \cap (base .. Frame - 1) = {}
Pointed(m, c) == {O!Pointed(m, f) : f \in {e \in c.reads : e[1] = "through"}}

(* LN; LP, LG, LL; LLP, LLG, LLL; QUERY. *)
Load ==
  /\ Room(1) /\ Same
  /\ \/ \E k \in program.numbers :
          g' = LoadT(Cgpendingop(g), Numb(k)) /\ cells' = Append(cells, O!Constant(k))
     \/ \E x \in Named :
          \/ /\ In("lp") /\ g' = LoadT(Cgpendingop(g), Desc(Kind(x), x))
             /\ cells' = Append(cells, O!Variable(Visible, x))
          \/ /\ In("llp") /\ g' = LoadT(Cgpendingop(g), Desc("lv", x))
             /\ cells' = Append(cells, O!Constant(x))
     \/ /\ In("query")
        /\ g' = Queried(g)
        /\ cells' = Append(cells, O!Unknown)

Operate ==
  /\ Same
  /\ \/ /\ In("neg") /\ Len(cells) >= 1
        /\ g' = [Cgpendingop(g) EXCEPT !.pending = "neg"]
        /\ O!Unary
     \/ /\ Len(cells) >= 2
        /\ \E f \in Dyadic \cap program.statements :
             /\ g' = [Cgpendingop(g) EXCEPT !.pending = f]
             /\ cells' = Append(O!Below(2), O!Combined(f, O!Nth(2), O!Nth(1)))
     \/ /\ In("rv") /\ Len(cells) >= 1 /\ Readable(O!Nth(1).vals)
        /\ g' = Cgrv(g) /\ O!Rv
     \/ /\ In("getbyte") /\ Len(cells) >= 2 /\ Readable(O!ByteOf(O!Nth(2), O!Nth(1)))
        /\ g' = Getbyte(Cgpendingop(g)) /\ O!Getbyte

(* Addresses are those of variables the program has. *)
Stind ==
  /\ In("stind") /\ Len(cells) >= 2 /\ O!Nth(1).vals \subseteq O!Assignable
  /\ g' = Cgstind(g) /\ cells' = O!Aged(O!Below(2), Visible')

Assign ==
  /\ Same
  /\ \/ /\ In("sp") /\ Len(cells) >= 1
        /\ \E x \in Named : g' = Storein(g, Desc(Kind(x), x))
        /\ cells' = O!Aged(O!Below(1), Visible')
     \/ Stind
     \/ /\ In("putbyte") /\ Len(cells) >= 3
        /\ O!ByteOf(O!Nth(2), O!Nth(1)) \subseteq O!Assignable
        /\ g' = Putbyte(Cgpendingop(g)) /\ cells' = O!Aged(O!Below(3), Visible')

(* STACK, to make room for the links of a call; FNAP and RTAP. *)
Call ==
  /\ UNCHANGED base
  /\ \/ /\ In("call") /\ Room(5)
        /\ g' = LinksRoom(Cgpendingop(g))
        /\ cells' = cells \o <<O!Unknown, O!Unknown, O!Unknown>>
        /\ UNCHANGED out
     \/ \E n \in 0 .. Len(cells) - 4, isfn \in BOOLEAN :
          /\ In("call")
          /\ \A j \in n + 2 .. n + 4 : O!Nth(j) = O!Unknown
          /\ LET k == base + Len(cells) - n - 4
             IN  \E x \in {Arguments(Cgpendingop(g), k)} :
                   /\ x.found \/ In("manyargs")
                   /\ g' = Cgapply(x, k, isfn)
                   /\ out' = <<"call", x.fn, x.args>>
          /\ LET below == O!Aged(O!Below(n + 4), Visible')
             IN  cells' = IF isfn THEN Append(below, O!Constant(O!Result(out'[2], out'[3])))
                          ELSE below

Jump ==
  /\ In("jt") /\ Len(cells) >= 1
  /\ \E f \in {"jt", "jf"} : \E j \in {Jumped(g, f = "jt")} :
       g' = j.r /\ out' = <<f, j.taken>>
  /\ cells' = O!Below(1)
  /\ UNCHANGED base

(* STORE; STACK at the end of a block. *)
Store ==
  /\ In("store") /\ cells # <<>> /\ O!Unknown \notin {cells[i] : i \in DOMAIN cells}
  /\ g' = AllStored(Cgpendingop(g))
  /\ base' = base + Len(cells)
  /\ cells' = <<>> /\ UNCHANGED out

Stack ==
  /\ In("store") /\ cells = <<>> /\ base > Entered
  /\ g' = StackTo(Cgpendingop(g), base - 1)
  /\ base' = base - 1
  /\ UNCHANGED <<cells, out>>

Label ==
  /\ In("lab") /\ Same
  /\ \/ g' = AtLabel(g)
     \/ Len(cells) >= 1 /\ g' = ResultOf(g)
  /\ cells' = [i \in DOMAIN cells |-> O!Known(cells[i])]

Next ==
  /\ steps > 0
  /\ Load \/ Operate \/ Assign \/ Call \/ Jump \/ Store \/ Stack \/ Label
  /\ \A i \in DOMAIN cells' : Readable(Pointed(Visible', cells'[i]))
  /\ steps' = steps - 1
  /\ UNCHANGED program

Spec == Init /\ [][Next]_vars

-----------------------------------------------------------------------------
(***************************************************************************)
(* SS is the top of the stack: items for consecutive cells, at least two   *)
(* and no more than there is room for, and one item more than results      *)
(* while a dyadic operator is pending.                                     *)
(***************************************************************************)
TypeOK ==
  /\ Top(g) \in 2 .. program.items
  /\ g.ssp = base + Len(cells) + (IF g.pending \in Dyadic THEN 1 ELSE 0)
  /\ \A t \in 1 .. Top(g) : g.ss[t].s = g.ssp - 1 - Top(g) + t
  /\ \A x \in {g.a, g.b, g.c} : x \in 0 .. Size - 1

(***************************************************************************)
(* What the code generator believes the registers hold, they hold: no      *)
(* store, call, label or operation has been forgotten (addinfo, forgetvar, *)
(* forgetallvars, xchinfo, atbinfo).                                       *)
(***************************************************************************)
RegistersHold ==
  /\ \A d \in g.ia : Value(g, d) = g.a
  /\ \A d \in g.ib : Value(g, d) = g.b

(***************************************************************************)
(* Every item, and every cell that has no item any more because SS was     *)
(* full, stands for a value its result may have; declared locals stand for *)
(* their own words of the frame.                                           *)
(***************************************************************************)
ValueAt(s) ==
  LET t == s - g.ssp + 1 + Top(g) IN IF t \in 1 .. Top(g) THEN Value(g, g.ss[t].d) ELSE g.m[s]
PendingValue ==
  CASE g.pending = "neg" -> O!Negated(ValueAt(g.ssp - 1))
    [] g.pending \in Dyadic -> O!Apply(g.pending, ValueAt(g.ssp - 2), ValueAt(g.ssp - 1))
    [] OTHER -> ValueAt(g.ssp - 1)
ItemsDenote ==
  /\ \A j \in 1 .. Len(cells) :
       (IF j = Len(cells) THEN PendingValue ELSE ValueAt(base + j - 1)) \in cells[j].vals
  /\ \A s \in O!Locals : ValueAt(s) = g.m[s]

(***************************************************************************)
(* "First arg (if any) is now in B and the procedure address is in A."     *)
(* (bcplcgcin.b:1523): a function is called with values its arguments have. *)
(***************************************************************************)
CallsPassArguments ==
  [][out' # out /\ out'[1] = "call" =>
       LET n == Len(out'[3])
       IN  /\ out'[2] \in O!Nth(1).vals
           /\ \A i \in 1 .. n : out'[3][i] \in O!Nth(n + 2 - i).vals]_out

(***************************************************************************)
(* "Optimize the case <arg2>!<arg1> := <arg3> where <arg3> is already in   *)
(* A": "cgadd()  // Compiles an A, AP or AG instr." (bcplcgcin.b:1241-     *)
(* 1245).  The assignment compiles the addition whose sum it stores        *)
(* through; no operator is pending when it ends.                           *)
(***************************************************************************)
AssignmentsEnd == [][Stind => g'.pending = "none"]_vars

(***************************************************************************)
(* The code does what OCODE promises: the value it stores or passes to a   *)
(* function is one the expression may have, and goes where the statement   *)
(* says and nowhere else; and a JT or a JF jumps as one of the values of   *)
(* its condition has it, whichever operands have changed places and        *)
(* whether the relation has been complemented.                             *)
(***************************************************************************)
ImplementsOcode == O!Spec
=============================================================================
