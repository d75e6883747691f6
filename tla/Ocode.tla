------------------------------- MODULE Ocode -------------------------------
(***************************************************************************)
(* What the statements of OCODE, the language between the two halves of    *)
(* the compiler, promise about the stack machine they are written for: the *)
(* meaning that cintcode/com/bcplcgcin.b has to give them.                 *)
(*                                                                         *)
(* The stack is a frame of words.  The cells below base are the declared   *)
(* locals; those above are the temporary results of expressions, which the *)
(* generated code need not keep in the frame.  BCPL leaves it open when an *)
(* operand is evaluated: a variable, or a word reached through one, may be *)
(* read at any time after the statement that loads it and before the one   *)
(* that uses it.  So a cell is the set of values the operand may have, and *)
(* the set of reads that may still give it another one.                    *)
(***************************************************************************)
EXTENDS Integers, Sequences, FiniteSets

CONSTANTS
  Size,      \* the memory is the words 0 .. Size-1, and so are its values
  Frame,     \* the words 0 .. Frame-1 are the frame
  Entered    \* base on entry to the function

VARIABLES
  mem,       \* the memory; the words of the frame from base on are 0
  base,      \* the number of declared locals, links included
  cells,     \* the temporary results
  out        \* the last jump and whether it was taken, or what the last call was given

Word   == 0 .. Size - 1
True   == Size - 1
False  == 0
Sum(x, i)     == <<"sum", x, i>>       \* word x plus i
Through(x, i) == <<"through", x, i>>   \* the word that Sum(x, i) points at
At(u)         == <<"at", u, 0>>        \* word u, an address evaluated before

Pointed(m, f) == IF f[1] = "at" THEN f[2] ELSE (m[f[2]] + f[3]) % Size
Read(m, f)    == IF f[1] = "sum" THEN Pointed(m, f) ELSE m[Pointed(m, f)]

Cell(vals, reads) == [vals |-> vals, reads |-> reads]
Constant(k)    == Cell({k}, {})
Variable(m, x) == Cell({m[x]}, {Sum(x, 0)})
Unknown        == Cell(Word, {})
Known(c)       == Cell(c.vals, {})
IsConstant(c)  == c.reads = {} /\ Cardinality(c.vals) = 1

(* The memory is now m: what has not been read may have the new value.     *)
Aged(cs, m) ==
  [i \in DOMAIN cs |-> [cs[i] EXCEPT !.vals = @ \cup {Read(m, f) : f \in cs[i].reads}]]

Below(n) == SubSeq(cells, 1, Len(cells) - n)
Nth(n)   == cells[Len(cells) + 1 - n]        \* Nth(1) is the top cell

(* The values of the operators; words are their own addresses. *)
Apply(f, x, y) == CASE f = "add" -> (x + y) % Size
                    [] f = "sub" -> (x - y) % Size
                    [] f = "mul" -> (x * y) % Size
                    [] f = "eq"  -> IF x = y THEN True ELSE False
                    [] f = "ne"  -> IF x # y THEN True ELSE False
                    [] f = "ls"  -> IF x < y THEN True ELSE False
                    [] f = "ge"  -> IF x >= y THEN True ELSE False
Relations == {"eq", "ls"}
ByteAt(x, y) == (x - y) % Size     \* the word that stands for byte y of string x
Negated(x) == (-x) % Size

ByteOf(x, y)     == {ByteAt(u, v) : u \in x.vals, v \in y.vals}
Applied(f, x, y) == {Apply(f, u, v) : u \in x.vals, v \in y.vals}
Moved(c, k) ==        \* the reads of c when k is added to it
  {IF f[1] = "sum" THEN Sum(f[2], (f[3] + k) % Size) ELSE f :
     f \in {e \in c.reads : k = 0 \/ e[1] = "sum"}}

Combined(f, x, y) ==
  Cell(Applied(f, x, y),
       CASE f = "add" /\ IsConstant(y) -> Moved(x, CHOOSE k \in y.vals : TRUE)
         [] f = "add" /\ IsConstant(x) -> Moved(y, CHOOSE k \in x.vals : TRUE)
         [] f = "sub" /\ IsConstant(y) -> Moved(x, Negated(CHOOSE k \in y.vals : TRUE))
         [] OTHER -> {})

Contents(c) ==
  Cell({mem[u] : u \in c.vals},
       {Through(f[2], f[3]) : f \in {e \in c.reads : e[1] = "sum"}} \cup {At(u) : u \in c.vals})

-----------------------------------------------------------------------------
Init ==
  /\ mem \in [Word -> Word]
  /\ base = Entered /\ cells = <<>> /\ out = <<"start">>

Locals     == 3 .. base - 1
Assignable == Locals \cup (Frame .. Size - 1)

Push == \/ \E k \in Word : cells' = Append(cells, Constant(k))
        \/ \E x \in Assignable : cells' = Append(cells, Variable(mem, x))
        \/ \E n \in 1 .. 3 : cells' = cells \o [i \in 1 .. n |-> Unknown]

Unary  == cells' = Append(Below(1), Cell({Negated(v) : v \in Nth(1).vals}, {}))
Binary == \E f \in {"add", "sub", "mul", "eq", "ls"} :
            cells' = Append(Below(2), Combined(f, Nth(2), Nth(1)))
Rv     == cells' = Append(Below(1), Contents(Nth(1)))
Getbyte == cells' = Append(Below(2), Cell({mem[u] : u \in ByteOf(Nth(2), Nth(1))}, {}))

Evaluate ==
  /\ \/ Push
     \/ cells # <<>> /\ (Unary \/ Rv)
     \/ Len(cells) >= 2 /\ (Binary \/ Getbyte)
  /\ UNCHANGED <<mem, base, out>>

(* One of the values of the cell goes to one of the addresses.             *)
AssignTo(addresses, c, n) ==
  /\ \E x \in addresses \cap Assignable :
       mem'[x] \in c.vals /\ \A y \in Word \ {x} : mem'[y] = mem[y]
  /\ cells' = Aged(Below(n), mem')

Assign ==
  /\ \/ Len(cells) >= 1 /\ AssignTo(Assignable, Nth(1), 1)                 \* SP, SG, SL
     \/ Len(cells) >= 2 /\ AssignTo(Nth(1).vals, Nth(2), 2)                \* STIND
     \/ Len(cells) >= 3 /\ AssignTo(ByteOf(Nth(2), Nth(1)), Nth(3), 3) \* PUTBYTE
  /\ UNCHANGED <<base, out>>

(* The cells from k on are three words for the links, the arguments and    *)
(* the function.  The function called sees one value of each, may change   *)
(* the globals and gives a result.                                         *)
Result(fn, args) ==
  (fn + (IF args = <<>> THEN 0 ELSE 3 * Head(args)) + 5 * Len(args)) % Size
Effect(m) == [m EXCEPT ![Frame] = (@ + 5) % Size]

Call ==
  \E n \in 0 .. Len(cells) - 4 :     \* the arguments
    /\ out'[1] = "call"
    /\ LET fn == out'[2]  args == out'[3]
       IN  /\ fn \in Nth(1).vals
           /\ DOMAIN args = 1 .. n
           /\ \A i \in 1 .. n : args[i] \in Nth(n + 2 - i).vals
           /\ mem' = Effect(mem)
           /\ \/ cells' = Aged(Below(n + 4), mem')
              \/ cells' = Append(Aged(Below(n + 4), mem'), Constant(Result(fn, args)))
    /\ UNCHANGED base

(* JT jumps if the value is not FALSE, JF if it is. *)
Jump ==
  /\ cells # <<>>
  /\ \E f \in {"jt", "jf"}, v \in Nth(1).vals :
       out' = <<f, IF f = "jt" THEN v # False ELSE v = False>>
  /\ cells' = Below(1)
  /\ UNCHANGED <<mem, base>>

(* The temporary results become declared locals. *)
Store ==
  /\ mem' \in [Word -> Word]
  /\ \A x \in Word : IF x - base + 1 \in DOMAIN cells
                     THEN mem'[x] \in cells[x - base + 1].vals
                     ELSE mem'[x] = mem[x]
  /\ base' = base + Len(cells)
  /\ cells' = <<>> /\ UNCHANGED out

(* The end of a block, or of the use of some results. *)
Stack ==
  \/ \E n \in 1 .. Len(cells) : cells' = Below(n) /\ UNCHANGED <<mem, base, out>>
  \/ /\ cells = <<>>
     /\ \E n \in 3 .. base - 1 :
          base' = n /\ mem' = [x \in Word |-> IF x \in n .. Frame - 1 THEN 0 ELSE mem[x]]
     /\ UNCHANGED <<cells, out>>

(* At a label everything has been evaluated. *)
Label == cells' = [i \in DOMAIN cells |-> Known(cells[i])] /\ UNCHANGED <<mem, base, out>>

Next == Evaluate \/ Assign \/ Call \/ Jump \/ Store \/ Stack \/ Label

Spec == Init /\ [][Next]_<<mem, base, cells, out>>
=============================================================================
