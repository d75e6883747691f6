------------------------------ MODULE Emission ------------------------------
(***************************************************************************)
(* The instructions that the code generator cintcode/com/bcplcgcin.b       *)
(* chooses for an operation: the shortest form of a load, a store or a     *)
(* call for the number in it, the form of a conditional jump for where its *)
(* operands are, and the mixture of tests and tables for a SWITCHON.       *)
(*                                                                         *)
(* Code is a sequence of items: a byte, a halfword, a relative instruction *)
(* that refers to a label, the 16-bit offset of a label, a label, and the  *)
(* padding to an even address.  Assembled turns it into bytes; here every  *)
(* reference is close enough to be direct.                                 *)
(***************************************************************************)
EXTENDS Integers, Sequences, SequencesExt, TLC

CONSTANT
  WordBytes   \* the bytes of a word operand

Byte(v)     == [t |-> "byte", v |-> v % 256, l |-> <<>>]
Half(v)     == [t |-> "half", v |-> v, l |-> <<>>]
Rel(f, l)   == [t |-> "rel",  v |-> f, l |-> l]
Offset(l)   == [t |-> "ref",  v |-> 0, l |-> l]
Label(l)    == [t |-> "lab",  v |-> 0, l |-> l]
Even        == [t |-> "even", v |-> 0, l |-> <<>>]

Gen(f)     == <<Byte(f)>>
Genb(f, x) == <<Byte(f), Byte(x)>>
Genh(f, x) == <<Byte(f), Byte(x), Byte(x \div 256)>>
Genw(f, x) == <<Byte(f)>> \o [k \in 1 .. WordBytes |-> Byte(x \div 256 ^ (k - 1))]
Genr(f, l) == <<Rel(f, l)>>

(* The byte, halfword or word form of an instruction with operand n. *)
Gensized(f, n) == CASE n \in 0 .. 255   -> Genb(f, n)
                    [] n \in 256 .. 65535 -> Genh(f + 1, n)
                    [] OTHER            -> Genw(f + 2, n)

Gensp(s) == IF s \in 3 .. 16 THEN Gen(160 + s) ELSE Gensized(160, s)
Genlp(n) == IF n \in 3 .. 16 THEN Gen(128 + n) ELSE Gensized(128, n)
Genllp(n) == Gensized(64, n)
Genap(n) == IF n \in 3 .. 12 THEN Gen(192 + n) ELSE Gensized(192, n)

Geng(f, n) == CASE n < 256 -> Genb(f, n)
                [] n \in 256 .. 511 -> Genb(f + 32, n - 256)
                [] OTHER -> Genh(f + 64, n)

Cgloadk(n) ==
  CASE n \in -1 .. 10      -> Gen(16 + n)
    [] n \in 11 .. 255     -> Genb(96, n)
    [] n \in -255 .. -2    -> Genb(14, -n)
    [] n \in 256 .. 65535  -> Genh(97, n)
    [] n \in -65535 .. -256 -> Genh(206, -n)
    [] OTHER               -> Genw(98, n)

(* Faulty: the byte form is used for 256 too. *)
CgaddkWide(k) ==
  CASE k = 0                -> <<>>
    [] k \in 6 .. 256       -> Genb(224, k)
    [] k \in -255 .. -1     -> Genb(237, -k)
    [] OTHER                -> Genw(226, k)

Cgaddk(k) ==
  CASE k = 0                -> <<>>
    [] k \in 1 .. 5         -> Gen(208 + k)
    [] k \in -4 .. -1       -> Gen(176 - k)
    [] k \in 6 .. 255       -> Genb(224, k)
    [] k \in -255 .. -5     -> Genb(237, -k)
    [] k \in 256 .. 65535   -> Genh(225, k)
    [] k \in -65535 .. -256 -> Genh(238, -k)
    [] OTHER                -> Genw(226, k)

(* The end of cgapply: the function is global n, or its address is in A. *)
CallGlobal(k, n) == Geng(32 + k, n)
CallA(k) == IF k \in 3 .. 11 THEN Gen(k) ELSE Gensized(32, k)

-----------------------------------------------------------------------------
(* Conditional jumps.  f is the jump for "arg2 f arg1".                    *)
Jmpfn == [eq |-> 28, ne |-> 60, ls |-> 92, gr |-> 124, le |-> 156, ge |-> 188]
Jfn0(f) == f + 2

(* Faulty: the operands are exchanged and the jump is not. *)
RevjfnSame(f) == f
Revjfn(f) == CASE f = 92 -> 124 [] f = 124 -> 92 [] f = 156 -> 188
               [] f = 188 -> 156 [] OTHER -> f
Compjfn(f) == CASE f = 28 -> 60  [] f = 60 -> 28  [] f = 92 -> 188
                [] f = 188 -> 92 [] f = 124 -> 156 [] f = 156 -> 124

(* Where prepj finds the operands: arg2 in B and arg1 in A, the other way  *)
(* round, or one of them the constant 0 and the other in A.                *)
Places == {"ba", "ab", "0a", "a0"}
Prepj(f, place) == CASE place = "ba" -> f
                     [] place = "ab" -> Revjfn(f)
                     [] place = "a0" -> Jfn0(f)
                     [] place = "0a" -> Jfn0(Revjfn(f))

(* A jump to l if the relation is as sense says. *)
Cgjump(rel, sense, place, l) ==
  Genr(Prepj(IF sense THEN Jmpfn[rel] ELSE Compjfn(Jmpfn[rel]), place), l)

(* The value of a relation: TRUE is -1, FALSE is 0. *)
Cgrelation(rel, place) == Genb(Prepj(Jmpfn[rel], place), 2) \o Gen(27) \o Gen(15)

Cgabs == Genb(126, 2) \o Gen(241)

-----------------------------------------------------------------------------
(* SWITCHON.  K is the sequence of the case constants in rising order; the *)
(* label of case k is <<"case", k>>, that of the default <<"default">>.    *)
Default == <<"default">>
Case(k) == <<"case", k>>

(* The root of the balanced tree over the places q+1 .. q+n.  *)
Rootpos(lo, hi) ==
  LET n == hi - lo
      Pow[s \in Nat] == IF s > n THEN s \div 2 ELSE Pow[2 * s]
      s == Pow[2]
      r == n - s + 1
  IN  IF s <= 2 * r THEN lo + s ELSE lo + s \div 2 + r

(* The place in rising order of element i of a heap of n: go from the root *)
(* down to i, halving the interval.                                        *)
Findpos(i, n) ==
  LET Within[j \in Nat] ==    \* the interval of the subtree of element j
        IF j = 1 THEN <<0, n>>
        ELSE LET up == Within[j \div 2]
                 r  == Rootpos(up[1], up[2])
             IN  IF j % 2 = 0 THEN <<up[1], r - 1>> ELSE <<r, up[2]>>
  IN  Rootpos(Within[i][1], Within[i][2])

(* The constants of the region lo .. hi less their offset d. *)
Switchb(K, lo, hi) ==
  LET n == hi - lo + 1
      d == IF K[lo] < 0 \/ K[hi] > 65535 THEN K[lo] ELSE 0
      Pair(i) == LET k == K[hi + 1 - Findpos(i, n)]
                 IN  <<Half(k - d), Offset(Case(k))>>
  IN     Cgaddk(-d) \o Gen(146) \o <<Even, Half(n), Offset(Default)>>
      \o FlattenSeq([i \in 1 .. n |-> Pair(i)])
      \o FlattenSeq([i \in 1 .. (IF n < 7 THEN 7 - n ELSE 0) |->
                       <<Half(0), Offset(Default)>>])

Switchl(K, lo, hi) ==
  LET d == IF K[lo] < 0 \/ K[lo] > 1 \/ K[hi] > 65535 THEN K[lo] ELSE 0
      n == K[hi] - d + 1
      Cases == {K[i] : i \in lo .. hi}
  IN     Cgaddk(-d) \o Gen(147) \o <<Even, Half(n), Offset(Default)>>
      \o [k \in 1 .. n |-> Offset(IF k - 1 + d \in Cases THEN Case(k - 1 + d) ELSE Default)]

Switchseg(K, lo, hi) ==
  IF 2 * (hi - lo + 1) < K[hi] - K[lo] THEN Switchb(K, lo, hi) ELSE Switchl(K, lo, hi)

(* The case constants around r that fit a table with case m. *)
(* Faulty: one more than a halfword can hold. *)
NearOr(x, y) == y - x \in 0 .. 65536

Near(x, y) == y - x \in 0 .. 65535
FirstOf(K, lo, m) ==
  LET Down[r \in Int] == IF lo < r /\ Near(K[r - 1], K[m]) THEN Down[r - 1] ELSE r
  IN  Down[m]
LastOf(K, hi, m, r) ==
  LET Up[s \in Int] == IF s < hi /\ Near(K[r], K[s + 1]) THEN Up[s + 1] ELSE s
  IN  Up[m]

(* The switch value is in A; or, if inba, in B and A holds aval. *)
Compare(k, inba, aval) == IF inba THEN Cgaddk(k - aval) ELSE Cgloadk(k)

(* Tests for equality with cases lo .. hi, and then the default. *)
Tests(K, lo, hi, inba, aval) ==
     FlattenSeq([j \in 1 .. hi - lo + 1 |->
       LET i == lo + j - 1
       IN  Compare(K[i], inba \/ j > 1, IF j > 1 THEN K[i - 1] ELSE aval)
           \o Genr(28, Case(K[i]))])
  \o Genr(186, Default)

RECURSIVE Switcht(_, _, _, _, _)
Switcht(K, lo, hi, inba, aval) ==
  IF hi < lo THEN Genr(186, Default)
  ELSE IF hi = lo THEN Tests(K, lo, hi, inba, aval)
  ELSE
    LET n == hi - lo + 1
        m == (lo + hi) \div 2
        r == FirstOf(K, lo, m)
        s == LastOf(K, hi, m, r)
        Split(f, k, last) ==      \* f jumps to the part after case "last"
             Compare(k, inba, aval) \o Genr(f, <<"part", lo, hi>>)
          \o Switcht(K, lo, last, TRUE, k) \o <<Label(<<"part", lo, hi>>)>>
          \o Switcht(K, last + 1, hi, TRUE, k)
    IN  CASE n <= 3 /\ (lo < r \/ s < hi) -> Tests(K, lo, hi, inba, aval)
          [] r # lo /\ n > 3 -> Split(188, K[r], r - 1)
          [] r = lo /\ s # hi /\ n > 3 -> Split(124, K[s], s)
          [] OTHER -> (IF inba THEN Gen(181) ELSE <<>>) \o Switchseg(K, lo, hi)

Cgswitch(cases) ==
  LET K == SortSeq(cases, LAMBDA x, y : x < y)
  IN  Switcht(K, 1, Len(K), FALSE, 0)

-----------------------------------------------------------------------------
(* The bytes of an item that begins at address x, given the addresses of   *)
(* the labels, and how many there are.                                     *)
Size(item, x) == CASE item.t = "byte" -> 1
                   [] item.t = "lab"  -> 0
                   [] item.t = "even" -> x % 2
                   [] OTHER           -> 2

Placed(code, start) ==     \* the address of every item, and of the end
  LET Addr[i \in Nat] ==
        IF i = 1 THEN start ELSE Addr[i - 1] + Size(code[i - 1], Addr[i - 1])
  IN  [i \in 1 .. Len(code) + 1 |-> Addr[i]]

Bytes2(v) == <<v % 256, (v \div 256) % 256>>

Assembled(code, start, ext) ==
  LET addr == Placed(code, start)
      To(l) == IF \E i \in DOMAIN code : code[i] = Label(l)
               THEN addr[CHOOSE i \in DOMAIN code : code[i] = Label(l)]
               ELSE ext[l]
  IN  FlattenSeq([i \in DOMAIN code |->
        LET item == code[i]
        IN  CASE item.t = "byte" -> <<item.v>>
              [] item.t = "half" -> Bytes2(item.v)
              [] item.t = "rel"  -> <<item.v, (To(item.l) - addr[i] - 1) % 256>>
              [] item.t = "ref"  -> Bytes2(To(item.l) - addr[i])
              [] item.t = "even" -> [k \in 1 .. addr[i] % 2 |-> 0]
              [] OTHER           -> <<>>])
=============================================================================
