-------------------------- MODULE TranslateProofs ---------------------------
(***************************************************************************)
(* Proofs about the code generator, for any program, memory and number of  *)
(* items in the simulated stack: what each of its procedures leaves of the *)
(* simulated stack, the lists and the registers, in the order of the code; *)
(* from these the inductive invariant; and the theorems at the end.        *)
(***************************************************************************)
EXTENDS Translate, LeastNumber, SequenceTheorems, TLAPS

-----------------------------------------------------------------------------
(* Descriptors.  Lists name what can be loaded; items may be in A or in B, *)
(* and in C while a byte is stored.                                        *)
Words    == 0 .. Size - 1
Simple   == [k : Kinds, i : Nat \cup {-1}, n : Words]
KindOf(d) == d.k = Kind(d.n)
Variables == {d \in Simple : KindOf(d)}
Loadable == Variables \cup [k : {"numb"}, i : {-1}, n : Int]
                      \cup [k : {"lv"}, i : {-1}, n : Words]
Basic    == Variables \cup {InA, InB}
Items    == Loadable \cup {InA, InB}
Anywhere == Items \cup {InC}
Pendings == {"none", "neg"} \cup Dyadic

Fields(E) ==
  [ss : Seq([d : E, s : Words]), ssp : Nat, pending : Pendings,
   ia : SUBSET Loadable, ib : SUBSET Loadable,
   a : Words, b : Words, c : Words, m : [Words -> Words]]

(* SS describes the cells below ssp, and the machine has words in it.      *)
Stacked(r) ==
  /\ Len(r.ss) >= 2 /\ Len(r.ss) <= program.items /\ Len(r.ss) <= r.ssp /\ r.ssp <= Frame
  /\ \A t \in 1 .. Len(r.ss) : r.ss[t].s = r.ssp - 1 - Len(r.ss) + t
Typed(r, E) ==
  /\ r \in Fields(E) /\ Basic \subseteq E /\ E \subseteq Anywhere
  /\ program.items \in Nat /\ program.items >= 3
  /\ Stacked(r)

(* The lists are true of the registers. *)
Held(r) ==
  /\ \A d \in r.ia : Value(r, d) = r.a
  /\ \A d \in r.ib : Value(r, d) = r.b

LEMMA Sizes ==
  /\ Size \in Nat /\ Frame \in Nat /\ Entered \in Nat /\ Globals \in Nat
  /\ Frame >= 5 /\ Frame < Size /\ Entered >= 4 /\ Entered < Frame
  /\ Initial \in [Words -> Words]
  BY TranslateAssumption DEF Words

LEMMA Tops ==
  ASSUME NEW r, NEW E, Typed(r, E)
  PROVE  /\ r.ss \in Seq([d : E, s : Words]) /\ r.ssp \in Nat /\ r.pending \in Pendings
         /\ r.ia \in SUBSET Loadable /\ r.ib \in SUBSET Loadable
         /\ r.a \in Words /\ r.b \in Words /\ r.c \in Words /\ r.m \in [Words -> Words]
         /\ Len(r.ss) \in Nat /\ Len(r.ss) >= 2 /\ Len(r.ss) <= r.ssp /\ r.ssp <= Frame
         /\ Len(r.ss) <= program.items /\ Top(r) = Len(r.ss)
         /\ program.items \in Nat /\ program.items >= 3
         /\ Basic \subseteq E /\ E \subseteq Anywhere
  BY DEF Typed, Fields, Stacked, Top

LEMMA TopNumbers ==
  ASSUME NEW r, NEW E, Typed(r, E)
  PROVE  /\ r.ssp \in Nat /\ Len(r.ss) \in Nat /\ program.items \in Nat /\ Frame \in Nat
         /\ Size \in Nat /\ Len(r.ss) >= 2 /\ Len(r.ss) <= r.ssp /\ r.ssp <= Frame
         /\ Len(r.ss) <= program.items /\ program.items >= 3 /\ Frame < Size
         /\ Top(r) = Len(r.ss)
  BY Tops, Sizes

(* The item t, and the cell it stands for. *)
LEMMA ItemAt ==
  ASSUME NEW r, NEW E, Typed(r, E), NEW t \in 1 .. Len(r.ss)
  PROVE  /\ r.ss[t] \in [d : E, s : Words] /\ r.ss[t].d \in E
         /\ r.ss[t].s = r.ssp - 1 - Len(r.ss) + t
         /\ r.ss[t].s \in Words /\ r.ss[t].s < Frame /\ Loc(r.ss[t].s) \in Variables
  <1>1. /\ r.ss \in Seq([d : E, s : Words]) /\ r.ssp \in Nat /\ Len(r.ss) \in Nat
        /\ Len(r.ss) <= r.ssp /\ r.ssp <= Frame
    BY Tops
  <1>2. r.ss[t] \in [d : E, s : Words] /\ r.ss[t].d \in E /\ r.ss[t].s \in Words
    <2>1. r.ss[t] \in [d : E, s : Words]
      BY <1>1, ElementOfSeq
    <2> QED
      BY <2>1
  <1>3. r.ss[t].s = r.ssp - 1 - Len(r.ss) + t
    BY DEF Typed, Stacked
  <1>4. r.ss[t].s < Frame
    BY <1>1, <1>3, Sizes
  <1>5. Loc(r.ss[t].s) \in Variables
    BY <1>2, <1>4 DEF Loc, Desc, Variables, Simple, KindOf, Kind, Kinds
  <1> QED
    BY <1>2, <1>3, <1>4, <1>5

LEMMA VariableIs ==
  ASSUME NEW x \in Words
  PROVE  /\ Desc(Kind(x), x) \in Variables /\ Desc(Kind(x), x).i = -1
         /\ Desc(Kind(x), x).n = x
         /\ x < Frame => Loc(x) = Desc(Kind(x), x)
  BY DEF Loc, Desc, Variables, Simple, KindOf, Kind, Kinds

LEMMA ModWord ==
  ASSUME NEW x \in Int
  PROVE  x % Size \in Words
  BY Sizes DEF Words

LEMMA ValueIsWord ==
  ASSUME NEW r, NEW E, Typed(r, E), NEW d \in Anywhere
  PROVE  Value(r, d) \in Words
  <1>1. /\ r.a \in Words /\ r.b \in Words /\ r.c \in Words /\ r.m \in [Words -> Words]
    BY Tops
  <1>2. CASE d \in {InA, InB, InC}
    <2>1. InA.k = "a" /\ InB.k = "b" /\ InC.k = "c"
      BY DEF InA, InB, InC, Desc
    <2> QED
      BY <1>1, <1>2, <2>1 DEF Value, Kinds
  <1>3. CASE d \in Variables
    <2>1. d.k \in Kinds /\ d.n \in Words /\ d.i \in Nat \cup {-1}
      BY <1>3 DEF Variables, Simple
    <2>2. r.m[d.n] \in Words
      BY <1>1, <2>1
    <2>3. (r.m[d.n] + d.i) % Size \in Words
      BY <2>1, <2>2, ModWord DEF Words
    <2>4. r.m[(r.m[d.n] + d.i) % Size] \in Words
      BY <1>1, <2>3
    <2> QED
      BY <2>1, <2>2, <2>4 DEF Value, Kinds
  <1>4. CASE d \in [k : {"numb"}, i : {-1}, n : Int]
    <2>1. d.k = "numb" /\ d.n \in Int
      BY <1>4
    <2> QED
      BY <2>1, ModWord DEF Value, Kinds
  <1>5. CASE d \in [k : {"lv"}, i : {-1}, n : Words]
    <2>1. d.k = "lv" /\ d.n \in Words
      BY <1>5
    <2> QED
      BY <2>1 DEF Value, Kinds
  <1> QED
    BY <1>2, <1>3, <1>4, <1>5 DEF Anywhere, Items, Loadable

(* What can be loaded has a value that depends on the memory only.         *)
LEMMA ValueOfMemory ==
  ASSUME NEW r, NEW q, q.m = r.m, NEW d \in Loadable
  PROVE  Value(q, d) = Value(r, d)
  <1>1. d.k \in Kinds \cup {"numb", "lv"}
    BY DEF Loadable, Variables, Simple
  <1> QED
    BY <1>1 DEF Value, Kinds

-----------------------------------------------------------------------------
(* What loads and stores of items leave: the same cells, each where it was *)
(* or in A, in B or in its own word.                                       *)
Moved(q, r, E) ==
  /\ Typed(q, E) /\ Len(q.ss) = Len(r.ss) /\ q.ssp = r.ssp /\ q.pending = r.pending
  /\ Held(r) => Held(q)
  /\ \A u \in 1 .. Len(r.ss) : q.ss[u].d \in {r.ss[u].d, InA, InB, Loc(r.ss[u].s)}

LEMMA MovedSelf ==
  ASSUME NEW r, NEW E, Typed(r, E)
  PROVE  Moved(r, r, E)
  BY DEF Moved

LEMMA MovedTwice ==
  ASSUME NEW p, NEW q, NEW r, NEW E, Typed(r, E), Moved(q, r, E), Moved(p, q, E)
  PROVE  Moved(p, r, E)
  <1>1. /\ Typed(q, E) /\ Typed(p, E) /\ Len(q.ss) = Len(r.ss) /\ q.ssp = r.ssp
        /\ q.pending = r.pending /\ Len(p.ss) = Len(r.ss) /\ p.ssp = r.ssp
        /\ p.pending = r.pending /\ (Held(r) => Held(p))
    BY DEF Moved
  <1>2. ASSUME NEW u \in 1 .. Len(r.ss)
        PROVE  p.ss[u].d \in {r.ss[u].d, InA, InB, Loc(r.ss[u].s)}
    <2>1. r.ss[u].s = q.ss[u].s
      <3>1. r.ss[u].s = r.ssp - 1 - Len(r.ss) + u
        BY ItemAt
      <3>2. q.ss[u].s = q.ssp - 1 - Len(q.ss) + u
        BY <1>1, ItemAt
      <3> QED
        BY <1>1, <3>1, <3>2
    <2>2. q.ss[u].d \in {r.ss[u].d, InA, InB, Loc(r.ss[u].s)}
      BY DEF Moved
    <2>3. p.ss[u].d \in {q.ss[u].d, InA, InB, Loc(q.ss[u].s)}
      BY <1>1 DEF Moved
    <2> QED
      BY <2>1, <2>2, <2>3
  <1> QED
    BY <1>1, <1>2 DEF Moved

LEMMA RegisterSources ==
  /\ InA \in Items /\ InB \in Items /\ Variables \subseteq Items
  /\ InA \in Basic /\ InB \in Basic /\ Variables \subseteq Basic
  BY DEF Items, Loadable, Basic

LEMMA ItemsAre ==
  /\ Basic \subseteq Items /\ Items \subseteq Anywhere
  /\ [k : {"lv"}, i : {-1}, n : Words] \subseteq Items
  /\ [k : {"numb"}, i : {-1}, n : Int] \subseteq Items
  BY DEF Items, Anywhere, Basic, Loadable

(* What could be loaded can still be.                                      *)
LEMMA MovedSources ==
  ASSUME NEW q, NEW r, NEW E, Typed(r, E), Moved(q, r, E), NEW u \in 1 .. Len(r.ss),
         r.ss[u].d \in Items
  PROVE  q.ss[u].d \in Items
  <1>1. Loc(r.ss[u].s) \in Items
    BY ItemAt, RegisterSources
  <1> QED
    BY <1>1, RegisterSources DEF Moved

LEMMA HeldBy ==
  ASSUME NEW q, NEW r, NEW E, Typed(r, E), q.m = r.m, q.a = r.a, q.b = r.b,
         q.ia = r.ia, q.ib = r.ib
  PROVE  Held(q) <=> Held(r)
  <1>1. \A d \in r.ia \cup r.ib : Value(q, d) = Value(r, d)
    BY Tops, ValueOfMemory
  <1> QED
    BY <1>1 DEF Held

LEMMA SetIs ==
  ASSUME NEW r, NEW E, Typed(r, E), NEW t \in 1 .. Len(r.ss), NEW d \in E
  PROVE  LET q == Set(r, t, d)
         IN  /\ Typed(q, E) /\ Len(q.ss) = Len(r.ss) /\ q.ssp = r.ssp /\ q.pending = r.pending
             /\ q.a = r.a /\ q.b = r.b /\ q.c = r.c /\ q.m = r.m /\ q.ia = r.ia /\ q.ib = r.ib
             /\ Held(q) <=> Held(r)
             /\ \A u \in 1 .. Len(r.ss) : q.ss[u].d = IF u = t THEN d ELSE r.ss[u].d
  <1> DEFINE x == [r.ss EXCEPT ![t].d = d]
             q == [r EXCEPT !.ss = x]
  <1>1. /\ r.ss \in Seq([d : E, s : Words]) /\ Len(r.ss) \in Nat
    BY Tops
  <1>2. \A u \in 1 .. Len(r.ss) : r.ss[u] \in [d : E, s : Words]
    BY ItemAt
  <1>3. /\ x \in Seq([d : E, s : Words]) /\ Len(x) = Len(r.ss)
        /\ \A u \in 1 .. Len(r.ss) : /\ x[u].d = IF u = t THEN d ELSE r.ss[u].d
                                     /\ x[u].s = r.ss[u].s
    <2>1. DOMAIN r.ss = 1 .. Len(r.ss)
      BY <1>1
    <2>2. x \in [1 .. Len(r.ss) -> [d : E, s : Words]]
      BY <1>1, <1>2, <2>1
    <2>3. x \in Seq([d : E, s : Words]) /\ Len(x) = Len(r.ss)
      <3> HIDE DEF x
      <3> QED
        BY <1>1, <2>2, SeqDef
    <2>4. ASSUME NEW u \in 1 .. Len(r.ss)
          PROVE  x[u].d = (IF u = t THEN d ELSE r.ss[u].d) /\ x[u].s = r.ss[u].s
      BY <1>1, <1>2, <2>1
    <2> QED
      BY <2>3, <2>4
  <1> HIDE DEF x
  <1>4. t # 0 /\ Set(r, t, d) = q
    BY <1>1 DEF Set, x
  <1>5. r \in Fields(E)
    BY DEF Typed
  <1>6. q \in Fields(E) /\ q.ss = x /\ q.ssp = r.ssp /\ q.pending = r.pending
        /\ q.a = r.a /\ q.b = r.b /\ q.c = r.c /\ q.m = r.m /\ q.ia = r.ia /\ q.ib = r.ib
    BY <1>3, <1>5 DEF Fields
  <1> HIDE DEF q
  <1>7. Typed(q, E)
    BY <1>3, <1>6 DEF Typed, Stacked
  <1>8. Held(q) <=> Held(r)
    BY <1>6, HeldBy
  <1> QED
    BY <1>3, <1>4, <1>6, <1>7, <1>8

LEMMA SetMoves ==
  ASSUME NEW r, NEW E, Typed(r, E), NEW t \in 1 .. Len(r.ss),
         NEW d \in {InA, InB, Loc(r.ss[t].s)}
  PROVE  Moved(Set(r, t, d), r, E)
  <1>1. d \in E
    BY ItemAt, RegisterSources, Tops
  <1> QED
    BY <1>1, SetIs DEF Moved

(* Instructions that change registers and lists only.                      *)
LEMMA RegistersMove ==
  ASSUME NEW q, NEW r, NEW E, Typed(r, E), q \in Fields(E),
         q.ss = r.ss, q.ssp = r.ssp, q.pending = r.pending, Held(r) => Held(q)
  PROVE  Moved(q, r, E)
  BY DEF Moved, Typed, Stacked

LEMMA LoadMoves ==
  ASSUME NEW r, NEW E, Typed(r, E), NEW d \in Loadable
  PROVE  Moved(GenLoad(r, d), r, E)
  <1> DEFINE v == Value(r, d)
             q == [r EXCEPT !.b = r.a, !.a = v, !.ib = r.ia, !.ia = {d}]
  <1>1. v \in Words
    BY ValueIsWord DEF Anywhere, Items
  <1>2. q = GenLoad(r, d)
    BY DEF GenLoad
  <1>3. r \in Fields(E) /\ r.a \in Words /\ r.ia \in SUBSET Loadable
    BY Tops DEF Typed
  <1> HIDE DEF v
  <1>4. /\ q \in Fields(E) /\ q.ss = r.ss /\ q.ssp = r.ssp /\ q.pending = r.pending
        /\ q.m = r.m /\ q.a = v /\ q.b = r.a /\ q.ia = {d} /\ q.ib = r.ia
    BY <1>1, <1>3 DEF Fields
  <1> HIDE DEF q
  <1>5. \A e \in r.ia \cup {d} : Value(q, e) = Value(r, e)
    BY <1>3, <1>4, ValueOfMemory
  <1>6. Held(r) => Held(q)
    BY <1>4, <1>5 DEF Held, v
  <1> QED
    BY <1>2, <1>4, <1>6, RegistersMove

LEMMA XchMoves ==
  ASSUME NEW r, NEW E, Typed(r, E)
  PROVE  Moved(GenXch(r), r, E)
  <1> DEFINE q == [r EXCEPT !.b = r.a, !.a = r.b, !.ib = r.ia, !.ia = r.ib]
  <1>1. q = GenXch(r)
    BY DEF GenXch
  <1>2. r \in Fields(E) /\ r.ia \in SUBSET Loadable /\ r.ib \in SUBSET Loadable
    BY Tops DEF Typed
  <1>3. /\ q \in Fields(E) /\ q.ss = r.ss /\ q.ssp = r.ssp /\ q.pending = r.pending
        /\ q.m = r.m /\ q.a = r.b /\ q.b = r.a /\ q.ia = r.ib /\ q.ib = r.ia
    BY <1>2 DEF Fields
  <1> HIDE DEF q
  <1>4. \A e \in r.ia \cup r.ib : Value(q, e) = Value(r, e)
    BY <1>2, <1>3, ValueOfMemory
  <1>5. Held(r) => Held(q)
    BY <1>3, <1>4 DEF Held
  <1> QED
    BY <1>1, <1>3, <1>5, RegistersMove

LEMMA AtbMoves ==
  ASSUME NEW r, NEW E, Typed(r, E)
  PROVE  Moved(GenAtb(r), r, E)
  <1> DEFINE q == [r EXCEPT !.b = r.a, !.ib = r.ia]
  <1>1. q = GenAtb(r)
    BY DEF GenAtb
  <1>2. r \in Fields(E) /\ r.ia \in SUBSET Loadable
    BY Tops DEF Typed
  <1>3. /\ q \in Fields(E) /\ q.ss = r.ss /\ q.ssp = r.ssp /\ q.pending = r.pending
        /\ q.m = r.m /\ q.a = r.a /\ q.b = r.a /\ q.ia = r.ia /\ q.ib = r.ia
    BY <1>2 DEF Fields
  <1> HIDE DEF q
  <1>4. \A e \in r.ia : Value(q, e) = Value(r, e)
    BY <1>2, <1>3, ValueOfMemory
  <1>5. Held(r) => Held(q)
    BY <1>3, <1>4 DEF Held
  <1> QED
    BY <1>1, <1>3, <1>5, RegistersMove

LEMMA OpMoves ==
  ASSUME NEW r, NEW E, Typed(r, E), NEW v \in Words
  PROVE  Moved(GenOp(r, v), r, E)
  <1> DEFINE q == [r EXCEPT !.a = v, !.ia = {}]
  <1>1. r \in Fields(E) /\ r.ib \in SUBSET Loadable
    BY Tops DEF Typed
  <1>2. q = GenOp(r, v)
    BY <1>1 DEF GenOp, ForgetA, Fields
  <1>3. /\ q \in Fields(E) /\ q.ss = r.ss /\ q.ssp = r.ssp /\ q.pending = r.pending
        /\ q.m = r.m /\ q.a = v /\ q.b = r.b /\ q.ia = {} /\ q.ib = r.ib
    BY <1>1 DEF Fields
  <1> HIDE DEF q
  <1>4. \A e \in r.ib : Value(q, e) = Value(r, e)
    BY <1>1, <1>3, ValueOfMemory
  <1>5. Held(r) => Held(q)
    BY <1>3, <1>4 DEF Held
  <1> QED
    BY <1>2, <1>3, <1>5, RegistersMove

(* Nothing is believed any more. *)
LEMMA ForgetMoves ==
  ASSUME NEW r, NEW E, Typed(r, E)
  PROVE  Moved(ForgetAll(r), r, E) /\ Held(ForgetAll(r))
  <1> DEFINE q == [r EXCEPT !.ib = {}, !.ia = {}]
  <1>1. r \in Fields(E)
    BY DEF Typed
  <1>2. q = ForgetAll(r)
    BY <1>1 DEF ForgetAll, ForgetA, ForgetB, Fields
  <1>3. /\ q \in Fields(E) /\ q.ss = r.ss /\ q.ssp = r.ssp /\ q.pending = r.pending
        /\ q.ia = {} /\ q.ib = {}
    BY <1>1 DEF Fields
  <1> HIDE DEF q
  <1>4. Held(q)
    BY <1>3 DEF Held
  <1> QED
    BY <1>2, <1>3, <1>4, RegistersMove

(* A store: the values of other simple variables, of numbers and of        *)
(* addresses stay.                                                         *)
LEMMA ValueAfterStore ==
  ASSUME NEW r, NEW q, NEW x \in Words, NEW v, r.m \in [Words -> Words],
         q.m = [r.m EXCEPT ![x] = v], NEW d \in Loadable,
         d.k \in Kinds => d.i = -1 /\ d.n # x
  PROVE  Value(q, d) = Value(r, d)
  <1>1. d.k \in Kinds \cup {"numb", "lv"} /\ (d.k \in Kinds => d.n \in Words)
    BY DEF Loadable, Variables, Simple, Kinds
  <1>2. d.k \in Kinds => q.m[d.n] = r.m[d.n]
    BY <1>1
  <1> QED
    BY <1>1, <1>2 DEF Value, Kinds

LEMMA KeepMoves ==
  ASSUME NEW r, NEW E, Typed(r, E), NEW d \in Variables, d.i = -1
  PROVE  Moved(Keep(GenStore(r, d.n, r.a), d), r, E)
  <1> DEFINE w == [r.m EXCEPT ![d.n] = r.a]
             ja == {e \in r.ia : Unchanged(d, e)} \cup {d}
             jb == {e \in r.ib : Unchanged(d, e)}
             q == [r EXCEPT !.m = w, !.ia = ja, !.ib = jb]
  <1>1. /\ r \in Fields(E) /\ r.ia \in SUBSET Loadable /\ r.ib \in SUBSET Loadable
        /\ r.m \in [Words -> Words] /\ r.a \in Words /\ d.n \in Words /\ d \in Loadable
        /\ d.k \in Kinds
    BY Tops DEF Typed, Variables, Simple, Loadable
  <1>2. q = Keep(GenStore(r, d.n, r.a), d)
    BY <1>1 DEF Keep, GenStore, ForgetVar, Fields
  <1>3. w \in [Words -> Words] /\ w[d.n] = r.a
    BY <1>1
  <1>4. ja \in SUBSET Loadable /\ jb \in SUBSET Loadable
    BY <1>1
  <1> HIDE DEF w, ja, jb
  <1>5. /\ q \in Fields(E) /\ q.ss = r.ss /\ q.ssp = r.ssp /\ q.pending = r.pending
        /\ q.m = w /\ q.a = r.a /\ q.b = r.b /\ q.ia = ja /\ q.ib = jb
    BY <1>1, <1>3, <1>4 DEF Fields
  <1> HIDE DEF q
  <1>6. ASSUME NEW e \in r.ia \cup r.ib, Unchanged(d, e)
        PROVE  Value(q, e) = Value(r, e)
    <2>1. e \in Loadable /\ e.i = -1 /\ e # d
      BY <1>1, <1>6 DEF Unchanged
    <2>2. e.k \in Kinds => e.n # d.n
      <3>1. SUFFICES ASSUME e.k \in Kinds, e.n = d.n PROVE FALSE
        OBVIOUS
      <3>2. e \in Variables
        BY <2>1, <3>1 DEF Loadable, Kinds
      <3>3. e.k = d.k
        BY <3>1, <3>2 DEF Variables, KindOf
      <3> QED
        BY <2>1, <3>1, <3>2, <3>3 DEF Variables, Simple
    <2> QED
      BY <1>1, <1>5, <2>1, <2>2, ValueAfterStore DEF w
  <1>7. Value(q, d) = r.a
    BY <1>1, <1>3, <1>5 DEF Value, Kinds
  <1>8. Held(r) => Held(q)
    BY <1>5, <1>6, <1>7 DEF Held, ja, jb
  <1> QED
    BY <1>2, <1>5, <1>8, RegistersMove

-----------------------------------------------------------------------------
(* Loading and storing items.                                              *)
LEMMA StoreAMoves ==
  ASSUME NEW r, NEW E, Typed(r, E), NEW t \in 1 .. Len(r.ss)
  PROVE  Moved(StoreA(r, t), r, E)
  <1> DEFINE x == r.ss[t].s
             q == Keep(GenStore(r, x, r.a), Loc(x))
  <1>1. x \in Words /\ x < Frame /\ Loc(x) \in Variables
    BY ItemAt
  <1>2. Loc(x).n = x /\ Loc(x).i = -1
    BY DEF Loc, Desc
  <1>3. Moved(q, r, E)
    <2>1. Moved(Keep(GenStore(r, Loc(x).n, r.a), Loc(x)), r, E)
      BY <1>1, <1>2, KeepMoves
    <2> QED
      BY <1>2, <2>1
  <1>4. StoreA(r, t) = Set(q, t, Loc(x))
    BY DEF StoreA
  <1> HIDE DEF q
  <1>5. Typed(q, E) /\ t \in 1 .. Len(q.ss) /\ q.ss[t].s = x
    <2>1. Typed(q, E) /\ Len(q.ss) = Len(r.ss) /\ q.ssp = r.ssp
      BY <1>3 DEF Moved
    <2>2. q.ss[t].s = q.ssp - 1 - Len(q.ss) + t /\ r.ss[t].s = r.ssp - 1 - Len(r.ss) + t
      BY <2>1, ItemAt
    <2> QED
      BY <2>1, <2>2
  <1>6. Moved(Set(q, t, Loc(x)), q, E)
    BY <1>5, SetMoves
  <1> QED
    BY <1>3, <1>4, <1>6, MovedTwice

LEMMA GreatestOf ==
  ASSUME NEW n \in Nat, NEW T \in SUBSET (1 .. n), T # {}
  PROVE  \E t \in T : \A u \in T : u <= t
  <1> DEFINE U == {k \in Nat : \E t \in T : k = n - t}
  <1>1. PICK t \in T : TRUE
    OBVIOUS
  <1>2. n - t \in U
    OBVIOUS
  <1>3. PICK k \in U : \A j \in U : k <= j
    <2>1. U \in SUBSET Nat /\ U # {}
      BY <1>2
    <2> HIDE DEF U
    <2> QED
      BY <2>1, LeastNat
  <1>4. PICK u \in T : k = n - u
    OBVIOUS
  <1>5. ASSUME NEW w \in T PROVE w <= u
    <2>1. n - w \in U
      OBVIOUS
    <2>2. k <= n - w
      BY <1>3, <2>1
    <2> QED
      BY <1>4, <2>2
  <1> QED
    BY <1>5

LEMMA DumpMoves ==
  ASSUME NEW r, NEW E, Typed(r, E)
  PROVE  Moved(Dump(r), r, E)
  <1> DEFINE inA == {t \in 1 .. Top(r) : r.ss[t].d = InA}
             c == CHOOSE t \in inA : \A u \in inA : u <= t
  <1>1. Dump(r) = IF inA = {} THEN r ELSE StoreA(r, c)
    BY DEF Dump
  <1>2. Top(r) = Len(r.ss) /\ Len(r.ss) \in Nat
    BY Tops
  <1>3. CASE inA # {}
    <2>1. inA \in SUBSET (1 .. Len(r.ss))
      BY <1>2
    <2> HIDE DEF inA
    <2>2. \E t \in inA : \A u \in inA : u <= t
      BY <1>2, <1>3, <2>1, GreatestOf
    <2>3. c \in inA
      BY <2>2
    <2>4. Moved(StoreA(r, c), r, E)
      BY <2>1, <2>3, StoreAMoves
    <2> QED
      BY <1>1, <1>3, <2>4
  <1>4. CASE inA = {}
    BY <1>1, <1>4, MovedSelf
  <1> QED
    BY <1>3, <1>4

LEMMA LoadableUnless ==
  ASSUME NEW d \in Items, d # InA, d # InB
  PROVE  d \in Loadable
  BY DEF Items

LEMMA SetOrNot ==
  ASSUME NEW r, NEW E, Typed(r, E), NEW t \in 0 .. Len(r.ss), NEW d \in {InA, InB}
  PROVE  Moved(Set(r, t, d), r, E)
  <1>1. CASE t = 0
    BY <1>1, MovedSelf DEF Set
  <1>2. CASE t # 0
    <2>1. t \in 1 .. Len(r.ss)
      BY <1>2, Tops
    <2> QED
      BY <2>1, SetMoves
  <1> QED
    BY <1>1, <1>2

LEMMA LoadedMoves ==
  ASSUME NEW r, NEW E, Typed(r, E), NEW x \in 1 .. Len(r.ss), r.ss[x].d \in Items,
         NEW pushing \in BOOLEAN
  PROVE  Moved(Loaded(r, x, pushing), r, E)
  <1> DEFINE d == r.ss[x].d
             u == IF pushing /\ ~InRegB(r, d) THEN GenAtb(r) ELSE r
  <1>1. CASE InRegA(r, d)
    <2>1. Loaded(r, x, pushing) = Set(u, x, InA)
      BY <1>1 DEF Loaded
    <2>2. Moved(u, r, E)
      <3>1. Moved(GenAtb(r), r, E) /\ Moved(r, r, E)
        BY AtbMoves, MovedSelf
      <3> QED
        BY <3>1
    <2> HIDE DEF u
    <2>3. Typed(u, E) /\ x \in 0 .. Len(u.ss)
      BY <2>2 DEF Moved
    <2>4. Moved(Set(u, x, InA), u, E)
      BY <2>3, SetOrNot
    <2> QED
      BY <2>1, <2>2, <2>4, MovedTwice
  <1>2. CASE ~InRegA(r, d) /\ InRegB(r, d)
    <2>1. Loaded(r, x, pushing) = GenXch(r)
      BY <1>2 DEF Loaded
    <2> QED
      BY <2>1, XchMoves
  <1>3. CASE ~InRegA(r, d) /\ ~InRegB(r, d)
    <2>1. Loaded(r, x, pushing) = GenLoad(r, d)
      BY <1>3 DEF Loaded
    <2>2. d \in Loadable
      BY <1>3, LoadableUnless DEF InRegA, InRegB
    <2> QED
      BY <2>1, <2>2, LoadMoves
  <1> QED
    BY <1>1, <1>2, <1>3

LEMMA LoadValMoves ==
  ASSUME NEW r, NEW E, Typed(r, E), NEW x \in 1 .. Len(r.ss), r.ss[x].d \in Items,
         NEW pushing \in BOOLEAN
  PROVE  Moved(LoadVal(r, x, pushing), r, E)
  <1> DEFINE u == IF pushing \/ r.ss[x].d = InA THEN r ELSE Dump(r)
  <1>1. LoadVal(r, x, pushing) = Loaded(u, x, pushing)
    BY DEF LoadVal
  <1>2. Moved(u, r, E)
    <2>1. Moved(Dump(r), r, E) /\ Moved(r, r, E)
      BY DumpMoves, MovedSelf
    <2> QED
      BY <2>1
  <1> HIDE DEF u
  <1>3. Typed(u, E) /\ x \in 1 .. Len(u.ss) /\ u.ss[x].d \in Items
    BY <1>2, MovedSources DEF Moved
  <1>4. Moved(Loaded(u, x, pushing), u, E)
    BY <1>3, LoadedMoves
  <1> QED
    BY <1>1, <1>2, <1>4, MovedTwice

(* Changes one after the other.                                            *)
LEMMA ThenSet ==
  ASSUME NEW q, NEW r, NEW E, Typed(r, E), Moved(q, r, E), NEW t \in 0 .. Len(r.ss),
         NEW d \in {InA, InB}
  PROVE  Moved(Set(q, t, d), r, E)
  <1>1. Typed(q, E) /\ t \in 0 .. Len(q.ss)
    BY DEF Moved
  <1>2. Moved(Set(q, t, d), q, E)
    BY <1>1, SetOrNot
  <1> QED
    BY <1>2, MovedTwice

LEMMA ThenSetBA ==
  ASSUME NEW q, NEW r, NEW E, Typed(r, E), Moved(q, r, E), NEW x \in 0 .. Len(r.ss),
         NEW y \in 0 .. Len(r.ss)
  PROVE  Moved(SetBA(q, x, y), r, E)
  <1>1. Moved(Set(q, x, InB), r, E)
    BY ThenSet
  <1> QED
    BY <1>1, ThenSet DEF SetBA

LEMMA LoadAMoves ==
  ASSUME NEW r, NEW E, Typed(r, E), NEW x \in 1 .. Len(r.ss), r.ss[x].d \in Items
  PROVE  Moved(LoadA(r, x), r, E)
  <1>1. Moved(LoadVal(r, x, FALSE), r, E) /\ x \in 0 .. Len(r.ss)
    <2>1. FALSE \in BOOLEAN
      OBVIOUS
    <2>2. Moved(LoadVal(r, x, FALSE), r, E)
      BY <2>1, LoadValMoves, Zenon
    <2>3. x \in 0 .. Len(r.ss)
      BY Tops
    <2> QED
      BY <2>2, <2>3, Zenon
  <1> QED
    BY <1>1, ThenSet DEF LoadA

LEMMA PushMoves ==
  ASSUME NEW r, NEW E, Typed(r, E), NEW x \in 0 .. Len(r.ss), NEW y \in 1 .. Len(r.ss),
         r.ss[y].d \in Items
  PROVE  Moved(Push(r, x, y), r, E)
  <1>1. Moved(LoadVal(r, y, TRUE), r, E) /\ y \in 0 .. Len(r.ss)
    <2>1. TRUE \in BOOLEAN
      OBVIOUS
    <2>2. Moved(LoadVal(r, y, TRUE), r, E)
      BY <2>1, LoadValMoves, Zenon
    <2>3. y \in 0 .. Len(r.ss)
      BY Tops
    <2> QED
      BY <2>2, <2>3, Zenon
  <1> QED
    BY <1>1, ThenSetBA DEF Push

LEMMA StoreTMoves ==
  ASSUME NEW r, NEW E, Typed(r, E), NEW t \in 1 .. Len(r.ss), r.ss[t].d \in Items
  PROVE  Moved(StoreT(r, t), r, E)
  <1> DEFINE q == LoadA(r, t)
  <1>1. Moved(q, r, E)
    BY LoadAMoves
  <1> HIDE DEF q
  <1>2. Typed(q, E) /\ t \in 1 .. Len(q.ss)
    BY <1>1 DEF Moved
  <1>3. Moved(StoreA(q, t), q, E)
    BY <1>2, StoreAMoves
  <1>4. Moved(StoreA(q, t), r, E)
    BY <1>1, <1>3, MovedTwice
  <1> QED
    BY <1>4, MovedSelf DEF StoreT, q

(* Storing the items of a set, none of which is in C.                      *)
LEMMA StoreItemsMoves ==
  ASSUME NEW r, NEW E, Typed(r, E), NEW I,
         \A t \in 1 .. Len(r.ss) : t \in I => r.ss[t].d \in Items
  PROVE  Moved(StoreItems(r, I), r, E)
  <1> DEFINE n == Top(r)
             T == {q \in Fields(E) : Moved(q, r, E)}
             One(q, t) == IF t \in I THEN StoreT(q, t) ELSE q
             F == [t \in 1 .. n |-> [q \in T |-> One(q, t)]]
             Solves(h) == h = [t \in 0 .. n |-> IF t = 0 THEN r
                                               ELSE IF t \in I THEN StoreT(h[t - 1], t)
                                               ELSE h[t - 1]]
  <1>1. n \in Nat /\ n = Len(r.ss)
    BY Tops
  <1>2. r \in T
    BY MovedSelf DEF Typed
  <1>3. ASSUME NEW q \in T, NEW t \in 1 .. n PROVE One(q, t) \in T
    <2>1. Moved(q, r, E) /\ Typed(q, E) /\ t \in 1 .. Len(q.ss) /\ t \in 1 .. Len(r.ss)
      BY <1>1 DEF Moved
    <2>2. CASE t \in I
      <3>1. q.ss[t].d \in Items
        BY <2>1, <2>2, MovedSources
      <3>2. Moved(StoreT(q, t), q, E)
        BY <2>1, <3>1, StoreTMoves
      <3>3. Moved(StoreT(q, t), r, E)
        BY <2>1, <3>2, MovedTwice
      <3>4. StoreT(q, t) \in Fields(E)
        BY <3>3 DEF Moved, Typed
      <3> QED
        BY <2>2, <3>3, <3>4
    <2>3. CASE t \notin I
      BY <2>3
    <2> QED
      BY <2>2, <2>3
  <1> HIDE DEF n, T
  <1>4. F \in [1 .. n -> [T -> T]]
    <2>1. \A t \in 1 .. n : \A q \in T : One(q, t) \in T
      BY <1>3
    <2> HIDE DEF One
    <2> QED
      BY <2>1
  <1>5. \A t \in 1 .. n : \A q \in T : F[t][q] = One(q, t)
    <2> HIDE DEF One
    <2> QED
      OBVIOUS
  <1> HIDE DEF F
  <1>6. PICK f : Recursion(T, F, r, n, f)
    <2>1. n \in Nat
      BY <1>1
    <2> QED
      BY <2>1, <1>2, <1>4, RecursionTo, Zenon
  <1>7. Solves(f)
    <2>1. ASSUME NEW t \in 0 .. n
          PROVE  f[t] = IF t = 0 THEN r ELSE One(f[t - 1], t)
      <3>1. CASE t = 0
        BY <1>6, <3>1 DEF Recursion
      <3>2. CASE t # 0
        <4>1. t \in 1 .. n /\ t - 1 \in 0 .. n
          BY <1>1, <3>2
        <4>2. f[t - 1] \in T
          BY <1>6, <4>1 DEF Recursion
        <4> QED
          BY <1>5, <1>6, <3>2, <4>1, <4>2 DEF Recursion
      <3> QED
        BY <3>1, <3>2
    <2>2. f = [t \in 0 .. n |-> f[t]]
      BY <1>6 DEF Recursion
    <2> QED
      BY <2>1, <2>2
  <1> DEFINE q == CHOOSE h : Solves(h)
  <1>8. StoreItems(r, I) = q[n]
    BY DEF StoreItems, n
  <1>9. Solves(q)
    <2> HIDE DEF Solves
    <2> QED
      BY <1>7
  <1> HIDE DEF q
  <1>10. q[0] = r /\ \A t \in 1 .. n : q[t] = One(q[t - 1], t)
    <2>1. \A t \in 0 .. n : q[t] = IF t = 0 THEN r ELSE One(q[t - 1], t)
      BY <1>9
    <2>2. 0 \in 0 .. n /\ \A t \in 1 .. n : t \in 0 .. n /\ t # 0
      BY <1>1
    <2> HIDE DEF One
    <2> QED
      BY <2>1, <2>2
  <1> HIDE DEF One, Solves
  <1> DEFINE B == {t \in 0 .. n : q[t] \notin T}
  <1>11. B = {}
    <2>1. SUFFICES ASSUME B # {} PROVE FALSE
      OBVIOUS
    <2>2. PICK t \in B : \A j \in B : t <= j
      <3>1. B \in SUBSET Nat
        OBVIOUS
      <3> HIDE DEF B
      <3> QED
        BY <2>1, <3>1, LeastNat
    <2>3. t \in 0 .. n /\ q[t] \notin T /\ t # 0
      BY <1>2, <1>10
    <2>4. t - 1 \in 0 .. n /\ ~(t <= t - 1) /\ t \in 1 .. n
      BY <1>1, <2>3
    <2>5. q[t - 1] \in T
      BY <2>2, <2>4
    <2> QED
      BY <1>3, <1>10, <2>3, <2>4, <2>5
  <1>12. q[n] \in T
    BY <1>1, <1>11
  <1> QED
    BY <1>8, <1>12 DEF T

LEMMA ThenXch ==
  ASSUME NEW q, NEW r, NEW E, Typed(r, E), Moved(q, r, E)
  PROVE  Moved(GenXch(q), r, E)
  <1>1. Typed(q, E)
    BY DEF Moved
  <1> QED
    BY <1>1, XchMoves, MovedTwice

LEMMA ThenAtb ==
  ASSUME NEW q, NEW r, NEW E, Typed(r, E), Moved(q, r, E)
  PROVE  Moved(GenAtb(q), r, E)
  <1>1. Typed(q, E)
    BY DEF Moved
  <1> QED
    BY <1>1, AtbMoves, MovedTwice

LEMMA ThenPush ==
  ASSUME NEW q, NEW r, NEW E, Typed(r, E), Moved(q, r, E), NEW x \in 0 .. Len(r.ss),
         NEW y \in 1 .. Len(r.ss), r.ss[y].d \in Items
  PROVE  Moved(Push(q, x, y), r, E)
  <1>1. Typed(q, E) /\ Len(q.ss) = Len(r.ss) /\ q.ss[y].d \in Items
    BY MovedSources DEF Moved
  <1>2. Moved(Push(q, x, y), q, E)
    BY <1>1, PushMoves
  <1> QED
    BY <1>2, MovedTwice

LEMMA ThenLoadA ==
  ASSUME NEW q, NEW r, NEW E, Typed(r, E), Moved(q, r, E),
         NEW x \in 1 .. Len(r.ss), r.ss[x].d \in Items
  PROVE  Moved(LoadA(q, x), r, E)
  <1>1. Typed(q, E) /\ Len(q.ss) = Len(r.ss) /\ q.ss[x].d \in Items
    BY MovedSources DEF Moved
  <1>2. Moved(LoadA(q, x), q, E)
    BY <1>1, LoadAMoves
  <1> QED
    BY <1>2, MovedTwice

(* Two items in the registers, either way round.                           *)
LEMMA BothLoadedMoves ==
  ASSUME NEW r, NEW E, Typed(r, E), NEW x \in 1 .. Len(r.ss), NEW y \in 1 .. Len(r.ss),
         r.ss[x].d \in Items, r.ss[y].d \in Items
  PROVE  /\ Moved(BothLoaded(r, x, y).r, r, E)
         /\ BothLoaded(r, x, y).swapped \in BOOLEAN
  <1> DEFINE dx == r.ss[x].d
             dy == r.ss[y].d
             xa == InRegA(r, dx)
             ya == InRegA(r, dy)
             xb == InRegB(r, dx)
             yb == InRegB(r, dy)
             q1 == SetBA(r, x, y)
             q2 == SetBA(r, y, x)
             q3 == SetBA(GenAtb(r), x, y)
             q4 == SetBA(GenAtb(Set(GenXch(r), y, InA)), x, y)
             q5 == Push(r, x, y)
             q6 == Push(r, y, x)
             q7 == Push(Set(GenXch(r), x, InA), x, y)
             q8 == Push(Set(GenXch(r), y, InA), y, x)
             q9 == Push(LoadA(r, x), x, y)
  <1>1. BothLoaded(r, x, y) =
          IF xb /\ ya THEN Both(q1, FALSE) ELSE IF xa /\ yb THEN Both(q2, TRUE)
          ELSE IF xa /\ ya THEN Both(q3, FALSE) ELSE IF xb /\ yb THEN Both(q4, FALSE)
          ELSE IF xa THEN Both(q5, FALSE) ELSE IF ya THEN Both(q6, TRUE)
          ELSE IF xb THEN Both(q7, FALSE) ELSE IF yb THEN Both(q8, TRUE) ELSE Both(q9, FALSE)
    BY DEF BothLoaded
  <1>2. Moved(r, r, E) /\ x \in 0 .. Len(r.ss) /\ y \in 0 .. Len(r.ss)
    BY MovedSelf, Tops
  <1>3. Moved(q1, r, E) /\ Moved(q2, r, E)
    BY <1>2, ThenSetBA
  <1>4. Moved(q3, r, E)
    BY <1>2, AtbMoves, ThenSetBA
  <1>5. Moved(GenXch(r), r, E)
    BY XchMoves
  <1>6. Moved(Set(GenXch(r), x, InA), r, E) /\ Moved(Set(GenXch(r), y, InA), r, E)
    BY <1>2, <1>5, ThenSet
  <1>7. Moved(q4, r, E)
    BY <1>2, <1>6, ThenAtb, ThenSetBA
  <1>8. Moved(q5, r, E) /\ Moved(q6, r, E)
    BY <1>2, ThenPush
  <1>9. Moved(q7, r, E) /\ Moved(q8, r, E)
    BY <1>2, <1>6, ThenPush
  <1>10. Moved(q9, r, E)
    BY <1>2, LoadAMoves, ThenPush
  <1> HIDE DEF q1, q2, q3, q4, q5, q6, q7, q8, q9, xa, xb, ya, yb
  <1>11. \E q \in {q1, q2, q3, q4, q5, q6, q7, q8, q9}, w \in BOOLEAN :
           BothLoaded(r, x, y) = Both(q, w)
    BY <1>1, Zenon
  <1>12. PICK q \in {q1, q2, q3, q4, q5, q6, q7, q8, q9}, w \in BOOLEAN :
           BothLoaded(r, x, y) = Both(q, w)
    BY <1>11
  <1>13. Moved(q, r, E)
    BY <1>3, <1>4, <1>7, <1>8, <1>9, <1>10
  <1> QED
    BY <1>12, <1>13 DEF Both

LEMMA LoadBothMoves ==
  ASSUME NEW r, NEW E, Typed(r, E), NEW x \in 1 .. Len(r.ss), NEW y \in 1 .. Len(r.ss),
         r.ss[x].d \in Items, r.ss[y].d \in Items
  PROVE  Moved(LoadBoth(r, x, y).r, r, E) /\ LoadBoth(r, x, y).swapped \in BOOLEAN
  <1> DEFINE I == {t \in 1 .. Top(r) : t \notin {x, y} /\ r.ss[t].d = InA}
             q == StoreItems(r, I)
  <1>1. LoadBoth(r, x, y) = BothLoaded(q, x, y)
    BY DEF LoadBoth
  <1>2. \A t \in 1 .. Len(r.ss) : t \in I => r.ss[t].d \in Items
    BY RegisterSources
  <1> HIDE DEF I
  <1>3. Moved(q, r, E)
    BY <1>2, StoreItemsMoves
  <1> HIDE DEF q
  <1>4. /\ Typed(q, E) /\ x \in 1 .. Len(q.ss) /\ y \in 1 .. Len(q.ss)
        /\ q.ss[x].d \in Items /\ q.ss[y].d \in Items
    BY <1>3, MovedSources DEF Moved
  <1>5. Moved(BothLoaded(q, x, y).r, q, E) /\ BothLoaded(q, x, y).swapped \in BOOLEAN
    BY <1>4, BothLoadedMoves
  <1> QED
    BY <1>1, <1>3, <1>5, MovedTwice

LEMMA LoadBAMoves ==
  ASSUME NEW r, NEW E, Typed(r, E), NEW x \in 1 .. Len(r.ss), NEW y \in 1 .. Len(r.ss),
         r.ss[x].d \in Items, r.ss[y].d \in Items
  PROVE  Moved(LoadBA(r, x, y), r, E)
  <1> DEFINE l == LoadBoth(r, x, y)
  <1>1. Moved(l.r, r, E)
    BY LoadBothMoves
  <1>2. Moved(SetBA(GenXch(l.r), x, y), r, E)
    <2>1. x \in 0 .. Len(r.ss) /\ y \in 0 .. Len(r.ss)
      BY Tops
    <2> HIDE DEF l
    <2> QED
      BY <1>1, <2>1, ThenXch, ThenSetBA
  <1> QED
    BY <1>1, <1>2 DEF LoadBA, Straight

LEMMA AllSources ==
  ASSUME NEW r, Typed(r, Items), NEW t \in 1 .. Len(r.ss)
  PROVE  r.ss[t].d \in Items
  BY ItemAt

LEMMA StoreAnyMoves ==
  ASSUME NEW r, Typed(r, Items), NEW I
  PROVE  Moved(StoreItems(r, I), r, Items)
  BY AllSources, StoreItemsMoves

LEMMA StoreCellsMoves ==
  ASSUME NEW r, Typed(r, Items), NEW x, NEW y
  PROVE  Moved(StoreCells(r, x, y), r, Items)
  BY StoreAnyMoves DEF StoreCells

-----------------------------------------------------------------------------
(* The simulated stack.  Stands: ssp is now n and p is pending.            *)
StandsIn(q, r, E, n, p) ==
  Typed(q, E) /\ (Held(r) => Held(q)) /\ q.ssp = n /\ q.pending = p
Stands(q, r, n, p) == StandsIn(q, r, Items, n, p)
Alike(q, r) == Stands(q, r, r.ssp, r.pending) /\ Len(q.ss) = Len(r.ss)

(* Nothing but the stack has changed. *)
SameMachine(q, r) ==
  q.a = r.a /\ q.b = r.b /\ q.m = r.m /\ q.ia = r.ia /\ q.ib = r.ib

LEMMA MovedAlike ==
  ASSUME NEW q, NEW r, Moved(q, r, Items)
  PROVE  Alike(q, r)
  BY DEF Moved, Alike, Stands, StandsIn

LEMMA StandsTwice ==
  ASSUME NEW o, NEW q, NEW r, NEW n, NEW p, NEW k, NEW s,
         Stands(q, r, n, p), Stands(o, q, k, s)
  PROVE  Stands(o, r, k, s)
  BY DEF Stands, StandsIn

LEMMA AlikeFirst ==
  ASSUME NEW q, NEW r, Alike(q, r), NEW o, NEW n, NEW p, Stands(o, q, n, p)
  PROVE  Stands(o, r, n, p)
  BY DEF Stands, StandsIn, Alike

LEMMA ItemIs ==
  ASSUME NEW d \in Anywhere, NEW s \in Words
  PROVE  /\ Item(d, s).d = d /\ Item(d, s).s = s
         /\ \A E : d \in E => Item(d, s) \in [d : E, s : Words]
  BY DEF Item

LEMMA OwnIs ==
  ASSUME NEW s \in Nat, s < Frame
  PROVE  /\ Own(s) \in [d : Items, s : Words] /\ Own(s).s = s
         /\ Own(s).d = Loc(s) /\ Loc(s) \in Items
  <1>1. s \in Words
    BY Sizes DEF Words
  <1>2. Loc(s) \in Variables
    BY <1>1, VariableIs
  <1>3. Loc(s) \in Items /\ Loc(s) \in Anywhere
    BY <1>2, RegisterSources, ItemsAre
  <1> QED
    BY <1>1, <1>3, ItemIs DEF Own

Restacked(r, x, n, p) == [r EXCEPT !.ss = x, !.ssp = n, !.pending = p]
FitsIn(x, E, n) ==
  /\ x \in Seq([d : E, s : Words]) /\ n \in Nat /\ program.items \in Nat
  /\ Len(x) >= 2 /\ Len(x) <= program.items /\ Len(x) <= n /\ n <= Frame
  /\ \A t \in 1 .. Len(x) : x[t].s = n - 1 - Len(x) + t
Fits(x, n) == FitsIn(x, Items, n)

LEMMA StackInIs ==
  ASSUME NEW r, NEW E, Typed(r, E), NEW x, NEW n, NEW p \in Pendings,
         NEW F, Basic \subseteq F, F \subseteq Anywhere, FitsIn(x, F, n)
  PROVE  /\ StandsIn(Restacked(r, x, n, p), r, F, n, p) /\ Restacked(r, x, n, p).ss = x
         /\ SameMachine(Restacked(r, x, n, p), r)
  <1> DEFINE q == [r EXCEPT !.ss = x, !.ssp = n, !.pending = p]
  <1>1. r \in Fields(E) /\ program.items \in Nat /\ program.items >= 3
    BY DEF Typed
  <1>2. /\ q \in Fields(F) /\ q.ss = x /\ q.ssp = n /\ q.pending = p
        /\ q.a = r.a /\ q.b = r.b /\ q.c = r.c /\ q.m = r.m /\ q.ia = r.ia /\ q.ib = r.ib
    BY <1>1 DEF Fields, FitsIn
  <1>3. Restacked(r, x, n, p) = q
    BY DEF Restacked
  <1> HIDE DEF q
  <1>4. Typed(q, F)
    BY <1>1, <1>2 DEF Typed, Stacked, FitsIn
  <1>5. Held(q) <=> Held(r)
    BY <1>2, HeldBy
  <1> QED
    BY <1>2, <1>3, <1>4, <1>5 DEF StandsIn, SameMachine

LEMMA StackIs ==
  ASSUME NEW r, NEW E, Typed(r, E), NEW x, NEW n, NEW p \in Pendings, Fits(x, n)
  PROVE  /\ Stands(Restacked(r, x, n, p), r, n, p) /\ Restacked(r, x, n, p).ss = x
         /\ SameMachine(Restacked(r, x, n, p), r)
  BY StackInIs, ItemsAre DEF Stands, Fits

(* Sequences given item by item.                                           *)
LEMMA SeqOf ==
  ASSUME NEW S, NEW T, NEW x \in Seq(T), \A t \in 1 .. Len(x) : x[t] \in S
  PROVE  x \in Seq(S)
  <1>1. Len(x) \in Nat /\ x \in [1 .. Len(x) -> T]
    OBVIOUS
  <1>2. x \in [1 .. Len(x) -> S]
    BY <1>1
  <1> QED
    BY <1>1, <1>2, SeqDef

LEMMA InitStackIs ==
  ASSUME NEW r, NEW E, Typed(r, E), NEW n \in Nat, n >= 2, n <= Frame
  PROVE  Stands(InitStack(r, n), r, n, "none") /\ SameMachine(InitStack(r, n), r)
  <1> DEFINE x == <<Own(n - 2), Own(n - 1)>>
  <1>1. /\ Own(n - 2) \in [d : Items, s : Words] /\ Own(n - 2).s = n - 2
        /\ Own(n - 1) \in [d : Items, s : Words] /\ Own(n - 1).s = n - 1
    BY OwnIs, Sizes
  <1>2. /\ x \in Seq([d : Items, s : Words]) /\ Len(x) = 2
        /\ \A t \in 1 .. Len(x) : x[t].s = n - 1 - Len(x) + t
    BY <1>1
  <1>3. program.items \in Nat /\ program.items >= 3 /\ "none" \in Pendings
    BY Tops DEF Pendings
  <1>4. InitStack(r, n) = Restacked(r, x, n, "none")
    <2>1. r \in Fields(E)
      BY DEF Typed
    <2> QED
      BY <2>1 DEF InitStack, Restacked, Fields
  <1> HIDE DEF x
  <1>5. Fits(x, n)
    BY <1>2, <1>3 DEF Fits, FitsIn
  <1> QED
    BY <1>3, <1>4, <1>5, StackIs

LEMMA FirstItems ==
  ASSUME NEW T, NEW x \in Seq(T), NEW m \in Nat, m <= Len(x)
  PROVE  /\ SubSeq(x, 1, m) \in Seq(T) /\ Len(SubSeq(x, 1, m)) = m
         /\ \A t \in 1 .. m : SubSeq(x, 1, m)[t] = x[t]
  OBVIOUS

(* Cells taken off the stack: the operator may still be pending.           *)
LEMMA StackDown ==
  ASSUME NEW r, NEW E, Typed(r, E), NEW n \in Nat, n >= 2, n < r.ssp,
         \A t \in 1 .. Len(r.ss) - (r.ssp - n) : r.ss[t].d \in Items
  PROVE  /\ \/ Stands(StackTo(r, n), r, n, "none")
            \/ Stands(StackTo(r, n), r, n, r.pending)
         /\ SameMachine(StackTo(r, n), r)
  <1> DEFINE left == Len(r.ss) - (r.ssp - n)
             y == SubSeq(r.ss, 1, left)
             z == <<Own(n - 2), Item(r.ss[1].d, n - 1)>>
  <1>1. /\ r.ss \in Seq([d : E, s : Words]) /\ Len(r.ss) \in Nat /\ r.ssp \in Nat
        /\ r.ssp <= Frame /\ Len(r.ss) <= program.items /\ Top(r) = Len(r.ss)
        /\ Len(r.ss) <= r.ssp /\ Len(r.ss) >= 2 /\ r.pending \in Pendings
        /\ program.items \in Nat /\ program.items >= 3
    BY Tops
  <1>2. r \in Fields(E)
    BY DEF Typed
  <1>3. left \in Int /\ left < Len(r.ss) /\ left = Top(r) - (r.ssp - n) /\ n <= Frame
        /\ Frame \in Nat /\ left = Len(r.ss) - (r.ssp - n)
    BY <1>1, Sizes
  <1>4. left >= 2 => StackTo(r, n) = Restacked(r, y, n, r.pending)
    <2>1. left >= 2 => StackTo(r, n) = [r EXCEPT !.ssp = n, !.ss = y]
      BY <1>1, <1>2 DEF StackTo
    <2>2. [r EXCEPT !.ssp = n, !.ss = y] = Restacked(r, y, n, r.pending)
      <3> HIDE DEF y
      <3> QED
        BY <1>2 DEF Fields, Restacked
    <2> QED
      BY <2>1, <2>2
  <1>5. left = 1 => StackTo(r, n) = Restacked(r, z, n, r.pending)
    <2>1. left = 1 => StackTo(r, n) = [r EXCEPT !.ssp = n, !.ss = z]
      BY <1>1, <1>2 DEF StackTo
    <2>2. [r EXCEPT !.ssp = n, !.ss = z] = Restacked(r, z, n, r.pending)
      <3> HIDE DEF z
      <3> QED
        BY <1>2 DEF Fields, Restacked
    <2> QED
      BY <2>1, <2>2
  <1>6. left < 1 => StackTo(r, n) = InitStack(r, n)
    BY <1>1 DEF StackTo
  <1> HIDE DEF left
  <1>7. CASE left >= 2
    <2>1. /\ y \in Seq([d : E, s : Words]) /\ Len(y) = left
          /\ \A t \in 1 .. left : y[t] = r.ss[t]
      <3>1. left \in Nat /\ left <= Len(r.ss)
        BY <1>1, <1>3, <1>7
      <3> QED
        BY <1>1, <3>1, FirstItems
    <2> HIDE DEF y
    <2>2. ASSUME NEW t \in 1 .. Len(y)
          PROVE  y[t] \in [d : Items, s : Words] /\ y[t].s = n - 1 - left + t
      <3>1. t \in 1 .. Len(r.ss) /\ t \in 1 .. left
        BY <1>1, <1>3, <2>1
      <3>2. r.ss[t] \in [d : E, s : Words] /\ r.ss[t].s = r.ssp - 1 - Len(r.ss) + t
        BY <3>1, ItemAt
      <3>3. r.ss[t].d \in Items
        BY <3>1 DEF left
      <3>4. y[t] = r.ss[t]
        BY <2>1, <3>1
      <3>5. r.ss[t] \in [d : Items, s : Words]
        BY <3>2, <3>3
      <3>6. r.ssp - 1 - Len(r.ss) + t = n - 1 - left + t
        <4>1. t \in Int /\ r.ssp \in Int /\ Len(r.ss) \in Int /\ left \in Int
          BY <1>1, <1>3, <3>1
        <4>2. left = Len(r.ss) - (r.ssp - n) /\ n \in Int
          BY <1>3
        <4>3. \A a, b, c \in Int : c = b - (a - n) => a - 1 - b + t = n - 1 - c + t
          BY <4>1, <4>2
        <4> QED
          BY <4>1, <4>2, <4>3
      <3> QED
        BY <3>2, <3>4, <3>5, <3>6
    <2>3. y \in Seq([d : Items, s : Words])
      <3>1. \A t \in 1 .. Len(y) : y[t] \in [d : Items, s : Words]
        BY <2>2
      <3> QED
        BY <2>1, <3>1, SeqOf, Zenon
    <2>4. Fits(y, n)
      <3>1. Len(y) >= 2 /\ Len(y) <= program.items /\ Len(y) <= n
        BY <1>1, <1>3, <1>7, <2>1 DEF left
      <3>2. \A t \in 1 .. Len(y) : y[t].s = n - 1 - Len(y) + t
        BY <2>1, <2>2
      <3>3. n \in Nat /\ program.items \in Nat /\ n <= Frame
        BY <1>1, <1>3
      <3> HIDE DEF z
      <3> QED
        BY <2>3, <3>1, <3>2, <3>3 DEF Fits, FitsIn
    <2> QED
      BY <1>1, <1>4, <1>7, <2>4, StackIs
  <1>8. CASE left = 1
    <2>1. r.ss[1].d \in Items /\ r.ss[1].d \in Anywhere
      <3>1. Len(r.ss) - (r.ssp - n) = 1
        BY <1>8 DEF left
      <3>2. 1 \in 1 .. Len(r.ss) - (r.ssp - n)
        BY <3>1
      <3> QED
        BY <3>2, ItemsAre
    <2>2. n - 1 \in Words /\ n - 2 \in Nat /\ n - 2 < Frame
      <3>1. Size \in Nat /\ Frame < Size /\ Frame \in Nat
        BY Sizes
      <3> QED
        BY <1>3, <3>1 DEF Words
    <2>3. /\ Item(r.ss[1].d, n - 1) \in [d : Items, s : Words]
          /\ Item(r.ss[1].d, n - 1).s = n - 1
          /\ Own(n - 2) \in [d : Items, s : Words] /\ Own(n - 2).s = n - 2
      BY <2>1, <2>2, ItemIs, OwnIs
    <2>4. /\ z \in Seq([d : Items, s : Words]) /\ Len(z) = 2
          /\ \A t \in 1 .. Len(z) : z[t].s = n - 1 - Len(z) + t
      BY <2>3
    <2> HIDE DEF z
    <2>5. Fits(z, n)
      BY <1>1, <1>3, <2>4 DEF Fits, FitsIn
    <2> QED
      BY <1>1, <1>5, <1>8, <2>5, StackIs
  <1>9. CASE left < 1
    BY <1>3, <1>6, <1>9, InitStackIs
  <1> QED
    BY <1>3, <1>7, <1>8, <1>9

(* Cells put on the stack. *)
LEMMA StackFits ==
  ASSUME NEW r, Typed(r, Items)
  PROVE  Fits(r.ss, r.ssp)
  <1>1. \A t \in 1 .. Len(r.ss) : r.ss[t].s = r.ssp - 1 - Len(r.ss) + t
    BY ItemAt
  <1> QED
    BY <1>1, Tops DEF Fits, FitsIn

LEMMA TailFits ==
  ASSUME NEW x, NEW n, Fits(x, n), Len(x) >= 3
  PROVE  Fits(Tail(x), n) /\ Len(Tail(x)) = Len(x) - 1
  <1> DEFINE T == [d : Items, s : Words]
             y == Tail(x)
  <1>1. /\ x \in Seq(T) /\ Len(x) \in Nat /\ n \in Nat /\ Len(x) <= program.items
        /\ Len(x) <= n /\ n <= Frame
        /\ \A t \in 1 .. Len(x) : x[t].s = n - 1 - Len(x) + t
    BY DEF Fits, FitsIn
  <1> HIDE DEF T
  <1>2. x # <<>>
    BY <1>1
  <1>3. /\ y \in Seq(T) /\ Len(y) = Len(x) - 1 /\ \A t \in 1 .. Len(y) : y[t] = x[t + 1]
    BY <1>1, <1>2, HeadTailProperties
  <1> HIDE DEF y
  <1>4. ASSUME NEW t \in 1 .. Len(y) PROVE y[t].s = n - 1 - Len(y) + t
    <2>1. t + 1 \in 1 .. Len(x) /\ t \in Int
      BY <1>1, <1>3
    <2>2. y[t] = x[t + 1]
      BY <1>3
    <2>3. x[t + 1].s = n - 1 - Len(x) + (t + 1)
      BY <1>1, <2>1
    <2> QED
      BY <1>1, <1>3, <2>1, <2>2, <2>3
  <1>5. Len(y) >= 2 /\ Len(y) <= program.items /\ Len(y) <= n
    <2>1. program.items >= Len(x)
      BY <1>1
    <2>2. program.items \in Int
      BY DEF Fits, FitsIn
    <2> QED
      BY <1>1, <1>3, <2>1, <2>2
  <1> QED
    BY <1>1, <1>3, <1>4, <1>5 DEF Fits, FitsIn, T, y

LEMMA FitsMore ==
  ASSUME NEW x, NEW n, NEW D, NEW E, FitsIn(x, D, n), D \subseteq E
  PROVE  FitsIn(x, E, n)
  <1>1. \A t \in 1 .. Len(x) : x[t] \in [d : E, s : Words]
    <2>1. ASSUME NEW t \in 1 .. Len(x) PROVE x[t] \in [d : E, s : Words]
      <3>1. x[t] \in [d : D, s : Words]
        BY ElementOfSeq DEF FitsIn
      <3> QED
        BY <3>1
    <2> QED
      BY <2>1
  <1>2. x \in Seq([d : D, s : Words])
    BY DEF FitsIn
  <1>3. x \in Seq([d : E, s : Words])
    BY <1>1, <1>2, SeqOf, Zenon
  <1> QED
    BY <1>3 DEF FitsIn

LEMMA AppendFits ==
  ASSUME NEW x, NEW n, NEW E, FitsIn(x, E, n), NEW d \in E, E \subseteq Anywhere, n < Frame, Len(x) < program.items
  PROVE  /\ FitsIn(Append(x, Item(d, n)), E, n + 1)
         /\ Len(Append(x, Item(d, n))) = Len(x) + 1
         /\ Append(x, Item(d, n))[Len(x) + 1].d = d
         /\ \A t \in 1 .. Len(x) : Append(x, Item(d, n))[t] = x[t]
  <1> DEFINE T == [d : E, s : Words]
             i == Item(d, n)
             y == Append(x, i)
  <1>1. /\ x \in Seq(T) /\ Len(x) \in Nat /\ n \in Nat /\ program.items \in Nat
        /\ Len(x) >= 2 /\ Len(x) <= n
        /\ \A t \in 1 .. Len(x) : x[t].s = n - 1 - Len(x) + t
    BY DEF FitsIn
  <1>2. i \in T /\ i.s = n /\ i.d = d
    <2>1. n \in Words /\ d \in Anywhere
      BY <1>1, Sizes DEF Words
    <2> QED
      BY <2>1, ItemIs
  <1> HIDE DEF T, i
  <1>3. /\ y \in Seq(T) /\ Len(y) = Len(x) + 1 /\ \A t \in 1 .. Len(x) : y[t] = x[t]
        /\ y[Len(x) + 1] = i
    BY <1>1, <1>2, AppendProperties
  <1> HIDE DEF y
  <1>4. ASSUME NEW t \in 1 .. Len(y) PROVE y[t].s = (n + 1) - 1 - Len(y) + t
    <2>1. CASE t = Len(x) + 1
      BY <1>1, <1>2, <1>3, <2>1
    <2>2. CASE t # Len(x) + 1
      <3>1. t \in 1 .. Len(x) /\ t \in Int
        BY <1>1, <1>3, <2>2
      <3>2. x[t].s = n - 1 - Len(x) + t /\ y[t] = x[t]
        BY <1>1, <1>3, <3>1
      <3> QED
        BY <1>1, <1>3, <3>1, <3>2
    <2> QED
      BY <2>1, <2>2
  <1>5. n + 1 \in Nat /\ n + 1 <= Frame
    BY <1>1, Sizes
  <1>6. Len(y) >= 2 /\ Len(y) <= program.items /\ Len(y) <= n + 1
    BY <1>1, <1>3
  <1> QED
    BY <1>1, <1>2, <1>3, <1>4, <1>5, <1>6 DEF FitsIn, T, y, i

LEMMA MakeRoomIs ==
  ASSUME NEW r, Typed(r, Items)
  PROVE  /\ Stands(MakeRoom(r), r, r.ssp, r.pending) /\ Len(MakeRoom(r).ss) < program.items
  <1>1. /\ Len(r.ss) \in Nat /\ Len(r.ss) >= 2 /\ Len(r.ss) <= program.items
        /\ Top(r) = Len(r.ss) /\ program.items \in Nat /\ program.items >= 3
    BY Tops
  <1>2. CASE Len(r.ss) < program.items
    <2>1. MakeRoom(r) = r
      BY <1>1, <1>2 DEF MakeRoom
    <2> QED
      BY <1>2, <2>1 DEF Stands, StandsIn
  <1>3. CASE ~(Len(r.ss) < program.items)
    <2> DEFINE q == StoreT(r, 1)
               x == Tail(q.ss)
    <2>1. Moved(q, r, Items)
      <3>1. 1 \in 1 .. Len(r.ss)
        BY <1>1
      <3> QED
        BY <3>1, AllSources, StoreTMoves
    <2>2. MakeRoom(r) = [q EXCEPT !.ss = x]
      BY <1>1, <1>3 DEF MakeRoom
    <2> HIDE DEF q
    <2>3. Typed(q, Items) /\ Len(q.ss) = Len(r.ss) /\ q.ssp = r.ssp /\ q.pending = r.pending
      BY <2>1 DEF Moved
    <2>4. Fits(x, q.ssp) /\ Len(x) = Len(q.ss) - 1
      <3>1. Fits(q.ss, q.ssp) /\ Len(q.ss) >= 3
        BY <1>1, <1>3, <2>3, StackFits
      <3> QED
        BY <3>1, TailFits
    <2> HIDE DEF x
    <2>5. [q EXCEPT !.ss = x] = Restacked(q, x, q.ssp, q.pending)
      <3>1. q \in Fields(Items)
        BY <2>3 DEF Typed
      <3> QED
        BY <3>1 DEF Fields, Restacked
    <2>6. q.pending \in Pendings
      BY <2>3, Tops
    <2>7. /\ Stands(Restacked(q, x, q.ssp, q.pending), q, q.ssp, q.pending)
          /\ Restacked(q, x, q.ssp, q.pending).ss = x
      BY <2>3, <2>4, <2>6, StackIs
    <2>8. Alike(q, r)
      BY <2>1, MovedAlike
    <2>9. Stands(MakeRoom(r), r, q.ssp, q.pending)
      BY <2>2, <2>5, <2>7, <2>8, AlikeFirst
    <2>10. Len(MakeRoom(r).ss) < program.items
      BY <1>1, <2>2, <2>3, <2>4, <2>5, <2>7
    <2> QED
      BY <2>3, <2>9, <2>10
  <1> QED
    BY <1>2, <1>3

LEMMA LoadTInIs ==
  ASSUME NEW r, Typed(r, Items), NEW d, NEW E, Items \subseteq E, E \subseteq Anywhere,
         d \in E, r.ssp < Frame
  PROVE  /\ StandsIn(LoadT(r, d), r, E, r.ssp + 1, r.pending)
         /\ Arg(LoadT(r, d), 1) = d
         /\ \A t \in 1 .. Len(LoadT(r, d).ss) - 1 : LoadT(r, d).ss[t].d \in Items
  <1> DEFINE q == MakeRoom(r)
             x == Append(q.ss, Item(d, r.ssp))
  <1>1. Stands(q, r, r.ssp, r.pending) /\ Len(q.ss) < program.items
    BY MakeRoomIs
  <1>2. LoadT(r, d) = [q EXCEPT !.ss = x, !.ssp = q.ssp + 1]
    BY DEF LoadT
  <1> HIDE DEF q
  <1>3. /\ Typed(q, Items) /\ q.ssp = r.ssp /\ q.pending = r.pending
        /\ (Held(r) => Held(q))
    BY <1>1 DEF Stands, StandsIn
  <1>4. /\ FitsIn(x, E, q.ssp + 1) /\ Len(x) = Len(q.ss) + 1 /\ x[Len(q.ss) + 1].d = d
        /\ \A t \in 1 .. Len(q.ss) : x[t] = q.ss[t]
    <2>1. Fits(q.ss, q.ssp)
      BY <1>3, StackFits
    <2>2. FitsIn(q.ss, E, q.ssp)
      BY <2>1, FitsMore DEF Fits
    <2> QED
      BY <1>1, <1>3, <2>2, AppendFits
  <1> HIDE DEF x
  <1>5. LoadT(r, d) = Restacked(q, x, q.ssp + 1, q.pending)
    <2>1. q \in Fields(Items)
      BY <1>3 DEF Typed
    <2> QED
      BY <1>2, <2>1 DEF Fields, Restacked
  <1>6. q.pending \in Pendings /\ Len(q.ss) \in Nat /\ Basic \subseteq E
    BY <1>3, Tops, ItemsAre
  <1>7. /\ StandsIn(LoadT(r, d), q, E, q.ssp + 1, q.pending)
        /\ LoadT(r, d).ss = x
    BY <1>3, <1>4, <1>5, <1>6, StackInIs
  <1>8. StandsIn(LoadT(r, d), r, E, q.ssp + 1, q.pending)
    BY <1>3, <1>7 DEF StandsIn
  <1>9. Len(x) + 1 - 1 = Len(q.ss) + 1 /\ Len(x) - 1 = Len(q.ss)
    BY <1>4, <1>6
  <1>10. Arg(LoadT(r, d), 1) = d
    BY <1>4, <1>7, <1>9 DEF Arg
  <1>11. \A t \in 1 .. Len(q.ss) : x[t].d \in Items
    BY <1>3, <1>4, AllSources
  <1> QED
    BY <1>3, <1>7, <1>8, <1>9, <1>10, <1>11

LEMMA LoadTIs ==
  ASSUME NEW r, Typed(r, Items), NEW d \in Items, r.ssp < Frame
  PROVE  /\ Stands(LoadT(r, d), r, r.ssp + 1, r.pending)
         /\ Arg(LoadT(r, d), 1) = d
  BY LoadTInIs, ItemsAre DEF Stands

LEMMA StackUp ==
  ASSUME NEW r, Typed(r, Items), NEW n \in Nat, n >= r.ssp, n <= r.ssp + 3, n <= Frame
  PROVE  Stands(StackTo(r, n), r, n, r.pending)
  <1> DEFINE m == n - r.ssp
             d(j) == Loc(r.ssp + j - 1)
             u1 == LoadT(r, d(1))
             u2 == LoadT(u1, d(2))
             u3 == LoadT(u2, d(3))
             f == [j \in 0 .. m |-> IF j = 0 THEN r ELSE IF j = 1 THEN u1
                                    ELSE IF j = 2 THEN u2 ELSE u3]
             Solves(h) == h = [j \in 0 .. m |-> IF j = 0 THEN r ELSE LoadT(h[j - 1], d(j))]
             Up == CHOOSE h : Solves(h)
  <1>1. r.ssp \in Nat /\ m \in 0 .. 3 /\ Frame \in Nat /\ r.ssp + m = n
    BY TopNumbers
  <1>2. StackTo(r, n) = Up[m]
    BY <1>1 DEF StackTo
  <1>3. ASSUME NEW j \in 1 .. m PROVE d(j) \in Items
    <2>1. r.ssp + j - 1 \in Words /\ r.ssp + j - 1 < Frame
      <3>1. r.ssp + j - 1 \in Nat /\ r.ssp + j - 1 < Frame
        BY <1>1
      <3>2. Frame < Size /\ Size \in Nat
        BY Sizes
      <3> QED
        BY <1>1, <3>1, <3>2 DEF Words
    <2> QED
      BY <2>1, VariableIs, RegisterSources, ItemsAre
  <1> HIDE DEF m, d
  <1>4. Solves(f)
    <2>1. ASSUME NEW j \in 0 .. m
          PROVE  f[j] = IF j = 0 THEN r ELSE LoadT(f[j - 1], d(j))
      <3> HIDE DEF u1, u2, u3
      <3>1. j = 0 \/ (j = 1 /\ 0 \in 0 .. m) \/ (j = 2 /\ 1 \in 0 .. m)
            \/ (j = 3 /\ 2 \in 0 .. m)
        BY <1>1
      <3> USE DEF u1, u2, u3
      <3>2. CASE j = 0
        BY <3>2
      <3>3. CASE j = 1 /\ 0 \in 0 .. m
        BY <3>3
      <3>4. CASE j = 2 /\ 1 \in 0 .. m
        BY <3>4
      <3>5. CASE j = 3 /\ 2 \in 0 .. m
        BY <3>5
      <3> QED
        BY <3>1, <3>2, <3>3, <3>4, <3>5
    <2>2. f = [j \in 0 .. m |-> f[j]]
      OBVIOUS
    <2> HIDE DEF f
    <2>3. \A j \in 0 .. m : f[j] = IF j = 0 THEN r ELSE LoadT(f[j - 1], d(j))
      BY <2>1
    <2> QED
      BY <2>2, <2>3
  <1>5. Solves(Up)
    <2> HIDE DEF Solves
    <2> QED
      BY <1>4
  <1> HIDE DEF Up, f
  <1>6. Up[0] = r /\ \A j \in 1 .. m : Up[j] = LoadT(Up[j - 1], d(j))
    <2>1. \A j \in 0 .. m : Up[j] = IF j = 0 THEN r ELSE LoadT(Up[j - 1], d(j))
      BY <1>5
    <2>2. 0 \in 0 .. m /\ \A j \in 1 .. m : j \in 0 .. m /\ j # 0
      BY <1>1
    <2> HIDE DEF Solves
    <2> QED
      BY <2>1, <2>2
  <1> HIDE DEF Solves
  <1> DEFINE At(j) == Stands(Up[j], r, r.ssp + j, r.pending)
  <1>7. At(0)
    BY <1>1, <1>6 DEF Stands, StandsIn
  <1>8. ASSUME NEW j \in 1 .. m, At(j - 1) PROVE At(j)
    <2>1. /\ Typed(Up[j - 1], Items) /\ Up[j - 1].ssp = r.ssp + (j - 1)
          /\ Up[j - 1].pending = r.pending
      BY <1>8 DEF Stands, StandsIn
    <2>2. Up[j - 1].ssp < Frame /\ (r.ssp + (j - 1)) + 1 = r.ssp + j
      BY <1>1, <2>1
    <2>3. Stands(Up[j], Up[j - 1], Up[j - 1].ssp + 1, Up[j - 1].pending)
      BY <1>3, <1>6, <2>1, <2>2, LoadTIs
    <2>4. Stands(Up[j], Up[j - 1], r.ssp + j, r.pending)
      BY <2>1, <2>2, <2>3
    <2> QED
      BY <1>8, <2>4, StandsTwice
  <1> HIDE DEF At
  <1>9. At(m)
    <2>1. m = 0 \/ (m = 1 /\ 1 \in 1 .. m /\ 1 - 1 = 0)
          \/ (m = 2 /\ 1 \in 1 .. m /\ 2 \in 1 .. m /\ 1 - 1 = 0 /\ 2 - 1 = 1)
          \/ (m = 3 /\ 1 \in 1 .. m /\ 2 \in 1 .. m /\ 3 \in 1 .. m
                    /\ 1 - 1 = 0 /\ 2 - 1 = 1 /\ 3 - 1 = 2)
      BY <1>1
    <2>2. \A j \in 1 .. m : At(j - 1) => At(j)
      BY <1>8
    <2>3. 1 \in 1 .. m => At(1)
      BY <1>7, <2>1, <2>2
    <2>4. 2 \in 1 .. m /\ At(1) => At(2)
      BY <2>1, <2>2
    <2>5. 3 \in 1 .. m /\ At(2) => At(3)
      BY <2>1, <2>2
    <2> QED
      BY <1>7, <2>1, <2>3, <2>4, <2>5
  <1> QED
    BY <1>1, <1>2, <1>9 DEF At

LEMMA DropIs ==
  ASSUME NEW r, NEW E, Typed(r, E), NEW k \in 1 .. 3, r.ssp - k >= 2, r.pending = "none",
         \A t \in 1 .. Len(r.ss) - k : r.ss[t].d \in Items
  PROVE  Stands(Drop(r, k), r, r.ssp - k, "none") /\ SameMachine(Drop(r, k), r)
  <1>1. r.ssp \in Nat /\ r.ssp - k \in Nat /\ r.ssp - k < r.ssp /\ r.ssp - (r.ssp - k) = k
    BY TopNumbers
  <1> QED
    BY <1>1, StackDown DEF Drop

(* The two topmost items become one.                                       *)
LEMMA Lose1Is ==
  ASSUME NEW r, Typed(r, Items), r.ssp >= 3, NEW d \in Items
  PROVE  Stands(Lose1(r, d), r, r.ssp - 1, "none")
  <1> DEFINE n == Len(r.ss) - 2
             rest == IF n = 0 THEN <<Own(r.ssp - 3)>> ELSE SubSeq(r.ss, 1, n)
             T == [d : Items, s : Words]
             i == Item(d, r.ssp - 2)
             x == Append(rest, i)
  <1>0. n # 0 => n >= 1 /\ n < Len(r.ss)
    <2> HIDE DEF rest, T, i, x
    <2>1. Len(r.ss) \in Nat /\ Len(r.ss) >= 2
      BY TopNumbers
    <2>2. \A k \in Nat : k >= 2 /\ k - 2 # 0 => k - 2 >= 1 /\ k - 2 < k
      OBVIOUS
    <2> QED
      BY <2>1, <2>2, Zenon
  <1>1. /\ r.ss \in Seq(T) /\ Len(r.ss) \in Nat /\ Len(r.ss) >= 2 /\ Len(r.ss) <= r.ssp
        /\ r.ssp \in Nat /\ r.ssp <= Frame /\ Len(r.ss) <= program.items
        /\ program.items \in Nat /\ program.items >= 3 /\ n \in Nat /\ n = Len(r.ss) - 2
    <2>1. n \in Nat
      BY TopNumbers
    <2> QED
      BY <2>1, Tops
  <1>2. /\ rest \in Seq(T) /\ Len(rest) >= 1 /\ Len(rest) < Len(r.ss)
        /\ Len(rest) = IF n = 0 THEN 1 ELSE n
        /\ \A t \in 1 .. Len(rest) : rest[t].s = r.ssp - 2 - Len(rest) + (t - 1)
    <2>1. CASE n = 0
      <3>1. Own(r.ssp - 3) \in T /\ Own(r.ssp - 3).s = r.ssp - 3
        BY <1>1, OwnIs, Sizes
      <3>2. rest = <<Own(r.ssp - 3)>>
        BY <2>1
      <3> HIDE DEF T, n
      <3> QED
        BY <1>1, <2>1, <3>1, <3>2
    <2>2. CASE n # 0
      <3>1. rest = SubSeq(r.ss, 1, n) /\ n <= Len(r.ss)
        BY <1>1, <2>2
      <3>2. rest \in Seq(T) /\ Len(rest) = n /\ \A t \in 1 .. n : rest[t] = r.ss[t]
        <4> HIDE DEF T, n, rest
        <4> QED
          BY <1>1, <3>1, FirstItems
      <3> HIDE DEF rest
      <3>3. ASSUME NEW t \in 1 .. n PROVE rest[t].s = r.ssp - 2 - n + (t - 1)
        <4>1. t \in 1 .. Len(r.ss) /\ t \in Int
          BY <1>1
        <4>2. r.ss[t].s = r.ssp - 1 - Len(r.ss) + t
          BY <4>1, ItemAt
        <4>3. rest[t] = r.ss[t]
          BY <3>2
        <4> QED
          BY <1>1, <4>1, <4>2, <4>3
      <3>4. Len(rest) >= 1 /\ Len(rest) < Len(r.ss) /\ Len(rest) = n
        <4>1. n >= 1 /\ n < Len(r.ss)
          BY <1>0, <2>2
        <4> QED
          BY <3>2, <4>1, Zenon
      <3> HIDE DEF n, T
      <3> QED
        BY <2>2, <3>2, <3>3, <3>4
    <2> QED
      BY <2>1, <2>2
  <1>3. i \in T /\ i.s = r.ssp - 2
    <2>1. r.ssp - 2 \in Words /\ d \in Anywhere
      <3>1. r.ssp - 2 \in Words
        BY TopNumbers DEF Words
      <3> QED
        BY <3>1, ItemsAre
    <2> QED
      BY <2>1, ItemIs
  <1>4. Lose1(r, d) = Restacked(r, x, r.ssp - 1, "none")
    <2>1. r \in Fields(Items)
      BY DEF Typed
    <2>2. Lose1(r, d) = [r EXCEPT !.ssp = r.ssp - 1, !.pending = "none", !.ss = x]
      BY <2>1 DEF Lose1, Fields
    <2> HIDE DEF x
    <2> QED
      BY <2>1, <2>2 DEF Fields, Restacked
  <1> HIDE DEF rest, T, i, n
  <1>5. /\ x \in Seq(T) /\ Len(x) = Len(rest) + 1 /\ x[Len(rest) + 1] = i
        /\ \A t \in 1 .. Len(rest) : x[t] = rest[t]
    BY <1>2, <1>3, AppendProperties
  <1> HIDE DEF x
  <1>6. Len(rest) \in Nat
    BY <1>2
  <1>7. ASSUME NEW t \in 1 .. Len(x) PROVE x[t].s = (r.ssp - 1) - 1 - Len(x) + t
    <2>1. CASE t = Len(rest) + 1
      BY <1>1, <1>3, <1>5, <1>6, <2>1
    <2>2. CASE t # Len(rest) + 1
      <3>1. t \in 1 .. Len(rest) /\ t \in Int
        BY <1>5, <1>6, <2>2
      <3>2. x[t] = rest[t] /\ rest[t].s = r.ssp - 2 - Len(rest) + (t - 1)
        BY <1>2, <1>5, <3>1
      <3> QED
        BY <1>1, <1>5, <1>6, <3>1, <3>2
    <2> QED
      BY <2>1, <2>2
  <1>8. Len(x) >= 2 /\ Len(x) <= program.items /\ Len(x) <= r.ssp - 1
    BY <1>1, <1>2, <1>5, <1>6 DEF n
  <1>9. Fits(x, r.ssp - 1)
    <2>1. r.ssp - 1 \in Nat /\ r.ssp - 1 <= Frame
      BY <1>1, Sizes
    <2> QED
      BY <1>1, <1>5, <1>7, <1>8, <2>1 DEF Fits, FitsIn, T
  <1>10. "none" \in Pendings
    BY DEF Pendings
  <1> QED
    BY <1>4, <1>9, <1>10, StackIs

-----------------------------------------------------------------------------
(* Loads and operations, of items that any item of a program may be.       *)
LEMMA ArgsAre ==
  ASSUME NEW r, NEW E, Typed(r, E)
  PROVE  /\ Top(r) \in 1 .. Len(r.ss) /\ Second(r) \in 1 .. Len(r.ss)
         /\ Top(r) = Len(r.ss) /\ Second(r) = Len(r.ss) - 1 /\ Second(r) # Top(r)
         /\ Arg(r, 1) = r.ss[Top(r)].d /\ Arg(r, 2) = r.ss[Second(r)].d
         /\ Arg(r, 1) \in E /\ Arg(r, 2) \in E
  <1>1. Len(r.ss) \in Nat /\ Len(r.ss) >= 2 /\ Top(r) = Len(r.ss)
    BY TopNumbers
  <1>2. \A n \in Nat : n >= 2 => /\ n \in 1 .. n /\ n - 1 \in 1 .. n /\ n - 1 # n
                                 /\ n + 1 - 1 = n /\ n + 1 - 2 = n - 1
    OBVIOUS
  <1>3. /\ Top(r) \in 1 .. Len(r.ss) /\ Second(r) \in 1 .. Len(r.ss)
        /\ Second(r) = Len(r.ss) - 1 /\ Second(r) # Top(r)
    BY <1>1, <1>2, Zenon DEF Second
  <1>4. Arg(r, 1) = r.ss[Top(r)].d /\ Arg(r, 2) = r.ss[Second(r)].d
    BY <1>1, <1>2, Zenon DEF Second, Arg
  <1> QED
    BY <1>1, <1>3, <1>4, ItemAt

LEMMA AlikeTwice ==
  ASSUME NEW o, NEW q, NEW r, Alike(q, r), Alike(o, q)
  PROVE  Alike(o, r)
  BY DEF Stands, StandsIn, Alike

LEMMA AlikeSelf ==
  ASSUME NEW r, Typed(r, Items)
  PROVE  Alike(r, r)
  BY DEF Stands, StandsIn, Alike

LEMMA AlikeTyped ==
  ASSUME NEW q, NEW r, Alike(q, r)
  PROVE  Typed(q, Items) /\ q.ssp = r.ssp /\ q.pending = r.pending /\ Len(q.ss) = Len(r.ss)
  BY DEF Stands, StandsIn, Alike

LEMMA SetAlike ==
  ASSUME NEW r, Typed(r, Items), NEW t \in 1 .. Len(r.ss), NEW d \in Items
  PROVE  Alike(Set(r, t, d), r)
  BY SetIs DEF Stands, StandsIn, Alike

LEMMA LoadAAlike ==
  ASSUME NEW r, Typed(r, Items), NEW t \in 1 .. Len(r.ss)
  PROVE  Alike(LoadA(r, t), r)
  BY AllSources, LoadAMoves, MovedAlike

LEMMA LoadBothAlike ==
  ASSUME NEW r, Typed(r, Items)
  PROVE  /\ Alike(LoadBoth(r, Second(r), Top(r)).r, r)
         /\ LoadBoth(r, Second(r), Top(r)).swapped \in BOOLEAN
  <1>1. Top(r) \in 1 .. Len(r.ss) /\ Second(r) \in 1 .. Len(r.ss)
    BY ArgsAre
  <1> QED
    BY <1>1, AllSources, LoadBothMoves, MovedAlike

LEMMA LoadBAAlike ==
  ASSUME NEW r, Typed(r, Items)
  PROVE  Alike(LoadBA(r, Second(r), Top(r)), r)
  <1>1. Top(r) \in 1 .. Len(r.ss) /\ Second(r) \in 1 .. Len(r.ss)
    BY ArgsAre
  <1> QED
    BY <1>1, AllSources, LoadBAMoves, MovedAlike

(* SWAPARGS. *)
LEMMA SwapIs ==
  ASSUME NEW r, NEW E, Typed(r, E)
  PROVE  /\ Typed(SwapArgs(r), E) /\ (Held(r) => Held(SwapArgs(r)))
         /\ SwapArgs(r).ssp = r.ssp /\ SwapArgs(r).pending = r.pending
         /\ Len(SwapArgs(r).ss) = Len(r.ss)
         /\ Arg(SwapArgs(r), 1) = Arg(r, 2) /\ Arg(SwapArgs(r), 2) = Arg(r, 1)
         /\ \A t \in 1 .. Len(r.ss) - 2 : SwapArgs(r).ss[t].d = r.ss[t].d
  <1> DEFINE n == Top(r)
             d == Arg(r, 1)
             e == Arg(r, 2)
             q == Set(r, n, e)
             o == Set(q, n - 1, d)
  <1>1. /\ n \in 1 .. Len(r.ss) /\ n - 1 \in 1 .. Len(r.ss) /\ n - 1 # n /\ n = Len(r.ss)
        /\ d \in E /\ e \in E
    BY ArgsAre DEF Second
  <1>2. SwapArgs(r) = o
    BY DEF SwapArgs
  <1> HIDE DEF n, d, e
  <1>3. /\ Typed(q, E) /\ Len(q.ss) = Len(r.ss) /\ q.ssp = r.ssp /\ q.pending = r.pending
        /\ (Held(q) <=> Held(r))
        /\ \A u \in 1 .. Len(r.ss) : q.ss[u].d = IF u = n THEN e ELSE r.ss[u].d
    BY <1>1, SetIs
  <1> HIDE DEF q
  <1>4. /\ Typed(o, E) /\ Len(o.ss) = Len(q.ss) /\ o.ssp = q.ssp /\ o.pending = q.pending
        /\ (Held(o) <=> Held(q))
        /\ \A u \in 1 .. Len(q.ss) : o.ss[u].d = IF u = n - 1 THEN d ELSE q.ss[u].d
    BY <1>1, <1>3, SetIs
  <1> HIDE DEF o
  <1>5. Top(o) = n /\ Second(o) = n - 1
    BY <1>1, <1>3, <1>4, ArgsAre
  <1>6. Arg(o, 1) = e /\ Arg(o, 2) = d
    <2>1. Arg(o, 1) = o.ss[n].d /\ Arg(o, 2) = o.ss[n - 1].d
      BY <1>4, <1>5, ArgsAre
    <2> QED
      BY <1>1, <1>3, <1>4, <2>1
  <1>7. ASSUME NEW t \in 1 .. Len(r.ss) - 2 PROVE o.ss[t].d = r.ss[t].d
    <2>1. t \in 1 .. Len(r.ss) /\ t # n /\ t # n - 1
      BY <1>1, TopNumbers
    <2> QED
      BY <1>3, <1>4, <2>1
  <1> QED
    BY <1>2, <1>3, <1>4, <1>6, <1>7 DEF d, e

LEMMA SwapAlike ==
  ASSUME NEW r, Typed(r, Items)
  PROVE  Alike(SwapArgs(r), r)
  BY SwapIs DEF Stands, StandsIn, Alike

LEMMA OpAlike ==
  ASSUME NEW r, Typed(r, Items), NEW v \in Words
  PROVE  Alike(GenOp(r, v), r)
  BY OpMoves, MovedAlike

(* The operators on words. *)
LEMMA ApplyIs ==
  ASSUME NEW f \in Dyadic \cup {"ne"}, NEW x \in Words, NEW y \in Words
  PROVE  O!Apply(f, x, y) \in Words
  <1>1. O!True \in Words /\ O!False \in Words
    BY Sizes DEF Words, O!True, O!False
  <1>2. (x + y) % Size \in Words /\ (x - y) % Size \in Words /\ (x * y) % Size \in Words
    <2>1. x + y \in Int /\ x - y \in Int /\ x * y \in Int
      BY DEF Words
    <2> QED
      BY <2>1, ModWord
  <1> QED
    BY <1>1, <1>2 DEF O!Apply, Dyadic

LEMMA ResultIs ==
  ASSUME NEW r, Typed(r, Items), r.ssp >= 3, NEW v \in Words
  PROVE  Stands(Result(r, v), r, r.ssp - 1, "none")
  <1>1. Alike(GenOp(r, v), r)
    BY OpAlike
  <1>2. Typed(GenOp(r, v), Items) /\ GenOp(r, v).ssp = r.ssp
    BY <1>1, AlikeTyped
  <1>3. InA \in Items
    BY RegisterSources, ItemsAre
  <1>4. Stands(Lose1(GenOp(r, v), InA), GenOp(r, v), r.ssp - 1, "none")
    BY <1>2, <1>3, Lose1Is
  <1> QED
    BY <1>1, <1>4, AlikeFirst DEF Result

LEMMA OnBAIs ==
  ASSUME NEW r, Typed(r, Items), r.ssp >= 3, NEW f \in Dyadic
  PROVE  Stands(OnBA(f, r), r, r.ssp - 1, "none")
  <1>1. O!Apply(f, r.b, r.a) \in Words
    BY Tops, ApplyIs
  <1> QED
    BY <1>1, ResultIs DEF OnBA

LEMMA OnAItemIs ==
  ASSUME NEW r, Typed(r, Items), r.ssp >= 3, NEW f \in Dyadic
  PROVE  Stands(OnAItem(f, r), r, r.ssp - 1, "none")
  <1>1. Arg(r, 1) \in Anywhere
    BY ArgsAre, ItemsAre
  <1>2. Value(r, Arg(r, 1)) \in Words
    BY <1>1, ValueIsWord
  <1>3. O!Apply(f, r.a, Value(r, Arg(r, 1))) \in Words
    BY <1>2, Tops, ApplyIs
  <1> QED
    BY <1>3, ResultIs DEF OnAItem

(* Additions: one operand is in A, and the other in B or named by the      *)
(* instruction.                                                            *)
LEMMA InPlaceIs ==
  ASSUME NEW r, Typed(r, Items)
  PROVE  Alike(InPlace(r), r)
  <1>1. Alike(LoadA(r, Top(r)), r) /\ Alike(LoadA(r, Second(r)), r) /\ Alike(r, r)
    BY ArgsAre, LoadAAlike, AlikeSelf
  <1> QED
    BY <1>1 DEF InPlace

LEMMA AddByIs ==
  ASSUME NEW r, Typed(r, Items), r.ssp >= 3, NEW form
  PROVE  Stands(AddBy(r, form), r, r.ssp - 1, "none")
  <1> DEFINE u == IF AddForm(form, Arg(r, 2)) THEN SwapArgs(r) ELSE r
             q == LoadA(u, Second(u))
  <1>1. Alike(u, r)
    BY SwapAlike, AlikeSelf
  <1>2. AddBy(r, form) = OnAItem("add", q)
    BY DEF AddBy
  <1> HIDE DEF u
  <1>3. Alike(q, u)
    BY <1>1, AlikeTyped, ArgsAre, LoadAAlike
  <1> HIDE DEF q
  <1>4. Alike(q, r)
    BY <1>1, <1>3, AlikeTwice
  <1>5. Typed(q, Items) /\ q.ssp = r.ssp
    BY <1>4, AlikeTyped
  <1>6. Stands(OnAItem("add", q), q, r.ssp - 1, "none")
    BY <1>5, OnAItemIs DEF Dyadic
  <1> QED
    BY <1>2, <1>4, <1>6, AlikeFirst

LEMMA AddBothIs ==
  ASSUME NEW r, Typed(r, Items), r.ssp >= 3
  PROVE  Stands(AddBoth(r), r, r.ssp - 1, "none")
  <1> DEFINE t == IF Arg(r, 1) = InA THEN SwapArgs(r) ELSE r
             forms == {j \in 1 .. 5 : AddForm(j, Arg(t, 2)) \/ AddForm(j, Arg(t, 1))}
             form == CHOOSE j \in forms : \A k \in forms : j <= k
             q == LoadBoth(t, Second(t), Top(t)).r
  <1>1. Alike(t, r)
    BY SwapAlike, AlikeSelf
  <1>2. AddBoth(r) = IF forms # {} THEN AddBy(t, form) ELSE OnBA("add", q)
    BY DEF AddBoth
  <1> HIDE DEF t, forms, form
  <1>3. Typed(t, Items) /\ t.ssp = r.ssp
    BY <1>1, AlikeTyped
  <1>4. Stands(AddBy(t, form), t, r.ssp - 1, "none")
    BY <1>3, AddByIs
  <1>5. Alike(q, t)
    BY <1>3, LoadBothAlike
  <1> HIDE DEF q
  <1>6. Typed(q, Items) /\ q.ssp = r.ssp
    BY <1>3, <1>5, AlikeTyped
  <1>7. Stands(OnBA("add", q), q, r.ssp - 1, "none")
    BY <1>6, OnBAIs DEF Dyadic
  <1>8. Stands(OnBA("add", q), t, r.ssp - 1, "none")
    BY <1>5, <1>7, AlikeFirst
  <1> QED
    BY <1>1, <1>2, <1>4, <1>8, AlikeFirst

LEMMA AddZeroIs ==
  ASSUME NEW r, Typed(r, Items), r.ssp >= 3
  PROVE  Stands(AddZero(r), r, r.ssp - 1, "none")
  <1> DEFINE q == LoadA(r, Top(r))
             d == Arg(r, 1)
  <1>1. Alike(q, r) /\ d \in Items
    BY ArgsAre, LoadAAlike
  <1>2. AddZero(r) = IF d.k = "loc" /\ d.n = r.ssp - 1 THEN Lose1(q, InA) ELSE Lose1(r, d)
    BY DEF AddZero
  <1> HIDE DEF q, d
  <1>3. Typed(q, Items) /\ q.ssp = r.ssp /\ InA \in Items
    BY <1>1, AlikeTyped, RegisterSources, ItemsAre
  <1>4. Stands(Lose1(q, InA), q, r.ssp - 1, "none")
    BY <1>3, Lose1Is
  <1>5. Stands(Lose1(q, InA), r, r.ssp - 1, "none")
    BY <1>1, <1>4, AlikeFirst
  <1>6. Stands(Lose1(r, d), r, r.ssp - 1, "none")
    BY <1>1, Lose1Is
  <1> QED
    BY <1>2, <1>5, <1>6

(* Cgadd leaves pendingop alone if the number 0 is on the top.             *)
LEMMA CgaddIs ==
  ASSUME NEW r, Typed(r, Items), r.ssp >= 3, r.pending = "none" \/ ~IsZero(Arg(r, 1))
  PROVE  Stands(Cgadd(r), r, r.ssp - 1, "none")
  <1>1. CASE IsZero(Arg(r, 1))
    <2>1. 1 \in 1 .. 3 /\ r.ssp - 1 >= 2
      BY TopNumbers
    <2>2. \A t \in 1 .. Len(r.ss) - 1 : r.ss[t].d \in Items
      <3>1. \A t \in 1 .. Len(r.ss) - 1 : t \in 1 .. Len(r.ss)
        BY TopNumbers
      <3> QED
        BY <3>1, AllSources
    <2>3. Stands(Drop(r, 1), r, r.ssp - 1, "none")
      BY <1>1, <2>1, <2>2, DropIs
    <2> QED
      BY <1>1, <2>3 DEF Cgadd
  <1>2. CASE ~IsZero(Arg(r, 1)) /\ IsZero(Arg(r, 2))
    BY <1>2, AddZeroIs DEF Cgadd
  <1>3. CASE ~IsZero(Arg(r, 1)) /\ ~IsZero(Arg(r, 2))
    <2> DEFINE q == InPlace(r)
    <2>1. Alike(q, r)
      BY InPlaceIs
    <2>2. Cgadd(r) = AddBoth(q)
      BY <1>3 DEF Cgadd
    <2> HIDE DEF q
    <2>3. Typed(q, Items) /\ q.ssp = r.ssp
      BY <2>1, AlikeTyped
    <2>4. Stands(AddBoth(q), q, r.ssp - 1, "none")
      BY <2>3, AddBothIs
    <2> QED
      BY <2>1, <2>2, <2>4, AlikeFirst
  <1> QED
    BY <1>1, <1>2, <1>3

(* The operands of a relation.  The items below them stay as they are, or  *)
(* move to A, B or their own words.                                        *)
Under(q, r, E) ==
  /\ Typed(q, E) /\ Len(q.ss) = Len(r.ss) /\ q.ssp = r.ssp /\ q.pending = r.pending
  /\ Held(r) => Held(q)
  /\ \A u \in 1 .. Len(r.ss) - 2 : q.ss[u].d \in {r.ss[u].d, InA, InB, Loc(r.ss[u].s)}

LEMMA MovedUnder ==
  ASSUME NEW q, NEW r, NEW E, Typed(r, E), Moved(q, r, E)
  PROVE  Under(q, r, E)
  <1>1. \A u \in 1 .. Len(r.ss) - 2 : u \in 1 .. Len(r.ss)
    BY TopNumbers
  <1> QED
    BY <1>1 DEF Moved, Under

LEMMA SwapUnder ==
  ASSUME NEW r, NEW E, Typed(r, E)
  PROVE  Under(SwapArgs(r), r, E)
  BY SwapIs DEF Under

LEMMA UnderTwice ==
  ASSUME NEW o, NEW q, NEW r, NEW E, Typed(r, E), Under(q, r, E), Under(o, q, E)
  PROVE  Under(o, r, E)
  <1>1. /\ Typed(q, E) /\ Typed(o, E) /\ Len(q.ss) = Len(r.ss) /\ q.ssp = r.ssp
        /\ q.pending = r.pending /\ Len(o.ss) = Len(r.ss) /\ o.ssp = r.ssp
        /\ o.pending = r.pending /\ (Held(r) => Held(o))
    BY DEF Under
  <1>2. ASSUME NEW u \in 1 .. Len(r.ss) - 2
        PROVE  o.ss[u].d \in {r.ss[u].d, InA, InB, Loc(r.ss[u].s)}
    <2>1. u \in 1 .. Len(r.ss)
      BY TopNumbers
    <2>2. r.ss[u].s = q.ss[u].s
      <3>1. r.ss[u].s = r.ssp - 1 - Len(r.ss) + u
        BY <2>1, ItemAt
      <3>2. q.ss[u].s = q.ssp - 1 - Len(q.ss) + u
        BY <1>1, <2>1, ItemAt
      <3> QED
        BY <1>1, <3>1, <3>2
    <2>3. q.ss[u].d \in {r.ss[u].d, InA, InB, Loc(r.ss[u].s)}
      BY DEF Under
    <2>4. o.ss[u].d \in {q.ss[u].d, InA, InB, Loc(q.ss[u].s)}
      BY <1>1 DEF Under
    <2> QED
      BY <2>2, <2>3, <2>4
  <1> QED
    BY <1>1, <1>2 DEF Under

LEMMA UnderSelf ==
  ASSUME NEW r, NEW E, Typed(r, E)
  PROVE  Under(r, r, E)
  BY MovedSelf, MovedUnder

LEMMA UnderAlike ==
  ASSUME NEW q, NEW r, Under(q, r, Items)
  PROVE  Alike(q, r)
  BY DEF Under, Alike, Stands, StandsIn

(* The operands are words. *)
Compares(p, r, E) == Under(p.r, r, E) /\ p.x \in Words /\ p.y \in Words

LEMMA PrepjIs ==
  ASSUME NEW r, NEW E, Typed(r, E), E \subseteq Items
  PROVE  Compares(Prepj(r), r, E)
  <1> DEFINE reversed == IsZero(Arg(r, 2))
             s == IF reversed THEN SwapArgs(r) ELSE r
             q == LoadA(s, Second(s))
             l == LoadBoth(s, Second(s), Top(s))
  <1>1. Under(s, r, E)
    BY SwapUnder, UnderSelf
  <1>2. Prepj(r) = IF IsZero(Arg(s, 1)) THEN WithZero(q, reversed) ELSE InBA(l, reversed)
    BY DEF Prepj
  <1> HIDE DEF s, reversed
  <1>3. Typed(s, E)
    BY <1>1 DEF Under
  <1>4. /\ Top(s) \in 1 .. Len(s.ss) /\ Second(s) \in 1 .. Len(s.ss)
        /\ s.ss[Top(s)].d \in Items /\ s.ss[Second(s)].d \in Items
    BY <1>3, ArgsAre, ItemAt
  <1>5. Under(q, s, E) /\ Under(l.r, s, E)
    BY <1>3, <1>4, LoadAMoves, LoadBothMoves, MovedUnder
  <1> HIDE DEF q, l
  <1>6. Under(q, r, E) /\ Under(l.r, r, E)
    BY <1>1, <1>5, UnderTwice
  <1>7. q.a \in Words /\ 0 \in Words /\ l.r.a \in Words /\ l.r.b \in Words
    <2>1. Typed(q, E) /\ Typed(l.r, E)
      BY <1>6 DEF Under
    <2>2. q.a \in Words /\ l.r.a \in Words /\ l.r.b \in Words
      BY <2>1, Tops, Zenon
    <2>3. 0 \in Words
      BY Sizes DEF Words
    <2> QED
      BY <2>2, <2>3, Zenon
  <1>8. Compares(WithZero(q, reversed), r, E) /\ Compares(InBA(l, reversed), r, E)
    BY <1>6, <1>7 DEF Compares, WithZero, InBA, Operands
  <1> QED
    BY <1>2, <1>8

(* A relation leaves its value in A and nothing known of the registers.    *)
LEMMA RelationIs ==
  ASSUME NEW r, Typed(r, Items), r.ssp >= 3, NEW p, Compares(p, r, Items), NEW f
  PROVE  Stands(Relation(f, p), r, r.ssp - 1, "none")
  <1> DEFINE true == O!Apply(f, p.x, p.y) = O!True
             t == [p.r EXCEPT !.b = p.r.a, !.a = O!True]
             e == [p.r EXCEPT !.a = O!False]
             q == IF true THEN t ELSE e
             o == Lose1(q, InA)
  <1>1. Relation(f, p) = ForgetAll(o)
    BY DEF Relation, Decided
  <1>2. Typed(p.r, Items) /\ p.r.ssp = r.ssp
    BY DEF Compares, Under
  <1>3. O!True \in Words /\ O!False \in Words
    BY Sizes DEF Words, O!True, O!False
  <1>4. Typed(t, Items) /\ Typed(e, Items) /\ t.ssp = r.ssp /\ e.ssp = r.ssp
    <2>1. p.r \in Fields(Items)
      BY <1>2 DEF Typed
    <2>2. /\ t \in Fields(Items) /\ t.ss = p.r.ss /\ t.ssp = p.r.ssp
          /\ e \in Fields(Items) /\ e.ss = p.r.ss /\ e.ssp = p.r.ssp
      BY <1>3, <2>1 DEF Fields
    <2> HIDE DEF t, e
    <2> QED
      BY <1>2, <2>2 DEF Typed, Stacked
  <1> HIDE DEF t, e, true
  <1>5. Typed(q, Items) /\ q.ssp = r.ssp
    BY <1>4
  <1> HIDE DEF q
  <1>6. Stands(o, q, r.ssp - 1, "none")
    BY <1>5, Lose1Is, RegisterSources, ItemsAre
  <1>7. Typed(o, Items) /\ o.ssp = r.ssp - 1 /\ o.pending = "none"
    BY <1>6 DEF Stands, StandsIn
  <1> HIDE DEF o
  <1>8. Moved(ForgetAll(o), o, Items) /\ Held(ForgetAll(o))
    BY <1>7, ForgetMoves
  <1> QED
    BY <1>1, <1>7, <1>8 DEF Moved, Stands, StandsIn

-----------------------------------------------------------------------------
(* The pending operator.                                                   *)
LEMMA PendIs ==
  ASSUME NEW r, Typed(r, Items), NEW p \in Pendings
  PROVE  /\ Stands([r EXCEPT !.pending = p], r, r.ssp, p)
         /\ [r EXCEPT !.pending = p].ss = r.ss
  <1> DEFINE q == [r EXCEPT !.pending = p]
  <1>1. r \in Fields(Items)
    BY DEF Typed
  <1>2. /\ q \in Fields(Items) /\ q.ss = r.ss /\ q.ssp = r.ssp /\ q.pending = p
        /\ q.a = r.a /\ q.b = r.b /\ q.m = r.m /\ q.ia = r.ia /\ q.ib = r.ib
    BY <1>1 DEF Fields
  <1> HIDE DEF q
  <1>3. Held(q) <=> Held(r)
    BY <1>2, HeldBy
  <1>4. Typed(q, Items)
    BY <1>2 DEF Typed, Stacked
  <1> QED
    BY <1>2, <1>3, <1>4 DEF Stands, StandsIn, q

(* A number is subtracted by adding another. *)
LEMMA NegatedIs ==
  ASSUME NEW d \in Items, d.k = "numb"
  PROVE  Numb(-d.n) \in Items
  <1>1. d.n \in Int
    BY DEF Items, Loadable, Variables, Simple, Kinds, InA, InB, Desc
  <1>2. -d.n \in Int
    BY <1>1
  <1> QED
    BY <1>2 DEF Items, Loadable, Numb, Desc

After(f, n) == IF f \in Dyadic THEN n - 1 ELSE n

LEMMA CombineIs ==
  ASSUME NEW r, Typed(r, Items), r.pending = "none", r.ssp >= 3, NEW f \in Pendings
  PROVE  Stands(Combine(f, r), r, After(f, r.ssp), "none")
  <1>1. \/ f = "none" \/ f = "neg" \/ f = "add" \/ f = "sub" \/ f = "mul"
        \/ f \in O!Relations
    BY DEF Pendings, Dyadic, O!Relations
  <1>2. CASE f = "none"
    BY <1>2 DEF Combine, O!Relations, After, Dyadic, Stands, StandsIn
  <1>3. CASE f = "neg"
    <2> DEFINE q == LoadA(r, Top(r))
               v == O!Negated(q.a)
    <2>1. Alike(q, r)
      BY ArgsAre, LoadAAlike
    <2>2. Combine(f, r) = GenOp(q, v)
      BY <1>3 DEF Combine, O!Relations, Negate
    <2> HIDE DEF q
    <2>3. Typed(q, Items)
      BY <2>1, AlikeTyped
    <2>4. v \in Words
      <3>1. -q.a \in Int
        <4>1. q.a \in Words
          BY <2>3, Tops, Zenon
        <4> QED
          BY <4>1 DEF Words
      <3> QED
        BY <3>1, ModWord DEF O!Negated
    <2> HIDE DEF v
    <2>5. Alike(GenOp(q, v), q)
      BY <2>3, <2>4, OpAlike
    <2>6. Alike(GenOp(q, v), r)
      BY <2>1, <2>5, AlikeTwice
    <2> QED
      BY <1>3, <2>2, <2>6 DEF Alike, After, Dyadic
  <1>4. CASE f \in O!Relations
    <2>1. Combine(f, r) = Relation(f, Prepj(r))
      BY <1>4 DEF Combine, O!Relations
    <2>2. Compares(Prepj(r), r, Items)
      BY PrepjIs, ItemsAre
    <2>3. Stands(Relation(f, Prepj(r)), r, r.ssp - 1, "none")
      BY <2>2, RelationIs
    <2> QED
      BY <1>4, <2>1, <2>3 DEF After, Dyadic, O!Relations
  <1>5. CASE f = "add"
    <2>1. Combine(f, r) = Cgadd(r)
      BY <1>5 DEF Combine, O!Relations
    <2> QED
      BY <1>5, <2>1, CgaddIs DEF After, Dyadic
  <1>6. CASE f = "sub" /\ Arg(r, 1).k = "numb"
    <2> DEFINE d == Numb(-Arg(r, 1).n)
               q == Set(r, Top(r), d)
    <2>1. Combine(f, r) = Cgadd(q)
      BY <1>6 DEF Combine, O!Relations
    <2>2. Arg(r, 1) \in Items
      BY ArgsAre
    <2>3. d \in Items
      BY <1>6, <2>2, NegatedIs
    <2> HIDE DEF d
    <2>4. Alike(q, r)
      BY <2>3, ArgsAre, SetAlike
    <2> HIDE DEF q
    <2>5. Typed(q, Items) /\ q.ssp = r.ssp /\ q.pending = "none"
      BY <2>4, AlikeTyped
    <2>6. Stands(Cgadd(q), q, r.ssp - 1, "none")
      BY <2>5, CgaddIs
    <2>7. Stands(Cgadd(q), r, r.ssp - 1, "none")
      BY <2>4, <2>6, AlikeFirst
    <2> QED
      BY <1>6, <2>1, <2>7 DEF After, Dyadic
  <1>7. CASE f = "sub" /\ Arg(r, 1).k # "numb"
    <2> DEFINE q == LoadBA(r, Second(r), Top(r))
    <2>1. Combine(f, r) = OnBA("sub", q)
      BY <1>7 DEF Combine, O!Relations
    <2>2. Alike(q, r)
      BY LoadBAAlike
    <2> HIDE DEF q
    <2>3. Typed(q, Items) /\ q.ssp = r.ssp
      BY <2>2, AlikeTyped
    <2>4. Stands(OnBA("sub", q), q, r.ssp - 1, "none")
      BY <2>3, OnBAIs DEF Dyadic
    <2>5. Stands(OnBA("sub", q), r, r.ssp - 1, "none")
      BY <2>2, <2>4, AlikeFirst
    <2> QED
      BY <1>7, <2>1, <2>5 DEF After, Dyadic
  <1>8. CASE f = "mul"
    <2> DEFINE q == LoadBoth(r, Second(r), Top(r)).r
    <2>1. Combine(f, r) = OnBA("mul", q)
      BY <1>8 DEF Combine, O!Relations
    <2>2. Alike(q, r)
      BY LoadBothAlike
    <2> HIDE DEF q
    <2>3. Typed(q, Items) /\ q.ssp = r.ssp
      BY <2>2, AlikeTyped
    <2>4. Stands(OnBA("mul", q), q, r.ssp - 1, "none")
      BY <2>3, OnBAIs DEF Dyadic
    <2>5. Stands(OnBA("mul", q), r, r.ssp - 1, "none")
      BY <2>2, <2>4, AlikeFirst
    <2> QED
      BY <1>8, <2>1, <2>5 DEF After, Dyadic
  <1> QED
    BY <1>1, <1>2, <1>3, <1>4, <1>5, <1>6, <1>7, <1>8

(* A statement can be translated: the links are always on the stack.       *)
Ready(r) == Typed(r, Items) /\ r.ssp >= 4

LEMMA CgpendingopIs ==
  ASSUME NEW r, Ready(r)
  PROVE  Stands(Cgpendingop(r), r, After(r.pending, r.ssp), "none")
  <1> DEFINE q == [r EXCEPT !.pending = "none"]
  <1>1. r.pending \in Pendings /\ "none" \in Pendings /\ Typed(r, Items) /\ r.ssp >= 4
    BY Tops DEF Ready, Pendings
  <1>2. Stands(q, r, r.ssp, "none")
    BY <1>1, PendIs
  <1>3. Cgpendingop(r) = Combine(r.pending, q)
    BY DEF Cgpendingop
  <1> HIDE DEF q
  <1>4. Typed(q, Items) /\ q.ssp = r.ssp /\ q.pending = "none" /\ q.ssp >= 3
    BY <1>1, <1>2, TopNumbers DEF Stands, StandsIn
  <1>5. Stands(Combine(r.pending, q), q, After(r.pending, r.ssp), "none")
    BY <1>1, <1>4, CombineIs
  <1> QED
    BY <1>2, <1>3, <1>5, StandsTwice

-----------------------------------------------------------------------------
(* Reading through addresses.                                              *)
SwappedIf(r, s) == s = r \/ s = SwapArgs(r)

LEMMA SwappedIfIs ==
  ASSUME NEW r, Typed(r, Items), NEW s, SwappedIf(r, s)
  PROVE  /\ Alike(s, r)
         /\ \/ Arg(s, 1) = Arg(r, 1) /\ Arg(s, 2) = Arg(r, 2)
            \/ Arg(s, 1) = Arg(r, 2) /\ Arg(s, 2) = Arg(r, 1)
  BY SwapAlike, AlikeSelf, SwapIs DEF SwappedIf

LEMMA PoppedIs ==
  ASSUME NEW r, Typed(r, Items), r.ssp >= 4
  PROVE  Stands(Popped(r), r, r.ssp - 1, "none")
  <1> DEFINE q == Drop(r, 1)
  <1>1. r.ssp - 1 \in Nat /\ r.ssp - 1 >= 2 /\ r.ssp - 1 < r.ssp /\ r.ssp \in Nat
    BY TopNumbers
  <1>2. \A t \in 1 .. Len(r.ss) - (r.ssp - (r.ssp - 1)) : r.ss[t].d \in Items
    <2>1. \A t \in 1 .. Len(r.ss) - (r.ssp - (r.ssp - 1)) : t \in 1 .. Len(r.ss)
      BY TopNumbers
    <2> QED
      BY <2>1, AllSources
  <1>3. Stands(q, r, r.ssp - 1, "none") \/ Stands(q, r, r.ssp - 1, r.pending)
    BY <1>1, <1>2, StackDown DEF Drop
  <1>4. Popped(r) = [q EXCEPT !.pending = "none"]
    BY DEF Popped
  <1> HIDE DEF q
  <1>5. Typed(q, Items) /\ q.ssp = r.ssp - 1 /\ (Held(r) => Held(q))
    BY <1>3 DEF Stands, StandsIn
  <1>6. Stands([q EXCEPT !.pending = "none"], q, r.ssp - 1, "none")
    BY <1>5, PendIs DEF Pendings
  <1> QED
    BY <1>4, <1>5, <1>6 DEF Stands, StandsIn

(* The sum of the numbers 0 and n, if it is pending, is that of an n the   *)
(* instructions can add to an address.                                     *)
ZeroApart(r) ==
  r.pending = "add" /\ Arg(r, 1).k = "numb" /\ Arg(r, 2).k = "numb" =>
    /\ Arg(r, 1).n = 0 => Arg(r, 2).n \in 0 .. 3
    /\ Arg(r, 2).n = 0 => Arg(r, 1).n \in 0 .. 3

(* What Index leaves: an address in one item and what to add to it, or an  *)
(* addition still pending, which need not be one of 0.                     *)
Offset(d) == d \in Loadable /\ (d.k = "numb" => d.n \in Nat)
IndexedBy(x, r) ==
  /\ x.by.k # "sum" /\ Offset(x.by) /\ Stands(x.r, r, After(r.pending, r.ssp), "none")
LeftToAdd(x, r) ==
  /\ x.by.k = "sum" /\ r.pending = "add" /\ Alike(x.r, r)
  /\ ZeroApart(r) => ~IsZero(Arg(x.r, 1)) /\ ~IsZero(Arg(x.r, 2))

LEMMA ItemIsNumb ==
  ASSUME NEW d \in Items, d.k = "numb"
  PROVE  d \in Loadable /\ d.i = -1 /\ d.n \in Int
  BY DEF Items, Loadable, Variables, Simple, Kinds, InA, InB, Desc

LEMMA ItemIsLoc ==
  ASSUME NEW d \in Items, d.k \in Kinds
  PROVE  d \in Loadable /\ d \in Variables
  BY DEF Items, Loadable, Kinds, InA, InB, Desc

LEMMA IndexIs ==
  ASSUME NEW r, Ready(r), NEW n \in Nat, n >= 3, NEW p
  PROVE  IndexedBy(Index(r, n, p), r) \/ LeftToAdd(Index(r, n, p), r)
  <1> DEFINE s == Swapped(r, LAMBDA d : d.k = "numb")
             t == Swapped(s, LAMBDA d : Within(d, "loc", 3, p))
             i == Index(r, n, p)
  <1>1. /\ i = IF r.pending # "add" THEN Indexed(Cgpendingop(r), Numb(0))
               ELSE IF Within(Arg(s, 1), "numb", 0, n) THEN Indexed(Popped(s), Arg(s, 1))
               ELSE IF Within(Arg(t, 1), "loc", 3, p) THEN Indexed(Popped(t), Arg(t, 1))
               ELSE Indexed(t, Desc("sum", 0))
    BY DEF Index
  <1>2. /\ s = IF Arg(r, 2).k = "numb" THEN SwapArgs(r) ELSE r
        /\ t = IF Within(Arg(s, 2), "loc", 3, p) THEN SwapArgs(s) ELSE s
    BY DEF Swapped
  <1> HIDE DEF s, t, i
  <1>3. Typed(r, Items) /\ r.ssp >= 4 /\ r.ssp \in Nat
    BY TopNumbers DEF Ready
  <1>4. /\ Typed(s, Items) /\ Alike(s, r) /\ s.ssp = r.ssp
        /\ \/ Arg(s, 1) = Arg(r, 1) /\ Arg(s, 2) = Arg(r, 2)
           \/ Arg(s, 1) = Arg(r, 2) /\ Arg(s, 2) = Arg(r, 1)
    BY <1>2, <1>3, SwappedIfIs, AlikeTyped DEF SwappedIf
  <1>5. /\ Typed(t, Items) /\ Alike(t, s) /\ t.ssp = s.ssp
        /\ \/ Arg(t, 1) = Arg(s, 1) /\ Arg(t, 2) = Arg(s, 2)
           \/ Arg(t, 1) = Arg(s, 2) /\ Arg(t, 2) = Arg(s, 1)
    BY <1>2, <1>4, SwappedIfIs, AlikeTyped DEF SwappedIf
  <1>6. Alike(t, r) /\ t.ssp = r.ssp
    BY <1>4, <1>5, AlikeTwice
  <1>7. CASE r.pending # "add"
    <2>1. i.r = Cgpendingop(r) /\ i.by = Numb(0)
      BY <1>1, <1>7 DEF Indexed
    <2>2. Offset(Numb(0)) /\ Numb(0).k # "sum"
      BY DEF Offset, Numb, Desc, Loadable
    <2> QED
      BY <2>1, <2>2, CgpendingopIs DEF IndexedBy, i
  <1>8. CASE r.pending = "add" /\ Within(Arg(s, 1), "numb", 0, n)
    <2>1. i.r = Popped(s) /\ i.by = Arg(s, 1)
      BY <1>1, <1>8 DEF Indexed
    <2>2. Arg(s, 1) \in Items /\ Arg(s, 1).k = "numb" /\ Arg(s, 1).n \in 0 .. n
      BY <1>4, <1>8, ArgsAre DEF Within, IsDirect
    <2>3. Offset(Arg(s, 1)) /\ Arg(s, 1).k # "sum"
      BY <2>2, ItemIsNumb DEF Offset
    <2>4. Stands(Popped(s), s, r.ssp - 1, "none")
      BY <1>3, <1>4, PoppedIs
    <2>5. Stands(Popped(s), r, r.ssp - 1, "none")
      BY <1>4, <2>4, AlikeFirst
    <2> QED
      BY <1>8, <2>1, <2>3, <2>5 DEF IndexedBy, After, Dyadic, i
  <1>9. CASE /\ r.pending = "add" /\ ~Within(Arg(s, 1), "numb", 0, n)
             /\ Within(Arg(t, 1), "loc", 3, p)
    <2>1. i.r = Popped(t) /\ i.by = Arg(t, 1)
      BY <1>1, <1>9 DEF Indexed
    <2>2. Arg(t, 1) \in Items /\ Arg(t, 1).k = "loc"
      BY <1>5, <1>9, ArgsAre DEF Within, IsDirect
    <2>3. Offset(Arg(t, 1)) /\ Arg(t, 1).k # "sum"
      BY <2>2, ItemIsLoc DEF Offset, Kinds
    <2>4. Stands(Popped(t), t, r.ssp - 1, "none")
      BY <1>3, <1>5, <1>6, PoppedIs
    <2>5. Stands(Popped(t), r, r.ssp - 1, "none")
      BY <1>6, <2>4, AlikeFirst
    <2> QED
      BY <1>9, <2>1, <2>3, <2>5 DEF IndexedBy, After, Dyadic, i
  <1>10. CASE /\ r.pending = "add" /\ ~Within(Arg(s, 1), "numb", 0, n)
              /\ ~Within(Arg(t, 1), "loc", 3, p)
    <2>1. i.r = t /\ i.by = Desc("sum", 0)
      BY <1>1, <1>10 DEF Indexed
    <2>2. ASSUME ZeroApart(r) PROVE ~IsZero(Arg(s, 1)) /\ ~IsZero(Arg(s, 2))
      <3>1. Arg(s, 1) \in Items /\ Arg(s, 2) \in Items
        BY <1>4, ArgsAre
      <3>2. Arg(s, 1).k = "numb" => Arg(s, 1).i = -1 /\ Arg(s, 1).n \in Int
        BY <3>1, ItemIsNumb
      <3>3. Arg(s, 1).k = "numb" => Arg(s, 1).n \notin 0 .. n
        BY <1>10, <3>2 DEF Within, IsDirect
      <3>4. 0 .. 3 \subseteq 0 .. n /\ 0 \in 0 .. n
        OBVIOUS
      <3>5. Arg(s, 1).k = "numb" => Arg(s, 1).n # 0 /\ Arg(s, 1).n \notin 0 .. 3
        BY <3>3, <3>4
      <3>6. Arg(s, 2).k = "numb" => Arg(s, 1).k = "numb"
        <4>1. CASE Arg(r, 2).k = "numb"
          <5>1. s = SwapArgs(r)
            BY <1>2, <4>1
          <5>2. Arg(s, 1) = Arg(r, 2)
            BY <1>3, <5>1, SwapIs
          <5> QED
            BY <4>1, <5>2
        <4>2. CASE Arg(r, 2).k # "numb"
          BY <1>2, <4>2
        <4> QED
          BY <4>1, <4>2
      <3>7. Arg(s, 2).k = "numb" /\ Arg(s, 2).n = 0 => Arg(s, 1).n \in 0 .. 3
        BY <1>4, <1>10, <2>2, <3>6 DEF ZeroApart
      <3> QED
        BY <3>5, <3>6, <3>7 DEF IsZero
    <2>3. ZeroApart(r) => ~IsZero(Arg(t, 1)) /\ ~IsZero(Arg(t, 2))
      BY <1>5, <2>2
    <2>4. Desc("sum", 0).k = "sum"
      BY DEF Desc
    <2> QED
      BY <1>6, <1>10, <2>1, <2>3, <2>4 DEF LeftToAdd, i
  <1> QED
    BY <1>7, <1>8, <1>9, <1>10 DEF i

LEMMA OffsetValue ==
  ASSUME NEW r, NEW E, Typed(r, E), NEW by, Offset(by)
  PROVE  Value(r, by) \in Words
  BY ValueIsWord DEF Offset, Anywhere, Items

LEMMA FetchedIs ==
  ASSUME NEW r, Typed(r, Items), NEW by, Offset(by)
  PROVE  Alike(Fetched(r, by), r)
  <1> DEFINE x == (r.a + Value(r, by)) % Size
             v == r.m[x]
  <1>1. r.a \in Words /\ r.m \in [Words -> Words]
    BY Tops
  <1>2. Value(r, by) \in Words
    BY OffsetValue
  <1>3. x \in Words
    <2>1. r.a + Value(r, by) \in Int
      BY <1>1, <1>2 DEF Words
    <2> QED
      BY <2>1, ModWord
  <1>4. Fetched(r, by) = GenOp(r, v)
    BY DEF Fetched
  <1> HIDE DEF x
  <1>5. v \in Words
    BY <1>1, <1>3
  <1> HIDE DEF v
  <1> QED
    BY <1>4, <1>5, OpAlike

LEMMA RvAtIs ==
  ASSUME NEW r, Typed(r, Items), NEW by, Offset(by)
  PROVE  Alike(RvAt(r, by), r)
  <1> DEFINE d == Arg(r, 1)
             e == [d EXCEPT !.i = by.n]
             q == LoadA(r, Top(r))
  <1>1. RvAt(r, by) = IF CanWait(d, by) THEN Set(r, Top(r), e) ELSE Fetched(q, by)
    BY DEF RvAt
  <1>2. d \in Items /\ Top(r) \in 1 .. Len(r.ss)
    BY ArgsAre
  <1> HIDE DEF d
  <1>3. CASE CanWait(d, by)
    <2>1. by.n \in Nat /\ d.k \in Kinds
      BY <1>3 DEF CanWait, Offset, Kinds
    <2>2. d \in Variables
      BY <1>2, <2>1, ItemIsLoc
    <2>3. e \in Variables
      BY <2>1, <2>2 DEF Variables, Simple, KindOf
    <2>4. e \in Items
      BY <2>3, RegisterSources, ItemsAre
    <2> HIDE DEF e
    <2> QED
      BY <1>1, <1>2, <1>3, <2>4, SetAlike
  <1>4. CASE ~CanWait(d, by)
    <2>1. Alike(q, r)
      BY <1>2, LoadAAlike
    <2>2. RvAt(r, by) = Fetched(q, by)
      BY <1>1, <1>4
    <2> HIDE DEF q
    <2>3. Typed(q, Items)
      BY <2>1, AlikeTyped
    <2>4. Alike(Fetched(q, by), q)
      BY <2>3, FetchedIs
    <2> QED
      BY <2>1, <2>2, <2>4, AlikeTwice
  <1> QED
    BY <1>3, <1>4

LEMMA AlikeThen ==
  ASSUME NEW o, NEW q, NEW r, NEW n, NEW p, Stands(q, r, n, p), Alike(o, q)
  PROVE  Stands(o, r, n, p)
  BY DEF Stands, StandsIn, Alike

LEMMA NoOffset ==
  Offset(Numb(0))
  BY DEF Offset, Numb, Desc, Loadable

(* An addition that is still pending can be made now. *)
LEMMA AddNow ==
  ASSUME NEW r, Ready(r), NEW x, LeftToAdd(x, r)
  PROVE  Stands(Cgpendingop(x.r), r, After(r.pending, r.ssp), "none")
  <1>1. /\ Typed(x.r, Items) /\ x.r.ssp = r.ssp /\ x.r.pending = r.pending /\ Alike(x.r, r)
    BY AlikeTyped DEF LeftToAdd
  <1>2. Ready(x.r)
    BY <1>1 DEF Ready
  <1>3. Stands(Cgpendingop(x.r), x.r, After(r.pending, r.ssp), "none")
    BY <1>1, <1>2, CgpendingopIs
  <1> QED
    BY <1>1, <1>3, AlikeFirst

LEMMA CgrvIs ==
  ASSUME NEW r, Ready(r)
  PROVE  Stands(Cgrv(r), r, After(r.pending, r.ssp), "none")
  <1> DEFINE x == Index(r, 6, 7)
             q == Cgpendingop(x.r)
             m == After(r.pending, r.ssp)
  <1>1. IndexedBy(x, r) \/ LeftToAdd(x, r)
    BY IndexIs
  <1>2. Cgrv(r) = IF x.by.k = "sum" THEN RvAt(q, Numb(0)) ELSE RvAt(x.r, x.by)
    BY DEF Cgrv, RvIndexed
  <1> HIDE DEF x
  <1>3. CASE IndexedBy(x, r)
    <2>1. /\ x.by.k # "sum" /\ Offset(x.by) /\ Stands(x.r, r, m, "none")
          /\ Typed(x.r, Items)
      BY <1>3 DEF IndexedBy, Stands, StandsIn
    <2>2. Alike(RvAt(x.r, x.by), x.r)
      BY <2>1, RvAtIs
    <2> QED
      BY <1>2, <2>1, <2>2, AlikeThen
  <1>4. CASE LeftToAdd(x, r)
    <2>1. x.by.k = "sum" /\ Stands(q, r, m, "none")
      BY <1>4, AddNow DEF LeftToAdd
    <2> HIDE DEF q
    <2>2. Typed(q, Items)
      BY <2>1 DEF Stands, StandsIn
    <2>3. Alike(RvAt(q, Numb(0)), q)
      BY <2>2, RvAtIs, NoOffset
    <2> QED
      BY <1>2, <2>1, <2>3, AlikeThen
  <1> QED
    BY <1>1, <1>3, <1>4

-----------------------------------------------------------------------------
(* Writing through addresses.  A word is stored, k cells are popped and no *)
(* variable is believed to be in A or B.                                   *)
Poked(r, x, v, k) == ForgetAllVars(Drop(GenStore(r, x, v), k))

LEMMA PokedIs ==
  ASSUME NEW r, NEW E, Typed(r, E), NEW x \in Words, NEW v \in Words, NEW k \in 1 .. 3,
         r.ssp - k >= 2, r.pending = "none",
         \A t \in 1 .. Len(r.ss) - k : r.ss[t].d \in Items
  PROVE  Stands(Poked(r, x, v, k), r, r.ssp - k, "none")
  <1> DEFINE w == [r.m EXCEPT ![x] = v]
             q == [r EXCEPT !.m = w]
             o == Drop(q, k)
             ja == {e \in o.ia : e.k \notin Kinds}
             jb == {e \in o.ib : e.k \notin Kinds}
             p == [o EXCEPT !.ia = ja, !.ib = jb]
  <1>1. r \in Fields(E) /\ r.m \in [Words -> Words]
    BY Tops DEF Typed
  <1>2. GenStore(r, x, v) = q
    BY <1>1 DEF GenStore, Fields
  <1>3. w \in [Words -> Words] /\ w = [r.m EXCEPT ![x] = v]
    BY <1>1
  <1> HIDE DEF w
  <1>4. /\ q \in Fields(E) /\ q.ss = r.ss /\ q.ssp = r.ssp /\ q.pending = r.pending
        /\ q.a = r.a /\ q.b = r.b /\ q.m = w /\ q.ia = r.ia /\ q.ib = r.ib
    BY <1>1, <1>3 DEF Fields
  <1> HIDE DEF q
  <1>5. Typed(q, E)
    BY <1>4 DEF Typed, Stacked
  <1>6. Stands(o, q, r.ssp - k, "none") /\ SameMachine(o, q)
    BY <1>4, <1>5, DropIs
  <1>7. Poked(r, x, v, k) = ForgetAllVars(o)
    BY <1>2 DEF Poked
  <1> HIDE DEF o
  <1>8. Typed(o, Items) /\ o.ssp = r.ssp - k /\ o.pending = "none"
    BY <1>6 DEF Stands, StandsIn
  <1>9. ForgetAllVars(o) = p /\ o \in Fields(Items)
    BY <1>8 DEF ForgetAllVars, Typed, Fields
  <1>10. ja \in SUBSET Loadable /\ jb \in SUBSET Loadable /\ ja \subseteq r.ia /\ jb \subseteq r.ib
    <2>1. o.ia = r.ia /\ o.ib = r.ib
      BY <1>4, <1>6 DEF SameMachine
    <2>2. r.ia \in SUBSET Loadable /\ r.ib \in SUBSET Loadable
      BY Tops
    <2> QED
      BY <2>1, <2>2
  <1>11. \A e \in ja \cup jb : e \in Loadable /\ e.k \notin Kinds
    BY <1>10
  <1> HIDE DEF ja, jb
  <1>12. /\ p \in Fields(Items) /\ p.ss = o.ss /\ p.ssp = o.ssp /\ p.pending = o.pending
         /\ p.a = o.a /\ p.b = o.b /\ p.m = o.m /\ p.ia = ja /\ p.ib = jb
    BY <1>9, <1>10 DEF Fields
  <1> HIDE DEF p
  <1>13. Typed(p, Items)
    BY <1>8, <1>12 DEF Typed, Stacked
  <1>14. p.a = r.a /\ p.b = r.b
    BY <1>3, <1>4, <1>6, <1>12 DEF SameMachine
  <1>15. ASSUME NEW e \in ja \cup jb PROVE Value(p, e) = Value(r, e)
    <2>1. e \in Loadable /\ e.k \notin Kinds
      BY <1>11
    <2>2. e.k \in {"numb", "lv"}
      BY <2>1 DEF Loadable, Variables, Simple
    <2> QED
      BY <2>2 DEF Value, Kinds
  <1>16. Held(r) => Held(p)
    <2>1. ASSUME Held(r) PROVE Held(p)
      <3>1. \A e \in ja : Value(p, e) = p.a
        BY <1>10, <1>14, <1>15, <2>1 DEF Held
      <3>2. \A e \in jb : Value(p, e) = p.b
        BY <1>10, <1>14, <1>15, <2>1 DEF Held
      <3> QED
        BY <1>12, <3>1, <3>2 DEF Held
    <2> QED
      BY <2>1
  <1> QED
    BY <1>7, <1>8, <1>9, <1>12, <1>13, <1>16 DEF Stands, StandsIn

LEMMA StoredIs ==
  ASSUME NEW r, Typed(r, Items), r.ssp >= 4, r.pending = "none",
         NEW at \in Int, NEW v \in Words
  PROVE  Stands(Stored(r, at, v), r, r.ssp - 2, "none")
  <1>1. at % Size \in Words
    BY ModWord
  <1>2. \A t \in 1 .. Len(r.ss) - 2 : r.ss[t].d \in Items
    <2>1. \A t \in 1 .. Len(r.ss) - 2 : t \in 1 .. Len(r.ss)
      BY TopNumbers
    <2> QED
      BY <2>1, AllSources
  <1>3. 2 \in 1 .. 3 /\ r.ssp - 2 >= 2
    BY TopNumbers
  <1>4. Stands(Poked(r, at % Size, v, 2), r, r.ssp - 2, "none")
    BY <1>1, <1>2, <1>3, PokedIs
  <1> QED
    BY <1>4 DEF Stored, Poked

LEMMA StoreBIs ==
  ASSUME NEW r, Typed(r, Items), r.ssp >= 4, r.pending = "none", NEW by, Offset(by)
  PROVE  Stands(StoreB(r, by), r, r.ssp - 2, "none")
  <1>1. r.a \in Words /\ r.b \in Words
    BY Tops
  <1>2. Value(r, by) \in Words
    BY OffsetValue
  <1>3. r.a + Value(r, by) \in Int
    BY <1>1, <1>2 DEF Words
  <1> QED
    BY <1>1, <1>3, StoredIs DEF StoreB

LEMMA StoreThroughIs ==
  ASSUME NEW r, Typed(r, Items), r.ssp >= 4, r.pending = "none", NEW d \in Variables,
         NEW by, by.n \in Int
  PROVE  Stands(StoreThrough(r, d, by), r, r.ssp - 2, "none")
  <1>1. r.a \in Words /\ r.m \in [Words -> Words]
    BY Tops
  <1>2. r.m[d.n] \in Words
    BY <1>1 DEF Variables, Simple
  <1>3. r.m[d.n] + by.n \in Int
    BY <1>2 DEF Words
  <1> QED
    BY <1>1, <1>3, StoredIs DEF StoreThrough

LEMMA StoreAtIs ==
  ASSUME NEW r, Typed(r, Items), r.ssp >= 4, r.pending = "none", NEW by, Offset(by)
  PROVE  Stands(StoreAt(r, by), r, r.ssp - 2, "none")
  <1> DEFINE d == Arg(r, 1)
             through == \/ IsDirect(d, "glob") /\ by = Numb(0)
                        \/ Within(d, "loc", 3, 4) /\ by \in {Numb(0), Numb(1)}
             q == LoadA(r, Second(r))
             o == LoadBA(r, Second(r), Top(r))
  <1>1. StoreAt(r, by) = IF through THEN StoreThrough(q, d, by) ELSE StoreB(o, by)
    BY DEF StoreAt
  <1>2. d \in Items /\ Alike(q, r) /\ Alike(o, r)
    BY ArgsAre, LoadAAlike, LoadBAAlike
  <1>3. through => d \in Variables /\ by.n \in Int
    <2>1. through => d.k \in Kinds /\ by.n \in Int
      BY DEF IsDirect, Within, Kinds, Numb, Desc
    <2> QED
      BY <1>2, <2>1, ItemIsLoc
  <1> HIDE DEF d, through, q, o
  <1>4. /\ Typed(q, Items) /\ q.ssp = r.ssp /\ q.pending = "none"
        /\ Typed(o, Items) /\ o.ssp = r.ssp /\ o.pending = "none"
    BY <1>2, AlikeTyped
  <1>5. through => Stands(StoreThrough(q, d, by), q, r.ssp - 2, "none")
    BY <1>3, <1>4, StoreThroughIs
  <1>6. through => Stands(StoreThrough(q, d, by), r, r.ssp - 2, "none")
    BY <1>2, <1>5, AlikeFirst
  <1>7. Stands(StoreB(o, by), o, r.ssp - 2, "none")
    BY <1>4, StoreBIs
  <1>8. Stands(StoreB(o, by), r, r.ssp - 2, "none")
    BY <1>2, <1>7, AlikeFirst
  <1> QED
    BY <1>1, <1>6, <1>8

(* An addition with the value to be stored in A: it is loaded after the    *)
(* operands, neither of which becomes the number 0.                        *)
LEMMA NotZeroStill ==
  ASSUME NEW q, NEW r, Typed(r, Items), Moved(q, r, Items), ~IsZero(Arg(r, 1))
  PROVE  ~IsZero(Arg(q, 1))
  <1>1. Typed(q, Items) /\ Len(q.ss) = Len(r.ss)
    BY DEF Moved
  <1>2. /\ Top(r) \in 1 .. Len(r.ss) /\ Top(q) = Top(r)
        /\ Arg(r, 1) = r.ss[Top(r)].d /\ Arg(q, 1) = q.ss[Top(r)].d
    BY <1>1, ArgsAre
  <1>3. q.ss[Top(r)].d \in {r.ss[Top(r)].d, InA, InB, Loc(r.ss[Top(r)].s)}
    BY <1>2 DEF Moved
  <1>4. InA.k # "numb" /\ InB.k # "numb" /\ Loc(r.ss[Top(r)].s).k # "numb"
    BY DEF InA, InB, Loc, Desc
  <1> QED
    BY <1>2, <1>3, <1>4 DEF IsZero

LEMMA StoreAtSumIs ==
  ASSUME NEW r, Ready(r), r.ssp >= 5, r.pending = "add", Len(r.ss) >= 3,
         ~IsZero(Arg(r, 1)), ~IsZero(Arg(r, 2))
  PROVE  Stands(StoreAtSum(r), r, r.ssp - 3, "none")
  <1>1. Typed(r, Items) /\ r.ssp \in Nat /\ After(r.pending, r.ssp) = r.ssp - 1
    BY TopNumbers DEF Ready, After, Dyadic
  <1>2. CASE Nameable(Arg(r, 1))
    <2> DEFINE q == Push(r, Top(r) - 2, Second(r))
               o == Cgadd(q)
    <2>1. StoreAtSum(r) = StoreB(o, Numb(0))
      BY <1>2 DEF StoreAtSum
    <2>2. Moved(q, r, Items)
      <3>1. Top(r) - 2 \in 0 .. Len(r.ss) /\ Second(r) \in 1 .. Len(r.ss)
        BY <1>1, ArgsAre, TopNumbers
      <3>2. r.ss[Second(r)].d \in Items
        BY <1>1, <3>1, AllSources
      <3> QED
        BY <1>1, <3>1, <3>2, PushMoves
    <2> HIDE DEF q
    <2>3. Typed(q, Items) /\ q.ssp = r.ssp /\ Alike(q, r)
      BY <2>2, MovedAlike DEF Moved
    <2>4. ~IsZero(Arg(q, 1))
      BY <1>1, <2>2, NotZeroStill
    <2>5. Stands(o, q, r.ssp - 1, "none")
      <3>1. q.ssp >= 3
        BY <1>1, <2>3
      <3>2. Stands(Cgadd(q), q, q.ssp - 1, "none")
        BY <2>3, <2>4, <3>1, CgaddIs
      <3> QED
        BY <2>3, <3>2
    <2> HIDE DEF o
    <2>6. Typed(o, Items) /\ o.ssp = r.ssp - 1 /\ o.pending = "none"
      BY <2>5 DEF Stands, StandsIn
    <2>7. Stands(StoreB(o, Numb(0)), o, r.ssp - 3, "none")
      <3>1. o.ssp >= 4 /\ o.ssp - 2 = r.ssp - 3
        BY <1>1, <2>6
      <3> QED
        BY <2>6, <3>1, NoOffset, StoreBIs
    <2>8. Stands(StoreB(o, Numb(0)), q, r.ssp - 3, "none")
      BY <2>5, <2>7, StandsTwice
    <2> QED
      BY <2>1, <2>3, <2>8, AlikeFirst
  <1>3. CASE ~Nameable(Arg(r, 1))
    <2> DEFINE o == Cgpendingop(r)
    <2>1. StoreAtSum(r) = StoreAt(o, Numb(0))
      BY <1>3 DEF StoreAtSum
    <2>2. Stands(o, r, r.ssp - 1, "none")
      BY <1>1, CgpendingopIs
    <2> HIDE DEF o
    <2>3. Typed(o, Items) /\ o.ssp = r.ssp - 1 /\ o.pending = "none"
      BY <2>2 DEF Stands, StandsIn
    <2>4. Stands(StoreAt(o, Numb(0)), o, r.ssp - 3, "none")
      <3>1. o.ssp >= 4 /\ o.ssp - 2 = r.ssp - 3
        BY <1>1, <2>3
      <3> QED
        BY <2>3, <3>1, NoOffset, StoreAtIs
    <2> QED
      BY <2>1, <2>2, <2>4, StandsTwice
  <1> QED
    BY <1>2, <1>3

LEMMA CgstindIs ==
  ASSUME NEW r, Ready(r), r.ssp >= 6, ZeroApart(r)
  PROVE  Stands(Cgstind(r), r, After(r.pending, r.ssp) - 2, "none")
  <1> DEFINE x == Index(r, 3, 5)
             q == Cgpendingop(x.r)
             s == Swapped(x.r, Nameable)
             m == After(r.pending, r.ssp)
  <1>1. IndexedBy(x, r) \/ LeftToAdd(x, r)
    BY IndexIs
  <1>2. Cgstind(r) = IF x.by.k # "sum" THEN StoreAt(x.r, x.by)
                     ELSE IF Top(x.r) = 2 \/ Arg(x.r, 3) # InA THEN StoreAt(q, Numb(0))
                     ELSE StoreAtSum(s)
    BY DEF Cgstind, StindIndexed
  <1>3. m \in Nat /\ m >= 4 /\ r.ssp \in Nat /\ Typed(r, Items)
    BY TopNumbers DEF After, Ready
  <1>4. s = IF Nameable(Arg(x.r, 2)) THEN SwapArgs(x.r) ELSE x.r
    BY DEF Swapped
  <1> HIDE DEF x, s, m
  <1>5. CASE IndexedBy(x, r)
    <2>1. /\ x.by.k # "sum" /\ Offset(x.by) /\ Stands(x.r, r, m, "none")
          /\ Typed(x.r, Items) /\ x.r.ssp = m /\ x.r.pending = "none"
      BY <1>5 DEF IndexedBy, Stands, StandsIn, m
    <2>2. Stands(StoreAt(x.r, x.by), x.r, m - 2, "none")
      BY <1>3, <2>1, StoreAtIs
    <2> QED
      BY <1>2, <2>1, <2>2, StandsTwice DEF m
  <1>6. CASE LeftToAdd(x, r) /\ (Top(x.r) = 2 \/ Arg(x.r, 3) # InA)
    <2>1. x.by.k = "sum" /\ Stands(q, r, m, "none")
      BY <1>6, AddNow DEF LeftToAdd, m
    <2> HIDE DEF q
    <2>2. Typed(q, Items) /\ q.ssp = m /\ q.pending = "none"
      BY <2>1 DEF Stands, StandsIn
    <2>3. Stands(StoreAt(q, Numb(0)), q, m - 2, "none")
      BY <1>3, <2>2, StoreAtIs, NoOffset
    <2>4. Stands(StoreAt(q, Numb(0)), r, m - 2, "none")
      BY <2>1, <2>3, StandsTwice
    <2> QED
      BY <1>2, <1>6, <2>1, <2>4 DEF m
  <1>7. CASE LeftToAdd(x, r) /\ ~(Top(x.r) = 2 \/ Arg(x.r, 3) # InA)
    <2>1. /\ x.by.k = "sum" /\ r.pending = "add" /\ Alike(x.r, r) /\ Typed(x.r, Items)
          /\ ~IsZero(Arg(x.r, 1)) /\ ~IsZero(Arg(x.r, 2))
      BY <1>7, AlikeTyped DEF LeftToAdd
    <2>2. /\ Alike(s, x.r)
          /\ \/ Arg(s, 1) = Arg(x.r, 1) /\ Arg(s, 2) = Arg(x.r, 2)
             \/ Arg(s, 1) = Arg(x.r, 2) /\ Arg(s, 2) = Arg(x.r, 1)
      BY <1>4, <2>1, SwappedIfIs DEF SwappedIf
    <2>3. Alike(s, r)
      BY <2>1, <2>2, AlikeTwice
    <2>4. /\ Typed(s, Items) /\ s.ssp = r.ssp /\ s.pending = "add"
          /\ Len(s.ss) = Len(x.r.ss)
      BY <2>1, <2>2, <2>3, AlikeTyped
    <2>5. Len(s.ss) >= 3
      BY <1>7, <2>1, <2>4, TopNumbers
    <2>6. Ready(s) /\ s.ssp >= 5
      BY <1>3, <2>1, <2>4 DEF Ready
    <2>7. Stands(StoreAtSum(s), s, s.ssp - 3, "none")
      BY <2>1, <2>2, <2>4, <2>5, <2>6, StoreAtSumIs
    <2>8. Stands(StoreAtSum(s), r, s.ssp - 3, "none")
      BY <2>3, <2>7, AlikeFirst
    <2>9. s.ssp - 3 = m - 2
      BY <1>3, <2>1, <2>4 DEF m, After, Dyadic
    <2> QED
      BY <1>2, <1>7, <2>1, <2>8, <2>9 DEF m
  <1> QED
    BY <1>1, <1>5, <1>6, <1>7

(* A variable is assigned to: it is in A.                                  *)
LEMMA StoreinIs ==
  ASSUME NEW r, Ready(r), r.ssp >= 5, NEW d \in Variables, d.i = -1
  PROVE  Stands(Storein(r, d), r, After(r.pending, r.ssp) - 1, "none")
  <1> DEFINE q == Cgpendingop(r)
             o == LoadA(q, Top(q))
             p == Keep(GenStore(o, d.n, o.a), d)
             m == After(r.pending, r.ssp)
  <1>1. m \in Nat /\ m >= 4
    BY TopNumbers DEF After, Ready
  <1>2. Storein(r, d) = Drop(p, 1)
    BY DEF Storein, StoreLoaded, StoreTop
  <1>3. Stands(q, r, m, "none")
    BY CgpendingopIs
  <1> HIDE DEF q
  <1>4. Typed(q, Items) /\ q.ssp = m /\ q.pending = "none"
    BY <1>3 DEF Stands, StandsIn
  <1>5. Alike(o, q)
    BY <1>4, ArgsAre, LoadAAlike
  <1> HIDE DEF o
  <1>6. Stands(o, r, m, "none") /\ Typed(o, Items)
    BY <1>3, <1>5, AlikeThen, AlikeTyped
  <1>7. Moved(p, o, Items)
    BY <1>6, KeepMoves
  <1> HIDE DEF p
  <1>8. Stands(p, r, m, "none")
    BY <1>6, <1>7, MovedAlike, AlikeThen
  <1>9. Typed(p, Items) /\ p.ssp = m /\ p.pending = "none"
    BY <1>8 DEF Stands, StandsIn
  <1>10. \A t \in 1 .. Len(p.ss) - 1 : p.ss[t].d \in Items
    <2>1. \A t \in 1 .. Len(p.ss) - 1 : t \in 1 .. Len(p.ss)
      BY <1>9, TopNumbers
    <2> QED
      BY <1>9, <2>1, AllSources
  <1>11. Stands(Drop(p, 1), p, m - 1, "none")
    <2>1. 1 \in 1 .. 3 /\ p.ssp - 1 >= 2
      BY <1>1, <1>9
    <2>2. Stands(Drop(p, 1), p, p.ssp - 1, "none")
      BY <1>9, <1>10, <2>1, DropIs
    <2> QED
      BY <1>9, <2>2
  <1> QED
    BY <1>2, <1>8, <1>11, StandsTwice

-----------------------------------------------------------------------------
(* Bytes.                                                                  *)
LEMMA ByteWord ==
  ASSUME NEW x \in Words, NEW y \in Words
  PROVE  O!ByteAt(x, y) \in Words
  <1>1. x - y \in Int
    BY DEF Words
  <1> QED
    BY <1>1, ModWord DEF O!ByteAt

LEMMA GetbyteIs ==
  ASSUME NEW r, Typed(r, Items), r.ssp >= 4
  PROVE  Stands(Getbyte(r), r, r.ssp - 1, "none")
  <1> DEFINE q == LoadBA(r, Second(r), Top(r))
             v == q.m[O!ByteAt(q.b, q.a)]
  <1>1. Alike(q, r)
    BY LoadBAAlike
  <1>2. Getbyte(r) = Result(q, v)
    BY DEF Getbyte, GetbyteBA
  <1> HIDE DEF q
  <1>3. Typed(q, Items) /\ q.ssp = r.ssp
    BY <1>1, AlikeTyped
  <1>4. v \in Words
    <2>1. q.a \in Words /\ q.b \in Words /\ q.m \in [Words -> Words]
      BY <1>3, Tops
    <2>2. O!ByteAt(q.b, q.a) \in Words
      BY <2>1, ByteWord
    <2> QED
      BY <2>1, <2>2
  <1> HIDE DEF v
  <1>5. Stands(Result(q, v), q, r.ssp - 1, "none")
    <2>1. q.ssp >= 3
      BY <1>3, TopNumbers
    <2>2. Stands(Result(q, v), q, q.ssp - 1, "none")
      BY <1>3, <1>4, <2>1, ResultIs
    <2> QED
      BY <1>3, <2>2
  <1> QED
    BY <1>1, <1>2, <1>5, AlikeFirst

(* C, which the byte goes to, says nothing of the items and the lists.     *)
LEMMA SetCAlike ==
  ASSUME NEW r, Typed(r, Items), NEW v \in Words
  PROVE  Alike([r EXCEPT !.c = v], r) /\ [r EXCEPT !.c = v].ss = r.ss
  <1> DEFINE q == [r EXCEPT !.c = v]
  <1>1. r \in Fields(Items)
    BY DEF Typed
  <1>2. /\ q \in Fields(Items) /\ q.ss = r.ss /\ q.ssp = r.ssp /\ q.pending = r.pending
        /\ q.a = r.a /\ q.b = r.b /\ q.m = r.m /\ q.ia = r.ia /\ q.ib = r.ib
    BY <1>1 DEF Fields
  <1> HIDE DEF q
  <1>3. Held(q) <=> Held(r)
    BY <1>2, HeldBy
  <1>4. Typed(q, Items)
    BY <1>2 DEF Typed, Stacked
  <1>5. Alike(q, r)
    BY <1>2, <1>3, <1>4 DEF Alike, Stands, StandsIn
  <1> QED
    BY <1>2, <1>5 DEF q

LEMMA TypedMore ==
  ASSUME NEW r, Typed(r, Items)
  PROVE  Typed(r, Anywhere)
  <1>1. r.ss \in Seq([d : Anywhere, s : Words])
    <2>1. Fits(r.ss, r.ssp)
      BY StackFits
    <2>2. FitsIn(r.ss, Anywhere, r.ssp)
      BY <2>1, FitsMore, ItemsAre DEF Fits
    <2> QED
      BY <2>2 DEF FitsIn
  <1>2. r \in Fields(Items)
    BY DEF Typed
  <1>3. r \in Fields(Anywhere)
    BY <1>1, <1>2 DEF Fields
  <1> QED
    BY <1>3, ItemsAre DEF Typed

(* The third item from the top may be in C now. *)
ByteInC(q, r) ==
  /\ StandsIn(q, r, Anywhere, r.ssp, "none")
  /\ \A t \in 1 .. Len(q.ss) : t # Len(q.ss) - 2 => q.ss[t].d \in Items

LEMMA AlikeByte ==
  ASSUME NEW q, NEW r, Stands(q, r, r.ssp, "none")
  PROVE  ByteInC(q, r)
  <1>1. Typed(q, Items)
    BY DEF Stands, StandsIn
  <1>2. Typed(q, Anywhere)
    BY <1>1, TypedMore
  <1>3. \A t \in 1 .. Len(q.ss) : q.ss[t].d \in Items
    BY <1>1, AllSources
  <1> QED
    BY <1>2, <1>3 DEF ByteInC, Stands, StandsIn

LEMMA SetByte ==
  ASSUME NEW q, NEW r, Alike(q, r), r.pending = "none", Len(r.ss) - 2 \in 1 .. Len(r.ss)
  PROVE  ByteInC(Set(q, Len(r.ss) - 2, InC), r)
  <1> DEFINE t == Len(r.ss) - 2
             o == Set(q, t, InC)
  <1>1. /\ Typed(q, Items) /\ Len(q.ss) = Len(r.ss) /\ q.ssp = r.ssp
        /\ q.pending = "none" /\ t \in 1 .. Len(q.ss)
    BY AlikeTyped
  <1>2. Typed(q, Anywhere) /\ InC \in Anywhere
    BY <1>1, TypedMore DEF Anywhere
  <1>3. t = Len(r.ss) - 2
    OBVIOUS
  <1> HIDE DEF t
  <1>4. /\ Typed(o, Anywhere) /\ Len(o.ss) = Len(q.ss) /\ o.ssp = q.ssp
        /\ o.pending = q.pending /\ (Held(o) <=> Held(q))
        /\ \A u \in 1 .. Len(q.ss) : o.ss[u].d = IF u = t THEN InC ELSE q.ss[u].d
    BY <1>1, <1>2, SetIs
  <1> HIDE DEF o
  <1>5. \A u \in 1 .. Len(o.ss) : u # Len(o.ss) - 2 => o.ss[u].d \in Items
    <2>1. \A u \in 1 .. Len(q.ss) : q.ss[u].d \in Items
      BY <1>1, AllSources
    <2> QED
      BY <1>1, <1>3, <1>4, <2>1
  <1>6. Held(r) => Held(q)
    BY DEF Alike, Stands, StandsIn
  <1> QED
    BY <1>1, <1>3, <1>4, <1>5, <1>6 DEF ByteInC, StandsIn, o

LEMMA AtoCAlike ==
  ASSUME NEW r, Typed(r, Items)
  PROVE  Alike(AtoC(r), r)
  <1>1. r.a \in Words
    BY Tops
  <1> QED
    BY <1>1, SetCAlike DEF AtoC

LEMMA InCRegIs ==
  ASSUME NEW r, Typed(r, Items), r.pending = "none", r.ssp >= 4, r.ssp < Frame
  PROVE  ByteInC(InCReg(r, Top(r) - 2), r)
  <1> DEFINE x == Top(r) - 2
  <1>1. /\ x \in Nat /\ Top(r) = Len(r.ss) /\ (x # 0 => x \in 1 .. Len(r.ss))
        /\ r.ssp \in Nat /\ x = Len(r.ss) - 2
    BY TopNumbers
  <1> HIDE DEF x
  <1>2. CASE x = 0
    <2> DEFINE d == Loc(r.ssp - 3)
               q == LoadT(r, d)
               o == LoadTop(q)
               p == AtoC(o)
    <2>1. InCReg(r, x) = Drop(p, 1)
      BY <1>2 DEF InCReg
    <2>2. d \in Items
      <3>1. r.ssp - 3 \in Nat /\ r.ssp - 3 < Frame
        BY <1>1, Sizes
      <3> QED
        BY <3>1, OwnIs
    <2> HIDE DEF d
    <2>3. Stands(q, r, r.ssp + 1, "none")
      BY <2>2, LoadTIs
    <2> HIDE DEF q
    <2>4. Typed(q, Items)
      BY <2>3 DEF Stands, StandsIn
    <2>5. Alike(o, q)
      BY <2>4, ArgsAre, LoadAAlike DEF LoadTop
    <2> HIDE DEF o
    <2>6. Typed(o, Items)
      BY <2>5, AlikeTyped
    <2>7. Alike(p, o)
      BY <2>6, AtoCAlike
    <2> HIDE DEF p
    <2>8. Stands(p, r, r.ssp + 1, "none")
      BY <2>3, <2>5, <2>7, AlikeThen
    <2>9. Typed(p, Items) /\ p.ssp = r.ssp + 1 /\ p.pending = "none"
      BY <2>8 DEF Stands, StandsIn
    <2>10. \A t \in 1 .. Len(p.ss) - 1 : p.ss[t].d \in Items
      <3>1. \A t \in 1 .. Len(p.ss) - 1 : t \in 1 .. Len(p.ss)
        BY <2>9, TopNumbers
      <3> QED
        BY <2>9, <3>1, AllSources
    <2>11. Stands(Drop(p, 1), p, r.ssp, "none")
      <3>1. 1 \in 1 .. 3 /\ p.ssp - 1 >= 2 /\ p.ssp - 1 = r.ssp
        BY <1>1, <2>9
      <3>2. Stands(Drop(p, 1), p, p.ssp - 1, "none")
        BY <2>9, <2>10, <3>1, DropIs
      <3> QED
        BY <3>1, <3>2
    <2>12. Stands(Drop(p, 1), r, r.ssp, "none")
      BY <2>8, <2>11, StandsTwice
    <2> QED
      BY <2>1, <2>12, AlikeByte DEF x
  <1>3. CASE x # 0 /\ InRegB(r, r.ss[x].d)
    <2> DEFINE q == [r EXCEPT !.c = r.b]
    <2>1. InCReg(r, x) = Set(q, x, InC)
      BY <1>3 DEF InCReg
    <2>2. r.b \in Words
      BY Tops
    <2>3. Alike(q, r)
      BY <2>2, SetCAlike
    <2> HIDE DEF q
    <2>4. ByteInC(Set(q, x, InC), r)
      BY <1>1, <1>3, <2>3, SetByte
    <2> QED
      BY <2>1, <2>4 DEF x
  <1>4. CASE x # 0 /\ ~InRegB(r, r.ss[x].d)
    <2> DEFINE o == LoadA(r, x)
               q == AtoC(o)
    <2>1. InCReg(r, x) = Set(q, x, InC)
      BY <1>4 DEF InCReg
    <2>2. Alike(o, r)
      BY <1>1, <1>4, LoadAAlike
    <2> HIDE DEF o
    <2>3. Typed(o, Items)
      BY <2>2, AlikeTyped
    <2>4. Alike(q, o)
      BY <2>3, AtoCAlike
    <2> HIDE DEF q
    <2>5. Alike(q, r)
      BY <2>2, <2>4, AlikeTwice
    <2>6. ByteInC(Set(q, x, InC), r)
      BY <1>1, <1>4, <2>5, SetByte
    <2> QED
      BY <2>1, <2>6 DEF x
  <1> QED
    BY <1>2, <1>3, <1>4 DEF x

LEMMA PutbyteCIs ==
  ASSUME NEW r, Typed(r, Anywhere), r.pending = "none", r.ssp >= 5,
         \A t \in 1 .. Len(r.ss) : t # Len(r.ss) - 2 => r.ss[t].d \in Items
  PROVE  Stands(PutbyteC(r), r, r.ssp - 3, "none")
  <1> DEFINE l == LoadBoth(r, Second(r), Top(r))
             q == l.r
             x == IF l.swapped THEN O!ByteAt(q.a, q.b) ELSE O!ByteAt(q.b, q.a)
             n == Len(r.ss)
  <1>1. /\ Top(r) \in 1 .. n /\ Second(r) \in 1 .. n /\ n \in Nat
        /\ Top(r) = n /\ Second(r) = n - 1 /\ n >= 2 /\ r.ssp \in Nat
    BY ArgsAre, TopNumbers
  <1>2. PutbyteC(r) = Poked(q, x, q.c, 3)
    BY DEF PutbyteC, PutC, Poked
  <1>3. r.ss[Top(r)].d \in Items /\ r.ss[Second(r)].d \in Items
    BY <1>1, ItemsAre
  <1>4. Moved(q, r, Anywhere)
    BY <1>1, <1>3, LoadBothMoves
  <1> HIDE DEF l, n
  <1>5. /\ Typed(q, Anywhere) /\ Len(q.ss) = n /\ q.ssp = r.ssp /\ q.pending = "none"
        /\ (Held(r) => Held(q))
    BY <1>4 DEF Moved, n
  <1>6. \A t \in 1 .. n - 3 : q.ss[t].d \in Items
    <2>1. ASSUME NEW t \in 1 .. n - 3 PROVE q.ss[t].d \in Items
      <3>1. t \in 1 .. Len(r.ss) /\ t # Len(r.ss) - 2
        BY <1>1 DEF n
      <3>2. r.ss[t].d \in Items /\ Loc(r.ss[t].s) \in Items /\ InA \in Items /\ InB \in Items
        BY <3>1, ItemAt, RegisterSources, ItemsAre
      <3> QED
        BY <1>4, <3>1, <3>2 DEF Moved
    <2> QED
      BY <2>1
  <1>7. q.a \in Words /\ q.b \in Words /\ q.c \in Words
    BY <1>5, Tops
  <1>8. x \in Words
    BY <1>7, ByteWord
  <1> HIDE DEF q, x
  <1>9. Stands(Poked(q, x, q.c, 3), q, r.ssp - 3, "none")
    <2>1. 3 \in 1 .. 3 /\ q.ssp - 3 >= 2
      BY <1>1, <1>5
    <2>2. \A t \in 1 .. Len(q.ss) - 3 : q.ss[t].d \in Items
      BY <1>5, <1>6
    <2>3. Stands(Poked(q, x, q.c, 3), q, q.ssp - 3, "none")
      BY <1>5, <1>7, <1>8, <2>1, <2>2, PokedIs
    <2> QED
      BY <1>5, <2>3
  <1> QED
    BY <1>2, <1>5, <1>9 DEF Stands, StandsIn

LEMMA PutbyteIs ==
  ASSUME NEW r, Typed(r, Items), r.pending = "none", r.ssp >= 5, r.ssp < Frame
  PROVE  Stands(Putbyte(r), r, r.ssp - 3, "none")
  <1> DEFINE q == InCReg(r, Top(r) - 2)
  <1>1. r.ssp >= 4
    BY TopNumbers
  <1>2. ByteInC(q, r)
    BY <1>1, InCRegIs
  <1>3. Putbyte(r) = PutbyteC(q)
    BY DEF Putbyte
  <1> HIDE DEF q
  <1>4. Stands(PutbyteC(q), q, r.ssp - 3, "none")
    BY <1>2, PutbyteCIs DEF ByteInC, StandsIn
  <1> QED
    BY <1>2, <1>3, <1>4 DEF ByteInC, Stands, StandsIn

-----------------------------------------------------------------------------
(* Calls.  Once the first argument has been loaded from the frame the      *)
(* lists are wrong, and they are cleared before they are used again.       *)
Like(q, r) ==
  Typed(q, Items) /\ q.ssp = r.ssp /\ q.pending = r.pending /\ Len(q.ss) = Len(r.ss)

LEMMA AlikeLike ==
  ASSUME NEW q, NEW r, Alike(q, r)
  PROVE  Like(q, r)
  BY AlikeTyped DEF Like

LEMMA LikeTwice ==
  ASSUME NEW o, NEW q, NEW r, Like(q, r), Like(o, q)
  PROVE  Like(o, r)
  BY DEF Like

LEMMA ItemOfIs ==
  ASSUME NEW r, Typed(r, Items), NEW s
  PROVE  ItemOf(r, s) \in 0 .. Second(r)
  <1>1. Second(r) \in Nat
    BY TopNumbers DEF Second
  <1>2. CASE \E t \in 1 .. Second(r) : r.ss[t].s = s
    <2>1. ItemOf(r, s) \in 1 .. Second(r)
      BY <1>2 DEF ItemOf
    <2> QED
      BY <1>1, <2>1
  <1>3. CASE ~\E t \in 1 .. Second(r) : r.ss[t].s = s
    BY <1>1, <1>3 DEF ItemOf
  <1> QED
    BY <1>2, <1>3

LEMMA OthersStoredIs ==
  ASSUME NEW r, Typed(r, Items), NEW a1 \in 0 .. Second(r), NEW k
  PROVE  Alike(OthersStored(r, a1, k), r)
  <1> DEFINE first == a1 # 0 /\ a1 = Top(r) - 2 /\ r.ss[a1].d = InA
             b1 == a1 + 1
             q == Push(r, a1, b1)
             o == StoreT(q, b1)
             p == Set(GenXch(o), a1, InA)
             I == {t \in 1 .. Second(r) : r.ss[t].s > k + 3}
  <1>1. OthersStored(r, a1, k) = IF first THEN p ELSE StoreItems(r, I)
    BY DEF OthersStored
  <1>2. Alike(StoreItems(r, I), r)
    <2> HIDE DEF I
    <2> QED
      BY StoreAnyMoves, MovedAlike
  <1>3. CASE first
    <2>1. a1 \in 0 .. Len(r.ss) /\ b1 \in 1 .. Len(r.ss) /\ Second(r) \in Nat
      BY <1>3, TopNumbers DEF Second
    <2> HIDE DEF b1
    <2>2. r.ss[b1].d \in Items
      BY <2>1, AllSources
    <2>3. Moved(q, r, Items)
      BY <2>1, <2>2, PushMoves
    <2> HIDE DEF q
    <2>4. Typed(q, Items) /\ b1 \in 1 .. Len(q.ss)
      BY <2>1, <2>3 DEF Moved
    <2>5. Moved(o, q, Items)
      BY <2>4, AllSources, StoreTMoves
    <2> HIDE DEF o
    <2>6. Moved(o, r, Items)
      BY <2>3, <2>5, MovedTwice
    <2>7. Moved(p, r, Items)
      BY <2>1, <2>6, ThenXch, ThenSet
    <2> QED
      BY <1>1, <1>3, <2>7, MovedAlike
  <1>4. CASE ~first
    BY <1>1, <1>2, <1>4
  <1> QED
    BY <1>3, <1>4

LEMMA FirstInAIs ==
  ASSUME NEW r, Typed(r, Items), NEW a1 \in 0 .. Second(r), NEW k \in Nat, k + 4 <= r.ssp
  PROVE  Like(FirstInA(r, a1, k), r)
  <1> DEFINE v == r.m[k + 3]
             q == [r EXCEPT !.b = r.a, !.a = v]
             o == LoadA(r, a1)
  <1>1. FirstInA(r, a1, k) = IF k + 3 >= r.ssp - 1 THEN r ELSE IF a1 = 0 THEN q ELSE o
    BY DEF FirstInA
  <1>2. r.a \in Words /\ r.m \in [Words -> Words] /\ r \in Fields(Items)
    BY Tops DEF Typed
  <1>3. k + 3 \in Words
    BY TopNumbers DEF Words
  <1>4. v \in Words
    BY <1>2, <1>3
  <1> HIDE DEF v
  <1>5. /\ q \in Fields(Items) /\ q.ss = r.ss /\ q.ssp = r.ssp /\ q.pending = r.pending
    BY <1>2, <1>4 DEF Fields
  <1> HIDE DEF q
  <1>6. Like(q, r)
    BY <1>5 DEF Like, Typed, Stacked
  <1>7. Like(r, r)
    BY DEF Like
  <1>8. CASE a1 # 0
    <2>1. a1 \in 1 .. Len(r.ss)
      BY <1>8, TopNumbers DEF Second
    <2>2. Like(o, r)
      BY <2>1, LoadAAlike, AlikeLike
    <2> HIDE DEF o
    <2> QED
      BY <1>1, <1>7, <1>8, <2>2
  <1>9. CASE a1 = 0
    <2> HIDE DEF o
    <2> QED
      BY <1>1, <1>6, <1>7, <1>9
  <1> QED
    BY <1>8, <1>9

(* The function and its arguments. *)
Givens == [r : Fields(Items), found : BOOLEAN, fn : Words, args : Seq(Words)]
Gives(x, r) == x \in Givens /\ Like(x.r, r)

LEMMA GivenIs ==
  ASSUME NEW r, Typed(r, Items), NEW k \in Nat, k + 4 <= r.ssp,
         NEW fn \in Words, NEW first \in Words
  PROVE  Gives(Given(r, k, fn, first), r)
  <1> DEFINE n == r.ssp - k - 4
             s == [i \in 1 .. n |-> IF i = 1 THEN first ELSE r.m[k + i + 2]]
             x == Given(r, k, fn, first)
  <1>1. n \in Nat /\ r.ssp \in Nat /\ r.ssp < Size /\ Size \in Nat /\ n = r.ssp - k - 4
    BY TopNumbers
  <1>2. x = [r |-> r, found |-> TRUE, fn |-> fn, args |-> s] /\ r \in Fields(Items)
    BY DEF Given, Typed
  <1>3. r.m \in [Words -> Words]
    BY Tops
  <1>4. s \in [1 .. n -> Words]
    <2>1. ASSUME NEW i \in 1 .. n PROVE r.m[k + i + 2] \in Words
      <3>1. k + i + 2 \in Words
        BY <1>1 DEF Words
      <3> QED
        BY <1>3, <3>1
    <2> HIDE DEF n
    <2> QED
      BY <2>1
  <1> HIDE DEF n, s, x
  <1>5. s \in Seq(Words)
    BY <1>1, <1>4, SeqDef
  <1> QED
    BY <1>2, <1>5 DEF Gives, Givens, Like, x

LEMMA PassedIs ==
  ASSUME NEW r, Typed(r, Items), NEW a1 \in 0 .. Second(r), NEW k \in Nat, k + 4 <= r.ssp
  PROVE  Gives(Passed(r, a1, k), r)
  <1> DEFINE d == Arg(r, 1)
             q == Push(r, a1, Top(r))
  <1>1. Passed(r, a1, k) = IF CallsGlobal(r, k) THEN Given(r, k, r.m[d.n], r.a)
                           ELSE GivenInB(q, k)
    BY DEF Passed
  <1>2. r.a \in Words /\ r.m \in [Words -> Words] /\ d \in Items
    BY Tops, ArgsAre
  <1>3. CASE CallsGlobal(r, k)
    <2>1. d.k = "glob"
      BY <1>3 DEF CallsGlobal, IsDirect
    <2>2. d \in Variables
      BY <1>2, <2>1, ItemIsLoc DEF Kinds
    <2>3. r.m[d.n] \in Words
      BY <1>2, <2>2 DEF Variables, Simple
    <2>4. Gives(Given(r, k, r.m[d.n], r.a), r)
      BY <1>2, <2>3, GivenIs
    <2> QED
      BY <1>1, <1>3, <2>4
  <1>4. CASE ~CallsGlobal(r, k)
    <2>1. a1 \in 0 .. Len(r.ss) /\ Top(r) \in 1 .. Len(r.ss)
      BY TopNumbers, ArgsAre DEF Second
    <2>2. r.ss[Top(r)].d \in Items
      BY <2>1, AllSources
    <2>3. Moved(q, r, Items)
      BY <2>1, <2>2, PushMoves
    <2>4. Like(q, r)
      BY <2>3, MovedAlike, AlikeLike
    <2> HIDE DEF q
    <2>5. Typed(q, Items) /\ k + 4 <= q.ssp
      BY <2>4 DEF Like
    <2>6. q.a \in Words /\ q.b \in Words
      BY <2>5, Tops
    <2>7. Gives(GivenInB(q, k), q)
      BY <2>5, <2>6, GivenIs DEF GivenInB
    <2>8. Gives(GivenInB(q, k), r)
      BY <2>4, <2>7, LikeTwice DEF Gives
    <2> QED
      BY <1>1, <1>4, <2>8
  <1> QED
    BY <1>3, <1>4

LEMMA FindingIs ==
  ASSUME NEW r, NEW x, Gives(x, r), NEW a1
  PROVE  Gives(Finding(x, a1), r)
  <1> DEFINE f == a1 # 0 \/ x.args = <<>>
             y == [x EXCEPT !.found = f]
  <1>1. x \in Givens /\ f \in BOOLEAN
    BY DEF Gives
  <1> HIDE DEF f
  <1>2. y \in Givens /\ y.r = x.r
    BY <1>1 DEF Givens
  <1> QED
    BY <1>2 DEF Gives, Finding, f

LEMMA ArgumentsOfIs ==
  ASSUME NEW r, Typed(r, Items), NEW a1 \in 0 .. Second(r), NEW k \in Nat, k + 4 <= r.ssp
  PROVE  Gives(ArgumentsOf(r, a1, k), r)
  <1> DEFINE o == OthersStored(r, a1, k)
             q == FirstInA(o, a1, k)
             x == Passed(q, a1, k)
  <1>1. ArgumentsOf(r, a1, k) = Finding(x, a1)
    BY DEF ArgumentsOf
  <1>2. Like(o, r)
    BY OthersStoredIs, AlikeLike
  <1> HIDE DEF o
  <1>3. Typed(o, Items) /\ k + 4 <= o.ssp /\ a1 \in 0 .. Second(o)
    BY <1>2, TopNumbers DEF Like, Second
  <1>4. Like(q, o)
    BY <1>3, FirstInAIs
  <1> HIDE DEF q
  <1>5. Typed(q, Items) /\ k + 4 <= q.ssp /\ a1 \in 0 .. Second(q)
    BY <1>3, <1>4, TopNumbers DEF Like, Second
  <1>6. Gives(x, q)
    BY <1>5, PassedIs
  <1>7. Gives(Finding(x, a1), q)
    BY <1>6, FindingIs
  <1>8. Like(q, r)
    BY <1>2, <1>4, LikeTwice
  <1> QED
    BY <1>1, <1>7, <1>8, LikeTwice DEF Gives

LEMMA ArgumentsIs ==
  ASSUME NEW r, Typed(r, Items), NEW k \in Nat, k + 4 <= r.ssp
  PROVE  Gives(Arguments(r, k), r)
  <1> DEFINE I == {t \in 1 .. Second(r) : r.ss[t].s < k /\ r.ss[t].d = InA}
             q == StoreItems(r, I)
             a1 == ItemOf(q, k + 3)
  <1>1. Arguments(r, k) = ArgumentsOf(q, a1, k)
    BY DEF Arguments, BelowStored
  <1> HIDE DEF I
  <1>2. Like(q, r)
    BY StoreAnyMoves, MovedAlike, AlikeLike
  <1> HIDE DEF q
  <1>3. Typed(q, Items) /\ k + 4 <= q.ssp
    BY <1>2 DEF Like
  <1>4. a1 \in 0 .. Second(q)
    BY <1>3, ItemOfIs
  <1> HIDE DEF a1
  <1>5. Gives(ArgumentsOf(q, a1, k), q)
    BY <1>3, <1>4, ArgumentsOfIs
  <1> QED
    BY <1>1, <1>2, <1>5, LikeTwice DEF Gives

LEMMA CallResult ==
  ASSUME NEW fn \in Words, NEW args \in Seq(Words)
  PROVE  O!Result(fn, args) \in Words
  <1> DEFINE first == IF args = <<>> THEN 0 ELSE 3 * Head(args)
  <1>1. first \in Int
    <2>1. args # <<>> => Head(args) \in Words
      BY HeadTailProperties
    <2> QED
      BY <2>1 DEF Words
  <1>2. Len(args) \in Nat /\ fn \in Int
    BY DEF Words
  <1> HIDE DEF first
  <1>3. fn + first + 5 * Len(args) \in Int
    BY <1>1, <1>2
  <1>4. (fn + first + 5 * Len(args)) % Size \in Words
    BY <1>3, ModWord
  <1> QED
    BY <1>4 DEF O!Result, first

LEMMA EffectIs ==
  ASSUME NEW m \in [Words -> Words]
  PROVE  O!Effect(m) \in [Words -> Words]
  <1>1. Frame \in Words
    BY Sizes DEF Words
  <1>2. m[Frame] + 5 \in Int
    BY <1>1 DEF Words
  <1>3. (m[Frame] + 5) % Size \in Words
    BY <1>2, ModWord
  <1> QED
    BY <1>1, <1>3 DEF O!Effect

LEMMA ReturnedIs ==
  ASSUME NEW r, NEW x, Gives(x, r), NEW k
  PROVE  Like(Returned(x, k), r)
  <1> DEFINE v == O!Result(x.fn, x.args)
             w == [y \in DOMAIN x.r.m |-> IF y \in k .. Frame - 1 THEN 0 ELSE x.r.m[y]]
             e == O!Effect(w)
             q == [x.r EXCEPT !.a = v, !.b = 0, !.c = 0, !.m = e]
  <1>1. x.r \in Fields(Items) /\ Like(x.r, r) /\ x.fn \in Words /\ x.args \in Seq(Words)
    BY DEF Gives, Givens
  <1>2. v \in Words /\ 0 \in Words
    <2>1. v \in Words
      BY <1>1, CallResult
    <2>2. 0 \in Words
      BY Sizes DEF Words
    <2> QED
      BY <2>1, <2>2
  <1>3. w \in [Words -> Words]
    <2>1. x.r.m \in [Words -> Words]
      BY <1>1 DEF Fields
    <2> QED
      BY <1>2, <2>1
  <1> HIDE DEF v, w
  <1>4. e \in [Words -> Words]
    BY <1>3, EffectIs
  <1>5. Returned(x, k) = q
    BY <1>1 DEF Returned, Fields, v, w
  <1> HIDE DEF e
  <1>6. q \in Fields(Items) /\ q.ss = x.r.ss /\ q.ssp = x.r.ssp /\ q.pending = x.r.pending
    BY <1>1, <1>2, <1>4 DEF Fields
  <1> HIDE DEF q
  <1>7. Typed(q, Items)
    BY <1>1, <1>6 DEF Like, Typed, Stacked
  <1> QED
    BY <1>1, <1>5, <1>6, <1>7 DEF Like

(* After a call what the registers hold is known again: nothing, or the    *)
(* result in A.                                                            *)
Settled(q, n) == Typed(q, Items) /\ Held(q) /\ q.ssp = n /\ q.pending = "none"

LEMMA CgapplyIs ==
  ASSUME NEW r, Typed(r, Items), r.pending = "none", NEW k \in Nat, k >= 2, k + 4 <= r.ssp,
         NEW x, Gives(x, r), NEW isfn \in BOOLEAN
  PROVE  Settled(Cgapply(x, k, isfn), IF isfn THEN k + 1 ELSE k)
  <1> DEFINE q == Returned(x, k)
             o == ForgetAll(q)
             s == StackTo(o, k)
  <1>1. Cgapply(x, k, isfn) = IF isfn THEN LoadT(s, InA) ELSE s
    BY DEF Cgapply
  <1>2. Like(q, r)
    BY ReturnedIs
  <1> HIDE DEF q
  <1>3. Typed(q, Items) /\ q.ssp = r.ssp /\ q.pending = "none"
    BY <1>2 DEF Like
  <1>4. /\ Typed(o, Items) /\ o.ssp = r.ssp /\ o.pending = "none" /\ Held(o)
    BY <1>3, ForgetMoves DEF Moved
  <1> HIDE DEF o
  <1>5. Stands(s, o, k, "none")
    <2>1. k < o.ssp
      BY <1>4, TopNumbers
    <2>2. \A t \in 1 .. Len(o.ss) - (o.ssp - k) : o.ss[t].d \in Items
      <3>1. \A t \in 1 .. Len(o.ss) - (o.ssp - k) : t \in 1 .. Len(o.ss)
        BY <1>4, <2>1, TopNumbers
      <3> QED
        BY <1>4, <3>1, AllSources
    <2> QED
      BY <1>4, <2>1, <2>2, StackDown
  <1> HIDE DEF s
  <1>6. Typed(s, Items) /\ Held(s) /\ s.ssp = k /\ s.pending = "none"
    BY <1>4, <1>5 DEF Stands, StandsIn
  <1>7. Stands(LoadT(s, InA), s, k + 1, "none")
    <2>1. s.ssp < Frame /\ InA \in Items
      BY <1>3, <1>6, TopNumbers, RegisterSources, ItemsAre
    <2> QED
      BY <1>6, <2>1, LoadTIs
  <1> QED
    BY <1>1, <1>6, <1>7 DEF Settled, Stands, StandsIn

-----------------------------------------------------------------------------
(* Jumps.  The operands of the relation are popped, and no item below them *)
(* is a number it did not hold before.                                     *)
LEMMA JumpOnIs ==
  ASSUME NEW r, NEW E, Typed(r, E), r.pending = "none", r.ssp >= 4,
         NEW p, Compares(p, r, E),
         \A t \in 1 .. Len(r.ss) - 2 : r.ss[t].d \in Items, NEW f
  PROVE  Stands(JumpOn(f, p).r, r, r.ssp - 2, "none")
  <1>1. JumpOn(f, p).r = Drop(p.r, 2)
    BY DEF JumpOn
  <1>2. /\ Typed(p.r, E) /\ Len(p.r.ss) = Len(r.ss) /\ p.r.ssp = r.ssp
        /\ p.r.pending = "none" /\ (Held(r) => Held(p.r))
    BY DEF Compares, Under
  <1>3. \A t \in 1 .. Len(p.r.ss) - 2 : p.r.ss[t].d \in Items
    <2>1. ASSUME NEW t \in 1 .. Len(r.ss) - 2 PROVE p.r.ss[t].d \in Items
      <3>1. t \in 1 .. Len(r.ss)
        BY TopNumbers
      <3>2. r.ss[t].d \in Items /\ Loc(r.ss[t].s) \in Items /\ InA \in Items /\ InB \in Items
        BY <3>1, ItemAt, RegisterSources, ItemsAre
      <3> QED
        BY <3>1, <3>2 DEF Compares, Under
    <2> QED
      BY <1>2, <2>1
  <1>4. 2 \in 1 .. 3 /\ p.r.ssp - 2 >= 2
    BY <1>2, TopNumbers
  <1>5. Stands(Drop(p.r, 2), p.r, p.r.ssp - 2, "none")
    BY <1>2, <1>3, <1>4, DropIs
  <1> QED
    BY <1>1, <1>2, <1>5 DEF Stands, StandsIn

LEMMA JumpStoredIs ==
  ASSUME NEW r, NEW E, Typed(r, E), E \subseteq Items, r.pending = "none", r.ssp >= 4,
         \A t \in 1 .. Len(r.ss) - 2 : r.ss[t].d \in Items, NEW f, NEW sense
  PROVE  Stands(JumpStored(f, sense, r).r, r, r.ssp - 2, "none")
  <1> DEFINE q == StoreCells(r, 0, r.ssp - 3)
             p == Prepj(q)
             h == IF sense THEN f ELSE Complement(f)
  <1>1. JumpStored(f, sense, r) = JumpOn(h, p)
    BY DEF JumpStored
  <1>2. Moved(q, r, E)
    <2>1. \A t \in 1 .. Len(r.ss) : r.ss[t].d \in Items
      BY ItemAt
    <2> QED
      BY <2>1, StoreItemsMoves DEF StoreCells
  <1> HIDE DEF q
  <1>3. /\ Typed(q, E) /\ Len(q.ss) = Len(r.ss) /\ q.ssp = r.ssp /\ q.pending = "none"
        /\ (Held(r) => Held(q)) /\ q.ssp >= 4
    BY <1>2 DEF Moved
  <1>4. \A t \in 1 .. Len(q.ss) - 2 : q.ss[t].d \in Items
    <2>1. ASSUME NEW t \in 1 .. Len(r.ss) - 2 PROVE q.ss[t].d \in Items
      <3>1. t \in 1 .. Len(r.ss)
        BY TopNumbers
      <3>2. r.ss[t].d \in Items /\ Loc(r.ss[t].s) \in Items /\ InA \in Items /\ InB \in Items
        BY <3>1, ItemAt, RegisterSources, ItemsAre
      <3> QED
        BY <1>2, <3>1, <3>2 DEF Moved
    <2> QED
      BY <1>3, <2>1
  <1>5. Compares(p, q, E)
    BY <1>3, PrepjIs
  <1> HIDE DEF p, h
  <1>6. Stands(JumpOn(h, p).r, q, q.ssp - 2, "none")
    BY <1>3, <1>4, <1>5, JumpOnIs
  <1> QED
    BY <1>1, <1>3, <1>6 DEF Stands, StandsIn

LEMMA JumpedIs ==
  ASSUME NEW r, Ready(r), r.ssp >= 5, After(r.pending, r.ssp) < Frame, NEW sense
  PROVE  Stands(Jumped(r, sense).r, r, After(r.pending, r.ssp) - 1, "none")
  <1>1. Typed(r, Items) /\ r.ssp \in Nat
    BY TopNumbers DEF Ready
  <1>2. CASE r.pending \in O!Relations
    <2> DEFINE q == [r EXCEPT !.pending = "none"]
    <2>1. Jumped(r, sense) = JumpStored(r.pending, sense, q)
      BY <1>2 DEF Jumped
    <2>2. Stands(q, r, r.ssp, "none")
      BY <1>1, PendIs DEF Pendings
    <2> HIDE DEF q
    <2>3. /\ Typed(q, Items) /\ q.ssp = r.ssp /\ q.pending = "none" /\ q.ssp >= 4
          /\ r.ssp - 2 = After(r.pending, r.ssp) - 1
      BY <1>1, <1>2, <2>2 DEF Stands, StandsIn, After, Dyadic, O!Relations
    <2>4. \A t \in 1 .. Len(q.ss) - 2 : q.ss[t].d \in Items
      <3>1. \A t \in 1 .. Len(q.ss) - 2 : t \in 1 .. Len(q.ss)
        BY <2>3, TopNumbers
      <3> QED
        BY <2>3, <3>1, AllSources
    <2>5. Stands(JumpStored(r.pending, sense, q).r, q, q.ssp - 2, "none")
      BY <2>3, <2>4, ItemsAre, JumpStoredIs
    <2> QED
      BY <2>1, <2>2, <2>3, <2>5, StandsTwice
  <1>3. CASE r.pending \notin O!Relations
    <2> DEFINE q == Cgpendingop(r)
               o == LoadT(q, Numb(0))
               m == After(r.pending, r.ssp)
               E == Items \cup {Numb(0)}
    <2>1. Jumped(r, sense) = JumpStored("ne", sense, o)
      BY <1>3 DEF Jumped
    <2>2. Stands(q, r, m, "none")
      BY CgpendingopIs
    <2> HIDE DEF q
    <2>3. Typed(q, Items) /\ q.ssp = m /\ q.pending = "none"
      BY <2>2 DEF Stands, StandsIn
    <2>4. Items \subseteq E /\ E \subseteq Items /\ E \subseteq Anywhere /\ Numb(0) \in E
      <3>1. Numb(0) \in Items
        BY DEF Numb, Desc, Items, Loadable
      <3> QED
        BY <3>1, ItemsAre DEF Anywhere
    <2> HIDE DEF E
    <2>5. /\ StandsIn(o, q, E, q.ssp + 1, q.pending)
          /\ \A t \in 1 .. Len(o.ss) - 1 : o.ss[t].d \in Items
      BY <2>3, <2>4, LoadTInIs
    <2> HIDE DEF o
    <2>6. m \in Nat /\ m >= 4 /\ m + 1 - 2 = m - 1
      BY <1>1 DEF After
    <2>7. Typed(o, E) /\ o.ssp = m + 1 /\ o.pending = "none" /\ o.ssp >= 4
          /\ (Held(q) => Held(o))
      BY <2>3, <2>5, <2>6 DEF StandsIn
    <2>8. \A t \in 1 .. Len(o.ss) - 2 : o.ss[t].d \in Items
      <3>1. \A t \in 1 .. Len(o.ss) - 2 : t \in 1 .. Len(o.ss) - 1
        BY <2>7, TopNumbers
      <3> QED
        BY <2>5, <3>1
    <2>9. Stands(JumpStored("ne", sense, o).r, o, o.ssp - 2, "none")
      BY <2>4, <2>7, <2>8, JumpStoredIs
    <2>10. Stands(JumpStored("ne", sense, o).r, o, m - 1, "none")
      BY <2>6, <2>7, <2>9
    <2>11. Stands(JumpStored("ne", sense, o).r, r, m - 1, "none")
      BY <2>2, <2>7, <2>10 DEF Stands, StandsIn
    <2> QED
      BY <2>1, <2>11
  <1> QED
    BY <1>2, <1>3

(* Everything in its own word; at a label nothing is known. *)
LEMMA AllStoredIs ==
  ASSUME NEW r, Ready(r)
  PROVE  Stands(AllStored(Cgpendingop(r)), r, After(r.pending, r.ssp), "none")
  <1> DEFINE q == Cgpendingop(r)
  <1>1. Stands(q, r, After(r.pending, r.ssp), "none")
    BY CgpendingopIs
  <1> HIDE DEF q
  <1>2. Typed(q, Items)
    BY <1>1 DEF Stands, StandsIn
  <1>3. Alike(AllStored(q), q)
    BY <1>2, StoreCellsMoves, MovedAlike DEF AllStored
  <1> QED
    BY <1>1, <1>3, AlikeThen DEF q

WithAB(r, x, y) == [r EXCEPT !.a = x, !.b = y]

LEMMA NothingHeld ==
  ASSUME NEW r, Typed(r, Items), r.ia = {}, r.ib = {}, NEW x \in Words, NEW y \in Words
  PROVE  /\ Typed(WithAB(r, x, y), Items) /\ Held(WithAB(r, x, y))
         /\ WithAB(r, x, y).ssp = r.ssp /\ WithAB(r, x, y).pending = r.pending
  <1> DEFINE q == [r EXCEPT !.a = x, !.b = y]
  <1>1. r \in Fields(Items)
    BY DEF Typed
  <1>2. /\ q \in Fields(Items) /\ q.ss = r.ss /\ q.ssp = r.ssp /\ q.pending = r.pending
        /\ q.ia = {} /\ q.ib = {}
    BY <1>1 DEF Fields
  <1> HIDE DEF q
  <1>3. Typed(q, Items)
    BY <1>2 DEF Typed, Stacked
  <1>4. Held(q)
    BY <1>2 DEF Held
  <1> QED
    BY <1>2, <1>3, <1>4 DEF q, WithAB

LEMMA ForgottenIs ==
  ASSUME NEW r, Typed(r, Items)
  PROVE  /\ Typed(ForgetAll(r), Items) /\ ForgetAll(r).ssp = r.ssp
         /\ ForgetAll(r).pending = r.pending
         /\ ForgetAll(r).ia = {} /\ ForgetAll(r).ib = {} /\ ForgetAll(r).a = r.a
  <1>1. Moved(ForgetAll(r), r, Items)
    BY ForgetMoves
  <1>2. r \in Fields(Items)
    BY DEF Typed
  <1>3. ForgetAll(r).ia = {} /\ ForgetAll(r).ib = {} /\ ForgetAll(r).a = r.a
    BY <1>2 DEF ForgetAll, ForgetA, ForgetB, Fields
  <1> QED
    BY <1>1, <1>3 DEF Moved

LEMMA AtLabelIs ==
  ASSUME NEW r, Ready(r)
  PROVE  Settled(AtLabel(r), After(r.pending, r.ssp))
  <1> DEFINE q == AllStored(Cgpendingop(r))
             o == ForgetAll(q)
  <1>1. AtLabel(r) = WithAB(o, 0, 0)
    BY DEF AtLabel, WithAB
  <1>2. Stands(q, r, After(r.pending, r.ssp), "none")
    BY AllStoredIs
  <1> HIDE DEF q
  <1>3. Typed(q, Items) /\ q.ssp = After(r.pending, r.ssp) /\ q.pending = "none"
    BY <1>2 DEF Stands, StandsIn
  <1>4. /\ Typed(o, Items) /\ o.ssp = After(r.pending, r.ssp) /\ o.pending = "none"
        /\ o.ia = {} /\ o.ib = {}
    BY <1>3, ForgottenIs
  <1> HIDE DEF o
  <1>5. 0 \in Words
    BY Sizes DEF Words
  <1> QED
    BY <1>1, <1>4, <1>5, NothingHeld DEF Settled

LEMMA ResultOfIs ==
  ASSUME NEW r, Ready(r), r.ssp >= 5
  PROVE  Settled(ResultOf(r), After(r.pending, r.ssp))
  <1> DEFINE q == Cgpendingop(r)
             s == StoreCells(q, 0, q.ssp - 2)
             t == LoadTop(s)
             o == Drop(t, 1)
             p == [ForgetAll(o) EXCEPT !.b = 0]
             m == After(r.pending, r.ssp)
  <1>1. ResultOf(r) = LoadT(p, InA)
    BY DEF ResultOf, InAOnly
  <1>2. Stands(q, r, m, "none")
    BY CgpendingopIs
  <1> HIDE DEF q
  <1>3. Typed(q, Items)
    BY <1>2 DEF Stands, StandsIn
  <1>4. Alike(s, q)
    BY <1>3, StoreCellsMoves, MovedAlike
  <1> HIDE DEF s
  <1>5. Typed(s, Items)
    BY <1>4, AlikeTyped
  <1>6. Alike(t, s)
    BY <1>5, ArgsAre, LoadAAlike DEF LoadTop
  <1> HIDE DEF t
  <1>7. Stands(t, r, m, "none")
    BY <1>2, <1>4, <1>6, AlikeThen
  <1>8. Typed(t, Items) /\ t.ssp = m /\ t.pending = "none"
    BY <1>7 DEF Stands, StandsIn
  <1>9. m \in Nat /\ m >= 4 /\ m <= Frame
    BY <1>8, TopNumbers DEF After, Ready
  <1> HIDE DEF m
  <1>10. Stands(o, t, m - 1, "none")
    <2>1. \A u \in 1 .. Len(t.ss) - 1 : u \in 1 .. Len(t.ss)
      BY <1>8, TopNumbers
    <2>2. \A u \in 1 .. Len(t.ss) - 1 : t.ss[u].d \in Items
      BY <1>8, <2>1, AllSources
    <2>3. 1 \in 1 .. 3 /\ t.ssp - 1 >= 2
      BY <1>8, <1>9
    <2>4. Stands(o, t, t.ssp - 1, "none")
      BY <1>8, <2>2, <2>3, DropIs
    <2> QED
      BY <1>8, <2>4
  <1> HIDE DEF o
  <1>11. Typed(o, Items) /\ o.ssp = m - 1 /\ o.pending = "none"
    BY <1>10 DEF Stands, StandsIn
  <1>12. Typed(p, Items) /\ Held(p) /\ p.ssp = m - 1 /\ p.pending = "none"
    <2> DEFINE f == ForgetAll(o)
    <2>1. /\ Typed(f, Items) /\ f.ssp = m - 1 /\ f.pending = "none" /\ f.ia = {} /\ f.ib = {}
      BY <1>11, ForgottenIs
    <2> HIDE DEF f
    <2>2. f.a \in Words /\ f \in Fields(Items)
      BY <2>1, Tops DEF Typed
    <2>3. 0 \in Words
      BY Sizes DEF Words
    <2>4. p = WithAB(f, f.a, 0)
      BY <2>2 DEF Fields, WithAB, f
    <2> HIDE DEF p
    <2>5. /\ Typed(WithAB(f, f.a, 0), Items) /\ Held(WithAB(f, f.a, 0))
          /\ WithAB(f, f.a, 0).ssp = m - 1 /\ WithAB(f, f.a, 0).pending = "none"
      BY <2>1, <2>2, <2>3, NothingHeld
    <2> QED
      BY <2>4, <2>5
  <1> HIDE DEF p
  <1>13. Stands(LoadT(p, InA), p, m, "none")
    <2>1. p.ssp < Frame /\ p.ssp + 1 = m
      BY <1>9, <1>12, Sizes
    <2>2. Stands(LoadT(p, InA), p, p.ssp + 1, p.pending)
      BY <1>12, <2>1, RegisterSources, ItemsAre, LoadTIs
    <2> QED
      BY <1>12, <2>1, <2>2
  <1> QED
    BY <1>1, <1>12, <1>13 DEF Settled, Stands, StandsIn, m

(* STACK before a call, and QUERY.                                         *)
LEMMA LinksRoomIs ==
  ASSUME NEW r, Typed(r, Items), r.ssp + 3 <= Frame
  PROVE  Stands(LinksRoom(r), r, r.ssp + 3, r.pending)
  <1>1. r.ssp \in Nat /\ r.ssp + 3 \in Nat /\ r.ssp + 3 >= r.ssp
    BY TopNumbers
  <1> QED
    BY <1>1, StackUp DEF LinksRoom

-----------------------------------------------------------------------------
(* The temporary results, whose contents do not matter here.               *)
Row(x) == \E S : x \in Seq(S)

LEMMA RowLength ==
  ASSUME NEW x, Row(x)
  PROVE  Len(x) \in Nat /\ DOMAIN x = 1 .. Len(x)
  BY DEF Row

LEMMA RowAppend ==
  ASSUME NEW x, Row(x), NEW c
  PROVE  Row(Append(x, c)) /\ Len(Append(x, c)) = Len(x) + 1
  <1>1. PICK S : x \in Seq(S)
    BY DEF Row
  <1>2. \A t \in 1 .. Len(x) : x[t] \in S \cup {c}
    BY <1>1, ElementOfSeq
  <1>3. x \in Seq(S \cup {c})
    BY <1>1, <1>2, SeqOf, Zenon
  <1>4. Append(x, c) \in Seq(S \cup {c}) /\ Len(Append(x, c)) = Len(x) + 1
    BY <1>3, AppendProperties
  <1> QED
    BY <1>4 DEF Row

LEMMA RowBelow ==
  ASSUME NEW x, Row(x), NEW n \in Nat, n <= Len(x)
  PROVE  /\ Row(SubSeq(x, 1, Len(x) - n)) /\ Len(SubSeq(x, 1, Len(x) - n)) = Len(x) - n
  <1>1. PICK S : x \in Seq(S)
    BY DEF Row
  <1>2. Len(x) \in Nat /\ Len(x) - n \in Nat /\ 1 \in Int /\ Len(x) - n \in Int
    BY <1>1
  <1>3. \A t \in 1 .. Len(x) - n : x[t] \in S
    <2>1. \A t \in 1 .. Len(x) - n : t \in 1 .. Len(x)
      BY <1>2
    <2> QED
      BY <1>1, <2>1, ElementOfSeq
  <1>4. /\ SubSeq(x, 1, Len(x) - n) \in Seq(S)
        /\ Len(SubSeq(x, 1, Len(x) - n)) = IF 1 <= Len(x) - n THEN Len(x) - n - 1 + 1 ELSE 0
    BY <1>2, <1>3, SubSeqProperties
  <1>5. Len(SubSeq(x, 1, Len(x) - n)) = Len(x) - n
    BY <1>2, <1>4
  <1> QED
    BY <1>4, <1>5 DEF Row

LEMMA RowOver ==
  ASSUME NEW x, Row(x), NEW f, f = [i \in DOMAIN x |-> f[i]]
  PROVE  Row(f) /\ Len(f) = Len(x)
  <1> DEFINE S == {f[i] : i \in DOMAIN x}
  <1>1. Len(x) \in Nat /\ DOMAIN x = 1 .. Len(x)
    BY RowLength
  <1>2. f = [i \in 1 .. Len(x) |-> f[i]] /\ \A i \in 1 .. Len(x) : f[i] \in S
    BY <1>1
  <1> HIDE DEF S
  <1>3. f \in [1 .. Len(x) -> S]
    BY <1>2
  <1>4. f \in Seq(S)
    BY <1>1, <1>3, SeqDef
  <1>5. Len(f) = Len(x)
    BY <1>1, <1>3, <1>4
  <1> QED
    BY <1>4, <1>5 DEF Row

LEMMA RowOfThree ==
  ASSUME NEW x, Row(x), NEW c
  PROVE  Row(x \o <<c, c, c>>) /\ Len(x \o <<c, c, c>>) = Len(x) + 3
  <1>1. PICK S : x \in Seq(S)
    BY DEF Row
  <1>2. \A t \in 1 .. Len(x) : x[t] \in S \cup {c}
    BY <1>1, ElementOfSeq
  <1>3. x \in Seq(S \cup {c})
    BY <1>1, <1>2, SeqOf, Zenon
  <1>4. <<c, c, c>> \in Seq(S \cup {c}) /\ Len(<<c, c, c>>) = 3
    OBVIOUS
  <1>5. /\ x \o <<c, c, c>> \in Seq(S \cup {c})
        /\ Len(x \o <<c, c, c>>) = Len(x) + Len(<<c, c, c>>)
    BY <1>3, <1>4, ConcatProperties
  <1> QED
    BY <1>4, <1>5 DEF Row

LEMMA RowAged ==
  ASSUME NEW x, Row(x), NEW m
  PROVE  Row(O!Aged(x, m)) /\ Len(O!Aged(x, m)) = Len(x)
  <1> DEFINE f == O!Aged(x, m)
  <1>1. f = [i \in DOMAIN x |-> f[i]]
    BY DEF O!Aged
  <1> HIDE DEF f
  <1>2. Row(f) /\ Len(f) = Len(x)
    BY <1>1, RowOver
  <1> QED
    BY <1>2 DEF f

-----------------------------------------------------------------------------
(***************************************************************************)
(* The inductive invariant.  The code generator is in step with OCODE:     *)
(* between statements ssp is the height of the stack, and one more while a *)
(* dyadic operator waits; items and lists are of the kinds they can be,    *)
(* which is what says that SS describes its cells; and the lists are true. *)
(* Each half of it needs the other: what an item or a list names has to be *)
(* a word of memory for its value to be known, and an item said to be in a *)
(* register is only moved correctly if the list of that register is true.  *)
(***************************************************************************)
Waiting(p)       == IF p \in Dyadic THEN 1 ELSE 0
InStep(r, b, n)  == Typed(r, Items) /\ Held(r) /\ r.ssp = b + n + Waiting(r.pending)
Stacking(b, x)   == Row(x) /\ b \in Nat /\ b >= Entered /\ b + Len(x) < Frame
Inv == program \in Programs /\ Stacking(base, cells) /\ InStep(g, base, Len(cells))

LEMMA ProgramIs ==
  ASSUME program \in Programs
  PROVE  /\ program.items \in Nat /\ program.items >= 3
         /\ program.numbers \subseteq Int /\ program.places \subseteq 3 .. Size - 1
  BY TranslateAssumption

(* What every statement starts from.                                       *)
LEMMA Before ==
  ASSUME Inv
  PROVE  /\ base \in Nat /\ base >= Entered /\ base >= 4 /\ Len(cells) \in Nat /\ Row(cells)
         /\ Frame \in Nat /\ Frame < Size /\ Size \in Nat
         /\ base + Len(cells) \in Nat /\ base + Len(cells) < Frame
         /\ g.ssp \in Nat /\ g.ssp >= base + Len(cells) /\ g.pending \in Pendings
         /\ Typed(g, Items) /\ Held(g) /\ Ready(g)
         /\ After(g.pending, g.ssp) = base + Len(cells)
  <1>1. /\ base \in Nat /\ base >= Entered /\ Row(cells) /\ base + Len(cells) < Frame
        /\ Typed(g, Items) /\ Held(g) /\ g.ssp = base + Len(cells) + Waiting(g.pending)
    BY DEF Inv, Stacking, InStep
  <1>2. Len(cells) \in Nat /\ g.pending \in Pendings /\ g.ssp \in Nat
    BY <1>1, RowLength, Tops
  <1>3. base >= 4 /\ Frame \in Nat /\ Frame < Size /\ Size \in Nat
    BY <1>1, Sizes
  <1>4. CASE g.pending \in Dyadic
    <2>1. g.ssp = base + Len(cells) + 1 /\ After(g.pending, g.ssp) = g.ssp - 1
      BY <1>1, <1>4 DEF Waiting, After
    <2>2. After(g.pending, g.ssp) = base + Len(cells) /\ g.ssp >= 4
      BY <1>1, <1>2, <1>3, <2>1
    <2> QED
      BY <1>1, <1>2, <1>3, <2>1, <2>2 DEF Ready
  <1>5. CASE g.pending \notin Dyadic
    <2>1. g.ssp = base + Len(cells) + 0 /\ After(g.pending, g.ssp) = g.ssp
      BY <1>1, <1>5 DEF Waiting, After
    <2>2. After(g.pending, g.ssp) = base + Len(cells) /\ g.ssp >= 4
      BY <1>1, <1>2, <1>3, <2>1
    <2> QED
      BY <1>1, <1>2, <1>3, <2>1, <2>2 DEF Ready
  <1> QED
    BY <1>4, <1>5

(* What a statement leaves.                                                *)
LEMMA Afterwards ==
  ASSUME Inv, program' = program, Stacking(base', cells'), InStep(g', base', Len(cells'))
  PROVE  Inv'
  <1>1. /\ g' \in Fields(Items) /\ Basic \subseteq Items /\ Items \subseteq Anywhere
        /\ program.items \in Nat /\ program.items >= 3
        /\ Len(g'.ss) >= 2 /\ Len(g'.ss) <= program.items /\ Len(g'.ss) <= g'.ssp
        /\ g'.ssp <= Frame
        /\ \A t \in 1 .. Len(g'.ss) : g'.ss[t].s = g'.ssp - 1 - Len(g'.ss) + t
        /\ Held(g') /\ g'.ssp = base' + Len(cells') + Waiting(g'.pending)
    BY DEF InStep, Typed, Stacked
  <1>2. Typed(g, Items)'
    BY <1>1 DEF Typed, Stacked
  <1>3. InStep(g, base, Len(cells))'
    BY <1>1, <1>2 DEF InStep
  <1> QED
    BY <1>3 DEF Inv, Stacking

LEMMA NotWaiting ==
  Waiting("none") = 0 /\ Waiting("neg") = 0 /\ \A f \in Dyadic : Waiting(f) = 1
  BY DEF Waiting, Dyadic

LEMMA StandsInStep ==
  ASSUME NEW q, NEW r, NEW b \in Nat, NEW n \in Nat, Held(r), Stands(q, r, b + n, "none")
  PROVE  InStep(q, b, n)
  BY NotWaiting DEF Stands, StandsIn, InStep

LEMMA SettledInStep ==
  ASSUME NEW q, NEW b \in Nat, NEW n \in Nat, Settled(q, b + n)
  PROVE  InStep(q, b, n)
  BY NotWaiting DEF Settled, InStep

(* The operator that was pending is finished with.                         *)
LEMMA Caught ==
  ASSUME Inv
  PROVE  /\ Stands(Cgpendingop(g), g, base + Len(cells), "none")
         /\ Typed(Cgpendingop(g), Items) /\ Held(Cgpendingop(g))
         /\ Cgpendingop(g).ssp = base + Len(cells) /\ Cgpendingop(g).pending = "none"
  <1>1. Stands(Cgpendingop(g), g, base + Len(cells), "none")
    BY Before, CgpendingopIs
  <1> QED
    BY <1>1, Before DEF Stands, StandsIn

-----------------------------------------------------------------------------
(* The statements.                                                         *)
LEMMA PlaceIs ==
  ASSUME Inv, NEW x \in Named
  PROVE  /\ x \in Words /\ Desc(Kind(x), x) \in Variables /\ Desc(Kind(x), x).i = -1
         /\ Desc("lv", x) \in Items
  <1>1. x \in Words
    <2>1. x \in 3 .. Size - 1
      BY ProgramIs DEF Named, Inv
    <2> QED
      BY <2>1, Sizes DEF Words
  <1> QED
    BY <1>1, VariableIs, ItemsAre DEF Desc

LEMMA Loads ==
  ASSUME Inv, NEW d \in Items, NEW c, Room(1), UNCHANGED base,
         g' = LoadT(Cgpendingop(g), d),
         cells' = Append(cells, c)
  PROVE  Stacking(base', cells') /\ InStep(g', base', Len(cells'))
  <1> DEFINE q == Cgpendingop(g)
             n == base + Len(cells)
  <1>1. /\ Stands(q, g, n, "none") /\ Typed(q, Items) /\ q.ssp = n /\ q.pending = "none"
    BY Caught
  <1>2. /\ n \in Nat /\ n + 1 < Frame /\ n < Frame /\ Row(cells) /\ base \in Nat
        /\ base >= Entered /\ Held(g) /\ Len(cells) \in Nat /\ Frame \in Nat
    BY Before DEF Room
  <1>3. Row(cells') /\ Len(cells') = Len(cells) + 1
    BY <1>2, RowAppend
  <1>4. Stands(g', q, n + 1, "none")
    <2>1. Stands(LoadT(q, d), q, n + 1, "none")
      BY <1>1, <1>2, LoadTIs
    <2> QED
      BY <2>1
  <1> HIDE DEF q
  <1>5. Stands(g', g, n + 1, "none")
    BY <1>1, <1>4, StandsTwice
  <1>6. Len(cells) + 1 \in Nat /\ n + 1 = base + (Len(cells) + 1)
    BY <1>2
  <1>7. InStep(g', base, Len(cells) + 1)
    BY <1>2, <1>5, <1>6, StandsInStep
  <1> QED
    BY <1>2, <1>3, <1>6, <1>7 DEF Stacking

(* The word of the cell that QUERY makes, or of the next one.              *)
LEMMA QueriedIs ==
  ASSUME Inv, Room(1)
  PROVE  Loc(g.ssp) \in Items
  <1>1. /\ g.ssp \in Nat /\ base + Len(cells) \in Nat /\ base + Len(cells) + 1 < Frame
        /\ After(g.pending, g.ssp) = base + Len(cells)
    BY Before DEF Room
  <1>2. g.ssp < Frame
    BY <1>1, Sizes DEF After
  <1>3. g.ssp \in Words
    <2>1. /\ g.ssp \in Nat /\ g.ssp < Frame
          /\ Frame \in Nat /\ Frame < Size /\ Size \in Nat
      BY <1>2, Before
    <2> DEFINE n == g.ssp
    <2>2. n \in 0 .. Size - 1
      <3> HIDE DEF n
      <3>1. n \in Nat /\ n < Frame
        BY <2>1 DEF n
      <3> QED
        BY <2>1, <3>1
    <2> QED
      BY <2>2 DEF Words
  <1>4. /\ Desc(Kind(g.ssp), g.ssp) \in Variables
        /\ Loc(g.ssp) = Desc(Kind(g.ssp), g.ssp)
    BY <1>2, <1>3, VariableIs
  <1> QED
    BY <1>4, RegisterSources

LEMMA LoadStep ==
  ASSUME Inv, Load
  PROVE  Stacking(base', cells') /\ InStep(g', base', Len(cells'))
  <1>1. Room(1) /\ UNCHANGED base
    BY DEF Load, Same
  <1>2. CASE \E k \in program.numbers :
               g' = LoadT(Cgpendingop(g), Numb(k)) /\ cells' = Append(cells, O!Constant(k))
    <2>1. PICK k \in program.numbers :
                 g' = LoadT(Cgpendingop(g), Numb(k)) /\ cells' = Append(cells, O!Constant(k))
      BY <1>2
    <2>2. k \in Int
      BY ProgramIs DEF Inv
    <2>3. Numb(k) \in Items
      BY <2>2, ItemsAre DEF Numb, Desc
    <2> QED
      BY <1>1, <2>1, <2>3, Loads
  <1>3. CASE \E x \in Named :
               /\ g' = LoadT(Cgpendingop(g), Desc(Kind(x), x))
               /\ cells' = Append(cells, O!Variable(Visible, x))
    <2>1. PICK x \in Named :
                 /\ g' = LoadT(Cgpendingop(g), Desc(Kind(x), x))
                 /\ cells' = Append(cells, O!Variable(Visible, x))
      BY <1>3
    <2>2. Desc(Kind(x), x) \in Items
      BY PlaceIs, RegisterSources
    <2> QED
      BY <1>1, <2>1, <2>2, Loads
  <1>4. CASE \E x \in Named :
               /\ g' = LoadT(Cgpendingop(g), Desc("lv", x))
               /\ cells' = Append(cells, O!Constant(x))
    <2>1. PICK x \in Named :
                 /\ g' = LoadT(Cgpendingop(g), Desc("lv", x))
                 /\ cells' = Append(cells, O!Constant(x))
      BY <1>4
    <2>2. Desc("lv", x) \in Items
      BY PlaceIs
    <2> QED
      BY <1>1, <2>1, <2>2, Loads
  <1>5. CASE g' = Queried(g) /\ cells' = Append(cells, O!Unknown)
    BY <1>1, <1>5, QueriedIs, Loads DEF Queried
  <1> QED
    BY <1>2, <1>3, <1>4, <1>5 DEF Load

(* Statements that leave n results fewer, with no operator pending.        *)
LEMMA Fewer ==
  ASSUME Inv, NEW n \in Nat, n <= Len(cells), UNCHANGED base, Row(cells'),
         Len(cells') = Len(cells) - n, Stands(g', g, base + Len(cells) - n, "none")
  PROVE  Stacking(base', cells') /\ InStep(g', base', Len(cells'))
  <1>1. /\ base \in Nat /\ base >= Entered /\ base + Len(cells) < Frame /\ Held(g)
        /\ Len(cells) \in Nat /\ Frame \in Nat
    BY Before
  <1>2. Len(cells') \in Nat /\ base + Len(cells) - n = base + Len(cells')
    BY <1>1
  <1>3. InStep(g', base, Len(cells'))
    BY <1>1, <1>2, StandsInStep
  <1> QED
    BY <1>1, <1>2, <1>3 DEF Stacking

LEMMA RowOperated ==
  ASSUME Inv, NEW n \in Nat, n <= Len(cells), NEW c
  PROVE  /\ Row(O!Below(n)) /\ Len(O!Below(n)) = Len(cells) - n
         /\ Row(Append(O!Below(n), c)) /\ Len(Append(O!Below(n), c)) = Len(cells) - n + 1
  <1>1. Row(O!Below(n)) /\ Len(O!Below(n)) = Len(cells) - n
    BY Before, RowBelow DEF O!Below
  <1> QED
    BY <1>1, RowAppend

(* An operator is now pending.                                             *)
LEMMA Pends ==
  ASSUME Inv, NEW f \in Dyadic \cup {"neg"}, NEW n \in Nat, n = 1 + Waiting(f),
         n <= Len(cells), UNCHANGED base,
         g' = [Cgpendingop(g) EXCEPT !.pending = f], NEW c, cells' = Append(O!Below(n), c)
  PROVE  Stacking(base', cells') /\ InStep(g', base', Len(cells'))
  <1> DEFINE q == Cgpendingop(g)
  <1>1. Typed(q, Items) /\ Held(q) /\ q.ssp = base + Len(cells)
    BY Caught
  <1>2. /\ base \in Nat /\ base >= Entered /\ base + Len(cells) < Frame
        /\ Len(cells) \in Nat /\ Frame \in Nat
    BY Before
  <1>3. Row(cells') /\ Len(cells') = Len(cells) - n + 1
    BY RowOperated
  <1>4. g' = [q EXCEPT !.pending = f]
    OBVIOUS
  <1> HIDE DEF q
  <1>5. f \in Pendings
    BY DEF Pendings
  <1>6. Typed(g', Items) /\ Held(g') /\ g'.ssp = base + Len(cells) /\ g'.pending = f
    <2>1. Stands([q EXCEPT !.pending = f], q, q.ssp, f)
      BY <1>1, <1>5, PendIs
    <2>2. Stands(g', q, q.ssp, f)
      BY <1>4, <2>1
    <2> QED
      BY <1>1, <2>2 DEF Stands, StandsIn
  <1>7. Waiting(f) \in {0, 1}
    BY DEF Waiting
  <1>8. base + Len(cells) = base + Len(cells') + Waiting(f)
    BY <1>2, <1>3, <1>7
  <1>9. base + Len(cells') < Frame
    BY <1>2, <1>3, <1>7, <1>8
  <1> QED
    BY <1>2, <1>3, <1>6, <1>8, <1>9 DEF Stacking, InStep

LEMMA OperateStep ==
  ASSUME Inv, Operate
  PROVE  Stacking(base', cells') /\ InStep(g', base', Len(cells'))
  <1>1. UNCHANGED base
    BY DEF Operate, Same
  <1>2. /\ Len(cells) \in Nat /\ Ready(g) /\ base \in Nat /\ base >= 4
        /\ After(g.pending, g.ssp) = base + Len(cells)
    BY Before
  <1>3. CASE Len(cells) >= 1 /\ g' = [Cgpendingop(g) EXCEPT !.pending = "neg"] /\ O!Unary
    <2>1. 1 \in Nat /\ 1 = 1 + Waiting("neg") /\ 1 <= Len(cells) /\ "neg" \in Dyadic \cup {"neg"}
      BY <1>3, NotWaiting
    <2>2. \E c : cells' = Append(O!Below(1), c)
      BY <1>3 DEF O!Unary
    <2> QED
      BY <1>1, <1>3, <2>1, <2>2, Pends
  <1>4. CASE /\ Len(cells) >= 2
             /\ \E f \in Dyadic \cap program.statements :
                  /\ g' = [Cgpendingop(g) EXCEPT !.pending = f]
                  /\ cells' = Append(O!Below(2), O!Combined(f, O!Nth(2), O!Nth(1)))
    <2>1. PICK f \in Dyadic : /\ g' = [Cgpendingop(g) EXCEPT !.pending = f]
                              /\ \E c : cells' = Append(O!Below(2), c)
      BY <1>4
    <2>2. 2 \in Nat /\ 2 = 1 + Waiting(f) /\ 2 <= Len(cells) /\ f \in Dyadic \cup {"neg"}
      BY <1>4, NotWaiting
    <2> QED
      BY <1>1, <2>1, <2>2, Pends
  <1>5. CASE Len(cells) >= 1 /\ g' = Cgrv(g) /\ O!Rv
    <2>1. \E c : cells' = Append(O!Below(1), c)
      BY <1>5 DEF O!Rv
    <2>2. 1 \in Nat /\ 1 <= Len(cells)
      BY <1>5
    <2>3. Row(cells') /\ Len(cells') = Len(cells) - 1 + 1
      BY <2>1, <2>2, RowOperated
    <2>4. Stands(g', g, base + Len(cells), "none")
      BY <1>2, <1>5, CgrvIs
    <2>5. 0 \in Nat /\ 0 <= Len(cells) /\ base + Len(cells) - 0 = base + Len(cells)
          /\ Len(cells') = Len(cells) - 0
      BY <1>2, <2>3
    <2>6. Stands(g', g, base + Len(cells) - 0, "none")
      BY <2>4, <2>5
    <2> QED
      BY <1>1, <2>3, <2>5, <2>6, Fewer
  <1>6. CASE Len(cells) >= 2 /\ g' = Getbyte(Cgpendingop(g)) /\ O!Getbyte
    <2>1. \E c : cells' = Append(O!Below(2), c)
      BY <1>6 DEF O!Getbyte
    <2>2. 2 \in Nat /\ 2 <= Len(cells)
      BY <1>6
    <2>3. Row(cells') /\ Len(cells') = Len(cells) - 2 + 1
      BY <2>1, <2>2, RowOperated
    <2> DEFINE q == Cgpendingop(g)
    <2>4. Stands(q, g, base + Len(cells), "none") /\ Typed(q, Items) /\ q.ssp = base + Len(cells)
      BY Caught
    <2>5. q.ssp >= 4
      BY <1>2, <2>4
    <2>6. g' = Getbyte(q)
      BY <1>6
    <2> HIDE DEF q
    <2>7. Stands(g', q, base + Len(cells) - 1, "none")
      <3>1. Stands(Getbyte(q), q, q.ssp - 1, "none")
        BY <2>4, <2>5, GetbyteIs
      <3>2. q.ssp - 1 = base + Len(cells) - 1
        BY <1>2, <2>4
      <3> QED
        BY <2>6, <3>1, <3>2, Zenon
    <2>8. Stands(g', g, base + Len(cells) - 1, "none")
      BY <2>4, <2>7, StandsTwice
    <2>9. 1 \in Nat /\ 1 <= Len(cells) /\ Len(cells') = Len(cells) - 1
      BY <1>2, <1>6, <2>3
    <2> QED
      BY <1>1, <2>3, <2>8, <2>9, Fewer
  <1> QED
    BY <1>3, <1>4, <1>5, <1>6 DEF Operate

(***************************************************************************)
(* The code generator does not clear pendingop when it stores through the  *)
(* sum of 0 and a number too large to be an offset (cgstind leaves the     *)
(* addition to cgadd, which leaves by its first exit): see README.  What   *)
(* follows is about programs that never do that.                           *)
(***************************************************************************)
NoZeroOffset == Stind => ZeroApart(g)

LEMMA AssignStep ==
  ASSUME Inv, NoZeroOffset, Assign
  PROVE  Stacking(base', cells') /\ InStep(g', base', Len(cells'))
  <1>1. UNCHANGED base
    BY DEF Assign, Same
  <1>2. /\ Len(cells) \in Nat /\ Ready(g) /\ base \in Nat /\ base >= 4 /\ g.ssp \in Nat
        /\ After(g.pending, g.ssp) = base + Len(cells) /\ base + Len(cells) < Frame
        /\ g.ssp >= base + Len(cells) /\ Frame \in Nat
    BY Before
  <1>3. ASSUME NEW n \in Nat, n <= Len(cells), cells' = O!Aged(O!Below(n), Visible')
        PROVE  Row(cells') /\ Len(cells') = Len(cells) - n
    <2>1. Row(O!Below(n)) /\ Len(O!Below(n)) = Len(cells) - n
      BY <1>3, RowOperated
    <2> QED
      BY <1>3, <2>1, RowAged
  <1>4. CASE /\ Len(cells) >= 1 /\ \E x \in Named : g' = Storein(g, Desc(Kind(x), x))
             /\ cells' = O!Aged(O!Below(1), Visible')
    <2>1. 1 \in Nat /\ 1 <= Len(cells) /\ g.ssp >= 5
      BY <1>2, <1>4
    <2>2. Row(cells') /\ Len(cells') = Len(cells) - 1
      BY <1>3, <1>4, <2>1
    <2>3. PICK x \in Named : g' = Storein(g, Desc(Kind(x), x))
      BY <1>4
    <2>4. Desc(Kind(x), x) \in Variables /\ Desc(Kind(x), x).i = -1
      BY PlaceIs
    <2>5. Stands(Storein(g, Desc(Kind(x), x)), g, After(g.pending, g.ssp) - 1, "none")
      BY <1>2, <2>1, <2>4, StoreinIs
    <2>6. Stands(g', g, base + Len(cells) - 1, "none")
      BY <1>2, <2>3, <2>5
    <2> QED
      BY <1>1, <2>1, <2>2, <2>6, Fewer
  <1>5. CASE Stind
    <2>1. Len(cells) >= 2 /\ g' = Cgstind(g) /\ cells' = O!Aged(O!Below(2), Visible')
      BY <1>5 DEF Stind
    <2>2. 2 \in Nat /\ 2 <= Len(cells) /\ g.ssp >= 6
      BY <1>2, <2>1
    <2>3. Row(cells') /\ Len(cells') = Len(cells) - 2
      BY <1>3, <2>1, <2>2
    <2>4. Stands(Cgstind(g), g, After(g.pending, g.ssp) - 2, "none")
      BY <1>2, <1>5, <2>2, CgstindIs DEF NoZeroOffset
    <2>5. Stands(g', g, base + Len(cells) - 2, "none")
      BY <1>2, <2>1, <2>4
    <2> QED
      BY <1>1, <2>2, <2>3, <2>5, Fewer
  <1>6. CASE /\ Len(cells) >= 3 /\ g' = Putbyte(Cgpendingop(g))
             /\ cells' = O!Aged(O!Below(3), Visible')
    <2> DEFINE q == Cgpendingop(g)
    <2>1. /\ Stands(q, g, base + Len(cells), "none") /\ Typed(q, Items)
          /\ q.ssp = base + Len(cells) /\ q.pending = "none"
      BY Caught
    <2>2. g' = Putbyte(q)
      BY <1>6
    <2> HIDE DEF q
    <2>3. 3 \in Nat /\ 3 <= Len(cells) /\ q.ssp >= 5 /\ q.ssp < Frame
          /\ q.ssp - 3 = base + Len(cells) - 3
      BY <1>2, <1>6, <2>1
    <2>4. Row(cells') /\ Len(cells') = Len(cells) - 3
      BY <1>3, <1>6, <2>3
    <2>5. Stands(Putbyte(q), q, q.ssp - 3, "none")
      BY <2>1, <2>3, PutbyteIs
    <2>6. Stands(g', q, base + Len(cells) - 3, "none")
      BY <2>2, <2>3, <2>5, Zenon
    <2>7. Stands(g', g, base + Len(cells) - 3, "none")
      BY <2>1, <2>6, StandsTwice
    <2> QED
      BY <1>1, <2>3, <2>4, <2>7, Fewer
  <1> QED
    BY <1>4, <1>5, <1>6 DEF Assign

LEMMA CallStep ==
  ASSUME Inv, Call
  PROVE  Stacking(base', cells') /\ InStep(g', base', Len(cells'))
  <1> DEFINE q == Cgpendingop(g)
  <1>1. UNCHANGED base
    BY DEF Call
  <1>2. /\ Len(cells) \in Nat /\ Row(cells) /\ base \in Nat /\ base >= 4 /\ base >= Entered
        /\ base + Len(cells) < Frame /\ Frame \in Nat /\ Held(g)
    BY Before
  <1>3. /\ Stands(q, g, base + Len(cells), "none") /\ Typed(q, Items)
        /\ q.ssp = base + Len(cells) /\ q.pending = "none"
    BY Caught
  <1>4. CASE /\ Room(5) /\ g' = LinksRoom(q)
             /\ cells' = cells \o <<O!Unknown, O!Unknown, O!Unknown>>
    <2> HIDE DEF q
    <2>1. Row(cells') /\ Len(cells') = Len(cells) + 3
      BY <1>2, <1>4, RowOfThree
    <2>2. /\ q.ssp + 3 <= Frame /\ q.ssp + 3 = base + (Len(cells) + 3)
          /\ base + (Len(cells) + 3) < Frame /\ Len(cells) + 3 \in Nat
      BY <1>2, <1>3, <1>4 DEF Room
    <2>3. Stands(LinksRoom(q), q, q.ssp + 3, q.pending)
      BY <1>3, <2>2, LinksRoomIs
    <2>4. Stands(g', q, base + (Len(cells) + 3), "none")
      BY <1>3, <1>4, <2>2, <2>3, Zenon
    <2>5. Stands(g', g, base + (Len(cells) + 3), "none")
      BY <1>3, <2>4, StandsTwice
    <2>6. InStep(g', base, Len(cells) + 3)
      BY <1>2, <2>2, <2>5, StandsInStep
    <2> QED
      BY <1>1, <1>2, <2>1, <2>2, <2>6 DEF Stacking
  <1>5. ASSUME NEW n \in 0 .. Len(cells) - 4, NEW isfn \in BOOLEAN,
               g' = Cgapply(Arguments(q, base + Len(cells) - n - 4),
                            base + Len(cells) - n - 4, isfn),
               NEW c, cells' = IF isfn THEN Append(O!Aged(O!Below(n + 4), Visible'), c)
                               ELSE O!Aged(O!Below(n + 4), Visible')
        PROVE  Stacking(base', cells') /\ InStep(g', base', Len(cells'))
    <2> HIDE DEF q
    <2> DEFINE k == base + Len(cells) - n - 4
               x == Arguments(q, k)
               m == Len(cells) - (n + 4)
    <2>1. /\ k \in Nat /\ k >= 2 /\ k + 4 <= q.ssp /\ k = base + m /\ m \in Nat
          /\ n + 4 \in Nat /\ n + 4 <= Len(cells) /\ k + 1 = base + (m + 1) /\ m + 1 \in Nat
          /\ base + m < Frame /\ base + (m + 1) < Frame
      BY <1>2, <1>3
    <2>2. /\ Row(O!Aged(O!Below(n + 4), Visible'))
          /\ Len(O!Aged(O!Below(n + 4), Visible')) = m
      <3>1. Row(O!Below(n + 4)) /\ Len(O!Below(n + 4)) = m
        BY <2>1, RowOperated
      <3> QED
        BY <3>1, RowAged
    <2>3. g' = Cgapply(x, k, isfn)
      BY <1>5
    <2> HIDE DEF k, m
    <2>4. Gives(x, q)
      BY <1>3, <2>1, ArgumentsIs
    <2> HIDE DEF x
    <2>5. Settled(g', IF isfn THEN k + 1 ELSE k)
      BY <1>3, <2>1, <2>3, <2>4, CgapplyIs
    <2>6. CASE isfn
      <3>1. Row(cells') /\ Len(cells') = m + 1
        BY <1>5, <2>2, <2>6, RowAppend
      <3>2. InStep(g', base, m + 1)
        BY <1>2, <2>1, <2>5, <2>6, SettledInStep
      <3> QED
        BY <1>1, <1>2, <2>1, <3>1, <3>2 DEF Stacking
    <2>7. CASE ~isfn
      <3>1. Row(cells') /\ Len(cells') = m
        BY <1>5, <2>2, <2>7
      <3>2. InStep(g', base, m)
        BY <1>2, <2>1, <2>5, <2>7, SettledInStep
      <3> QED
        BY <1>1, <1>2, <2>1, <3>1, <3>2 DEF Stacking
    <2> QED
      BY <2>6, <2>7
  <1>6. CASE \E n \in 0 .. Len(cells) - 4, isfn \in BOOLEAN :
               /\ g' = Cgapply(Arguments(q, base + Len(cells) - n - 4),
                               base + Len(cells) - n - 4, isfn)
               /\ \E c : cells' = IF isfn THEN Append(O!Aged(O!Below(n + 4), Visible'), c)
                                  ELSE O!Aged(O!Below(n + 4), Visible')
    <2> HIDE DEF q
    <2> QED
      BY <1>5, <1>6
  <1> QED
    BY <1>4, <1>6 DEF Call

LEMMA JumpStep ==
  ASSUME Inv, Jump
  PROVE  Stacking(base', cells') /\ InStep(g', base', Len(cells'))
  <1>1. /\ UNCHANGED base /\ Len(cells) >= 1 /\ cells' = O!Below(1)
        /\ \E sense : g' = Jumped(g, sense).r
    BY DEF Jump
  <1>2. /\ Len(cells) \in Nat /\ Ready(g) /\ base \in Nat /\ base >= 4 /\ g.ssp \in Nat
        /\ After(g.pending, g.ssp) = base + Len(cells) /\ base + Len(cells) < Frame
        /\ g.ssp >= base + Len(cells)
    BY Before
  <1>3. 1 \in Nat /\ 1 <= Len(cells) /\ g.ssp >= 5
    BY <1>1, <1>2
  <1>4. Row(cells') /\ Len(cells') = Len(cells) - 1
    BY <1>1, <1>3, RowOperated
  <1>5. \A sense : Stands(Jumped(g, sense).r, g, After(g.pending, g.ssp) - 1, "none")
    BY <1>2, <1>3, JumpedIs
  <1>6. Stands(g', g, base + Len(cells) - 1, "none")
    BY <1>1, <1>2, <1>5
  <1> QED
    BY <1>1, <1>3, <1>4, <1>6, Fewer

LEMMA StoreStep ==
  ASSUME Inv, Store
  PROVE  Stacking(base', cells') /\ InStep(g', base', Len(cells'))
  <1>1. g' = AllStored(Cgpendingop(g)) /\ base' = base + Len(cells) /\ cells' = <<>>
    BY DEF Store
  <1>2. /\ Len(cells) \in Nat /\ Ready(g) /\ base \in Nat /\ base >= Entered /\ Held(g)
        /\ After(g.pending, g.ssp) = base + Len(cells) /\ base + Len(cells) < Frame
        /\ Frame \in Nat
    BY Before
  <1>3. Row(cells') /\ Len(cells') = 0
    BY <1>1 DEF Row
  <1>4. base' \in Nat /\ base' >= Entered /\ base' + 0 < Frame /\ base' + 0 = base + Len(cells)
    BY <1>1, <1>2, Sizes
  <1>5. Stands(AllStored(Cgpendingop(g)), g, After(g.pending, g.ssp), "none")
    BY <1>2, AllStoredIs
  <1>6. Stands(g', g, base' + 0, "none")
    BY <1>1, <1>2, <1>4, <1>5
  <1>7. InStep(g', base', 0)
    BY <1>2, <1>4, <1>6, StandsInStep
  <1> QED
    BY <1>3, <1>4, <1>7 DEF Stacking

LEMMA StackStep ==
  ASSUME Inv, Stack
  PROVE  Stacking(base', cells') /\ InStep(g', base', Len(cells'))
  <1> DEFINE q == Cgpendingop(g)
  <1>1. /\ cells = <<>> /\ base > Entered /\ g' = StackTo(q, base - 1)
        /\ base' = base - 1 /\ cells' = cells
    BY DEF Stack
  <1>2. /\ Row(cells) /\ base \in Nat /\ base >= 4 /\ Held(g) /\ Len(cells) = 0
        /\ base + Len(cells) < Frame /\ Frame \in Nat
    BY <1>1, Before
  <1>3. /\ Stands(q, g, base + Len(cells), "none") /\ Typed(q, Items)
        /\ q.ssp = base + Len(cells) /\ q.pending = "none"
    BY Caught
  <1> HIDE DEF q
  <1>4. /\ base' \in Nat /\ base' >= Entered /\ base' + 0 = base - 1 /\ base' + 0 < Frame
        /\ q.ssp = base /\ q.ssp - 1 >= 2 /\ q.ssp - 1 = base' + 0
    BY <1>1, <1>2, <1>3, Sizes
  <1>5. Stands(Drop(q, 1), q, q.ssp - 1, "none")
    <2>1. \A t \in 1 .. Len(q.ss) - 1 : q.ss[t].d \in Items
      <3>1. \A t \in 1 .. Len(q.ss) - 1 : t \in 1 .. Len(q.ss)
        BY <1>3, TopNumbers
      <3> QED
        BY <1>3, <3>1, AllSources
    <2> QED
      BY <1>3, <1>4, <2>1, DropIs
  <1>6. Stands(g', q, base' + 0, "none")
    <2>1. g' = Drop(q, 1)
      BY <1>1, <1>4 DEF Drop
    <2> QED
      BY <1>4, <1>5, <2>1, Zenon
  <1>7. Stands(g', g, base' + 0, "none")
    BY <1>3, <1>6, StandsTwice
  <1>8. InStep(g', base', 0)
    BY <1>2, <1>4, <1>7, StandsInStep
  <1> QED
    BY <1>1, <1>2, <1>4, <1>8 DEF Stacking

LEMMA LabelStep ==
  ASSUME Inv, Label
  PROVE  Stacking(base', cells') /\ InStep(g', base', Len(cells'))
  <1>1. UNCHANGED base /\ cells' = [i \in DOMAIN cells |-> O!Known(cells[i])]
    BY DEF Label, Same
  <1>2. /\ Len(cells) \in Nat /\ Row(cells) /\ Ready(g) /\ base \in Nat /\ base >= 4
        /\ After(g.pending, g.ssp) = base + Len(cells) /\ base + Len(cells) < Frame
        /\ base >= Entered /\ g.ssp >= base + Len(cells) /\ g.ssp \in Nat
    BY Before
  <1>3. Row(cells') /\ Len(cells') = Len(cells)
    <2>1. cells' = [i \in DOMAIN cells |-> cells'[i]]
      BY <1>1
    <2> QED
      BY <1>2, <2>1, RowOver
  <1>4. Settled(g', base + Len(cells))
    <2>1. CASE g' = AtLabel(g)
      BY <1>2, <2>1, AtLabelIs
    <2>2. CASE Len(cells) >= 1 /\ g' = ResultOf(g)
      <3>1. g.ssp >= 5
        BY <1>2, <2>2
      <3> QED
        BY <1>2, <2>2, <3>1, ResultOfIs
    <2> QED
      BY <2>1, <2>2 DEF Label
  <1>5. InStep(g', base, Len(cells))
    BY <1>2, <1>4, SettledInStep
  <1> QED
    BY <1>1, <1>2, <1>3, <1>5 DEF Stacking

LEMMA NextHolds ==
  ASSUME Inv, NoZeroOffset, [Next]_vars
  PROVE  Inv'
  <1>1. CASE Next
    <2>1. program' = program
      BY <1>1 DEF Next
    <2>2. Stacking(base', cells') /\ InStep(g', base', Len(cells'))
      BY <1>1, LoadStep, OperateStep, AssignStep, CallStep, JumpStep, StoreStep, StackStep,
         LabelStep DEF Next
    <2> QED
      BY <2>1, <2>2, Afterwards
  <1>2. CASE UNCHANGED vars
    <2>1. g' = g /\ base' = base /\ cells' = cells /\ program' = program
      BY <1>2 DEF vars
    <2>2. Stacking(base', cells') /\ InStep(g', base', Len(cells'))
      BY <2>1 DEF Inv
    <2> QED
      BY <2>1, <2>2, Afterwards
  <1> QED
    BY <1>1, <1>2

LEMMA InitHolds ==
  ASSUME Init
  PROVE  Inv
  <1> DEFINE x == <<Own(Entered - 2), Own(Entered - 1)>>
             T == [d : Items, s : Words]
  <1>1. /\ program \in Programs /\ base = Entered /\ cells = <<>> /\ g.ss = x
        /\ g = [ss |-> x, ssp |-> Entered, pending |-> "none", ia |-> {Loc(3)}, ib |-> {},
                a |-> Initial[3], b |-> 0, c |-> 0, m |-> Initial]
    BY DEF Init
  <1>2. /\ Entered \in Nat /\ Entered >= 4 /\ Entered < Frame /\ Frame < Size
        /\ Frame \in Nat /\ Size \in Nat /\ Initial \in [Words -> Words]
    BY Sizes
  <1>3. program.items \in Nat /\ program.items >= 3
    BY <1>1, ProgramIs
  <1>4. /\ Entered - 2 \in Words /\ Entered - 1 \in Words /\ 3 \in Words /\ 0 \in Words
        /\ Entered - 2 < Frame /\ Entered - 1 < Frame /\ 3 < Frame
    BY <1>2 DEF Words
  <1>5. Loc(Entered - 2) \in Variables /\ Loc(Entered - 1) \in Variables /\ Loc(3) \in Variables
    BY <1>4, VariableIs
  <1>6. /\ Own(Entered - 2) \in T /\ Own(Entered - 1) \in T
        /\ Own(Entered - 2).s = Entered - 2 /\ Own(Entered - 1).s = Entered - 1
    BY <1>4, <1>5, RegisterSources DEF Own, Item
  <1> HIDE DEF T
  <1>7. /\ x \in Seq(T) /\ Len(x) = 2 /\ x[1] = Own(Entered - 2) /\ x[2] = Own(Entered - 1)
    BY <1>6
  <1> HIDE DEF x
  <1>8. \A t \in 1 .. Len(x) : x[t].s = Entered - 1 - Len(x) + t
    <2>1. ASSUME NEW t \in 1 .. Len(x) PROVE x[t].s = Entered - 1 - Len(x) + t
      <3>1. t = 1 \/ t = 2
        BY <1>7
      <3>2. Entered - 2 = Entered - 1 - 2 + 1 /\ Entered - 1 = Entered - 1 - 2 + 2
        BY <1>2
      <3> QED
        BY <1>6, <1>7, <3>1, <3>2
    <2> QED
      BY <2>1
  <1>9. g \in Fields(Items)
    <2>1. Loc(3) \in Loadable
      BY <1>5 DEF Loadable
    <2>2. Initial[3] \in Words /\ "none" \in Pendings
      BY <1>2, <1>4 DEF Pendings
    <2> QED
      BY <1>1, <1>2, <1>4, <1>7, <2>1, <2>2 DEF Fields, T
  <1>10. Typed(g, Items)
    <2>1. Stacked(g)
      BY <1>1, <1>2, <1>3, <1>7, <1>8 DEF Stacked
    <2> QED
      BY <1>3, <1>9, <2>1, ItemsAre DEF Typed
  <1>11. Held(g)
    <2>1. Value(g, Loc(3)) = g.m[3]
      BY DEF Value, Loc, Desc, Kinds
    <2> QED
      BY <1>1, <2>1 DEF Held
  <1>12. g.ssp = base + Len(cells) + Waiting(g.pending)
    BY <1>1, <1>2, NotWaiting
  <1>13. Stacking(base, cells)
    BY <1>1, <1>2 DEF Stacking, Row
  <1> QED
    BY <1>1, <1>10, <1>11, <1>12, <1>13 DEF Inv, InStep

-----------------------------------------------------------------------------
THEOREM TranslateInvariant == Spec /\ [][NoZeroOffset]_vars => []Inv
  <1>1. Init => Inv
    BY InitHolds
  <1>2. Inv /\ [Next]_vars /\ [NoZeroOffset]_vars => Inv'
    <2> SUFFICES ASSUME Inv, [Next]_vars, [NoZeroOffset]_vars PROVE Inv'
      OBVIOUS
    <2>1. CASE NoZeroOffset
      BY <2>1, NextHolds
    <2>2. CASE UNCHANGED vars
      <3>1. g' = g /\ base' = base /\ cells' = cells /\ program' = program
        BY <2>2 DEF vars
      <3>2. Stacking(base', cells') /\ InStep(g', base', Len(cells'))
        BY <3>1 DEF Inv
      <3> QED
        BY <3>1, <3>2, Afterwards
    <2> QED
      BY <2>1, <2>2
  <1> QED
    BY <1>1, <1>2, PTL DEF Spec

LEMMA InvTypes ==
  ASSUME Inv
  PROVE  TypeOK
  <1>1. /\ Typed(g, Items) /\ g.ssp = base + Len(cells) + Waiting(g.pending)
    BY DEF Inv, InStep
  <1>2. /\ Top(g) = Len(g.ss) /\ Len(g.ss) \in Nat /\ Len(g.ss) >= 2
        /\ Len(g.ss) <= program.items /\ program.items \in Nat
        /\ g.a \in Words /\ g.b \in Words /\ g.c \in Words
    BY <1>1, Tops
  <1>3. Top(g) \in 2 .. program.items
    BY <1>2
  <1>4. \A t \in 1 .. Top(g) : g.ss[t].s = g.ssp - 1 - Top(g) + t
    BY <1>1, <1>2 DEF Typed, Stacked
  <1> QED
    BY <1>1, <1>2, <1>3, <1>4 DEF TypeOK, Waiting, Words

(* SS always describes the top of the stack of OCODE: its items stand for  *)
(* consecutive cells up to ssp, there are at least two and no more than    *)
(* there is room for, and there is one cell more than results while a      *)
(* dyadic operator is pending.  So every Arg the code generator reads is   *)
(* that of the operand it means.                                           *)
THEOREM TranslateTypes == Spec /\ [][NoZeroOffset]_vars => []TypeOK
  <1>1. Inv => TypeOK
    BY InvTypes
  <1> QED
    BY <1>1, TranslateInvariant, PTL

(* Whatever addinfo, forgetvar, forgetallvars, xchinfo and atbinfo leave   *)
(* in the lists of A and B is true: a load that is left out because a      *)
(* register is believed to hold the value would have loaded that value.    *)
THEOREM TranslateRegistersHold == Spec /\ [][NoZeroOffset]_vars => []RegistersHold
  <1>1. Inv => RegistersHold
    BY DEF Inv, InStep, Held, RegistersHold
  <1> QED
    BY <1>1, TranslateInvariant, PTL

(* The addition whose sum an assignment stores through is compiled by it:  *)
(* the case NoZeroOffset leaves out is the only one that cgstind misses.   *)
THEOREM TranslateAssignmentsEnd == Spec /\ [][NoZeroOffset]_vars => AssignmentsEnd
  <1>1. Inv /\ [Next]_vars /\ [NoZeroOffset]_vars => [Stind => g'.pending = "none"]_vars
    <2> SUFFICES ASSUME Inv, NoZeroOffset, Stind PROVE g'.pending = "none"
      OBVIOUS
    <2>1. /\ Len(cells) \in Nat /\ Ready(g) /\ base \in Nat /\ base >= 4 /\ g.ssp \in Nat
          /\ g.ssp >= base + Len(cells)
      BY Before
    <2>2. Len(cells) >= 2 /\ g' = Cgstind(g)
      BY DEF Stind
    <2>3. g.ssp >= 6
      BY <2>1, <2>2
    <2>4. Stands(Cgstind(g), g, After(g.pending, g.ssp) - 2, "none")
      BY <2>1, <2>3, CgstindIs DEF NoZeroOffset
    <2> QED
      BY <2>2, <2>4 DEF Stands, StandsIn
  <1> QED
    BY <1>1, TranslateInvariant, PTL DEF Spec, AssignmentsEnd
=============================================================================
