------------------------------ MODULE CliProofs -----------------------------
(***************************************************************************)
(* Proofs about the command line interpreter and the segment loader, for   *)
(* any memory, any files and any number of segments called: what is loaded *)
(* has one owner, who gives it back once; commands leave the globals as    *)
(* they have found them; and code is not unloaded while it is executed,    *)
(* but by itself.                                                          *)
(***************************************************************************)
EXTENDS Cli, LeastNumber, FiniteSetTheorems, SequenceTheorems, TLAPS

-----------------------------------------------------------------------------
(* The inductive invariant.  First the types TypeOK does not give.         *)
Code == Vec \cup {Unset, InLibrary}
FrameRec == [on : {"running", "loading", "setting", "preloading"}, code : Code,
             saved : Code, module : Vec \cup {Null}]
PreloadRec == [name : Name \cup {NoFile}, module : Vec, item : Vec]
CliRec == [pc : {"prompt", "loading", "setting", "running", "adrift"},
           name : Name \cup {NoFile}, found : BOOLEAN, module : Vec \cup {Null},
           co : Vec \cup {Null}, preload : Name \cup {NoFile}]

LdRec == [on : {"off", "reading", "done"}, list : Vec \cup {Null}, liste : Vec \cup {Null},
          todo : Seq(Record), path : BOOLEAN, name : Name \cup {NoFile}]
GlRec == [on : {"off", "setting", "done"}, seg : Vec \cup {Null}, at : Vec \cup {Null}]

Typed ==
  /\ frames \in Seq(FrameRec) /\ Len(frames) <= MaxCalls + 1
  /\ preloads \in Seq(PreloadRec) /\ cli \in CliRec /\ ld \in LdRec /\ gl \in GlRec
  /\ disc \in Disc /\ (ld.on = "reading" => ld.name \in Name)
  /\ glob \in [Global -> Code] /\ stale \subseteq Global /\ failed \in BOOLEAN

(* Which loops run: the loader for the CLI or for the segment that runs,   *)
(* and so globin.                                                          *)
Control ==
  /\ cli.pc \in {"prompt", "loading", "setting"} <=> frames = <<>>
  /\ \A i \in 1 .. Len(frames) - 1 : frames[i].on = "running"
  /\ cli.pc = "adrift" => Top.on = "running"
  /\ ld.on # "off" <=> \/ cli.pc = "loading"
                       \/ cli.pc = "running" /\ Top.on \in {"loading", "preloading"}
  /\ gl.on # "off" <=> \/ cli.pc = "setting"
                       \/ cli.pc = "running" /\ Top.on = "setting"
  /\ ld.on = "off" => ld.list = Null
  /\ cli.pc \in {"prompt", "loading"} => cli.module = Null /\ ~cli.found
  /\ cli.pc \in {"prompt", "loading", "setting"} => cli.co = Null
  /\ frames # <<>> => frames[1].module = Null
  /\ \A i \in 1 .. Len(frames) : frames[i].on = "loading" => frames[i].module = Null /\ i > 1
  /\ \A i \in 1 .. Len(frames) : frames[i].on = "setting" => i > 1

(* The links between hunks lead to hunks, and no two to the same one.      *)
Hunks == {v \in Vec : mem[v].use = "hunk"}
LinksGood ==
  /\ \A v \in Hunks : mem[v].next \in Hunks \cup {Null}
  /\ \A u, v \in Hunks : mem[u].next = mem[v].next => u = v \/ mem[u].next = Null

(* The segments of the preload list, of the frames, of the command and the *)
(* loader are all different ones, and each begins with its first hunk.     *)
PreloadHeads == {preloads[i].module : i \in 1 .. Len(preloads)}
FrameHeads == {frames[i].module : i \in 1 .. Len(frames)} \ {Null}
CliHeads == IF cli.found THEN {} ELSE {cli.module} \ {Null}
LoadHeads == {ld.list} \ {Null}
AllHeads == PreloadHeads \cup FrameHeads \cup CliHeads \cup LoadHeads
Items == {preloads[i].item : i \in 1 .. Len(preloads)}

HeadsApart ==
  /\ PreloadHeads \cap (FrameHeads \cup CliHeads \cup LoadHeads) = {}
  /\ FrameHeads \cap (CliHeads \cup LoadHeads) = {} /\ CliHeads \cap LoadHeads = {}
  /\ \A i, j \in 1 .. Len(preloads) : preloads[i].module = preloads[j].module => i = j
  /\ \A i, j \in 1 .. Len(frames) :
       frames[i].module = frames[j].module => i = j \/ frames[i].module = Null
HeadsFirst == \A a \in AllHeads : a \in Hunks /\ \A v \in Hunks : mem[v].next # a

(* The coroutine of the command and the items of the list are vectors.     *)
OthersKept ==
  /\ frames # <<>> => cli.co \in Vec /\ mem[cli.co].use = "stack"
  /\ \A i \in 1 .. Len(preloads) : mem[preloads[i].item].use = "item"
  /\ \A i, j \in 1 .. Len(preloads) : preloads[i].item = preloads[j].item => i = j

(* The loader knows the last hunk of what it has loaded.                   *)
TailKnown ==
  ld.on = "reading" =>
    /\ ld.list = Null <=> ld.liste = Null
    /\ ld.list # Null => /\ ld.liste \in Chain(ld.list) \cap Hunks
                         /\ mem[ld.liste].next = Null

MemOK == mem \in [Vec -> {Free, [use |-> "stack"], [use |-> "item"]}
                           \cup [use : {"hunk"}, next : Vec \cup {Null}, of : Record]]
GlobinAt == gl.on = "setting" => gl.at \in Hunks

(* What does not depend on the memory, and what does.                      *)
Shape == Typed /\ Control /\ HeadsApart
Memory == /\ MemOK /\ LinksGood /\ HeadsFirst /\ OthersKept
          /\ TailKnown /\ GlobinAt /\ ~twice
OwnersInv == Shape /\ Memory

(* What the globals refer to.                                              *)
Clean ==
  /\ \A g \in Library : glob[g] = InLibrary
  /\ \A g \in User : glob[g] = Unset
  /\ stale \subseteq {Start} \cup Other
NoCommand == cli.pc \in {"prompt", "loading"} \/ (cli.pc = "setting" /\ cli.module = Null)
CleanKept ==
  /\ \A g \in stale : glob[g] \in Vec
  /\ NoCommand /\ ~failed => Clean

Entered(i) == frames[i].on \in {"running", "preloading"}
TopEntered == Top.on \in {"running", "preloading"}
StartKept ==
  /\ \A i \in 2 .. Len(frames) : frames[i].on # "loading" => frames[i].saved = frames[i-1].code
  /\ cli.pc = "running" =>
       /\ TopEntered => glob[Start] = Top.code
       /\ Top.on = "loading" => glob[Start] = frames[Len(frames) - 1].code

GlobalsInv == CleanKept /\ StartKept

(* Where the code in execution is: in the module of the command or in that *)
(* of a segment that has been called, not after.                           *)
ModuleOf(i) == IF i = 1 THEN cli.module ELSE frames[i].module
ModulesTo(i) == UNION {Chain(ModuleOf(j)) : j \in 1 .. i}
FoundKept ==
  cli.found /\ cli.pc \in {"setting", "running"} =>
    \E i \in 1 .. Len(preloads) : preloads[i].name = cli.name /\ preloads[i].module = cli.module
SetKept ==
  cli.pc = "setting" => /\ glob[Start] \in {Unset} \cup Chain(cli.module)
                        /\ gl.on = "setting" => gl.at \in Chain(cli.module)
CodeAt(i) ==
  /\ IF Entered(i) THEN frames[i].code \in ModulesTo(i) ELSE frames[i].code = Unset
  /\ frames[i].on = "setting" => /\ glob[Start] \in ModulesTo(i)
                                 /\ gl.on = "setting" => gl.at \in Chain(ModuleOf(i))
RunKept == cli.pc = "running" => \A i \in 1 .. Len(frames) : CodeAt(i)
CodeInv == FoundKept /\ SetKept /\ RunKept
IInv == OwnersInv /\ GlobalsInv /\ CodeInv
-----------------------------------------------------------------------------
(* The links are typed.                                                    *)
MemTyped == \A v \in Hunks : mem[v].next \in Vec \cup {Null}

LEMMA NullIsNoPlace == Null \notin Vec /\ Vec \subseteq Nat
  BY SegmentsAssumption DEF SegmentsAssumption, Null

LEMMA LinkTyped ==
  ASSUME MemTyped
  PROVE  /\ \A v \in Vec \cup {Null} : Link(v) \in Vec \cup {Null}
         /\ \A v \in Hunks : Link(v) = mem[v].next
         /\ \A v : v \notin Hunks => Link(v) = Null
  BY DEF MemTyped, Link, Hunks

(* What the recursion of Met says of a function.                           *)
FollowsFrom(a, f) ==
  f = [n \in 0 .. Cardinality(Vec) |-> IF n = 0 THEN a ELSE Link(f[n - 1])]

(* The vectors that are met from a are all that the links lead to: there   *)
(* are no more of them than places.                                        *)
LEMMA ChainIsOrbit ==
  ASSUME MemTyped, NEW a \in Vec \cup {Null}
  PROVE  \E f \in [Nat -> Vec \cup {Null}] :
           /\ f[0] = a /\ \A n \in Nat : f[n+1] = Link(f[n])
           /\ Chain(a) = {f[n] : n \in Nat} \ {Null}
  <1> DEFINE F == [v \in Vec \cup {Null} |-> Link(v)]
             N == Cardinality(Vec)
  <1>1. F \in [Vec \cup {Null} -> Vec \cup {Null}]
    BY LinkTyped
  <1>2. PICK f \in [Nat -> Vec \cup {Null}] : f[0] = a /\ \A n \in Nat : f[n+1] = F[f[n]]
    <2> DEFINE S == Vec \cup {Null}
    <2>1. F \in [S -> S] /\ a \in S
      BY <1>1
    <2> HIDE DEF F, S
    <2>2. \E f : Iteration(S, F, a, f)
      BY <2>1, Iterates
    <2> QED
      BY <2>2 DEF Iteration, S
  <1>3. \A n \in Nat : f[n+1] = Link(f[n])
    BY <1>2
  <1>4. N \in Nat /\ IsFiniteSet(Vec)
    BY FS_CardinalityType, SegmentsAssumption DEF SegmentsAssumption
  <1> DEFINE g == [n \in 0 .. N |-> f[n]]
             h == Met(a)
  <1>5. FollowsFrom(a, g)
    <2>1. \A n \in 0 .. N : n # 0 => n-1 \in 0 .. N /\ f[n] = Link(f[n-1])
      <3> SUFFICES ASSUME NEW n \in 0 .. N, n # 0
                   PROVE  n-1 \in 0 .. N /\ f[n] = Link(f[n-1])
        OBVIOUS
      <3>1. n-1 \in Nat /\ n-1 \in 0 .. N /\ (n-1)+1 = n
        BY <1>4
      <3> QED
        BY <3>1, <1>3
    <2>2. \A n \in 0 .. N : g[n] = IF n = 0 THEN a ELSE Link(g[n-1])
      BY <1>2, <2>1
    <2> QED
      BY <2>2 DEF FollowsFrom
  <1>6. FollowsFrom(a, h)
    BY <1>5, Zenon DEF Met, FollowsFrom
  <1>7. DOMAIN h = 0 .. N /\ \A n \in 0 .. N : h[n] = IF n = 0 THEN a ELSE Link(h[n-1])
    <2> HIDE DEF h
    <2> QED
      BY <1>6 DEF FollowsFrom
  <1>8. \A n \in 0 .. N : h[n] = f[n]
    <2> DEFINE T == {n \in 0 .. N : h[n] # f[n]}
    <2> HIDE DEF h
    <2>1. SUFFICES ASSUME T # {} PROVE FALSE
      OBVIOUS
    <2>2. T \in SUBSET Nat
      BY <1>4
    <2>3. PICK n \in T : \A k \in T : n <= k
      BY <2>1, <2>2, LeastNat
    <2>4. n \in 0 .. N /\ n # 0
      BY <1>2, <1>7, <1>4
    <2>5. n-1 \in 0 .. N /\ n-1 \in Nat /\ (n-1)+1 = n /\ n-1 \notin T
      <3>1. n-1 \in 0 .. N /\ n-1 \in Nat /\ (n-1)+1 = n
        BY <2>4, <1>4
      <3>2. n-1 \notin T
        <4> HIDE DEF T
        <4> QED
          BY <2>3, <2>4, <3>1, <1>4
      <3> QED
        BY <3>1, <3>2
    <2>6. h[n-1] = f[n-1]
      BY <2>5
    <2>7. h[n] = f[n]
      BY <2>4, <2>5, <2>6, <1>3, <1>7
    <2> QED
      BY <2>7
  <1>9. Chain(a) = {f[n] : n \in 0 .. N} \ {Null}
    <2>1. Chain(a) = {h[n] : n \in DOMAIN h} \ {Null}
      BY DEF Chain
    <2> HIDE DEF h
    <2> QED
      BY <1>7, <1>8, <2>1
  <1>10. \A n \in Nat : \E k \in 0 .. N : f[n] = f[k]
    <2>1. \A m, n \in Nat : f[m] = f[n] => f[m+1] = f[n+1]
      BY <1>3
    <2>2. \A n \in Nat : f[n] = Null => f[n+1] = Null
      BY <1>3, NullIsNoPlace, LinkTyped DEF Hunks
    <2> QED
      BY <2>1, <2>2, <1>4, NullIsNoPlace, OrbitCloses
  <1>11. Chain(a) = {f[n] : n \in Nat} \ {Null}
    BY <1>4, <1>9, <1>10
  <1> QED
    BY <1>2, <1>3, <1>11

(* What there is to know of chains: they hold their beginning, are closed  *)
(* under the links, hold nothing else, and each place on them but the      *)
(* first is reached from another.                                          *)
ChainFacts ==
  \A a \in Vec \cup {Null} :
    /\ Chain(a) \subseteq Vec /\ (a # Null => a \in Chain(a)) /\ (a = Null => Chain(a) = {})
    /\ \A v \in Chain(a) : Link(v) \in Chain(a) \cup {Null}
    /\ \A v \in Chain(a) : v = a \/ \E u \in Chain(a) : Link(u) = v
    /\ \A S \in SUBSET Vec :
         a \in S \cup {Null} /\ (\A v \in S : Link(v) \in S \cup {Null}) => Chain(a) \subseteq S

LEMMA ChainLaws == MemTyped => ChainFacts
  <1> SUFFICES ASSUME MemTyped, NEW a \in Vec \cup {Null}
      PROVE  /\ Chain(a) \subseteq Vec /\ (a # Null => a \in Chain(a)) /\ (a = Null => Chain(a) = {})
             /\ \A v \in Chain(a) : Link(v) \in Chain(a) \cup {Null}
             /\ \A v \in Chain(a) : v = a \/ \E u \in Chain(a) : Link(u) = v
             /\ \A S \in SUBSET Vec :
                  a \in S \cup {Null} /\ (\A v \in S : Link(v) \in S \cup {Null})
                    => Chain(a) \subseteq S
    BY DEF ChainFacts
  <1>1. PICK f \in [Nat -> Vec \cup {Null}] :
           /\ f[0] = a /\ \A n \in Nat : f[n+1] = Link(f[n])
           /\ Chain(a) = {f[n] : n \in Nat} \ {Null}
    BY ChainIsOrbit
  <1>2. Link(Null) = Null
    BY NullIsNoPlace, LinkTyped DEF Hunks
  <1>3. Chain(a) \subseteq Vec /\ (a # Null => a \in Chain(a))
    BY <1>1
  <1>4. \A v \in Chain(a) : Link(v) \in Chain(a) \cup {Null}
    BY <1>1
  <1>5. ASSUME NEW v \in Chain(a), v # a
        PROVE  \E u \in Chain(a) : Link(u) = v
    <2>1. PICK n \in Nat : v = f[n]
      BY <1>1
    <2>2. n # 0 /\ n-1 \in Nat /\ (n-1)+1 = n
      BY <1>1, <1>5, <2>1
    <2>3. Link(f[n-1]) = v
      BY <1>1, <2>1, <2>2
    <2>4. f[n-1] # Null
      BY <1>1, <1>2, <2>3
    <2> QED
      BY <1>1, <2>2, <2>3, <2>4
  <1>6. ASSUME NEW S \in SUBSET Vec, a \in S \cup {Null},
               \A v \in S : Link(v) \in S \cup {Null}
        PROVE  \A n \in Nat : f[n] \in S \cup {Null}
    <2> DEFINE T == {n \in Nat : f[n] \notin S \cup {Null}}
    <2>1. SUFFICES ASSUME T # {} PROVE FALSE
      OBVIOUS
    <2>2. PICK n \in T : \A k \in T : n <= k
      BY <2>1, LeastNat
    <2>3. n # 0 /\ n-1 \in Nat /\ (n-1)+1 = n
      BY <1>1, <1>6, <2>2
    <2>4. n-1 \notin T
      <3> HIDE DEF T
      <3> QED
        BY <2>2, <2>3
    <2>5. f[n-1] \in S \cup {Null} /\ f[n] = Link(f[n-1])
      BY <1>1, <2>3, <2>4
    <2> QED
      BY <1>2, <1>6, <2>2, <2>5
  <1>7. a = Null => Chain(a) = {}
    <2> SUFFICES ASSUME a = Null PROVE Chain(a) = {}
      OBVIOUS
    <2>1. \A n \in Nat : f[n] \in {} \cup {Null}
      BY <1>6
    <2> QED
      BY <1>1, <2>1
  <1> QED
    BY <1>1, <1>3, <1>4, <1>5, <1>6, <1>7, SMTT(30)

LEMMA ChainLawsNext == MemTyped' => ChainFacts'
  BY ChainLaws, PTL

(* Where no two links lead to the same hunk, segments that nothing leads   *)
(* to have no hunk in common.                                              *)
NoneLeadsTo(a) == \A v \in Hunks : mem[v].next # a

LEMMA ChainsApart ==
  ASSUME LinksGood, NEW a \in Hunks, NEW b \in Hunks, a # b, NoneLeadsTo(a), NoneLeadsTo(b)
  PROVE  Chain(a) \cap Chain(b) = {}
  <1>1. MemTyped /\ Hunks \subseteq Vec /\ a # Null /\ b # Null
    BY NullIsNoPlace DEF LinksGood, MemTyped, Hunks
  <1>2. ChainFacts
    BY <1>1, ChainLaws
  <1> DEFINE S == Chain(a) \ Chain(b)
  <1>3. \A v \in Chain(a) \cup Chain(b) : Link(v) # Null => v \in Hunks /\ Link(v) = mem[v].next
    BY <1>1, LinkTyped
  <1>4. a \in S
    <2>1. SUFFICES ASSUME a \in Chain(b) PROVE FALSE
      BY <1>1, <1>2 DEF ChainFacts
    <2>2. PICK u \in Chain(b) : Link(u) = a
      BY <1>1, <1>2, <2>1 DEF ChainFacts
    <2> QED
      BY <1>1, <1>3, <2>2 DEF NoneLeadsTo
  <1>5. ASSUME NEW v \in S PROVE Link(v) \in S \cup {Null}
    <2>1. SUFFICES ASSUME Link(v) # Null, Link(v) \in Chain(b) PROVE FALSE
      BY <1>1, <1>2 DEF ChainFacts
    <2>2. v \in Hunks /\ Link(v) = mem[v].next
      BY <1>3, <2>1
    <2>3. Link(v) # b
      BY <2>2 DEF NoneLeadsTo
    <2>4. PICK u \in Chain(b) : Link(u) = Link(v)
      BY <1>1, <1>2, <2>1, <2>3 DEF ChainFacts
    <2>5. u \in Hunks /\ Link(u) = mem[u].next
      BY <1>3, <2>1, <2>4
    <2>6. u = v
      BY <2>1, <2>2, <2>4, <2>5 DEF LinksGood
    <2> QED
      BY <2>6
  <1>6. Chain(a) \subseteq S
    BY <1>1, <1>2, <1>4, <1>5, ZenonT(40) DEF ChainFacts
  <1> QED
    BY <1>6

LEMMA ChainOfHunks ==
  ASSUME LinksGood, NEW a \in Hunks \cup {Null}
  PROVE  Chain(a) \subseteq Hunks
  <1>1. MemTyped /\ Hunks \subseteq Vec /\ Hunks \in SUBSET Vec
    BY DEF LinksGood, MemTyped, Hunks
  <1>2. \A v \in Hunks : Link(v) \in Hunks \cup {Null}
    BY <1>1, LinkTyped DEF LinksGood
  <1> QED
    BY <1>1, <1>2, ChainLaws DEF ChainFacts

(* A chain whose links are left alone is the same.                         *)
LEMMA ChainUnchanged ==
  ASSUME MemTyped, MemTyped', NEW a \in Vec \cup {Null},
         \A v \in Chain(a) : Link(v)' = Link(v)
  PROVE  Chain(a)' = Chain(a)
  <1>1. ChainFacts /\ ChainFacts'
    BY ChainLaws, ChainLawsNext
  <1>2. Chain(a)' \subseteq Chain(a)
    <2>1. Chain(a) \in SUBSET Vec /\ a \in Chain(a) \cup {Null}
          /\ \A v \in Chain(a) : Link(v)' \in Chain(a) \cup {Null}
      BY <1>1 DEF ChainFacts
    <2> QED
      BY <1>1, <2>1 DEF ChainFacts
  <1>3. Chain(a) \subseteq Chain(a)'
    <2> DEFINE S == Chain(a) \cap Chain(a)'
    <2>1. S \in SUBSET Vec /\ a \in S \cup {Null}
      BY <1>1 DEF ChainFacts
    <2>2. \A v \in S : Link(v) \in S \cup {Null}
      BY <1>1 DEF ChainFacts
    <2> HIDE DEF S
    <2>3. Chain(a) \subseteq S
      BY <1>1, <2>1, <2>2 DEF ChainFacts
    <2> QED
      BY <2>3 DEF S
  <1> QED
    BY <1>2, <1>3
(***************************************************************************)
(* The segments that begin at A are given back, and perhaps a vector that  *)
(* is no hunk is made one with nothing behind it.  The other segments are  *)
(* what they were.                                                         *)
(***************************************************************************)
Chains(A) == UNION {Chain(a) : a \in A}

LEMMA SegmentsFreed ==
  ASSUME LinksGood, NEW A \in SUBSET Hunks, \A a \in A : NoneLeadsTo(a),
         NEW X, X = Chains(A),
         \A v \in X : mem'[v] = Free,
         \A v \in Hunks \ X : mem'[v] = mem[v],
         \A v \in Vec \ Hunks : mem'[v].use = "hunk" => mem'[v].next = Null
  PROVE  /\ LinksGood' /\ X \subseteq Hunks /\ Hunks \ X \subseteq Hunks' /\ Hunks' \cap X = {}
         /\ \A b \in Hunks \ A : NoneLeadsTo(b) =>
              /\ b \in Hunks' /\ NoneLeadsTo(b)'
              /\ Chain(b) \cap X = {} /\ Chain(b)' = Chain(b)
         /\ \A b \in Vec \ Hunks : NoneLeadsTo(b)'
  <1>1. X \subseteq Hunks /\ Hunks \subseteq Vec
    BY ChainOfHunks DEF Hunks, Chains
  <1>2. Hunks' \cap X = {} /\ Hunks \ X \subseteq Hunks'
    BY DEF Hunks, Free
  <1>3. \A a \in Hunks \ A : NoneLeadsTo(a) => Chain(a) \cap X = {}
    <2> SUFFICES ASSUME NEW a \in Hunks \ A, NoneLeadsTo(a), NEW c \in A
                 PROVE  Chain(a) \cap Chain(c) = {}
      BY DEF Chains
    <2> QED
      BY ChainsApart
  <1>4. MemTyped /\ ChainFacts
    BY ChainLaws DEF LinksGood, MemTyped, Hunks
  <1>5. \A v \in Hunks : mem[v].next \in X => v \in X
    <2> SUFFICES ASSUME NEW v \in Hunks, NEW a \in A, mem[v].next \in Chain(a)
                 PROVE  v \in Chain(a)
      BY DEF Chains
    <2>1. mem[v].next # a /\ mem[v].next # Null /\ a \in Vec
      BY <1>1, <1>4, NullIsNoPlace DEF NoneLeadsTo, ChainFacts
    <2>2. PICK u \in Chain(a) : Link(u) = mem[v].next
      BY <1>4, <2>1 DEF ChainFacts
    <2>3. u \in Hunks /\ Link(u) = mem[u].next
      BY <1>4, <2>1, <2>2, LinkTyped
    <2> QED
      BY <2>1, <2>2, <2>3 DEF LinksGood
  <1>6. LinksGood'
    <2>1. \A v \in Hunks' : (v \in Hunks /\ v \notin X) \/ mem'[v].next = Null
      BY <1>2 DEF Hunks
    <2>2. \A v \in Hunks' : mem'[v].next \in Hunks' \cup {Null}
      BY <1>2, <1>5, <2>1 DEF LinksGood
    <2>3. \A u, v \in Hunks' : mem'[u].next = mem'[v].next => u = v \/ mem'[u].next = Null
      BY <2>1 DEF LinksGood
    <2> QED
      BY <2>2, <2>3 DEF LinksGood
  <1>7. MemTyped'
    BY <1>6 DEF LinksGood, MemTyped, Hunks
  <1>8. ASSUME NEW b \in Hunks \ A, NoneLeadsTo(b)
        PROVE  b \in Hunks' /\ NoneLeadsTo(b)' /\ Chain(b) \cap X = {} /\ Chain(b)' = Chain(b)
    <2>1. Chain(b) \cap X = {} /\ b \in Chain(b) /\ Chain(b) \subseteq Hunks /\ b # Null /\ b \in Vec
      BY <1>1, <1>3, <1>4, <1>8, ChainOfHunks, NullIsNoPlace DEF ChainFacts
    <2>2. b \in Hunks'
      BY <1>2, <2>1
    <2>3. \A v \in Hunks' : (v \in Hunks /\ mem'[v] = mem[v]) \/ mem'[v].next = Null
      BY <1>2 DEF Hunks
    <2>6. NoneLeadsTo(b)'
      BY <1>8, <2>1, <2>3 DEF NoneLeadsTo
    <2>4. \A v \in Chain(b) : Link(v)' = Link(v)
      BY <2>1 DEF Link, Hunks
    <2>5. Chain(b)' = Chain(b)
      BY <1>4, <1>7, <2>1, <2>4, ChainUnchanged
    <2> QED
      BY <2>1, <2>2, <2>5, <2>6
  <1>9. ASSUME NEW b \in Vec \ Hunks
        PROVE  NoneLeadsTo(b)'
    <2>1. \A v \in Hunks' : (v \in Hunks /\ mem'[v] = mem[v]) \/ mem'[v].next = Null
      BY <1>2 DEF Hunks
    <2>2. \A v \in Hunks : mem[v].next # b
      BY NullIsNoPlace, <1>9 DEF LinksGood
    <2> QED
      BY <1>9, <2>1, <2>2, NullIsNoPlace DEF NoneLeadsTo
  <1> QED
    BY <1>1, <1>2, <1>6, <1>8, <1>9

(* A free vector becomes the hunk behind z, the last one of a segment.     *)
LEMMA HunkAdded ==
  ASSUME LinksGood, NEW p \in Vec \ Hunks, NEW a \in Hunks, NoneLeadsTo(a),
         NEW z \in Chain(a) \cap Hunks, mem[z].next = Null,
         mem'[p].use = "hunk", mem'[p].next = Null,
         mem'[z].use = "hunk", mem'[z].next = p,
         \A v \in Vec \ {p, z} : mem'[v] = mem[v]
  PROVE  /\ LinksGood' /\ Hunks' = Hunks \cup {p}
         /\ \A b \in Hunks \ {a} : NoneLeadsTo(b) => NoneLeadsTo(b)' /\ Chain(b)' = Chain(b)
         /\ NoneLeadsTo(a)' /\ Chain(a)' = Chain(a) \cup {p}
  <1>1. Hunks \subseteq Vec /\ p # Null /\ z # p
    BY NullIsNoPlace DEF Hunks
  <1>2. Hunks' = Hunks \cup {p}
    BY DEF Hunks
  <1>3. LinksGood'
    BY <1>1, <1>2 DEF LinksGood
  <1>4. MemTyped /\ MemTyped' /\ ChainFacts /\ ChainFacts'
    BY <1>1, <1>2, <1>3, ChainLaws, ChainLawsNext DEF LinksGood, MemTyped
  <1>5. \A b \in Hunks : NoneLeadsTo(b) => NoneLeadsTo(b)'
    BY <1>1, <1>2, NullIsNoPlace DEF NoneLeadsTo
  <1>6. \A v \in Vec \ {p, z} : Link(v)' = Link(v)
    BY DEF Link
  <1>7. ASSUME NEW b \in Hunks \ {a}, NoneLeadsTo(b)
        PROVE  Chain(b)' = Chain(b)
    <2>1. z \notin Chain(b) /\ p \notin Chain(b) /\ Chain(b) \subseteq Vec /\ b \in Vec
      BY <1>1, <1>7, ChainsApart, ChainOfHunks
    <2> QED
      BY <1>4, <1>6, <2>1, ChainUnchanged
  <1>8. Chain(a)' = Chain(a) \cup {p}
    <2>1. Link(z)' = p /\ Link(p)' = Null /\ a \in Vec /\ a # Null
      BY <1>1, NullIsNoPlace DEF Link
    <2>2. Chain(a) \subseteq Hunks /\ a \in Chain(a)
      BY <1>4, <2>1, ChainOfHunks DEF ChainFacts
    <2>3. Chain(a)' \subseteq Chain(a) \cup {p}
      <3> DEFINE S == Chain(a) \cup {p}
      <3>1. S \in SUBSET Vec /\ a \in S \cup {Null}
        BY <1>1, <2>2
      <3>2. \A v \in S : Link(v)' \in S \cup {Null}
        BY <1>1, <1>4, <1>6, <2>1, <2>2 DEF ChainFacts
      <3> HIDE DEF S
      <3>3. Chain(a)' \subseteq S
        BY <1>4, <2>1, <3>1, <3>2 DEF ChainFacts
      <3> QED
        BY <3>3 DEF S
    <2>4. Chain(a) \subseteq Chain(a)'
      <3> DEFINE S == Chain(a) \cap Chain(a)'
      <3>1. S \in SUBSET Vec /\ a \in S \cup {Null}
        BY <1>1, <1>4, <2>1, <2>2 DEF ChainFacts
      <3>2. Link(z) = Null
        BY LinkTyped, <1>4
      <3>3. \A v \in S : Link(v) \in S \cup {Null}
        BY <1>1, <1>4, <1>6, <2>1, <2>2, <3>2 DEF ChainFacts
      <3> HIDE DEF S
      <3>4. Chain(a) \subseteq S
        BY <1>4, <2>1, <3>1, <3>3 DEF ChainFacts
      <3> QED
        BY <3>4 DEF S
    <2>5. p \in Chain(a)'
      BY <1>1, <1>4, <2>1, <2>4 DEF ChainFacts
    <2> QED
      BY <2>3, <2>4, <2>5
  <1> QED
    BY <1>2, <1>3, <1>5, <1>7, <1>8

(* getvec takes a vector that is free. *)
LEMMA PlaceIsFree ==
  ASSUME Places # {}
  PROVE  Place \in Vec /\ mem[Place].use = "free" /\ Place \notin Hunks
  <1>1. Places \in SUBSET Nat
    BY NullIsNoPlace DEF Places
  <1>2. \E v \in Places : \A w \in Places : v <= w
    BY <1>1, LeastNat
  <1>3. Place \in Places
    BY <1>2 DEF Place
  <1> QED
    BY <1>3 DEF Places, Hunks

-----------------------------------------------------------------------------
(* Sequences: a part, the last element replaced or dropped, one taken out. *)
LEMMA PartOf ==
  ASSUME NEW S, NEW s \in Seq(S), NEW m \in Nat \ {0}, NEW n \in Nat,
         n <= Len(s), m <= n + 1
  PROVE  /\ SubSeq(s, m, n) \in Seq(S) /\ Len(SubSeq(s, m, n)) = n - m + 1
         /\ \A i \in 1 .. n - m + 1 : SubSeq(s, m, n)[i] = s[m + i - 1]
  <1>1. Len(s) \in Nat /\ \A i \in m .. n : s[i] \in S
    OBVIOUS
  <1>2. /\ SubSeq(s, m, n) \in Seq(S)
        /\ Len(SubSeq(s, m, n)) = IF m <= n THEN n - m + 1 ELSE 0
        /\ \A i \in 1 .. n - m + 1 : SubSeq(s, m, n)[i] = s[m + i - 1]
    BY <1>1, SubSeqProperties
  <1> QED
    BY <1>1, <1>2

LEMMA LastReplaced ==
  ASSUME NEW S, NEW s \in Seq(S), s # <<>>, NEW e \in S
  PROVE  LET c == SubSeq(s, 1, Len(s) - 1)
             t == Append(c, e)
         IN  /\ c \in Seq(S) /\ Len(c) = Len(s) - 1 /\ \A i \in 1 .. Len(s) - 1 : c[i] = s[i]
             /\ t \in Seq(S) /\ Len(t) = Len(s) /\ t # <<>>
             /\ \A i \in 1 .. Len(s) : t[i] = IF i = Len(s) THEN e ELSE s[i]
  <1> DEFINE c == SubSeq(s, 1, Len(s) - 1)
  <1>1. Len(s) \in Nat /\ Len(s) # 0 /\ Len(s) - 1 \in Nat /\ (Len(s) - 1) - 1 + 1 = Len(s) - 1
    BY EmptySeq
  <1>2. c \in Seq(S) /\ Len(c) = Len(s) - 1 /\ \A i \in 1 .. Len(s) - 1 : c[i] = s[i]
    <2>1. /\ c \in Seq(S) /\ Len(c) = (Len(s) - 1) - 1 + 1
          /\ \A i \in 1 .. (Len(s) - 1) - 1 + 1 : c[i] = s[1 + i - 1]
      BY <1>1, PartOf
    <2> HIDE DEF c
    <2> QED
      BY <1>1, <2>1
  <1> HIDE DEF c
  <1>3. /\ Append(c, e) \in Seq(S) /\ Len(Append(c, e)) = Len(s)
        /\ \A i \in 1 .. Len(s) : Append(c, e)[i] = IF i = Len(s) THEN e ELSE s[i]
    <2>1. c \in Seq(S)
      BY <1>2
    <2>2. /\ Append(c, e) \in Seq(S) /\ Len(Append(c, e)) = Len(c) + 1
          /\ \A i \in 1 .. Len(c) : Append(c, e)[i] = c[i]
          /\ Append(c, e)[Len(c) + 1] = e
      BY <2>1, AppendProperties
    <2> DEFINE t == Append(c, e)
    <2> HIDE DEF t
    <2>3. Len(c) + 1 = Len(s) /\ t[Len(s)] = e /\ \A i \in 1 .. Len(s) - 1 : t[i] = s[i]
      <3>1. Len(c) + 1 = Len(s)
        BY <1>1, <1>2
      <3>2. t[Len(c) + 1] = e /\ \A i \in 1 .. Len(c) : t[i] = c[i]
        BY <2>2 DEF t
      <3>3. t[Len(s)] = e
        BY ONLY <3>1, <3>2, Zenon
      <3>4. \A i \in 1 .. Len(s) - 1 : t[i] = s[i]
        BY ONLY <1>2, <3>2, Zenon
      <3> QED
        BY <3>1, <3>3, <3>4, Zenon
    <2>4. \A i \in 1 .. Len(s) : i = Len(s) \/ i \in 1 .. Len(s) - 1
      <3>1. ASSUME NEW n \in Nat, NEW i \in 1 .. n PROVE i = n \/ i \in 1 .. n - 1
        OBVIOUS
      <3> QED
        BY ONLY <1>1, <3>1, Zenon
    <2>5. t \in Seq(S) /\ Len(t) = Len(s) /\ \A i \in 1 .. Len(s) : t[i] = IF i = Len(s) THEN e ELSE s[i]
      BY <2>2, <2>3, <2>4 DEF t
    <2> QED
      BY <2>5 DEF t
  <1>4. Append(c, e) # <<>>
    BY <1>1, <1>3
  <1> QED
    BY <1>2, <1>3, <1>4 DEF c

LEMMA OneTakenOut ==
  ASSUME NEW S, NEW s \in Seq(S), NEW k \in 1 .. Len(s)
  PROVE  LET t == SubSeq(s, 1, k - 1) \o SubSeq(s, k + 1, Len(s))
         IN  /\ t \in Seq(S) /\ Len(t) = Len(s) - 1
             /\ \A i \in 1 .. Len(s) - 1 : t[i] = s[IF i < k THEN i ELSE i + 1]
  <1> DEFINE a == SubSeq(s, 1, k - 1)
             b == SubSeq(s, k + 1, Len(s))
  <1>1. Len(s) \in Nat /\ k \in Nat /\ k <= Len(s) /\ k >= 1 /\ k - 1 \in Nat /\ k + 1 \in Nat
    OBVIOUS
  <1>2. a \in Seq(S) /\ Len(a) = k - 1 /\ \A i \in 1 .. k - 1 : a[i] = s[i]
    <2>1. /\ a \in Seq(S) /\ Len(a) = (k - 1) - 1 + 1
          /\ \A i \in 1 .. (k - 1) - 1 + 1 : a[i] = s[1 + i - 1]
      BY <1>1, PartOf
    <2> HIDE DEF a
    <2> QED
      BY <1>1, <2>1
  <1>3. b \in Seq(S) /\ Len(b) = Len(s) - k /\ \A i \in 1 .. Len(s) - k : b[i] = s[k + i]
    <2>1. /\ b \in Seq(S) /\ Len(b) = Len(s) - (k + 1) + 1
          /\ \A i \in 1 .. Len(s) - (k + 1) + 1 : b[i] = s[(k + 1) + i - 1]
      BY <1>1, PartOf
    <2> HIDE DEF b
    <2> QED
      BY <1>1, <2>1
  <1> HIDE DEF a, b
  <1>4. /\ a \o b \in Seq(S) /\ Len(a \o b) = Len(s) - 1
        /\ \A i \in 1 .. Len(s) - 1 : (a \o b)[i] = IF i <= k - 1 THEN a[i] ELSE b[i - (k - 1)]
    <2>1. /\ a \o b \in Seq(S) /\ Len(a \o b) = Len(a) + Len(b)
          /\ \A i \in 1 .. Len(a) + Len(b) :
               (a \o b)[i] = IF i <= Len(a) THEN a[i] ELSE b[i - Len(a)]
      BY <1>2, <1>3, ConcatProperties
    <2>2. Len(a) + Len(b) = Len(s) - 1
      BY <1>1, <1>2, <1>3
    <2> QED
      BY <1>2, <2>1, <2>2
  <1>5. ASSUME NEW i \in 1 .. Len(s) - 1
        PROVE  (a \o b)[i] = s[IF i < k THEN i ELSE i + 1]
    <2> HIDE DEF a, b
    <2>1. CASE i < k
      BY <1>1, <1>2, <1>4, <2>1
    <2>2. CASE ~(i < k)
      <3>1. (a \o b)[i] = b[i - (k - 1)] /\ i - (k - 1) \in 1 .. Len(s) - k
        BY <1>1, <1>4, <2>2
      <3>2. b[i - (k - 1)] = s[k + (i - (k - 1))] /\ k + (i - (k - 1)) = i + 1
        BY <1>1, <1>3, <3>1
      <3> QED
        BY <2>2, <3>1, <3>2
    <2> QED
      BY <2>1, <2>2
  <1> QED
    BY <1>4, <1>5 DEF a, b

-----------------------------------------------------------------------------
(* What the loader does with the files there are.                          *)
LEMMA RestingTyped ==
  /\ Resting \in LdRec /\ Resting.on = "off" /\ Resting.list = Null /\ Resting.liste = Null
  /\ \A a \in Vec \cup {Null} : /\ Loaded(a) \in LdRec /\ Loaded(a).on = "done"
                              /\ Loaded(a).list = a /\ Loaded(a).liste = Null
  /\ \A n \in Name, p \in BOOLEAN, f \in Seq(Record) :
       /\ Reading(n, p, f) \in LdRec /\ Reading(n, p, f).on = "reading"
       /\ Reading(n, p, f).list = Null /\ Reading(n, p, f).liste = Null
       /\ Reading(n, p, f).name = n
  <1>1. <<>> \in Seq(Record)
    BY EmptySeq
  <1>2. /\ Resting \in LdRec /\ Resting.on = "off" /\ Resting.list = Null
        /\ Resting.liste = Null
    BY <1>1 DEF Resting, LdRec
  <1> HIDE DEF Resting
  <1>3. ASSUME NEW a \in Vec \cup {Null}
        PROVE  /\ Loaded(a) \in LdRec /\ Loaded(a).on = "done"
               /\ Loaded(a).list = a /\ Loaded(a).liste = Null
    BY <1>2 DEF Loaded, LdRec
  <1>4. ASSUME NEW n \in Name, NEW p \in BOOLEAN, NEW f \in Seq(Record)
        PROVE  /\ Reading(n, p, f) \in LdRec /\ Reading(n, p, f).on = "reading"
               /\ Reading(n, p, f).list = Null /\ Reading(n, p, f).liste = Null
               /\ Reading(n, p, f).name = n
    BY <1>2 DEF Reading, LdRec
  <1> QED
    BY <1>2, <1>3, <1>4

LEMMA Loader ==
  ASSUME disc \in Disc, NEW n \in Name
  PROVE  /\ FromPath(n) \in LdRec /\ FromPath(n).on \in {"reading", "done"}
         /\ FromPath(n).list = Null /\ FromPath(n).liste = Null
         /\ FromPath(n).on = "reading" => FromPath(n).name \in Name
         /\ disc[n].here # NoFile => disc[n].here \in Seq(Record)
  <1>1. disc[n].here \in Image /\ disc[n].path \in Image
    BY SegmentsAssumption DEF SegmentsAssumption
  <1>2. /\ disc[n].here # NoFile => disc[n].here \in Seq(Record)
        /\ disc[n].path # NoFile => disc[n].path \in Seq(Record)
    BY <1>1, SegmentsAssumption DEF SegmentsAssumption
  <1> QED
    BY <1>2, RestingTyped, ZenonT(40) DEF FromPath

LEMMA LoadsegStarts ==
  ASSUME disc \in Disc, NEW n \in Name, Loadseg(n)
  PROVE  /\ ld' \in LdRec /\ ld'.on \in {"reading", "done"} /\ ld.on = "off"
         /\ ld'.list = Null /\ ld'.liste = Null
         /\ ld'.on = "reading" => ld'.name \in Name
  BY Loader, RestingTyped DEF Loadseg

LEMMA LoaderEnds ==
  ASSUME disc \in Disc, ld.name \in Name, NEW a \in Vec \cup {Null}, Ends(a)
  PROVE  /\ ld' \in LdRec /\ ld'.on \in {"reading", "done"} /\ ld'.list = a
         /\ ld'.on = "reading" => /\ ld'.name \in Name
                                  /\ ld'.list = Null /\ ld'.liste = Null
  BY Loader, RestingTyped DEF Ends

(* The entry of a name in the preload list.                                *)
LEMMA EntryFound ==
  ASSUME preloads \in Seq(PreloadRec), NEW n, IsPreloaded(n)
  PROVE  Entry(n) \in 1 .. Len(preloads) /\ preloads[Entry(n)].name = n
  <1> DEFINE T == {i \in 1 .. Len(preloads) : preloads[i].name = n}
  <1>1. T # {} /\ T \in SUBSET Nat
    BY DEF IsPreloaded
  <1>2. PICK i \in T : \A j \in T : i <= j
    BY <1>1, LeastNat
  <1>3. i \in 1 .. Len(preloads) /\ preloads[i].name = n /\ \A j \in 1 .. i - 1 : preloads[j].name # n
    <2>1. Len(preloads) \in Nat /\ i \in 1 .. Len(preloads) /\ preloads[i].name = n
      BY <1>2
    <2>2. ASSUME NEW j \in 1 .. i - 1, preloads[j].name = n PROVE FALSE
      <3>1. j \in 1 .. Len(preloads) /\ ~(i <= j)
        BY <2>1
      <3>2. j \in T
        BY <2>2, <3>1
      <3> QED
        BY <1>2, <3>1, <3>2
    <2> QED
      BY <2>1, <2>2
  <1> QED
    BY <1>3 DEF Entry

-----------------------------------------------------------------------------
(* Steps and the shape of the state.                                       *)
LEMMA FramesNone == <<>> \in Seq(FrameRec) /\ Len(<<>>) = 0
  BY EmptySeq

LEMMA FramesOne ==
  ASSUME NEW e \in FrameRec
  PROVE  <<e>> \in Seq(FrameRec) /\ Len(<<e>>) = 1 /\ <<e>>[1] = e /\ <<e>> # <<>>
  OBVIOUS

LEMMA FramesSize ==
  ASSUME frames \in Seq(FrameRec)
  PROVE  /\ Len(frames) \in Nat /\ (frames = <<>> <=> Len(frames) = 0)
         /\ frames # <<>> => /\ Top \in FrameRec /\ Len(frames) \in 1 .. Len(frames)
                             /\ 1 \in 1 .. Len(frames)
  <1>1. Len(frames) \in Nat /\ (frames = <<>> <=> Len(frames) = 0)
    BY EmptySeq
  <1>2. frames # <<>> => Len(frames) \in 1 .. Len(frames) /\ 1 \in 1 .. Len(frames)
    BY <1>1
  <1> QED
    BY <1>1, <1>2, ElementOfSeq DEF Top

LEMMA FramesLast ==
  ASSUME frames \in Seq(FrameRec), frames # <<>>, NEW e \in FrameRec,
         frames' = Append(Callers, e)
  PROVE  /\ frames' \in Seq(FrameRec) /\ Len(frames') = Len(frames) /\ frames' # <<>>
         /\ \A i \in 1 .. Len(frames) : frames'[i] = IF i = Len(frames) THEN e ELSE frames[i]
  BY LastReplaced DEF Callers

LEMMA FramesDropped ==
  ASSUME frames \in Seq(FrameRec), frames # <<>>, frames' = Callers
  PROVE  /\ frames' \in Seq(FrameRec) /\ Len(frames') = Len(frames) - 1
         /\ \A i \in 1 .. Len(frames) - 1 : frames'[i] = frames[i]
  <1>1. Top \in FrameRec
    BY FramesSize
  <1> QED
    BY <1>1, LastReplaced DEF Callers

LEMMA FramesGrown ==
  ASSUME frames \in Seq(FrameRec), NEW e \in FrameRec, frames' = Append(frames, e)
  PROVE  /\ frames' \in Seq(FrameRec) /\ Len(frames') = Len(frames) + 1 /\ frames' # <<>>
         /\ frames'[Len(frames) + 1] = e
         /\ \A i \in 1 .. Len(frames) : frames'[i] = frames[i]
  BY AppendProperties

LEMMA IdleHeads ==
  ASSUME Shape
  PROVE  /\ ld.on = "off" => LoadHeads = {}
         /\ cli.pc \in {"prompt", "loading"} => CliHeads = {}
         /\ frames = <<>> \/ Len(frames) = 1 => FrameHeads = {}
         /\ cli.pc \in {"prompt", "loading", "setting"} => FrameHeads = {}
  <1>1. frames = <<>> \/ Len(frames) = 1 => FrameHeads = {}
    BY FramesSize DEF Shape, Typed, Control, FrameHeads
  <1> QED
    BY <1>1 DEF Shape, Control, LoadHeads, CliHeads

LEMMA CommandShape ==
  ASSUME Shape, NEW n \in Name, Command(n)
  PROVE  Shape' /\ AllHeads' = AllHeads
  <1>1. /\ ld' \in LdRec /\ ld'.on \in {"reading", "done"} /\ ld.on = "off" /\ ld'.list = Null
        /\ ld'.on = "reading" => ld'.name \in Name
    BY LoadsegStarts DEF Shape, Typed, Command
  <1>2. /\ cli' \in CliRec /\ cli'.pc = "loading" /\ ~cli'.found /\ cli'.module = Null
        /\ cli'.co = Null
    BY DEF Command, Prompt, CliRec
  <1>3. /\ cli.pc = "prompt"
        /\ UNCHANGED <<disc, gl, glob, stale, frames, preloads, failed>>
    BY DEF Command
  <1>4. Typed'
    BY <1>1, <1>2, <1>3 DEF Shape, Typed
  <1>5. Control'
    BY <1>1, <1>2, <1>3 DEF Shape, Control, Top
  <1>6. /\ PreloadHeads' = PreloadHeads /\ FrameHeads' = FrameHeads
        /\ CliHeads' = {} /\ LoadHeads' = {}
    BY <1>1, <1>2, <1>3 DEF PreloadHeads, FrameHeads, CliHeads, LoadHeads
  <1>7. HeadsApart'
    BY <1>3, <1>6 DEF Shape, HeadsApart
  <1> QED
    BY IdleHeads, <1>1, <1>3, <1>4, <1>5, <1>6, <1>7 DEF Shape, AllHeads

LEMMA PreloadedCommandShape ==
  ASSUME Shape, NEW n \in Name, PreloadedCommand(n)
  PROVE  Shape' /\ AllHeads' = AllHeads /\ gl'.at \in PreloadHeads
  <1> DEFINE m == preloads[Entry(n)].module
  <1>1. m \in Vec /\ m \in PreloadHeads
    <2>1. preloads \in Seq(PreloadRec) /\ IsPreloaded(n)
      BY DEF Shape, Typed, PreloadedCommand
    <2>2. Entry(n) \in 1 .. Len(preloads)
      BY <2>1, EntryFound
    <2>3. preloads[Entry(n)] \in PreloadRec
      BY <2>1, <2>2
    <2> QED
      BY <2>2, <2>3 DEF PreloadHeads, PreloadRec
  <1>2. /\ cli' \in CliRec /\ cli'.pc = "setting" /\ cli'.found /\ cli'.module = m
        /\ cli'.co = Null
    BY <1>1 DEF PreloadedCommand, Prompt, CliRec
  <1>3. /\ cli.pc = "prompt" /\ UNCHANGED <<disc, ld, frames, preloads, failed>>
        /\ stale' \subseteq stale /\ glob' = [glob EXCEPT ![Start] = Unset]
        /\ gl' = [on |-> IF m = Null THEN "done" ELSE "setting", seg |-> m, at |-> m]
    BY DEF PreloadedCommand, SetStart, Globin
  <1> HIDE DEF m
  <1>4. gl' \in GlRec /\ gl'.on = "setting" /\ gl'.at = m
    BY <1>1, <1>3, NullIsNoPlace DEF GlRec
  <1>5. Typed'
    BY <1>2, <1>3, <1>4 DEF Shape, Typed, Code
  <1>6. Control'
    BY <1>1, <1>2, <1>3, <1>4 DEF Shape, Control, Top
  <1>7. /\ PreloadHeads' = PreloadHeads /\ FrameHeads' = FrameHeads
        /\ CliHeads' = {} /\ LoadHeads' = LoadHeads
    BY <1>2, <1>3 DEF PreloadHeads, FrameHeads, CliHeads, LoadHeads
  <1>8. HeadsApart'
    BY <1>3, <1>7 DEF Shape, HeadsApart
  <1> QED
    BY IdleHeads, <1>3, <1>1, <1>4, <1>5, <1>6, <1>7, <1>8 DEF Shape, AllHeads

LEMMA CallsegShape ==
  ASSUME Shape, NEW n \in Name, Callseg(n)
  PROVE  Shape' /\ AllHeads' = AllHeads
  <1> DEFINE e == [Frame(Unset, Unset, Null) EXCEPT !.on = "loading"]
  <1>1. /\ ld' \in LdRec /\ ld'.on \in {"reading", "done"} /\ ld.on = "off" /\ ld'.list = Null
        /\ ld'.on = "reading" => ld'.name \in Name
    BY LoadsegStarts DEF Shape, Typed, Callseg
  <1>2. e \in FrameRec /\ e.on = "loading" /\ e.module = Null
    BY DEF Frame, FrameRec, Code
  <1>3. /\ cli.pc = "running" /\ Top.on = "running" /\ Len(frames) <= MaxCalls
        /\ frames' = Append(frames, e)
        /\ UNCHANGED <<disc, gl, glob, stale, cli, preloads, failed>>
    BY DEF Callseg, Running
  <1> HIDE DEF e
  <1>4. frames \in Seq(FrameRec) /\ frames # <<>> /\ Len(frames) \in Nat \ {0} /\ MaxCalls \in Nat
    BY <1>3, FramesSize, CliAssumption DEF Shape, Typed, Control
  <1>5. /\ frames' \in Seq(FrameRec) /\ Len(frames') = Len(frames) + 1 /\ frames' # <<>>
        /\ frames'[Len(frames) + 1] = e
        /\ \A i \in 1 .. Len(frames) : frames'[i] = frames[i]
    BY <1>2, <1>3, <1>4, FramesGrown
  <1>6. Typed'
    BY <1>1, <1>3, <1>4, <1>5 DEF Shape, Typed
  <1>7. Control'
    BY <1>1, <1>2, <1>3, <1>4, <1>5 DEF Shape, Control, Top
  <1>8. /\ PreloadHeads' = PreloadHeads /\ FrameHeads' = FrameHeads
        /\ CliHeads' = CliHeads /\ LoadHeads' = {}
    BY <1>1, <1>2, <1>3, <1>4, <1>5 DEF PreloadHeads, FrameHeads, CliHeads, LoadHeads
  <1>9. HeadsApart'
    BY <1>2, <1>3, <1>4, <1>5, <1>8 DEF Shape, HeadsApart
  <1> QED
    BY IdleHeads, <1>1, <1>6, <1>7, <1>8, <1>9 DEF Shape, AllHeads

LEMMA PreloadShape ==
  ASSUME Shape, NEW n \in Name, Preload(n)
  PROVE  Shape' /\ AllHeads' = AllHeads
  <1> DEFINE e == [Top EXCEPT !.on = "preloading"]
  <1>1. /\ ld' \in LdRec /\ ld'.on \in {"reading", "done"} /\ ld.on = "off" /\ ld'.list = Null
        /\ ld'.on = "reading" => ld'.name \in Name
    BY LoadsegStarts DEF Shape, Typed, Preload
  <1>2. /\ cli.pc = "running" /\ Top.on = "running" /\ frames' = Append(Callers, e)
        /\ cli' = [cli EXCEPT !.preload = n]
        /\ UNCHANGED <<disc, gl, glob, stale, preloads, failed>>
    BY DEF Preload, Running
  <1>3. frames \in Seq(FrameRec) /\ frames # <<>> /\ Len(frames) \in Nat \ {0} /\ Top \in FrameRec
    BY <1>2, FramesSize DEF Shape, Typed, Control
  <1>4. e \in FrameRec /\ e.on = "preloading" /\ e.module = Top.module
    BY <1>3 DEF FrameRec
  <1>5. /\ cli' \in CliRec /\ cli'.pc = "running" /\ cli'.found = cli.found
        /\ cli'.module = cli.module
    BY <1>2 DEF CliRec, Shape, Typed
  <1> HIDE DEF e
  <1>6. /\ frames' \in Seq(FrameRec) /\ Len(frames') = Len(frames) /\ frames' # <<>>
        /\ \A i \in 1 .. Len(frames) : frames'[i] = IF i = Len(frames) THEN e ELSE frames[i]
    BY <1>2, <1>3, <1>4, FramesLast
  <1>7. \A i \in 1 .. Len(frames) : frames'[i].module = frames[i].module
    BY <1>4, <1>6 DEF Top
  <1>8. Typed'
    BY <1>1, <1>2, <1>5, <1>6 DEF Shape, Typed
  <1>9. Control'
    BY <1>1, <1>2, <1>3, <1>4, <1>5, <1>6 DEF Shape, Control, Top
  <1>10. /\ PreloadHeads' = PreloadHeads /\ FrameHeads' = FrameHeads
         /\ CliHeads' = CliHeads /\ LoadHeads' = {}
    BY <1>1, <1>2, <1>5, <1>6, <1>7 DEF PreloadHeads, FrameHeads, CliHeads, LoadHeads
  <1>11. HeadsApart'
    BY <1>2, <1>6, <1>7, <1>10 DEF Shape, HeadsApart
  <1> QED
    BY IdleHeads, <1>1, <1>8, <1>9, <1>10, <1>11 DEF Shape, AllHeads

(* A step of the loader.                                                   *)
LEMMA LoadingShape ==
  ASSUME Shape, ld.on = "reading",
         UNCHANGED <<disc, gl, glob, stale, cli, frames, preloads, failed>>,
         ld' \in LdRec, ld'.on \in {"reading", "done"}, ld'.on = "reading" => ld'.name \in Name,
         ld'.list \in {Null, ld.list} \/ ld'.list \notin AllHeads
  PROVE  /\ Shape' /\ AllHeads' = (AllHeads \ LoadHeads) \cup ({ld'.list} \ {Null})
         /\ gl'.on = "off" /\ Items' = Items /\ cli'.co = cli.co
  <1>1. Typed'
    BY DEF Shape, Typed
  <1>2. Control' /\ gl'.on = "off"
    BY DEF Shape, Control, Top
  <1>3. /\ PreloadHeads' = PreloadHeads /\ FrameHeads' = FrameHeads
        /\ CliHeads' = CliHeads /\ LoadHeads' = {ld'.list} \ {Null}
    BY DEF PreloadHeads, FrameHeads, CliHeads, LoadHeads
  <1>4. HeadsApart'
    BY <1>3 DEF Shape, HeadsApart, AllHeads, LoadHeads
  <1>5. AllHeads' = (AllHeads \ LoadHeads) \cup ({ld'.list} \ {Null})
    BY <1>3 DEF Shape, HeadsApart, AllHeads
  <1> QED
    BY <1>1, <1>2, <1>4, <1>5 DEF Shape, Items

(* A step of globin.                                                       *)
LEMMA GlobinShape ==
  ASSUME Shape, SettingGlobals, UNCHANGED <<cli, frames, preloads, failed>>,
         gl.on = "setting" => gl.at \in Vec /\ mem[gl.at].next \in Vec \cup {Null}
  PROVE  Shape' /\ AllHeads' = AllHeads
  <1>1. gl.on = "setting" /\ UNCHANGED <<disc, ld>>
    BY DEF SettingGlobals, GlobinHunk, GlobinFails
  <1>2. /\ gl' \in GlRec /\ gl'.on \in {"setting", "done"}
        /\ glob' \in [Global -> Code] /\ stale' \subseteq Global
    <2>1. gl \in GlRec /\ glob \in [Global -> Code] /\ stale \subseteq Global
      BY DEF Shape, Typed
    <2>2. CASE GlobinHunk
      <3>1. gl' \in GlRec /\ gl'.on \in {"setting", "done"}
        BY <1>1, <2>1, <2>2 DEF GlobinHunk, GlRec
      <3>2. gl.at \in Code
        BY <1>1, <2>1 DEF GlRec, Code
      <3>3. glob' \in [Global -> Code] /\ stale' \subseteq Global
        BY <2>1, <2>2, <3>2 DEF GlobinHunk
      <3> QED
        BY <3>1, <3>3
    <2>3. CASE GlobinFails
      BY <1>1, <2>1, <2>3 DEF GlobinFails, GlRec
    <2> QED
      BY <2>2, <2>3 DEF SettingGlobals
  <1>4. Typed'
    BY <1>1, <1>2 DEF Shape, Typed
  <1>5. Control'
    BY <1>1, <1>2 DEF Shape, Control, Top
  <1>6. /\ PreloadHeads' = PreloadHeads /\ FrameHeads' = FrameHeads
        /\ CliHeads' = CliHeads /\ LoadHeads' = LoadHeads
    BY <1>1 DEF PreloadHeads, FrameHeads, CliHeads, LoadHeads
  <1>7. HeadsApart'
    BY <1>6 DEF Shape, HeadsApart
  <1> QED
    BY <1>4, <1>5, <1>6, <1>7 DEF Shape, AllHeads

LEMMA GlobinTyped ==
  ASSUME NEW a \in Vec \cup {Null}, Globin(a)
  PROVE  /\ gl' \in GlRec /\ gl'.on \in {"setting", "done"}
         /\ gl'.on = "setting" => a # Null /\ gl'.at = a
  BY DEF Globin, GlRec

LEMMA CommandLoadedShape ==
  ASSUME Shape, CommandLoaded
  PROVE  /\ Shape' /\ AllHeads' = AllHeads /\ ld'.on = "off"
         /\ gl'.on = "setting" => gl'.at \in LoadHeads
  <1>1. /\ cli.pc = "loading" /\ ld' = Resting /\ stale' \subseteq stale
        /\ cli' = [cli EXCEPT !.pc = "setting", !.module = ld.list]
        /\ glob' = [glob EXCEPT ![Start] = Unset] /\ Globin(ld.list)
        /\ UNCHANGED <<disc, frames, preloads, failed>>
    BY DEF CommandLoaded, SetStart
  <1>2. ld.list \in Vec \cup {Null}
    BY DEF Shape, Typed, LdRec
  <1>3. /\ cli' \in CliRec /\ cli'.pc = "setting" /\ ~cli'.found /\ cli'.module = ld.list
        /\ cli'.co = Null
    BY <1>1, <1>2 DEF Shape, Typed, Control, CliRec
  <1>4. /\ gl' \in GlRec /\ gl'.on \in {"setting", "done"}
        /\ gl'.on = "setting" => ld.list # Null /\ gl'.at = ld.list
    BY <1>1, <1>2, GlobinTyped
  <1>5. ld' \in LdRec /\ ld'.on = "off" /\ ld'.list = Null
    BY <1>1, RestingTyped
  <1>6. Typed'
    BY <1>1, <1>3, <1>4, <1>5 DEF Shape, Typed, Code
  <1>7. Control'
    BY <1>1, <1>3, <1>4, <1>5 DEF Shape, Control, Top
  <1>8. /\ PreloadHeads' = PreloadHeads /\ FrameHeads' = FrameHeads
        /\ CliHeads' = LoadHeads /\ LoadHeads' = {}
    BY <1>1, <1>3, <1>5 DEF PreloadHeads, FrameHeads, CliHeads, LoadHeads
  <1>9. HeadsApart'
    BY <1>1, <1>8 DEF Shape, HeadsApart
  <1> QED
    BY IdleHeads, <1>1, <1>4, <1>5, <1>6, <1>7, <1>8, <1>9 DEF Shape, AllHeads, LoadHeads

LEMMA PromptTyped ==
  /\ Prompt \in CliRec /\ Prompt.pc = "prompt" /\ ~Prompt.found /\ Prompt.module = Null
  /\ Prompt.co = Null /\ NoGlobin \in GlRec /\ NoGlobin.on = "off"
  BY DEF Prompt, CliRec, NoGlobin, GlRec

LEMMA CommandFailsShape ==
  ASSUME Shape, CommandFails
  PROVE  Shape' /\ AllHeads' = AllHeads \ CliHeads /\ ld.on = "off" /\ gl'.on = "off"
  <1>1. /\ cli.pc = "setting" /\ cli' = Prompt /\ gl' = NoGlobin
        /\ stale' \subseteq stale \cup Global
        /\ failed' = (failed \/ cli.module # Null)
        /\ UNCHANGED <<disc, ld, glob, frames, preloads>>
    BY DEF CommandFails, Refer
  <1>2. failed' \in BOOLEAN
    BY <1>1, Zenon DEF Shape, Typed
  <1>3. Typed'
    BY <1>1, <1>2, PromptTyped DEF Shape, Typed
  <1>4. ld.on = "off"
    BY <1>1 DEF Shape, Control
  <1>5. Control'
    BY <1>1, PromptTyped DEF Shape, Control, Top
  <1>6. /\ PreloadHeads' = PreloadHeads /\ FrameHeads' = FrameHeads
        /\ CliHeads' = {} /\ LoadHeads' = LoadHeads
    BY <1>1, PromptTyped DEF PreloadHeads, FrameHeads, CliHeads, LoadHeads
  <1>7. HeadsApart'
    BY <1>1, <1>6 DEF Shape, HeadsApart
  <1>8. AllHeads' = AllHeads \ CliHeads
    BY <1>6 DEF Shape, HeadsApart, AllHeads
  <1> QED
    BY <1>1, <1>3, <1>4, <1>5, <1>7, <1>8, PromptTyped DEF Shape

LEMMA CommandStartsShape ==
  ASSUME Shape, CommandStarts
  PROVE  /\ Shape' /\ AllHeads' = AllHeads /\ ld'.on = "off" /\ gl'.on = "off"
         /\ cli'.co = Place
  <1> DEFINE e == Frame(glob[Start], Unset, Null)
  <1>1. /\ cli.pc = "setting" /\ gl.on = "done" /\ Places # {} /\ gl' = NoGlobin
        /\ cli' = [cli EXCEPT !.pc = "running", !.co = Place] /\ frames' = <<e>>
        /\ UNCHANGED <<disc, ld, glob, stale, preloads, failed>>
    BY DEF CommandStarts
  <1>2. /\ cli' \in CliRec /\ cli'.pc = "running" /\ cli'.co = Place
        /\ cli'.found = cli.found /\ cli'.module = cli.module
    BY <1>1, PlaceIsFree DEF CliRec, Shape, Typed
  <1>3. e \in FrameRec /\ e.on = "running" /\ e.module = Null
    BY DEF Shape, Typed, Frame, FrameRec, Code, Global
  <1> HIDE DEF e
  <1>4. frames' \in Seq(FrameRec) /\ Len(frames') = 1 /\ frames'[1] = e /\ frames' # <<>>
    BY <1>1, <1>3, FramesOne
  <1>5. Len(frames') <= MaxCalls + 1
    BY <1>4, CliAssumption DEF CliAssumption
  <1>6. Typed'
    BY <1>1, <1>2, <1>4, <1>5, PromptTyped DEF Shape, Typed
  <1>7. frames = <<>> /\ Len(frames) = 0 /\ ld.on = "off"
    BY <1>1, FramesNone DEF Shape, Control
  <1>8. Control'
    BY <1>1, <1>2, <1>3, <1>4, <1>7, PromptTyped DEF Shape, Control, Top
  <1>9. /\ PreloadHeads' = PreloadHeads /\ FrameHeads' = {}
        /\ CliHeads' = CliHeads /\ LoadHeads' = LoadHeads
    BY <1>1, <1>2, <1>3, <1>4 DEF PreloadHeads, FrameHeads, CliHeads, LoadHeads
  <1>10. HeadsApart'
    BY <1>1, <1>4, <1>9 DEF Shape, HeadsApart
  <1> QED
    BY IdleHeads, <1>1, <1>2, <1>6, <1>7, <1>8, <1>9, <1>10, PromptTyped DEF Shape, AllHeads

LEMMA CommandEndsShape ==
  ASSUME Shape, Executing, CommandEnds
  PROVE  /\ Shape' /\ AllHeads' = AllHeads \ (CliHeads \cup FrameHeads)
         /\ ld'.on = "off" /\ gl'.on = "off" /\ frames # <<>>
  <1>1. /\ cli.pc \in {"running", "adrift"} /\ Top.on = "running"
        /\ cli' = Prompt /\ frames' = <<>> /\ glob' = Restored /\ stale' \subseteq Global
        /\ failed' = (glob[GlobinG] # InLibrary)
        /\ UNCHANGED <<disc, ld, gl, preloads>>
    BY DEF Executing, CommandEnds
  <1>2. glob' \in [Global -> Code]
    BY <1>1 DEF Restored, Shape, Typed, Code
  <1>3. failed' \in BOOLEAN
    BY <1>1, Zenon
  <1>4. frames' \in Seq(FrameRec) /\ Len(frames') = 0
    BY <1>1, FramesNone
  <1>5. Len(frames') <= MaxCalls + 1
    BY <1>4, CliAssumption DEF CliAssumption
  <1>6. Typed'
    BY <1>1, <1>2, <1>3, <1>4, <1>5, PromptTyped DEF Shape, Typed
  <1>7. frames # <<>> /\ ld.on = "off" /\ gl.on = "off"
    BY <1>1 DEF Shape, Control
  <1>8. Control'
    BY <1>1, <1>4, <1>7, PromptTyped DEF Shape, Control, Top
  <1>9. /\ PreloadHeads' = PreloadHeads /\ FrameHeads' = {}
        /\ CliHeads' = {} /\ LoadHeads' = LoadHeads
    BY <1>1, <1>4, PromptTyped DEF PreloadHeads, FrameHeads, CliHeads, LoadHeads
  <1>10. HeadsApart'
    BY <1>1, <1>4, <1>9 DEF Shape, HeadsApart
  <1>11. AllHeads' = AllHeads \ (CliHeads \cup FrameHeads)
    BY <1>9 DEF Shape, HeadsApart, AllHeads
  <1> QED
    BY <1>1, <1>6, <1>7, <1>8, <1>10, <1>11 DEF Shape

LEMMA CallsegLoadedShape ==
  ASSUME Shape, CallsegLoaded
  PROVE  /\ Shape' /\ AllHeads' = AllHeads /\ ld'.on = "off"
         /\ gl'.on = "setting" => gl'.at \in LoadHeads
  <1> DEFINE e == [Top EXCEPT !.on = "setting", !.module = ld.list, !.saved = glob[Start]]
             k == Len(frames)
  <1>1. /\ cli.pc = "running" /\ Top.on = "loading" /\ frames' = Append(Callers, e)
        /\ ld' = Resting /\ Globin(ld.list)
        /\ UNCHANGED <<disc, glob, stale, cli, preloads, failed>>
    BY DEF CallsegLoaded
  <1>2. ld.list \in Vec \cup {Null} /\ glob[Start] \in Code
    BY DEF Shape, Typed, LdRec, Global
  <1>3. /\ frames \in Seq(FrameRec) /\ frames # <<>> /\ k \in Nat \ {0} /\ Top \in FrameRec
        /\ k \in 1 .. Len(frames) /\ Top = frames[k]
    BY <1>1, FramesSize DEF Shape, Typed, Control, Top
  <1>4. e \in FrameRec /\ e.on = "setting" /\ e.module = ld.list
    BY <1>2, <1>3 DEF FrameRec
  <1>5. /\ gl' \in GlRec /\ gl'.on \in {"setting", "done"}
        /\ gl'.on = "setting" => ld.list # Null /\ gl'.at = ld.list
    BY <1>1, <1>2, GlobinTyped
  <1>6. ld' \in LdRec /\ ld'.on = "off" /\ ld'.list = Null
    BY <1>1, RestingTyped
  <1> HIDE DEF e
  <1>7. /\ frames' \in Seq(FrameRec) /\ Len(frames') = Len(frames) /\ frames' # <<>>
        /\ \A i \in 1 .. Len(frames) : frames'[i] = IF i = Len(frames) THEN e ELSE frames[i]
    BY <1>1, <1>3, <1>4, FramesLast
  <1>8. frames[k].module = Null /\ k > 1
    BY <1>1, <1>3 DEF Shape, Control
  <1>9. Typed'
    BY <1>1, <1>5, <1>6, <1>7 DEF Shape, Typed
  <1>10. Control'
    BY <1>1, <1>3, <1>4, <1>5, <1>6, <1>7, <1>8 DEF Shape, Control, Top
  <1>11. /\ PreloadHeads' = PreloadHeads /\ FrameHeads' = FrameHeads \cup LoadHeads
         /\ CliHeads' = CliHeads /\ LoadHeads' = {}
    <2>1. FrameHeads' = FrameHeads \cup LoadHeads
      BY <1>3, <1>4, <1>7, <1>8 DEF FrameHeads, LoadHeads
    <2> QED
      BY <1>1, <1>6, <2>1 DEF PreloadHeads, CliHeads, LoadHeads
  <1>12. HeadsApart'
    <2>1. \A i \in 1 .. k : frames[i].module = ld.list => ld.list = Null
      BY <1>3 DEF Shape, HeadsApart, FrameHeads, LoadHeads
    <2>2. \A i, j \in 1 .. Len(frames') :
            frames'[i].module = frames'[j].module => i = j \/ frames'[i].module = Null
      BY <1>3, <1>4, <1>7, <1>8, <2>1 DEF Shape, HeadsApart
    <2> QED
      BY <1>1, <1>11, <2>2 DEF Shape, HeadsApart
  <1> QED
    BY <1>5, <1>6, <1>9, <1>10, <1>11, <1>12 DEF Shape, AllHeads, LoadHeads

LEMMA CallsegCallsShape ==
  ASSUME Shape, CallsegCalls
  PROVE  Shape' /\ AllHeads' = AllHeads /\ ld'.on = "off" /\ gl'.on = "off"
  <1> DEFINE e == [Top EXCEPT !.on = "running", !.code = glob[Start]]
             k == Len(frames)
  <1>1. /\ cli.pc = "running" /\ Top.on = "setting" /\ frames' = Append(Callers, e)
        /\ gl' = NoGlobin
        /\ UNCHANGED <<disc, ld, glob, stale, cli, preloads, failed>>
    BY DEF CallsegCalls
  <1>2. /\ frames \in Seq(FrameRec) /\ frames # <<>> /\ k \in Nat \ {0} /\ Top \in FrameRec
        /\ k \in 1 .. Len(frames) /\ Top = frames[k] /\ ld.on = "off"
    BY <1>1, FramesSize DEF Shape, Typed, Control, Top
  <1>3. e \in FrameRec /\ e.on = "running" /\ e.module = Top.module
    BY <1>2 DEF FrameRec, Shape, Typed, Global
  <1> HIDE DEF e
  <1>4. /\ frames' \in Seq(FrameRec) /\ Len(frames') = Len(frames) /\ frames' # <<>>
        /\ \A i \in 1 .. Len(frames) : frames'[i] = IF i = Len(frames) THEN e ELSE frames[i]
    BY <1>1, <1>2, <1>3, FramesLast
  <1>5. \A i \in 1 .. Len(frames) : frames'[i].module = frames[i].module
    BY <1>2, <1>3, <1>4
  <1>6. Typed'
    BY <1>1, <1>4, PromptTyped DEF Shape, Typed
  <1>7. Control'
    BY <1>1, <1>2, <1>3, <1>4, PromptTyped DEF Shape, Control, Top
  <1>8. /\ PreloadHeads' = PreloadHeads /\ FrameHeads' = FrameHeads
        /\ CliHeads' = CliHeads /\ LoadHeads' = LoadHeads
    BY <1>1, <1>4, <1>5 DEF PreloadHeads, FrameHeads, CliHeads, LoadHeads
  <1>9. HeadsApart'
    BY <1>1, <1>4, <1>5, <1>8 DEF Shape, HeadsApart
  <1> QED
    BY <1>1, <1>2, <1>6, <1>7, <1>8, <1>9, PromptTyped DEF Shape, AllHeads

(* callseg comes back to its caller.                                       *)
LEMMA ReturnShape ==
  ASSUME Shape, cli.pc = "running", Len(frames) > 1, frames' = Callers,
         ld.on = "off", gl'.on = "off", gl' \in GlRec,
         glob' = [glob EXCEPT ![Start] = Top.saved], stale' \subseteq Global,
         UNCHANGED <<disc, ld, cli, preloads, failed>>
  PROVE  Shape' /\ AllHeads' = AllHeads \ ({Top.module} \ {Null})
  <1> DEFINE k == Len(frames)
  <1>1. frames \in Seq(FrameRec) /\ frames # <<>> /\ k \in Nat \ {0} /\ Top \in FrameRec
        /\ k \in 1 .. Len(frames) /\ Top = frames[k]
    BY FramesSize DEF Shape, Typed, Control, Top
  <1>2. /\ frames' \in Seq(FrameRec) /\ Len(frames') = k - 1
        /\ \A i \in 1 .. k - 1 : frames'[i] = frames[i]
    BY <1>1, FramesDropped
  <1>3. frames' # <<>> /\ Len(frames') \in Nat
    BY <1>1, <1>2, EmptySeq
  <1>4. Typed'
    <2>1. Top.saved \in Code /\ glob' \in [Global -> Code]
      BY <1>1 DEF FrameRec, Shape, Typed
    <2>2. Len(frames') <= MaxCalls + 1
      BY <1>1, <1>2, CliAssumption DEF CliAssumption, Shape, Typed
    <2> QED
      BY <1>2, <2>1, <2>2 DEF Shape, Typed
  <1>5. Control'
    BY <1>1, <1>2, <1>3 DEF Shape, Control, Top
  <1>6. /\ PreloadHeads' = PreloadHeads /\ FrameHeads' = FrameHeads \ {Top.module}
        /\ CliHeads' = CliHeads /\ LoadHeads' = LoadHeads
    <2>1. FrameHeads' = FrameHeads \ {Top.module}
      <3>1. \A i \in 1 .. k - 1 : i \in 1 .. k /\ i # k
        BY <1>1
      <3>2. \A i \in 1 .. k : i = k \/ i \in 1 .. k - 1
        BY <1>1
      <3>3. FrameHeads' = {frames[i].module : i \in 1 .. k - 1} \ {Null}
        BY <1>2 DEF FrameHeads
      <3>4. \A i \in 1 .. k - 1 : frames[i].module = Top.module => Top.module = Null
        BY <1>1, <3>1 DEF Shape, HeadsApart
      <3> QED
        BY <1>1, <3>1, <3>2, <3>3, <3>4 DEF FrameHeads
    <2> QED
      BY <2>1 DEF PreloadHeads, CliHeads, LoadHeads
  <1>7. HeadsApart'
    BY <1>1, <1>2, <1>6 DEF Shape, HeadsApart
  <1>8. AllHeads' = AllHeads \ ({Top.module} \ {Null})
    <2>1. Top.module # Null => Top.module \in FrameHeads
      BY <1>1 DEF FrameHeads
    <2>2. /\ Null \notin FrameHeads
          /\ Top.module # Null => Top.module \notin PreloadHeads \cup CliHeads \cup LoadHeads
      BY <2>1 DEF FrameHeads, Shape, HeadsApart
    <2> QED
      BY <1>6, <2>1, <2>2 DEF AllHeads, Shape, HeadsApart
  <1> QED
    BY <1>4, <1>5, <1>7, <1>8 DEF Shape

(* preload goes on when its segment has been loaded.                       *)
LEMMA PreloadDoneFrames ==
  ASSUME Shape, PreloadDone
  PROVE  /\ frames' \in Seq(FrameRec) /\ Len(frames') = Len(frames) /\ frames' # <<>>
         /\ Len(frames) \in Nat \ {0}
         /\ \A i \in 1 .. Len(frames) :
              /\ frames'[i].module = frames[i].module /\ frames'[i].code = frames[i].code
              /\ frames'[i].saved = frames[i].saved
              /\ frames'[i].on = IF i = Len(frames) THEN "running" ELSE frames[i].on
         /\ ld' = Resting /\ ld' \in LdRec /\ ld'.on = "off" /\ ld'.list = Null
         /\ cli.pc = "running" /\ Top.on = "preloading" /\ gl.on = "off"
         /\ UNCHANGED <<disc, gl, glob, failed>>
  <1> DEFINE e == [Top EXCEPT !.on = "running"]
  <1>1. /\ cli.pc = "running" /\ Top.on = "preloading" /\ frames' = Append(Callers, e)
        /\ ld' = Resting /\ UNCHANGED <<disc, gl, glob, failed>>
    BY DEF PreloadDone
  <1>2. /\ frames \in Seq(FrameRec) /\ frames # <<>> /\ Len(frames) \in Nat \ {0} /\ Top \in FrameRec
        /\ Top = frames[Len(frames)] /\ gl.on = "off"
    BY <1>1, FramesSize DEF Shape, Typed, Control, Top
  <1>3. /\ e \in FrameRec /\ e.on = "running" /\ e.module = Top.module
        /\ e.code = Top.code /\ e.saved = Top.saved
    BY <1>2 DEF FrameRec
  <1> HIDE DEF e
  <1>4. /\ frames' \in Seq(FrameRec) /\ Len(frames') = Len(frames) /\ frames' # <<>>
        /\ \A i \in 1 .. Len(frames) : frames'[i] = IF i = Len(frames) THEN e ELSE frames[i]
    BY <1>1, <1>2, <1>3, FramesLast
  <1> QED
    BY <1>1, <1>2, <1>3, <1>4, RestingTyped

LEMMA PreloadDoneControl ==
  ASSUME Shape, PreloadDone, cli'.pc \in {"running", "adrift"},
         cli'.found = cli.found, cli'.module = cli.module, cli'.co = cli.co
  PROVE  Control'
  BY PreloadDoneFrames DEF Shape, Control, Top

LEMMA PreloadDropsShape ==
  ASSUME Shape, PreloadFails \/ PreloadNoItem
  PROVE  Shape' /\ AllHeads' = AllHeads \ LoadHeads
  <1>1. PreloadDone /\ UNCHANGED <<stale, cli, preloads>>
    BY DEF PreloadFails, PreloadNoItem
  <1>2. Typed'
    BY <1>1, PreloadDoneFrames DEF Shape, Typed
  <1>3. Control'
    BY <1>1, PreloadDoneControl, PreloadDoneFrames
  <1>4. /\ PreloadHeads' = PreloadHeads /\ FrameHeads' = FrameHeads
        /\ CliHeads' = CliHeads /\ LoadHeads' = {}
    BY <1>1, PreloadDoneFrames DEF PreloadHeads, FrameHeads, CliHeads, LoadHeads
  <1>5. HeadsApart'
    BY <1>1, <1>4, PreloadDoneFrames DEF Shape, HeadsApart
  <1>6. AllHeads' = AllHeads \ LoadHeads
    BY <1>4 DEF Shape, HeadsApart, AllHeads
  <1> QED
    BY <1>2, <1>3, <1>5, <1>6 DEF Shape

LEMMA AdriftTyped ==
  ASSUME cli \in CliRec, cli.pc = "running", NEW V, cli' = Adrift(V)
  PROVE  /\ cli' \in CliRec /\ cli'.pc \in {"running", "adrift"}
         /\ cli'.pc = "adrift" <=> \E i \in 1 .. Len(frames) : frames[i].code \in V
         /\ cli'.found = cli.found /\ cli'.module = cli.module /\ cli'.co = cli.co
         /\ cli'.name = cli.name
  BY DEF Adrift, CliRec

LEMMA PreloadReplacesShape ==
  ASSUME Shape, PreloadReplaces
  PROVE  LET k == Entry(cli.preload)
         IN  /\ Shape' /\ k \in 1 .. Len(preloads) /\ preloads[k].module \in PreloadHeads
             /\ preloads' = [preloads EXCEPT ![k].module = ld.list]
             /\ Len(preloads') = Len(preloads)
             /\ \A i \in 1 .. Len(preloads) :
                  /\ preloads'[i].item = preloads[i].item /\ preloads'[i].name = preloads[i].name
                  /\ preloads'[i].module = IF i = k THEN ld.list ELSE preloads[i].module
             /\ AllHeads' = AllHeads \ {preloads[k].module}
             /\ ld'.on = "off" /\ gl'.on = "off"
  <1> DEFINE k == Entry(cli.preload)
             V == Chain(preloads[k].module)
  <1>1. /\ PreloadDone /\ ld.list # Null /\ IsPreloaded(cli.preload) /\ cli' = Adrift(V)
        /\ stale' = stale \cup Refer(V) /\ preloads' = [preloads EXCEPT ![k].module = ld.list]
    BY DEF PreloadReplaces
  <1>2. /\ preloads \in Seq(PreloadRec) /\ cli \in CliRec /\ ld.list \in Vec
        /\ cli.pc = "running" /\ ld.list \in LoadHeads
    BY <1>1, PreloadDoneFrames DEF Shape, Typed, LdRec, LoadHeads
  <1>3. k \in 1 .. Len(preloads)
    BY <1>1, <1>2, EntryFound
  <1>4. /\ cli' \in CliRec /\ cli'.pc \in {"running", "adrift"} /\ cli'.found = cli.found
        /\ cli'.module = cli.module /\ cli'.co = cli.co
    BY <1>1, <1>2, AdriftTyped
  <1> HIDE DEF k, V
  <1>5. preloads[k] \in PreloadRec /\ [preloads[k] EXCEPT !.module = ld.list] \in PreloadRec
    <2>1. preloads[k] \in PreloadRec
      BY <1>2, <1>3, ElementOfSeq
    <2> QED
      BY <1>2, <2>1 DEF PreloadRec
  <1>6. /\ preloads' \in Seq(PreloadRec) /\ Len(preloads') = Len(preloads)
        /\ \A i \in 1 .. Len(preloads) :
             preloads'[i] = IF i = k THEN [preloads[k] EXCEPT !.module = ld.list] ELSE preloads[i]
    BY <1>1, <1>2, <1>3, <1>5, ExceptSeq
  <1>7. \A i \in 1 .. Len(preloads) :
          /\ preloads'[i].item = preloads[i].item /\ preloads'[i].name = preloads[i].name
          /\ preloads'[i].module = IF i = k THEN ld.list ELSE preloads[i].module
    BY <1>3, <1>5, <1>6 DEF PreloadRec
  <1>8. stale' \subseteq Global
    BY <1>1 DEF Refer, Shape, Typed
  <1>9. Typed'
    BY <1>1, <1>4, <1>6, <1>8, PreloadDoneFrames DEF Shape, Typed
  <1>10. Control'
    BY <1>1, <1>4, PreloadDoneControl
  <1>11. preloads[k].module \in PreloadHeads
    BY <1>3 DEF PreloadHeads
  <1>12. PreloadHeads' = (PreloadHeads \ {preloads[k].module}) \cup {ld.list}
    BY <1>3, <1>6, <1>7 DEF PreloadHeads, Shape, HeadsApart
  <1>13. FrameHeads' = FrameHeads /\ CliHeads' = CliHeads /\ LoadHeads' = {}
    BY <1>1, <1>4, PreloadDoneFrames DEF FrameHeads, CliHeads, LoadHeads
  <1>14. HeadsApart'
    <2>1. \A i \in 1 .. Len(preloads) : preloads[i].module # ld.list
      BY <1>2 DEF Shape, HeadsApart, PreloadHeads
    <2>2. \A i, j \in 1 .. Len(preloads') : preloads'[i].module = preloads'[j].module => i = j
      BY <1>6, <1>7, <2>1 DEF Shape, HeadsApart
    <2>3. \A i, j \in 1 .. Len(frames') :
            frames'[i].module = frames'[j].module => i = j \/ frames'[i].module = Null
      BY <1>1, PreloadDoneFrames DEF Shape, HeadsApart
    <2> QED
      BY <1>2, <1>12, <1>13, <2>2, <2>3 DEF Shape, HeadsApart
  <1>15. AllHeads' = AllHeads \ {preloads[k].module}
    BY <1>2, <1>11, <1>12, <1>13 DEF AllHeads, LoadHeads, Shape, HeadsApart
  <1>16. ld'.on = "off" /\ gl'.on = "off"
    BY <1>1, PreloadDoneFrames
  <1> QED
    BY <1>1, <1>3, <1>6, <1>7, <1>9, <1>10, <1>11, <1>14, <1>15, <1>16 DEF Shape, k

LEMMA PreloadNewShape ==
  ASSUME Shape, PreloadNew, LoadHeads \subseteq Vec
  PROVE  LET e == [name |-> cli.preload, module |-> ld.list, item |-> Place]
         IN  /\ Shape' /\ AllHeads' = AllHeads /\ e \in PreloadRec
             /\ Len(preloads') = Len(preloads) + 1 /\ Len(preloads) \in Nat /\ preloads'[1] = e
             /\ \A i \in 2 .. Len(preloads) + 1 :
                  preloads'[i] = preloads[i-1] /\ i-1 \in 1 .. Len(preloads)
             /\ ld'.on = "off" /\ gl'.on = "off"
  <1> DEFINE e == [name |-> cli.preload, module |-> ld.list, item |-> Place]
  <1>1. /\ PreloadDone /\ ld.list # Null /\ Places # {} /\ preloads' = <<e>> \o preloads
        /\ UNCHANGED <<stale, cli>>
    BY DEF PreloadNew
  <1>2. ld.list \in Vec /\ ld.list \in LoadHeads /\ preloads \in Seq(PreloadRec)
    BY <1>1 DEF Shape, Typed, LdRec, LoadHeads
  <1>3. e \in PreloadRec /\ e.module = ld.list
    BY <1>1, <1>2, PlaceIsFree DEF Shape, Typed, CliRec, PreloadRec
  <1> HIDE DEF e
  <1>4. <<e>> \in Seq(PreloadRec) /\ Len(<<e>>) = 1 /\ <<e>>[1] = e
    BY <1>3
  <1>5. /\ preloads' \in Seq(PreloadRec) /\ Len(preloads') = 1 + Len(preloads)
        /\ \A i \in 1 .. 1 + Len(preloads) :
             preloads'[i] = IF i <= 1 THEN <<e>>[i] ELSE preloads[i - 1]
    <2>1. /\ preloads' \in Seq(PreloadRec) /\ Len(preloads') = Len(<<e>>) + Len(preloads)
          /\ \A i \in 1 .. Len(<<e>>) + Len(preloads) :
               preloads'[i] = IF i <= Len(<<e>>) THEN <<e>>[i] ELSE preloads[i - Len(<<e>>)]
      BY <1>1, <1>2, <1>4, ConcatProperties
    <2> QED
      BY <1>4, <2>1
  <1>6. Len(preloads) \in Nat
    BY <1>2
  <1>7. preloads'[1] = e /\ \A i \in 2 .. Len(preloads) + 1 :
           preloads'[i] = preloads[i-1] /\ i-1 \in 1 .. Len(preloads)
    BY <1>4, <1>5, <1>6
  <1>8. Typed'
    BY <1>1, <1>5, PreloadDoneFrames DEF Shape, Typed
  <1>9. Control'
    BY <1>1, PreloadDoneControl, PreloadDoneFrames
  <1>10. PreloadHeads' = PreloadHeads \cup {ld.list}
    <2>1. \A i \in 1 .. Len(preloads) : i + 1 \in 2 .. Len(preloads) + 1 /\ (i+1)-1 = i
      BY <1>6
    <2>2. \A i \in 1 .. Len(preloads') : i = 1 \/ i \in 2 .. Len(preloads) + 1
      BY <1>5, <1>6
    <2>3. \A i \in 2 .. Len(preloads) + 1 : i \in 1 .. Len(preloads')
      BY <1>5, <1>6
    <2>4. 1 \in 1 .. Len(preloads')
      BY <1>5, <1>6
    <2>5. \A i \in 1 .. Len(preloads) : preloads'[i + 1] = preloads[i]
      BY <1>7, <2>1
    <2>6. \A i \in 1 .. Len(preloads') : preloads'[i].module \in PreloadHeads \cup {ld.list}
      BY <1>3, <1>7, <2>2 DEF PreloadHeads
    <2>7. \A i \in 1 .. Len(preloads) : preloads[i].module \in PreloadHeads'
      BY <2>1, <2>3, <2>5 DEF PreloadHeads
    <2>8. ld.list \in PreloadHeads'
      BY <1>3, <1>7, <2>4 DEF PreloadHeads
    <2> QED
      BY <2>6, <2>7, <2>8 DEF PreloadHeads
  <1>11. FrameHeads' = FrameHeads /\ CliHeads' = CliHeads /\ LoadHeads' = {}
    <2>1. /\ Len(frames') = Len(frames) /\ ld'.list = Null
          /\ \A i \in 1 .. Len(frames) : frames'[i].module = frames[i].module
      BY <1>1, PreloadDoneFrames
    <2>2. FrameHeads' = FrameHeads
      BY <2>1 DEF FrameHeads
    <2>3. CliHeads' = CliHeads /\ LoadHeads' = {}
      BY <1>1, <2>1 DEF CliHeads, LoadHeads
    <2> QED
      BY <2>2, <2>3
  <1>12. HeadsApart'
    <2>1. \A i \in 1 .. Len(preloads) : preloads[i].module # ld.list
      BY <1>2 DEF Shape, HeadsApart, PreloadHeads
    <2>2. \A i \in 1 .. Len(preloads') : i = 1 \/ i \in 2 .. Len(preloads) + 1
      BY <1>5, <1>6
    <2>3. \A i, j \in 1 .. Len(preloads') : preloads'[i].module = preloads'[j].module => i = j
      <3>1. \A i \in 2 .. Len(preloads) + 1 :
              preloads'[i].module = preloads[i-1].module /\ preloads'[i].module # ld.list
        BY <1>7, <2>1
      <3>2. \A i, j \in 2 .. Len(preloads) + 1 :
              preloads'[i].module = preloads'[j].module => i - 1 = j - 1
        BY <1>7, <3>1 DEF Shape, HeadsApart
      <3>3. \A i, j \in 2 .. Len(preloads) + 1 : i - 1 = j - 1 => i = j
        BY <1>6
      <3> QED
        BY <1>3, <1>7, <2>2, <3>1, <3>2, <3>3
    <2>4. \A i, j \in 1 .. Len(frames') :
            frames'[i].module = frames'[j].module => i = j \/ frames'[i].module = Null
      <3>1. /\ Len(frames') = Len(frames)
            /\ \A i \in 1 .. Len(frames) : frames'[i].module = frames[i].module
        BY <1>1, PreloadDoneFrames
      <3>2. \A i, j \in 1 .. Len(frames) :
              frames[i].module = frames[j].module => i = j \/ frames[i].module = Null
        BY DEF Shape, HeadsApart
      <3> QED
        BY <3>1, <3>2, Zenon
    <2> QED
      BY <1>2, <1>10, <1>11, <2>3, <2>4 DEF Shape, HeadsApart
  <1>13. AllHeads' = AllHeads
    BY <1>1, <1>2, <1>10, <1>11 DEF AllHeads, LoadHeads
  <1>14. ld'.on = "off" /\ gl'.on = "off"
    BY <1>1, PreloadDoneFrames
  <1> QED
    BY <1>3, <1>5, <1>6, <1>7, <1>8, <1>9, <1>12, <1>13, <1>14 DEF Shape, e

(* Entries are taken from the preload list.                                *)
LEMMA ListShrinks ==
  ASSUME Shape, Running, NEW V, cli' = Adrift(V), stale' = stale \cup Refer(V),
         UNCHANGED <<disc, ld, gl, glob, frames, failed>>,
         preloads' \in Seq(PreloadRec), PreloadHeads' \subseteq PreloadHeads,
         \A i, j \in 1 .. Len(preloads') : preloads'[i].module = preloads'[j].module => i = j
  PROVE  /\ Shape' /\ ld'.on = "off" /\ gl'.on = "off" /\ FrameHeads' = FrameHeads
         /\ CliHeads' = CliHeads /\ LoadHeads' = LoadHeads
         /\ AllHeads' = AllHeads \ (PreloadHeads \ PreloadHeads')
  <1>1. /\ cli.pc = "running" /\ Top.on = "running" /\ cli \in CliRec
    BY DEF Running, Shape, Typed
  <1>2. /\ cli' \in CliRec /\ cli'.pc \in {"running", "adrift"} /\ cli'.found = cli.found
        /\ cli'.module = cli.module /\ cli'.co = cli.co
    BY <1>1, AdriftTyped
  <1>3. Typed'
    BY <1>2 DEF Shape, Typed, Refer
  <1>4. Control'
    BY <1>1, <1>2 DEF Shape, Control, Top
  <1>5. FrameHeads' = FrameHeads /\ CliHeads' = CliHeads /\ LoadHeads' = LoadHeads
    BY <1>2 DEF FrameHeads, CliHeads, LoadHeads
  <1>6. HeadsApart'
    BY <1>5 DEF Shape, HeadsApart
  <1>7. AllHeads' = AllHeads \ (PreloadHeads \ PreloadHeads')
    BY <1>5 DEF AllHeads, Shape, HeadsApart
  <1>8. ld'.on = "off" /\ gl'.on = "off"
    BY <1>1 DEF Shape, Control
  <1> QED
    BY <1>3, <1>4, <1>5, <1>6, <1>7, <1>8 DEF Shape

LEMMA UnpreloadShape ==
  ASSUME Shape, NEW n, Unpreload(n)
  PROVE  LET k == Entry(n)
             m == preloads[k].module
         IN  /\ Shape' /\ ld'.on = "off" /\ gl'.on = "off"
             /\ k \in 1 .. Len(preloads) /\ m \in PreloadHeads /\ preloads[k].name = n
             /\ AllHeads' = AllHeads \ {m}
             /\ Freevecs(Chain(m) \cup {preloads[k].item}) /\ cli' = Adrift(Chain(m))
             /\ stale' = stale \cup Refer(Chain(m))
             /\ Len(preloads) \in Nat /\ Len(preloads') = Len(preloads) - 1
             /\ \A i \in 1 .. Len(preloads') :
                  preloads'[i] = preloads[IF i < k THEN i ELSE i + 1]
             /\ FrameHeads' = FrameHeads /\ CliHeads' = CliHeads /\ LoadHeads' = LoadHeads
  <1> DEFINE k == Entry(n)
             m == preloads[k].module
             V == UNION {Chain(preloads[i].module) : i \in {k}}
  <1>1. /\ IsPreloaded(n) /\ Running /\ Freevecs(V \cup {preloads[i].item : i \in {k}})
        /\ stale' = stale \cup Refer(V) /\ preloads' = Without(k) /\ cli' = Adrift(V)
        /\ UNCHANGED <<disc, ld, gl, glob, frames, failed>>
    BY DEF Unpreload, UnpreloadItems
  <1>2. V = Chain(m) /\ {preloads[i].item : i \in {k}} = {preloads[k].item}
    OBVIOUS
  <1>3. preloads \in Seq(PreloadRec) /\ Len(preloads) \in Nat
    BY DEF Shape, Typed
  <1>4. k \in 1 .. Len(preloads) /\ preloads[k].name = n
    BY <1>1, <1>3, EntryFound
  <1> HIDE DEF k, V
  <1>5. /\ preloads' \in Seq(PreloadRec) /\ Len(preloads') = Len(preloads) - 1
        /\ \A i \in 1 .. Len(preloads) - 1 : preloads'[i] = preloads[IF i < k THEN i ELSE i + 1]
    BY <1>1, <1>3, <1>4, OneTakenOut DEF Without
  <1>6. \A i \in 1 .. Len(preloads') :
           LET j == IF i < k THEN i ELSE i + 1
           IN  j \in 1 .. Len(preloads) /\ j # k /\ preloads'[i] = preloads[j]
    BY <1>3, <1>4, <1>5
  <1>7. PreloadHeads' = PreloadHeads \ {m} /\ m \in PreloadHeads
    <2>1. m \in PreloadHeads
      BY <1>4 DEF PreloadHeads
    <2>2. \A i \in 1 .. Len(preloads') : preloads'[i].module \in PreloadHeads \ {m}
      BY <1>4, <1>6 DEF PreloadHeads, Shape, HeadsApart
    <2>3. ASSUME NEW j \in 1 .. Len(preloads), j # k
          PROVE  preloads[j].module \in PreloadHeads'
      <3>1. CASE j < k
        <4>1. j \in 1 .. Len(preloads')
          BY <1>3, <1>4, <1>5, <3>1
        <4>2. preloads'[j] = preloads[j]
          BY <1>6, <3>1, <4>1
        <4> QED
          BY <4>1, <4>2 DEF PreloadHeads
      <3>2. CASE ~(j < k)
        <4>1. j - 1 \in 1 .. Len(preloads') /\ ~(j - 1 < k) /\ (j - 1) + 1 = j
          BY <1>3, <1>4, <1>5, <2>3, <3>2
        <4>2. preloads'[j - 1] = preloads[j]
          BY <1>6, <4>1
        <4> QED
          BY <4>1, <4>2 DEF PreloadHeads
      <3> QED
        BY <3>1, <3>2
    <2>4. PreloadHeads \ {m} \subseteq PreloadHeads'
      BY <2>3 DEF PreloadHeads
    <2>5. PreloadHeads' \subseteq PreloadHeads \ {m}
      BY <2>2 DEF PreloadHeads
    <2> QED
      BY <2>1, <2>4, <2>5
  <1>8. \A i, j \in 1 .. Len(preloads') : preloads'[i].module = preloads'[j].module => i = j
    <2> SUFFICES ASSUME NEW i \in 1 .. Len(preloads'), NEW j \in 1 .. Len(preloads'),
                        preloads'[i].module = preloads'[j].module
                 PROVE  i = j
      OBVIOUS
    <2>1. (IF i < k THEN i ELSE i + 1) = (IF j < k THEN j ELSE j + 1)
      <3>1. \A a, b \in 1 .. Len(preloads) : preloads[a].module = preloads[b].module => a = b
        BY DEF Shape, HeadsApart
      <3> QED
        BY <1>6, <3>1
    <2> QED
      BY <1>3, <1>4, <1>5, <2>1
  <1>9. /\ Shape' /\ ld'.on = "off" /\ gl'.on = "off" /\ FrameHeads' = FrameHeads
        /\ CliHeads' = CliHeads /\ LoadHeads' = LoadHeads
        /\ AllHeads' = AllHeads \ (PreloadHeads \ PreloadHeads')
    BY <1>1, <1>5, <1>7, <1>8, ListShrinks
  <1> QED
    BY <1>1, <1>2, <1>3, <1>4, <1>5, <1>7, <1>9 DEF k

LEMMA UnpreloadAllShape ==
  ASSUME Shape, UnpreloadAll
  PROVE  LET V == Chains(PreloadHeads)
         IN  /\ Shape' /\ ld'.on = "off" /\ gl'.on = "off"
             /\ AllHeads' = AllHeads \ PreloadHeads
             /\ Freevecs(V \cup {preloads[i].item : i \in 1 .. Len(preloads)})
             /\ cli' = Adrift(V) /\ stale' = stale \cup Refer(V) /\ preloads' = <<>>
             /\ FrameHeads' = FrameHeads /\ CliHeads' = CliHeads /\ LoadHeads' = LoadHeads
  <1> DEFINE V == Chains(PreloadHeads)
             W == UNION {Chain(preloads[i].module) : i \in 1 .. Len(preloads)}
  <1>1. /\ Running /\ Freevecs(W \cup {preloads[i].item : i \in 1 .. Len(preloads)})
        /\ stale' = stale \cup Refer(W) /\ preloads' = <<>> /\ cli' = Adrift(W)
        /\ UNCHANGED <<disc, ld, gl, glob, frames, failed>>
    BY DEF UnpreloadAll, UnpreloadItems
  <1>2. V = W
    BY DEF PreloadHeads, Chains
  <1> HIDE DEF W
  <1>3. <<>> \in Seq(PreloadRec) /\ Len(<<>>) = 0
    BY EmptySeq
  <1>4. PreloadHeads' = {}
    BY <1>1, <1>3 DEF PreloadHeads
  <1>5. \A i, j \in 1 .. Len(preloads') : preloads'[i].module = preloads'[j].module => i = j
    BY <1>1, <1>3
  <1>6. /\ Shape' /\ ld'.on = "off" /\ gl'.on = "off" /\ FrameHeads' = FrameHeads
        /\ CliHeads' = CliHeads /\ LoadHeads' = LoadHeads
        /\ AllHeads' = AllHeads \ (PreloadHeads \ PreloadHeads')
    BY <1>1, <1>3, <1>4, <1>5, ListShrinks
  <1> QED
    BY <1>1, <1>2, <1>4, <1>6

-----------------------------------------------------------------------------
(* Steps and the memory.                                                   *)
LEMMA HunkTyped ==
  ASSUME MemOK
  PROVE  /\ \A v \in Hunks : mem[v] \in [use : {"hunk"}, next : Vec \cup {Null}, of : Record]
         /\ MemTyped
  BY DEF MemOK, Hunks, Free, MemTyped

(* The memory is left as it is.                                            *)
LEMMA MemorySame ==
  ASSUME Memory, MemOK, mem' = mem, AllHeads' \subseteq AllHeads
  PROVE  /\ MemOK' /\ LinksGood' /\ HeadsFirst' /\ Hunks' = Hunks
         /\ \A a \in Vec \cup {Null} : Chain(a)' = Chain(a)
  <1>1. MemOK' /\ Hunks' = Hunks /\ \A v : Link(v)' = Link(v)
    BY DEF MemOK, Hunks, Link
  <1>2. LinksGood' /\ HeadsFirst'
    BY <1>1 DEF Memory, LinksGood, HeadsFirst
  <1>3. MemTyped /\ MemTyped'
    BY <1>1, HunkTyped DEF Memory, MemTyped
  <1> QED
    BY <1>1, <1>2, <1>3, ChainUnchanged

(* The segments that begin at A are given back.                            *)
LEMMA MemoryFreed ==
  ASSUME Memory, NEW A \in SUBSET AllHeads, NEW X, X = Chains(A),
         MemOK', \A v \in X : mem'[v] = Free, \A v \in Hunks \ X : mem'[v] = mem[v],
         \A v \in Vec \ Hunks : mem'[v].use = "hunk" => mem'[v].next = Null,
         AllHeads' \subseteq AllHeads \ A,
         gl'.on = "off", ld'.on = "reading" => ld'.list = Null /\ ld'.liste = Null
  PROVE  /\ MemOK' /\ LinksGood' /\ HeadsFirst' /\ TailKnown' /\ GlobinAt'
         /\ X \subseteq Hunks /\ Hunks \ X \subseteq Hunks' /\ Hunks' \cap X = {}
         /\ \A b \in AllHeads \ A : Chain(b) \cap X = {} /\ Chain(b)' = Chain(b)
  <1>1. LinksGood /\ AllHeads \subseteq Hunks /\ \A a \in AllHeads : NoneLeadsTo(a)
    BY DEF Memory, HeadsFirst, NoneLeadsTo
  <1>2. /\ LinksGood' /\ X \subseteq Hunks /\ Hunks \ X \subseteq Hunks' /\ Hunks' \cap X = {}
        /\ \A b \in Hunks \ A : NoneLeadsTo(b) =>
             /\ b \in Hunks' /\ NoneLeadsTo(b)'
             /\ Chain(b) \cap X = {} /\ Chain(b)' = Chain(b)
    BY <1>1, SegmentsFreed
  <1>3. HeadsFirst'
    BY <1>1, <1>2 DEF HeadsFirst, NoneLeadsTo
  <1>5. TailKnown' /\ GlobinAt'
    BY DEF TailKnown, GlobinAt
  <1> QED
    BY <1>1, <1>2, <1>3, <1>5

LEMMA FreevecsDoes ==
  ASSUME MemOK, NEW V \in SUBSET Vec, Freevecs(V)
  PROVE  /\ MemOK' /\ \A v \in V : mem'[v] = Free
         /\ \A v \in Vec \ V : mem'[v] = mem[v]
         /\ twice' = (twice \/ \E v \in V : mem[v].use = "free")
  BY DEF MemOK, Freevecs

(* What unloadseg and freevec do together: the vectors W are no segments'. *)
LEMMA MemoryFreevecs ==
  ASSUME Memory, NEW A \in SUBSET AllHeads, NEW X, X = Chains(A),
         NEW W \in SUBSET Vec, \A v \in W : mem[v].use \notin {"free", "hunk"},
         Freevecs(X \cup W), AllHeads' \subseteq AllHeads \ A,
         gl'.on = "off", ld'.on = "reading" => ld'.list = Null /\ ld'.liste = Null
  PROVE  /\ MemOK' /\ LinksGood' /\ HeadsFirst' /\ TailKnown' /\ GlobinAt' /\ ~twice'
         /\ X \subseteq Hunks /\ Hunks' = Hunks \ X
         /\ \A v \in Vec \ (X \cup W) : mem'[v] = mem[v]
         /\ \A b \in AllHeads \ A : Chain(b) \cap X = {} /\ Chain(b)' = Chain(b)
  <1>1. LinksGood /\ AllHeads \subseteq Hunks /\ MemOK
    BY DEF Memory, HeadsFirst
  <1>2. X \subseteq Hunks /\ Hunks \subseteq Vec
    BY <1>1, ChainOfHunks DEF Hunks, Chains
  <1>3. /\ MemOK' /\ \A v \in X \cup W : mem'[v] = Free
        /\ \A v \in Vec \ (X \cup W) : mem'[v] = mem[v]
        /\ twice' = (twice \/ \E v \in X \cup W : mem[v].use = "free")
    BY <1>1, <1>2, FreevecsDoes
  <1>4. /\ \A v \in Hunks \ X : mem'[v] = mem[v]
        /\ \A v \in Vec \ Hunks : mem'[v].use # "hunk"
    BY <1>2, <1>3 DEF Hunks, Free
  <1>5. ~twice'
    BY <1>2, <1>3 DEF Memory, Hunks
  <1>6. /\ MemOK' /\ LinksGood' /\ HeadsFirst' /\ TailKnown' /\ GlobinAt'
        /\ X \subseteq Hunks /\ Hunks \ X \subseteq Hunks' /\ Hunks' \cap X = {}
        /\ \A b \in AllHeads \ A : Chain(b) \cap X = {} /\ Chain(b)' = Chain(b)
    <2>1. /\ \A v \in X : mem'[v] = Free
          /\ \A v \in Vec \ Hunks : mem'[v].use = "hunk" => mem'[v].next = Null
      BY <1>3, <1>4
    <2> QED
      BY <1>3, <1>4, <2>1, MemoryFreed
  <1>7. Hunks' = Hunks \ X
    BY <1>4, <1>6 DEF Hunks
  <1> QED
    BY <1>3, <1>6, <1>7, <1>5

(* A free vector is taken for something else than a hunk.                  *)
LEMMA MemoryTaken ==
  ASSUME Memory, Places # {}, NEW u \in {"stack", "item"},
         mem' = [mem EXCEPT ![Place] = [use |-> u]], AllHeads' \subseteq AllHeads,
         gl'.on = "off", ld'.on = "off"
  PROVE  /\ MemOK' /\ LinksGood' /\ HeadsFirst' /\ TailKnown' /\ GlobinAt' /\ Hunks' = Hunks
         /\ mem'[Place] = [use |-> u] /\ \A v \in Vec \ {Place} : mem'[v] = mem[v]
         /\ \A a \in Vec \cup {Null} : Chain(a)' = Chain(a)
  <1>1. Place \in Vec /\ mem[Place].use = "free" /\ Place \notin Hunks /\ MemOK
    BY PlaceIsFree DEF Memory
  <1>2. MemOK' /\ mem'[Place] = [use |-> u] /\ \A v \in Vec \ {Place} : mem'[v] = mem[v]
    BY <1>1 DEF MemOK
  <1>3. Hunks' = Hunks /\ \A v \in Hunks : mem'[v] = mem[v]
    BY <1>1, <1>2 DEF Hunks
  <1>4. LinksGood' /\ HeadsFirst'
    BY <1>3 DEF Memory, LinksGood, HeadsFirst
  <1>5. TailKnown' /\ GlobinAt'
    BY DEF TailKnown, GlobinAt
  <1>6. MemTyped /\ MemTyped'
    BY <1>1, <1>2, HunkTyped, <1>3 DEF MemTyped
  <1>7. \A v : Link(v)' = Link(v)
    <2> SUFFICES ASSUME NEW v PROVE Link(v)' = Link(v)
      OBVIOUS
    <2>1. CASE v \in Hunks
      BY <1>3, <2>1 DEF Link
    <2>2. CASE v \notin Hunks
      BY <1>3, <2>2 DEF Link, Hunks
    <2> QED
      BY <2>1, <2>2
  <1> QED
    BY <1>2, <1>3, <1>4, <1>5, <1>6, <1>7, ChainUnchanged

-----------------------------------------------------------------------------
(* Each step keeps the invariant, and the owners of what is loaded.        *)

OwnedByHeads == Owned = Chains(AllHeads) \cup {cli.co} \cup Items

LEMMA OwnedIs == MemTyped => OwnedByHeads
  <1> SUFFICES ASSUME MemTyped PROVE OwnedByHeads
    OBVIOUS
  <1>1. Chain(Null) = {}
    BY ChainLaws DEF ChainFacts
  <1>2. Heads \ {Null} = AllHeads \ {Null}
    BY DEF Heads, AllHeads, PreloadHeads, FrameHeads, CliHeads, LoadHeads
  <1>3. UNION {Chain(a) : a \in Heads} = Chains(AllHeads)
    BY <1>1, <1>2 DEF Chains
  <1> QED
    BY <1>3 DEF OwnedByHeads, Owned, Items

LEMMA OwnedIsNext == MemTyped' => OwnedByHeads'
  BY OwnedIs, PTL

(* A vector is lost when it is still used and its owner is gone: when none *)
(* but the segments at A and what is free goes, none is.                   *)
LEMMA NoneLost ==
  ASSUME MemTyped, MemTyped', NEW A, AllHeads \ A \subseteq AllHeads',
         \A b \in AllHeads \ A : Chain(b) \subseteq Chain(b)',
         \A v \in Vec : mem'[v].use # "free" =>
           /\ v \notin Chains(A) /\ (v \in {cli.co} \cup Items => v \in {cli'.co} \cup Items')
           /\ mem[v].use = "free" => v \in Owned'
  PROVE  Lost' \subseteq Lost
  <1> SUFFICES ASSUME NEW v \in Lost' PROVE v \in Lost
    OBVIOUS
  <1>1. v \in Vec /\ mem'[v].use # "free" /\ v \notin Owned'
    BY DEF Lost
  <1>2. mem[v].use # "free" /\ v \notin Chains(A) /\ v \notin {cli.co} \cup Items
    BY <1>1, OwnedIsNext DEF OwnedByHeads
  <1>3. v \notin Chains(AllHeads)
    <2>1. SUFFICES ASSUME NEW b \in AllHeads, v \in Chain(b) PROVE FALSE
      BY DEF Chains
    <2>2. b \notin A
      BY <1>2, <2>1 DEF Chains
    <2>3. b \in AllHeads' /\ v \in Chain(b)'
      BY <2>1, <2>2
    <2>4. v \in Chains(AllHeads)'
      BY <2>3 DEF Chains
    <2> QED
      BY <1>1, <2>4, OwnedIsNext DEF OwnedByHeads
  <1> QED
    BY <1>1, <1>2, <1>3, OwnedIs DEF Lost, OwnedByHeads

(* What the steps do to the chains.                                        *)
ChainsKept == \A b \in AllHeads \cap AllHeads' : Chain(b)' = Chain(b)

(* The memory is left alone.                                               *)
LEMMA QuietStep ==
  ASSUME OwnersInv, mem' = mem, twice' = twice, Shape', AllHeads' \subseteq AllHeads,
         preloads' = preloads, cli'.co = cli.co \/ frames' = <<>>,
         frames' # <<>> => frames # <<>>, TailKnown', GlobinAt'
  PROVE  /\ OwnersInv' /\ Hunks' = Hunks /\ \A a \in Vec \cup {Null} : Chain(a)' = Chain(a)
         /\ ChainsKept
         /\ AllHeads \subseteq AllHeads' /\ cli'.co = cli.co => Lost' \subseteq Lost
  <1>1. Memory /\ MemOK /\ AllHeads \subseteq Vec /\ MemTyped
    BY HunkTyped DEF OwnersInv, Memory, HeadsFirst, Hunks
  <1>2. /\ MemOK' /\ LinksGood' /\ HeadsFirst' /\ Hunks' = Hunks
        /\ \A a \in Vec \cup {Null} : Chain(a)' = Chain(a)
    BY <1>1, MemorySame
  <1>3. OthersKept'
    BY <1>1 DEF Memory, OthersKept
  <1>4. ~twice'
    BY <1>1 DEF Memory
  <1>5. OwnersInv'
    BY <1>2, <1>3, <1>4 DEF OwnersInv, Memory
  <1>6. ASSUME AllHeads \subseteq AllHeads', cli'.co = cli.co PROVE Lost' \subseteq Lost
    <2>1. MemTyped'
      BY <1>1, <1>2 DEF MemTyped
    <2>2. Items' = Items /\ Chains({}) = {}
      BY DEF Items, Chains
    <2>3. \A b \in AllHeads \ {} : Chain(b) \subseteq Chain(b)'
      BY <1>1, <1>2
    <2>4. \A v \in Vec : mem'[v].use # "free" =>
           /\ v \notin Chains({}) /\ (v \in {cli.co} \cup Items => v \in {cli'.co} \cup Items')
           /\ mem[v].use = "free" => v \in Owned'
      BY <1>6, <2>2
    <2>5. AllHeads \ {} \subseteq AllHeads'
      BY <1>6
    <2> QED
      BY <1>1, <2>1, <2>3, <2>4, <2>5, NoneLost
  <1>7. ChainsKept
    BY <1>1, <1>2 DEF ChainsKept
  <1> QED
    BY <1>2, <1>5, <1>6, <1>7

StepKeeps == OwnersInv' /\ ChainsKept /\ Lost' \subseteq Lost

LEMMA NoHeadsOff == ld'.on = "off" => TailKnown'
  BY DEF TailKnown

LEMMA GlobinOff == gl'.on # "setting" => GlobinAt'
  BY DEF GlobinAt

LEMMA CommandStep ==
  ASSUME OwnersInv, NEW n \in Name, Command(n)
  PROVE  StepKeeps /\ Hunks' = Hunks
  <1>1. Shape' /\ AllHeads' = AllHeads
    BY CommandShape DEF OwnersInv
  <1>2. /\ UNCHANGED <<mem, disc, gl, glob, stale, twice, frames, preloads, failed>>
        /\ cli.pc = "prompt" /\ cli'.co = Null /\ Loadseg(n)
    BY DEF Command, Prompt
  <1>3. frames = <<>> /\ cli.co = Null
    BY <1>2 DEF OwnersInv, Shape, Control
  <1>4. TailKnown'
    BY <1>2, LoadsegStarts DEF TailKnown, OwnersInv, Shape, Typed
  <1>5. GlobinAt'
    BY <1>2 DEF GlobinAt, Hunks, OwnersInv, Memory
  <1> QED
    BY <1>1, <1>2, <1>3, <1>4, <1>5, QuietStep DEF StepKeeps

LEMMA PreloadedCommandStep ==
  ASSUME OwnersInv, NEW n \in Name, PreloadedCommand(n)
  PROVE  StepKeeps /\ Hunks' = Hunks
  <1>1. Shape' /\ AllHeads' = AllHeads /\ gl'.at \in PreloadHeads
    BY PreloadedCommandShape DEF OwnersInv
  <1>2. /\ UNCHANGED <<mem, disc, ld, twice, frames, preloads, failed>>
        /\ cli.pc = "prompt" /\ cli'.co = Null
    BY DEF PreloadedCommand, Prompt
  <1>3. frames = <<>> /\ cli.co = Null /\ ld.on = "off"
    BY <1>2 DEF OwnersInv, Shape, Control
  <1>4. TailKnown'
    BY <1>2, <1>3 DEF TailKnown
  <1>5. GlobinAt'
    BY <1>1, <1>2 DEF GlobinAt, Hunks, OwnersInv, Memory, HeadsFirst, AllHeads
  <1> QED
    BY <1>1, <1>2, <1>3, <1>4, <1>5, QuietStep DEF StepKeeps

LEMMA CallsegStep ==
  ASSUME OwnersInv, NEW n \in Name, Callseg(n) \/ Preload(n)
  PROVE  StepKeeps /\ Hunks' = Hunks
  <1>1. Shape' /\ AllHeads' = AllHeads
    BY CallsegShape, PreloadShape DEF OwnersInv
  <1>2. /\ UNCHANGED <<mem, disc, gl, glob, stale, twice, preloads, failed>>
        /\ cli.pc = "running" /\ Loadseg(n)
    BY DEF Callseg, Preload, Running
  <1>3. frames # <<>> /\ cli \in CliRec
    BY <1>2 DEF OwnersInv, Shape, Control, Typed
  <1>4. cli'.co = cli.co
    BY <1>3 DEF Callseg, Preload, CliRec
  <1>5. TailKnown'
    BY <1>2, LoadsegStarts DEF TailKnown, OwnersInv, Shape, Typed
  <1>6. GlobinAt'
    BY <1>2 DEF GlobinAt, Hunks, OwnersInv, Memory
  <1> QED
    BY <1>1, <1>2, <1>3, <1>4, <1>5, <1>6, QuietStep DEF StepKeeps

LEMMA GlobinStep ==
  ASSUME OwnersInv, SettingGlobals, UNCHANGED <<cli, frames, preloads, failed>>
  PROVE  StepKeeps /\ Hunks' = Hunks
  <1>1. gl.on = "setting" /\ UNCHANGED <<mem, disc, ld, twice>>
    BY DEF SettingGlobals, GlobinHunk, GlobinFails
  <1>2. gl.at \in Hunks /\ gl.at \in Vec /\ mem[gl.at].next \in Hunks \cup {Null}
        /\ mem[gl.at].next \in Vec \cup {Null}
    BY <1>1 DEF OwnersInv, Memory, GlobinAt, LinksGood, Hunks
  <1>3. Shape' /\ AllHeads' = AllHeads
    BY <1>1, <1>2, GlobinShape DEF OwnersInv
  <1>4. TailKnown'
    BY <1>1 DEF TailKnown, OwnersInv, Shape, Control
  <1>5. gl \in GlRec
    BY DEF OwnersInv, Shape, Typed
  <1>6. GlobinAt'
    <2>1. CASE GlobinHunk
      BY <1>1, <1>2, <1>5, <2>1 DEF GlobinHunk, GlobinAt, Hunks, GlRec
    <2>2. CASE GlobinFails
      BY <1>1, <1>2, <1>5, <2>2 DEF GlobinFails, GlobinAt, Hunks, GlRec
    <2> QED
      BY <2>1, <2>2 DEF SettingGlobals
  <1>7. AllHeads' \subseteq AllHeads /\ AllHeads \subseteq AllHeads' /\ cli'.co = cli.co
    BY <1>3
  <1> QED
    BY <1>1, <1>3, <1>4, <1>6, <1>7, QuietStep DEF StepKeeps

LEMMA CommandLoadedStep ==
  ASSUME OwnersInv, CommandLoaded
  PROVE  StepKeeps /\ Hunks' = Hunks
  <1>1. /\ Shape' /\ AllHeads' = AllHeads /\ ld'.on = "off"
        /\ gl'.on = "setting" => gl'.at \in LoadHeads
    BY CommandLoadedShape DEF OwnersInv
  <1>2. /\ UNCHANGED <<mem, disc, twice, frames, preloads, failed>> /\ cli.pc = "loading"
        /\ cli' = [cli EXCEPT !.pc = "setting", !.module = ld.list]
    BY DEF CommandLoaded
  <1>3. cli'.co = cli.co
    BY <1>2 DEF OwnersInv, Shape, Typed, CliRec
  <1>4. GlobinAt'
    BY <1>1, <1>2 DEF GlobinAt, Hunks, OwnersInv, Memory, HeadsFirst, AllHeads
  <1> QED
    BY <1>1, <1>2, <1>3, <1>4, NoHeadsOff, QuietStep DEF StepKeeps

LEMMA CallsegLoadedStep ==
  ASSUME OwnersInv, CallsegLoaded
  PROVE  StepKeeps /\ Hunks' = Hunks
  <1>1. /\ Shape' /\ AllHeads' = AllHeads /\ ld'.on = "off"
        /\ gl'.on = "setting" => gl'.at \in LoadHeads
    BY CallsegLoadedShape DEF OwnersInv
  <1>2. UNCHANGED <<mem, disc, twice, cli, preloads, failed>> /\ cli.pc = "running"
    BY DEF CallsegLoaded
  <1>3. frames # <<>>
    BY <1>2 DEF OwnersInv, Shape, Control
  <1>4. GlobinAt'
    BY <1>1, <1>2 DEF GlobinAt, Hunks, OwnersInv, Memory, HeadsFirst, AllHeads
  <1> QED
    BY <1>1, <1>2, <1>3, <1>4, NoHeadsOff, QuietStep DEF StepKeeps

LEMMA CallsegCallsStep ==
  ASSUME OwnersInv, CallsegCalls
  PROVE  StepKeeps /\ Hunks' = Hunks
  <1>1. Shape' /\ AllHeads' = AllHeads /\ ld'.on = "off" /\ gl'.on = "off"
    BY CallsegCallsShape DEF OwnersInv
  <1>2. UNCHANGED <<mem, disc, twice, cli, preloads, failed>> /\ cli.pc = "running"
    BY DEF CallsegCalls
  <1>3. frames # <<>>
    BY <1>2 DEF OwnersInv, Shape, Control
  <1> QED
    BY <1>1, <1>2, <1>3, NoHeadsOff, GlobinOff, QuietStep DEF StepKeeps

(* globin has failed in callseg: the segment stays, without an owner.      *)
LEMMA CallsegFailsStep ==
  ASSUME OwnersInv, CallsegFails
  PROVE  OwnersInv' /\ ChainsKept /\ Hunks' = Hunks
  <1>1. /\ cli.pc = "running" /\ Top.on = "setting" /\ frames' = Callers /\ gl' = NoGlobin
        /\ glob' = [glob EXCEPT ![Start] = Top.saved] /\ stale' = (stale \cup Refer({})) \ {Start}
        /\ UNCHANGED <<mem, disc, ld, twice, cli, preloads, failed>>
    BY DEF CallsegFails, StartRestored, SetStart
  <1>2. frames # <<>> /\ ld.on = "off" /\ frames \in Seq(FrameRec)
    BY <1>1 DEF OwnersInv, Shape, Control, Typed
  <1>3. Len(frames) > 1
    BY <1>1, <1>2, FramesSize DEF OwnersInv, Shape, Control, Top
  <1>4. stale' \subseteq Global
    BY <1>1 DEF Refer, OwnersInv, Shape, Typed
  <1>5. Shape' /\ AllHeads' \subseteq AllHeads
    BY <1>1, <1>2, <1>3, <1>4, PromptTyped, ReturnShape DEF OwnersInv
  <1>6. TailKnown' /\ GlobinAt'
    BY <1>1, <1>2, PromptTyped, GlobinOff, NoHeadsOff
  <1> QED
    BY <1>1, <1>2, <1>5, <1>6, QuietStep

LEMMA PreloadDropsStep ==
  ASSUME OwnersInv, PreloadFails \/ PreloadNoItem
  PROVE  OwnersInv' /\ ChainsKept /\ Hunks' = Hunks /\ (PreloadFails => Lost' \subseteq Lost)
  <1>1. Shape' /\ AllHeads' = AllHeads \ LoadHeads
    BY PreloadDropsShape DEF OwnersInv
  <1>2. PreloadDone /\ UNCHANGED <<mem, stale, twice, cli, preloads>>
    BY DEF PreloadFails, PreloadNoItem
  <1>3. ld'.on = "off" /\ gl'.on = "off" /\ frames # <<>>
    BY <1>2, PreloadDoneFrames, EmptySeq DEF OwnersInv
  <1>4. PreloadFails => AllHeads \subseteq AllHeads'
    BY <1>1 DEF PreloadFails, LoadHeads
  <1>5. AllHeads' \subseteq AllHeads /\ TailKnown' /\ GlobinAt'
    BY <1>1, <1>3, GlobinOff, NoHeadsOff
  <1> QED
    BY <1>2, <1>3, <1>4, <1>5, <1>1, QuietStep

(* Segments are given back, with vectors that are none of theirs.          *)
LEMMA FreeingStep ==
  ASSUME OwnersInv, NEW A \in SUBSET AllHeads, NEW W \in SUBSET Vec,
         \A v \in W : mem[v].use \notin {"free", "hunk"},
         Freevecs(Chains(A) \cup W), AllHeads' \subseteq AllHeads \ A,
         gl'.on = "off", ld'.on = "reading" => ld'.list = Null /\ ld'.liste = Null,
         Shape',
         frames' # <<>> => frames # <<>> /\ cli'.co = cli.co /\ cli.co \notin W,
         \A i, j \in 1 .. Len(preloads') : preloads'[i].item = preloads'[j].item => i = j,
         Items' \subseteq Items \ W
  PROVE  /\ OwnersInv' /\ ChainsKept /\ Hunks' = Hunks \ Chains(A) /\ Chains(A) \subseteq Hunks
         /\ AllHeads \ A \subseteq AllHeads'
              /\ {cli.co} \cup Items \subseteq {cli'.co} \cup Items' \cup W \cup {Null}
            => Lost' \subseteq Lost
  <1>1. Memory /\ MemOK /\ AllHeads \subseteq Hunks /\ MemTyped
    BY HunkTyped DEF OwnersInv, Memory, HeadsFirst
  <1> DEFINE X == Chains(A)
  <1>2. /\ MemOK' /\ LinksGood' /\ HeadsFirst' /\ TailKnown' /\ GlobinAt' /\ ~twice'
        /\ X \subseteq Hunks /\ Hunks' = Hunks \ X
        /\ \A v \in Vec \ (X \cup W) : mem'[v] = mem[v]
        /\ \A b \in AllHeads \ A : Chain(b) \cap X = {} /\ Chain(b)' = Chain(b)
    BY <1>1, MemoryFreevecs
  <1>3. \A v \in X \cup W : mem'[v] = Free
    BY <1>1, <1>2, FreevecsDoes DEF Hunks
  <1> HIDE DEF X
  <1>4. OthersKept'
    <2>1. frames' # <<>> => cli'.co \in Vec /\ mem'[cli'.co].use = "stack"
      BY <1>1, <1>2 DEF Memory, OthersKept, Hunks
    <2>2. \A i \in 1 .. Len(preloads') : mem'[preloads'[i].item].use = "item"
      <3> SUFFICES ASSUME NEW i \in 1 .. Len(preloads') PROVE mem'[preloads'[i].item].use = "item"
        OBVIOUS
      <3>1. preloads'[i].item \in Items \ W
        BY DEF Items
      <3>2. PICK j \in 1 .. Len(preloads) : preloads'[i].item = preloads[j].item
        BY <3>1 DEF Items
      <3>3. mem[preloads[j].item].use = "item" /\ preloads[j].item \in Vec
        <4>1. preloads[j] \in PreloadRec
          BY ElementOfSeq DEF OwnersInv, Shape, Typed
        <4> QED
          BY <1>1, <4>1 DEF Memory, OthersKept, PreloadRec
      <3> QED
        BY <1>2, <3>1, <3>2, <3>3 DEF Hunks
    <2> QED
      BY <2>1, <2>2 DEF OthersKept
  <1>5. OwnersInv'
    BY <1>2, <1>4 DEF OwnersInv, Memory
  <1>6. ChainsKept
    BY <1>2 DEF ChainsKept
  <1>7. ASSUME AllHeads \ A \subseteq AllHeads',
               {cli.co} \cup Items \subseteq {cli'.co} \cup Items' \cup W \cup {Null}
        PROVE  Lost' \subseteq Lost
    <2>1. MemTyped'
      BY <1>2, HunkTyped, PTL
    <2>2. \A b \in AllHeads \ A : Chain(b) \subseteq Chain(b)'
      BY <1>2
    <2>3. \A v \in Vec : mem'[v].use # "free" =>
           /\ v \notin Chains(A) /\ (v \in {cli.co} \cup Items => v \in {cli'.co} \cup Items')
           /\ mem[v].use = "free" => v \in Owned'
      <3> SUFFICES ASSUME NEW v \in Vec, mem'[v].use # "free"
                   PROVE  /\ v \notin Chains(A)
                          /\ v \in {cli.co} \cup Items => v \in {cli'.co} \cup Items'
                          /\ mem[v].use # "free"
        OBVIOUS
      <3>1. v \notin X /\ v \notin W
        BY <1>3 DEF Free
      <3>2. mem[v].use # "free"
        BY <1>2, <3>1
      <3> QED
        BY <1>7, <3>1, <3>2, NullIsNoPlace DEF X
    <2> QED
      BY <1>1, <1>7, <2>1, <2>2, <2>3, NoneLost
  <1> QED
    BY <1>2, <1>5, <1>6, <1>7 DEF X

(* The same without other vectors, where the items stay.                   *)
LEMMA FreeingSegments ==
  ASSUME OwnersInv, NEW A \in SUBSET AllHeads, Freevecs(Chains(A)),
         AllHeads' \subseteq AllHeads \ A,
         gl'.on = "off", ld'.on = "reading" => ld'.list = Null /\ ld'.liste = Null,
         Shape', frames' # <<>> => frames # <<>>, cli'.co = cli.co, Items' = Items,
         \A i, j \in 1 .. Len(preloads') : preloads'[i].item = preloads'[j].item => i = j
  PROVE  /\ OwnersInv' /\ ChainsKept /\ Hunks' = Hunks \ Chains(A) /\ Chains(A) \subseteq Hunks
         /\ AllHeads \ A \subseteq AllHeads' => Lost' \subseteq Lost
  <1> DEFINE W == {}
  <1>1. /\ W \in SUBSET Vec /\ Freevecs(Chains(A) \cup W) /\ Items' \subseteq Items \ W
        /\ {cli.co} \cup Items \subseteq {cli'.co} \cup Items' \cup W \cup {Null}
        /\ cli.co \notin W
    <2>1. Chains(A) \cup W = Chains(A)
      OBVIOUS
    <2> QED
      BY <2>1
  <1>2. \A v \in W : mem[v].use \notin {"free", "hunk"}
    OBVIOUS
  <1> HIDE DEF W
  <1> QED
    BY <1>1, <1>2, FreeingStep

LEMMA ChainsOne ==
  ASSUME MemTyped
  PROVE  Chains({}) = {} /\ \A a : Chains({a} \ {Null}) = Chain(a)
  <1>1. Chain(Null) = {}
    BY ChainLaws DEF ChainFacts
  <1>2. Chains({}) = {}
    BY DEF Chains
  <1>3. ASSUME NEW a PROVE Chains({a} \ {Null}) = Chain(a)
    BY <1>1 DEF Chains
  <1> QED
    BY <1>2, <1>3

LEMMA UnloadedIs == MemTyped => Unloaded = Chains(CliHeads)
  BY ChainsOne DEF Unloaded, CliHeads

LEMMA ItemsApart ==
  ASSUME OwnersInv
  PROVE  /\ MemTyped /\ Items \subseteq Vec
         /\ \A i, j \in 1 .. Len(preloads) : preloads[i].item = preloads[j].item => i = j
         /\ \A v \in Items : mem[v].use = "item"
         /\ frames # <<>> => cli.co \in Vec /\ mem[cli.co].use = "stack" /\ cli.co \notin Items
  <1>1. \A i \in 1 .. Len(preloads) : preloads[i] \in PreloadRec
    BY ElementOfSeq DEF OwnersInv, Shape, Typed
  <1> QED
    BY <1>1, HunkTyped DEF OwnersInv, Memory, OthersKept, Items, PreloadRec

LEMMA LinksTyped == OwnersInv => MemTyped /\ AllHeads \subseteq Vec
  BY ItemsApart DEF OwnersInv, Memory, HeadsFirst, Hunks

LEMMA LinksTypedNext == OwnersInv' => MemTyped'
  <1>1. OwnersInv => MemTyped
    BY LinksTyped
  <1> QED
    BY <1>1, PTL

LEMMA CommandFailsStep ==
  ASSUME OwnersInv, CommandFails
  PROVE  StepKeeps /\ Hunks' = Hunks \ Chains(CliHeads)
  <1>1. Shape' /\ AllHeads' = AllHeads \ CliHeads /\ ld.on = "off" /\ gl'.on = "off"
    BY CommandFailsShape DEF OwnersInv
  <1>2. /\ cli.pc = "setting" /\ Freevecs(Unloaded) /\ cli' = Prompt
        /\ UNCHANGED <<disc, ld, frames, preloads>>
    BY DEF CommandFails
  <1>3. frames = <<>> /\ cli.co = Null
    BY <1>2 DEF OwnersInv, Shape, Control
  <1>4. Freevecs(Chains(CliHeads))
    <2>1. Unloaded = Chains(CliHeads)
      BY UnloadedIs, ItemsApart
    <2> QED
      BY <1>2, <2>1
  <1>5. CliHeads \in SUBSET AllHeads /\ AllHeads \ CliHeads \subseteq AllHeads'
    BY <1>1 DEF AllHeads
  <1>6. Items' = Items /\ \A i, j \in 1 .. Len(preloads') : preloads'[i].item = preloads'[j].item => i = j
    BY <1>2, ItemsApart DEF Items
  <1>7. frames' = frames /\ cli'.co = cli.co /\ ld'.on = "off"
    BY <1>1, <1>2, <1>3, PromptTyped
  <1> QED
    BY <1>1, <1>4, <1>5, <1>6, <1>7, FreeingSegments DEF StepKeeps

LEMMA CommandEndsStep ==
  ASSUME OwnersInv, Executing, CommandEnds
  PROVE  /\ OwnersInv' /\ ChainsKept /\ Hunks' = Hunks \ Chains(CliHeads)
         /\ Len(frames) = 1 => Lost' \subseteq Lost
  <1>1. /\ Shape' /\ AllHeads' = AllHeads \ (CliHeads \cup FrameHeads)
        /\ ld'.on = "off" /\ gl'.on = "off" /\ frames # <<>>
    BY CommandEndsShape DEF OwnersInv
  <1>2. /\ Freevecs(Unloaded \cup {cli.co}) /\ cli' = Prompt /\ frames' = <<>>
        /\ UNCHANGED <<disc, ld, preloads>>
    BY DEF CommandEnds
  <1>3. /\ cli.co \in Vec /\ mem[cli.co].use = "stack" /\ cli.co \notin Items
    BY <1>1, ItemsApart
  <1>4. Freevecs(Chains(CliHeads) \cup {cli.co})
    <2>1. Unloaded = Chains(CliHeads)
      BY UnloadedIs, ItemsApart
    <2> QED
      BY <1>2, <2>1
  <1>5. CliHeads \in SUBSET AllHeads /\ AllHeads' \subseteq AllHeads \ CliHeads
    BY <1>1 DEF AllHeads
  <1>6. Len(frames) = 1 => AllHeads \ CliHeads \subseteq AllHeads'
    BY <1>1, IdleHeads DEF OwnersInv
  <1>7. Items' = Items /\ \A i, j \in 1 .. Len(preloads') : preloads'[i].item = preloads'[j].item => i = j
    BY <1>2, ItemsApart DEF Items
  <1>8. /\ frames' # <<>> => frames # <<>> /\ cli'.co = cli.co /\ cli.co \notin {cli.co}
        /\ {cli.co} \cup Items \subseteq {cli'.co} \cup Items' \cup {cli.co} \cup {Null}
        /\ {cli.co} \in SUBSET Vec /\ \A v \in {cli.co} : mem[v].use \notin {"free", "hunk"}
    BY <1>2, <1>3, <1>7
  <1>9. Items' \subseteq Items \ {cli.co}
    BY <1>3, <1>7
  <1> QED
    BY <1>1, <1>4, <1>5, <1>6, <1>7, <1>8, <1>9, FreeingStep, ZenonT(40)

LEMMA CallsegReturnsStep ==
  ASSUME OwnersInv, CallsegReturns
  PROVE  /\ StepKeeps /\ Top.module \in FrameHeads \cup {Null} /\ MemTyped
         /\ Hunks' = Hunks \ Chain(Top.module) /\ Chain(Top.module) \subseteq Hunks
  <1> DEFINE m == Top.module
  <1>1. /\ cli.pc = "running" /\ Top.on = "running" /\ Len(frames) > 1
        /\ Freevecs(Chain(m)) /\ frames' = Callers
        /\ glob' = [glob EXCEPT ![Start] = Top.saved]
        /\ stale' = (stale \cup Refer(Chain(m))) \ {Start}
        /\ UNCHANGED <<disc, ld, gl, cli, preloads, failed>>
    BY DEF CallsegReturns, Running, StartRestored, SetStart
  <1>2. /\ frames # <<>> /\ ld.on = "off" /\ gl'.on = "off" /\ gl' \in GlRec
        /\ frames \in Seq(FrameRec)
    BY <1>1 DEF OwnersInv, Shape, Control, Typed
  <1>3. stale' \subseteq Global
    BY <1>1 DEF Refer, OwnersInv, Shape, Typed
  <1>4. Shape' /\ AllHeads' = AllHeads \ ({m} \ {Null})
    BY <1>1, <1>2, <1>3, ReturnShape DEF OwnersInv
  <1>5. m \in FrameHeads \cup {Null}
    BY <1>2, FramesSize DEF Top, FrameHeads
  <1> DEFINE A == {m} \ {Null}
  <1>6. Chains(A) = Chain(m)
    BY ChainsOne, ItemsApart
  <1> HIDE DEF A
  <1>7. A \in SUBSET AllHeads /\ AllHeads \ A \subseteq AllHeads' /\ AllHeads' \subseteq AllHeads \ A
    BY <1>4, <1>5 DEF A, AllHeads
  <1>8. Freevecs(Chains(A))
    <2>1. Chain(m) = Chains(A)
      BY <1>6
    <2> QED
      BY <1>1, <2>1
  <1>9. Items' = Items /\ \A i, j \in 1 .. Len(preloads') : preloads'[i].item = preloads'[j].item => i = j
    BY <1>1, ItemsApart DEF Items
  <1>10. frames # <<>> /\ cli'.co = cli.co /\ ld'.on = "off"
    BY <1>1, <1>2
  <1>11. OwnersInv' /\ ChainsKept /\ Hunks' = Hunks \ Chains(A) /\ Chains(A) \subseteq Hunks
         /\ Lost' \subseteq Lost
    BY <1>2, <1>4, <1>7, <1>8, <1>9, <1>10, FreeingSegments
  <1> QED
    BY <1>5, <1>6, <1>11, ItemsApart DEF StepKeeps

LEMMA PreloadReplacesStep ==
  ASSUME OwnersInv, PreloadReplaces
  PROVE  LET m == preloads[Entry(cli.preload)].module
         IN  /\ StepKeeps /\ m \in PreloadHeads
             /\ Hunks' = Hunks \ Chain(m) /\ Chain(m) \subseteq Hunks
  <1> DEFINE k == Entry(cli.preload)
             m == preloads[k].module
             A == {m}
  <1>1. /\ Shape' /\ k \in 1 .. Len(preloads) /\ m \in PreloadHeads
        /\ Len(preloads') = Len(preloads)
        /\ \A i \in 1 .. Len(preloads) : preloads'[i].item = preloads[i].item
        /\ AllHeads' = AllHeads \ A /\ ld'.on = "off" /\ gl'.on = "off"
    BY PreloadReplacesShape DEF OwnersInv
  <1>2. PreloadDone /\ Freevecs(Chain(m)) /\ cli' = Adrift(Chain(m))
    BY DEF PreloadReplaces
  <1>3. cli.pc = "running" /\ frames' # <<>> /\ Len(frames) \in Nat \ {0}
    BY <1>2, PreloadDoneFrames DEF OwnersInv
  <1>4. cli'.co = cli.co
    BY <1>2, <1>3, AdriftTyped DEF OwnersInv, Shape, Typed
  <1> HIDE DEF k, m
  <1>5. Chains(A) = Chain(m)
    BY DEF Chains
  <1>6. Freevecs(Chains(A))
    <2>1. Chain(m) = Chains(A)
      BY <1>5
    <2> QED
      BY <1>2, <2>1
  <1>7. A \in SUBSET AllHeads /\ AllHeads \ A \subseteq AllHeads' /\ AllHeads' \subseteq AllHeads \ A
    BY <1>1 DEF AllHeads
  <1>8. Items' = Items /\ \A i, j \in 1 .. Len(preloads') : preloads'[i].item = preloads'[j].item => i = j
    BY <1>1, ItemsApart DEF Items
  <1>9. frames # <<>>
    BY <1>3, EmptySeq
  <1>10. frames # <<>> /\ cli'.co = cli.co
    BY <1>4, <1>9
  <1> HIDE DEF A
  <1>11. OwnersInv' /\ ChainsKept /\ Hunks' = Hunks \ Chains(A) /\ Chains(A) \subseteq Hunks
         /\ Lost' \subseteq Lost
    BY <1>1, <1>6, <1>7, <1>8, <1>10, FreeingSegments
  <1> QED
    BY <1>1, <1>5, <1>11 DEF StepKeeps, m, k

LEMMA UnpreloadStep ==
  ASSUME OwnersInv, NEW n, Unpreload(n)
  PROVE  LET m == preloads[Entry(n)].module
         IN  /\ StepKeeps /\ m \in PreloadHeads
             /\ Hunks' = Hunks \ Chain(m) /\ Chain(m) \subseteq Hunks
  <1> DEFINE k == Entry(n)
             m == preloads[k].module
             A == {m}
             W == {preloads[k].item}
  <1>1. /\ Shape' /\ ld'.on = "off" /\ gl'.on = "off"
        /\ k \in 1 .. Len(preloads) /\ m \in PreloadHeads
        /\ AllHeads' = AllHeads \ A
        /\ Freevecs(Chain(m) \cup W) /\ cli' = Adrift(Chain(m))
        /\ Len(preloads) \in Nat /\ Len(preloads') = Len(preloads) - 1
        /\ \A i \in 1 .. Len(preloads') : preloads'[i] = preloads[IF i < k THEN i ELSE i + 1]
    BY UnpreloadShape DEF OwnersInv
  <1>2. /\ cli.pc = "running" /\ frames' = frames
    BY DEF Unpreload, UnpreloadItems, Running
  <1>3. frames # <<>> /\ cli'.co = cli.co
    BY <1>1, <1>2, AdriftTyped DEF OwnersInv, Shape, Typed, Control
  <1> HIDE DEF k, m
  <1>4. Chains(A) = Chain(m)
    BY DEF Chains
  <1>5. /\ A \in SUBSET AllHeads /\ AllHeads \ A \subseteq AllHeads' /\ AllHeads' \subseteq AllHeads \ A
        /\ Freevecs(Chains(A) \cup W)
    BY <1>1, <1>4 DEF AllHeads
  <1>6. preloads[k].item \in Items
    BY <1>1 DEF Items
  <1>7. \A i \in 1 .. Len(preloads') :
           LET j == IF i < k THEN i ELSE i + 1
           IN  j \in 1 .. Len(preloads) /\ j # k /\ preloads'[i] = preloads[j]
    BY <1>1
  <1>8. \A i, j \in 1 .. Len(preloads') : preloads'[i].item = preloads'[j].item => i = j
    <2> SUFFICES ASSUME NEW i \in 1 .. Len(preloads'), NEW j \in 1 .. Len(preloads'),
                        preloads'[i].item = preloads'[j].item
                 PROVE  i = j
      OBVIOUS
    <2>1. (IF i < k THEN i ELSE i + 1) = (IF j < k THEN j ELSE j + 1)
      BY <1>7, ItemsApart, SMTT(30)
    <2> QED
      BY <1>1, <2>1
  <1>9. Items' \subseteq Items \ W
    BY <1>1, <1>7, ItemsApart DEF Items
  <1>10. Items \subseteq Items' \cup W
    <2> SUFFICES ASSUME NEW j \in 1 .. Len(preloads), j # k PROVE preloads[j].item \in Items'
      BY DEF Items
    <2>1. CASE j < k
      <3>1. j \in 1 .. Len(preloads') /\ preloads'[j] = preloads[j]
        BY <1>1, <2>1
      <3> QED
        BY <3>1 DEF Items
    <2>2. CASE ~(j < k)
      <3>1. j - 1 \in 1 .. Len(preloads') /\ ~(j - 1 < k) /\ (j - 1) + 1 = j
        BY <1>1, <2>2
      <3>2. preloads'[j - 1] = preloads[j]
        BY <1>1, <3>1
      <3> QED
        BY <3>1, <3>2 DEF Items
    <2> QED
      BY <2>1, <2>2
  <1>11. /\ W \in SUBSET Vec /\ cli.co \notin W
         /\ {cli.co} \cup Items \subseteq {cli'.co} \cup Items' \cup W \cup {Null}
         /\ \A v \in W : mem[v].use \notin {"free", "hunk"}
    BY <1>3, <1>6, <1>10, ItemsApart
  <1> HIDE DEF A, W
  <1>12. OwnersInv' /\ ChainsKept /\ Hunks' = Hunks \ Chains(A) /\ Chains(A) \subseteq Hunks
         /\ Lost' \subseteq Lost
    BY <1>1, <1>3, <1>5, <1>8, <1>9, <1>11, FreeingStep
  <1> QED
    BY <1>1, <1>4, <1>12 DEF StepKeeps, m, k

LEMMA UnpreloadAllStep ==
  ASSUME OwnersInv, UnpreloadAll
  PROVE  StepKeeps /\ Hunks' = Hunks \ Chains(PreloadHeads) /\ Chains(PreloadHeads) \subseteq Hunks
  <1>1. /\ Shape' /\ ld'.on = "off" /\ gl'.on = "off"
        /\ AllHeads' = AllHeads \ PreloadHeads
        /\ Freevecs(Chains(PreloadHeads) \cup {preloads[i].item : i \in 1 .. Len(preloads)})
        /\ cli' = Adrift(Chains(PreloadHeads)) /\ preloads' = <<>>
    BY UnpreloadAllShape DEF OwnersInv
  <1>2. /\ cli.pc = "running" /\ frames' = frames
    BY DEF UnpreloadAll, UnpreloadItems, Running
  <1>3. frames # <<>> /\ cli'.co = cli.co
    BY <1>1, <1>2, AdriftTyped DEF OwnersInv, Shape, Typed, Control
  <1>4. Freevecs(Chains(PreloadHeads) \cup Items)
    BY <1>1 DEF Items
  <1>5. PreloadHeads \in SUBSET AllHeads /\ AllHeads \ PreloadHeads \subseteq AllHeads'
        /\ AllHeads' \subseteq AllHeads \ PreloadHeads
    BY <1>1 DEF AllHeads
  <1>6. Len(preloads') = 0
    BY <1>1, EmptySeq
  <1>7. Items' = {} /\ \A i, j \in 1 .. Len(preloads') : preloads'[i].item = preloads'[j].item => i = j
    BY <1>6 DEF Items
  <1>8. /\ Items \in SUBSET Vec /\ cli.co \notin Items
        /\ {cli.co} \cup Items \subseteq {cli'.co} \cup Items' \cup Items \cup {Null}
        /\ \A v \in Items : mem[v].use \notin {"free", "hunk"} /\ Items' \subseteq Items \ Items
    BY <1>3, <1>7, ItemsApart
  <1>9. Items' \subseteq Items \ Items
    BY <1>7
  <1>10. OwnersInv' /\ ChainsKept /\ Hunks' = Hunks \ Chains(PreloadHeads)
         /\ Chains(PreloadHeads) \subseteq Hunks /\ Lost' \subseteq Lost
    BY <1>1, <1>3, <1>4, <1>5, <1>7, <1>8, <1>9, FreeingStep
  <1> QED
    BY <1>10 DEF StepKeeps

LEMMA CommandStartsStep ==
  ASSUME OwnersInv, CommandStarts
  PROVE  StepKeeps /\ Hunks' = Hunks
  <1>1. /\ Shape' /\ AllHeads' = AllHeads /\ ld'.on = "off" /\ gl'.on = "off"
        /\ cli'.co = Place
    BY CommandStartsShape DEF OwnersInv
  <1>2. /\ Places # {} /\ mem' = [mem EXCEPT ![Place] = [use |-> "stack"]]
        /\ UNCHANGED <<disc, twice, preloads>> /\ cli.pc = "setting"
    BY DEF CommandStarts
  <1>3. Memory /\ MemTyped /\ cli.co = Null
    BY <1>2, ItemsApart DEF OwnersInv, Shape, Control
  <1>4. /\ MemOK' /\ LinksGood' /\ HeadsFirst' /\ TailKnown' /\ GlobinAt' /\ Hunks' = Hunks
        /\ mem'[Place] = [use |-> "stack"] /\ \A v \in Vec \ {Place} : mem'[v] = mem[v]
        /\ \A a \in Vec \cup {Null} : Chain(a)' = Chain(a)
    BY <1>1, <1>2, <1>3, MemoryTaken
  <1>5. Place \in Vec /\ mem[Place].use = "free"
    BY <1>2, PlaceIsFree
  <1>6. OthersKept'
    <2>1. \A i \in 1 .. Len(preloads) : preloads[i].item \in Vec /\ mem[preloads[i].item].use = "item"
      BY ItemsApart DEF Items
    <2> QED
      BY <1>1, <1>2, <1>4, <1>5, <2>1, ItemsApart DEF OthersKept
  <1>7. OwnersInv'
    BY <1>1, <1>2, <1>3, <1>4, <1>6 DEF OwnersInv, Memory
  <1>8. AllHeads \subseteq Vec /\ MemTyped'
    BY <1>7, LinksTyped, LinksTypedNext
  <1>9. Lost' \subseteq Lost
    <2>1. Items' = Items /\ Chains({}) = {}
      BY <1>2 DEF Items, Chains
    <2>2. \A v \in Vec : mem'[v].use # "free" =>
           /\ v \notin Chains({}) /\ (v \in {cli.co} \cup Items => v \in {cli'.co} \cup Items')
           /\ mem[v].use = "free" => v \in Owned'
      BY <1>1, <1>3, <1>4, <1>8, <2>1, NullIsNoPlace, OwnedIsNext DEF OwnedByHeads
    <2>3. \A b \in AllHeads \ {} : Chain(b) \subseteq Chain(b)'
      BY <1>4, <1>8
    <2>4. AllHeads \ {} \subseteq AllHeads'
      BY <1>1
    <2> QED
      BY <1>3, <1>8, <2>2, <2>3, <2>4, NoneLost
  <1> QED
    BY <1>4, <1>7, <1>8, <1>9 DEF StepKeeps, ChainsKept

LEMMA PreloadNewStep ==
  ASSUME OwnersInv, PreloadNew
  PROVE  StepKeeps /\ Hunks' = Hunks
  <1> DEFINE e == [name |-> cli.preload, module |-> ld.list, item |-> Place]
  <1>1. LoadHeads \subseteq Vec /\ Shape /\ Memory /\ MemTyped
    BY ItemsApart DEF OwnersInv, Memory, HeadsFirst, AllHeads, Hunks
  <1>2. /\ Shape' /\ AllHeads' = AllHeads /\ e \in PreloadRec
        /\ Len(preloads') = Len(preloads) + 1 /\ Len(preloads) \in Nat /\ preloads'[1] = e
        /\ \A i \in 2 .. Len(preloads) + 1 :
             preloads'[i] = preloads[i-1] /\ i-1 \in 1 .. Len(preloads)
        /\ ld'.on = "off" /\ gl'.on = "off"
    BY <1>1, PreloadNewShape
  <1>3. /\ Places # {} /\ mem' = [mem EXCEPT ![Place] = [use |-> "item"]]
        /\ UNCHANGED <<twice, cli>> /\ PreloadDone
    BY DEF PreloadNew
  <1>4. /\ MemOK' /\ LinksGood' /\ HeadsFirst' /\ TailKnown' /\ GlobinAt' /\ Hunks' = Hunks
        /\ mem'[Place] = [use |-> "item"] /\ \A v \in Vec \ {Place} : mem'[v] = mem[v]
        /\ \A a \in Vec \cup {Null} : Chain(a)' = Chain(a)
    BY <1>1, <1>2, <1>3, MemoryTaken
  <1>5. Place \in Vec /\ mem[Place].use = "free"
    BY <1>3, PlaceIsFree
  <1>6. frames # <<>>
    BY <1>1, <1>3, PreloadDoneFrames, EmptySeq
  <1>7. e.item = Place
    OBVIOUS
  <1> HIDE DEF e
  <1>8. \A i \in 1 .. Len(preloads') : i = 1 \/ i \in 2 .. Len(preloads) + 1
    BY <1>2
  <1>9. \A i \in 1 .. Len(preloads) : preloads[i].item \in Vec /\ mem[preloads[i].item].use = "item"
                                      /\ preloads[i].item # Place
    BY <1>5, ItemsApart DEF Items
  <1>10. OthersKept'
    <2>1. \A i \in 1 .. Len(preloads') : mem'[preloads'[i].item].use = "item"
      <3> SUFFICES ASSUME NEW i \in 1 .. Len(preloads') PROVE mem'[preloads'[i].item].use = "item"
        OBVIOUS
      <3>1. CASE i = 1
        BY <1>2, <1>4, <1>7, <3>1
      <3>2. CASE i \in 2 .. Len(preloads) + 1
        BY <1>2, <1>4, <1>9, <3>2
      <3> QED
        BY <1>8, <3>1, <3>2
    <2>2. \A i, j \in 1 .. Len(preloads') : preloads'[i].item = preloads'[j].item => i = j
      <3>1. \A i \in 2 .. Len(preloads) + 1 : preloads'[i].item # Place
        BY <1>2, <1>9
      <3>2. \A i, j \in 2 .. Len(preloads) + 1 : preloads'[i].item = preloads'[j].item => i - 1 = j - 1
        BY <1>2, ItemsApart
      <3>3. \A i, j \in 2 .. Len(preloads) + 1 : i - 1 = j - 1 => i = j
        BY <1>2
      <3> QED
        BY <1>2, <1>7, <1>8, <3>1, <3>2, <3>3
    <2> QED
      BY <1>3, <1>4, <1>5, <1>6, <2>1, <2>2, ItemsApart DEF OthersKept
  <1>11. OwnersInv'
    BY <1>1, <1>2, <1>3, <1>4, <1>10 DEF OwnersInv, Memory
  <1>12. AllHeads \subseteq Vec /\ MemTyped'
    BY <1>11, LinksTyped, LinksTypedNext
  <1>13. Lost' \subseteq Lost
    <2>1. Place \in Items'
      <3>1. 1 \in 1 .. Len(preloads')
        BY <1>2
      <3> QED
        BY <1>2, <1>7, <3>1 DEF Items
    <2>2. Items \subseteq Items'
      <3>1. \A i \in 1 .. Len(preloads) : i + 1 \in 2 .. Len(preloads) + 1 /\ (i+1)-1 = i
                                          /\ i + 1 \in 1 .. Len(preloads')
        BY <1>2
      <3>2. \A i \in 1 .. Len(preloads) : preloads'[i + 1] = preloads[i]
        BY <1>2, <3>1
      <3> QED
        BY <3>1, <3>2 DEF Items
    <2>3. Chains({}) = {}
      BY DEF Chains
    <2>4. \A v \in Vec : mem'[v].use # "free" =>
           /\ v \notin Chains({}) /\ (v \in {cli.co} \cup Items => v \in {cli'.co} \cup Items')
           /\ mem[v].use = "free" => v \in Owned'
      BY <1>3, <1>4, <1>12, <2>1, <2>2, <2>3, OwnedIsNext DEF OwnedByHeads
    <2>5. \A b \in AllHeads \ {} : Chain(b) \subseteq Chain(b)'
      BY <1>4, <1>12
    <2>6. AllHeads \ {} \subseteq AllHeads'
      BY <1>2
    <2> QED
      BY <1>1, <1>12, <2>4, <2>5, <2>6, NoneLost
  <1> QED
    BY <1>4, <1>11, <1>12, <1>13 DEF StepKeeps, ChainsKept

-----------------------------------------------------------------------------
(* The steps of the loader.                                                *)
LEMMA Reads1 ==
  ASSUME OwnersInv, ld.on = "reading", ld.todo # <<>>
  PROVE  Record1 \in Record /\ Tail(ld.todo) \in Seq(Record)
  <1>1. ld.todo \in Seq(Record)
    BY DEF OwnersInv, Shape, Typed, LdRec
  <1> QED
    BY <1>1, HeadTailProperties DEF Record1

LEMMA LoadEofStep ==
  ASSUME OwnersInv, LoadEof \/ LoadEnd,
         UNCHANGED <<disc, gl, glob, stale, cli, frames, preloads, failed>>
  PROVE  StepKeeps /\ Hunks' = Hunks
  <1>1. ld.on = "reading" /\ UNCHANGED <<mem, twice>>
    BY DEF LoadEof, LoadEnd, Reads
  <1>2. /\ ld \in LdRec /\ ld.name \in Name /\ disc \in Disc
    BY <1>1 DEF OwnersInv, Shape, Typed
  <1>3. CASE LoadEof
    <2>1. ld.list \in Vec \cup {Null} /\ Ends(ld.list)
      BY <1>2, <1>3 DEF LdRec, LoadEof
    <2>2. /\ ld' \in LdRec /\ ld'.on \in {"reading", "done"} /\ ld'.list = ld.list
          /\ ld'.on = "reading" => /\ ld'.name \in Name
                                  /\ ld'.list = Null /\ ld'.liste = Null
      BY <1>2, <2>1, LoaderEnds
    <2>3. Shape' /\ AllHeads' = AllHeads
      BY <1>1, <2>2, LoadingShape DEF OwnersInv, AllHeads, LoadHeads
    <2>4. TailKnown' /\ GlobinAt'
      BY <1>1, <2>2 DEF TailKnown, GlobinAt, OwnersInv, Shape, Control
    <2> QED
      BY <1>1, <2>3, <2>4, QuietStep DEF StepKeeps
  <1>4. CASE LoadEnd
    <2>1. ld' = [ld EXCEPT !.todo = Tail(ld.todo)] /\ Tail(ld.todo) \in Seq(Record)
      BY <1>1, <1>4, Reads1 DEF LoadEnd, Reads
    <2>2. /\ ld' \in LdRec /\ ld'.on = "reading" /\ ld'.list = ld.list /\ ld'.liste = ld.liste
          /\ ld'.name = ld.name
      BY <1>1, <1>2, <2>1 DEF LdRec
    <2>3. Shape' /\ AllHeads' = AllHeads
      BY <1>1, <1>2, <2>2, LoadingShape DEF OwnersInv, AllHeads, LoadHeads
    <2>4. GlobinAt'
      BY <1>1 DEF GlobinAt, OwnersInv, Shape, Control
    <2>5. ld.list \in Vec \cup {Null} /\ MemOK /\ Memory /\ AllHeads' \subseteq AllHeads
      BY <1>2, <2>3 DEF LdRec, OwnersInv, Memory
    <2>6. Hunks' = Hunks /\ Chain(ld.list)' = Chain(ld.list)
      <3>1. Hunks' = Hunks /\ \A a \in Vec \cup {Null} : Chain(a)' = Chain(a)
        BY <1>1, <2>5, MemorySame
      <3>2. ASSUME NEW a, a = ld'.list PROVE Chain(ld.list)' = Chain(a)'
        BY <3>2
      <3> QED
        BY <2>2, <2>5, <3>1
    <2>7. TailKnown'
      BY <1>1, <2>2, <2>5, <2>6 DEF TailKnown, Memory
    <2> QED
      BY <1>1, <2>3, <2>4, <2>7, QuietStep DEF StepKeeps
  <1> QED
    BY <1>3, <1>4

LEMMA LoadErrStep ==
  ASSUME OwnersInv, LoadErr,
         UNCHANGED <<disc, gl, glob, stale, cli, frames, preloads, failed>>
  PROVE  StepKeeps /\ Hunks' = Hunks \ Chains(LoadHeads)
  <1>1. ld.on = "reading" /\ Freevecs(Chain(ld.list)) /\ Ends(Null)
    BY DEF LoadErr, Reads
  <1>2. /\ ld \in LdRec /\ ld.name \in Name /\ disc \in Disc
    BY <1>1 DEF OwnersInv, Shape, Typed
  <1>3. /\ ld' \in LdRec /\ ld'.on \in {"reading", "done"} /\ ld'.list = Null
        /\ ld'.on = "reading" => /\ ld'.name \in Name
                                /\ ld'.list = Null /\ ld'.liste = Null
    BY <1>1, <1>2, LoaderEnds
  <1>4. /\ Shape' /\ AllHeads' = AllHeads \ LoadHeads
        /\ gl'.on = "off" /\ Items' = Items /\ cli'.co = cli.co
    BY <1>1, <1>3, LoadingShape DEF OwnersInv
  <1>5. Freevecs(Chains(LoadHeads))
    <2>1. Chains(LoadHeads) = Chain(ld.list)
      BY ChainsOne, ItemsApart DEF LoadHeads
    <2> QED
      BY <1>1, <2>1
  <1>6. LoadHeads \in SUBSET AllHeads /\ AllHeads \ LoadHeads \subseteq AllHeads'
    BY <1>4 DEF AllHeads
  <1>7. \A i, j \in 1 .. Len(preloads') : preloads'[i].item = preloads'[j].item => i = j
    BY ItemsApart
  <1> QED
    BY <1>3, <1>4, <1>5, <1>6, <1>7, FreeingSegments DEF StepKeeps

LEMMA HunkMade ==
  ASSUME OwnersInv, ld.on = "reading", ld.todo # <<>>
  PROVE  /\ Hunk(Record1) \in [use : {"hunk"}, next : Vec \cup {Null}, of : Record]
         /\ Hunk(Record1).next = Null
  BY Reads1 DEF Hunk

(* A binary hunk that is cut stays, without an owner.                      *)
LEMMA LoadCutStep ==
  ASSUME OwnersInv, LoadCut,
         UNCHANGED <<disc, gl, glob, stale, cli, frames, preloads, failed>>
  PROVE  OwnersInv' /\ ChainsKept /\ Hunks \ Chains(LoadHeads) \subseteq Hunks'
  <1> DEFINE X == Chains(LoadHeads)
  <1>1. /\ ld.on = "reading" /\ ld.todo # <<>> /\ Places # {} /\ Ends(Null)
        /\ mem' = [v \in Vec |-> IF v \in Chain(ld.list) THEN Free
                                 ELSE IF v = Place THEN Hunk(Record1) ELSE mem[v]]
        /\ twice' = (twice \/ \E v \in Chain(ld.list) : mem[v].use = "free")
    BY DEF LoadCut, Reads
  <1>2. /\ ld \in LdRec /\ ld.name \in Name /\ disc \in Disc
    BY <1>1 DEF OwnersInv, Shape, Typed
  <1>3. /\ ld' \in LdRec /\ ld'.on \in {"reading", "done"} /\ ld'.list = Null
        /\ ld'.on = "reading" => /\ ld'.name \in Name
                                /\ ld'.list = Null /\ ld'.liste = Null
    BY <1>1, <1>2, LoaderEnds
  <1>4. /\ Shape' /\ AllHeads' = AllHeads \ LoadHeads
        /\ gl'.on = "off" /\ Items' = Items /\ cli'.co = cli.co
    BY <1>1, <1>3, LoadingShape DEF OwnersInv
  <1>5. Chain(ld.list) = X
    BY ChainsOne, ItemsApart DEF LoadHeads
  <1>6. Memory /\ MemOK /\ LinksGood /\ LoadHeads \in SUBSET AllHeads /\ AllHeads \subseteq Hunks
    BY DEF OwnersInv, Memory, HeadsFirst, AllHeads
  <1>7. X \subseteq Hunks /\ Hunks \subseteq Vec
    BY <1>6, ChainOfHunks DEF Hunks, Chains
  <1> HIDE DEF X
  <1>8. /\ Place \in Vec /\ mem[Place].use = "free" /\ Place \notin Hunks
        /\ Hunk(Record1) \in [use : {"hunk"}, next : Vec \cup {Null}, of : Record]
        /\ Hunk(Record1).next = Null
    BY <1>1, PlaceIsFree, HunkMade
  <1>9. MemOK'
    BY <1>1, <1>6, <1>8 DEF MemOK
  <1>10. /\ \A v \in X : mem'[v] = Free
         /\ \A v \in Hunks \ X : mem'[v] = mem[v]
         /\ \A v \in Vec \ Hunks : v # Place => mem'[v] = mem[v]
         /\ \A v \in Vec \ Hunks : mem'[v].use = "hunk" => mem'[v].next = Null
    BY <1>1, <1>5, <1>7, <1>8 DEF Hunks
  <1>11. /\ LinksGood' /\ HeadsFirst' /\ TailKnown' /\ GlobinAt'
         /\ Hunks \ X \subseteq Hunks'
         /\ \A b \in AllHeads \ LoadHeads : Chain(b)' = Chain(b)
    BY <1>3, <1>4, <1>6, <1>9, <1>10, MemoryFreed DEF X
  <1>12. ~twice'
    BY <1>1, <1>5, <1>6, <1>7 DEF Memory, Hunks
  <1>13. OthersKept'
    <2>1. \A i \in 1 .. Len(preloads) : preloads[i].item \in Vec /\ mem[preloads[i].item].use = "item"
      BY ItemsApart DEF Items
    <2>2. \A v \in Vec : mem[v].use \in {"item", "stack"} => mem'[v] = mem[v]
      BY <1>8, <1>10 DEF Hunks
    <2> QED
      BY <2>1, <2>2, ItemsApart DEF OthersKept
  <1>14. ChainsKept
    BY <1>4, <1>11 DEF ChainsKept
  <1> QED
    BY <1>4, <1>9, <1>11, <1>12, <1>13, <1>14 DEF OwnersInv, Memory, X

(* A free vector becomes a hunk: the first of a segment, or the next.      *)
LEMMA MemoryFirstHunk ==
  ASSUME Memory, NEW p \in Vec \ Hunks, AllHeads' \subseteq AllHeads \cup {p},
         mem'[p].use = "hunk", mem'[p].next = Null, \A v \in Vec \ {p} : mem'[v] = mem[v]
  PROVE  /\ LinksGood' /\ HeadsFirst' /\ Hunks' = Hunks \cup {p} /\ p \in Chain(p)'
         /\ \A b \in AllHeads : Chain(b)' = Chain(b)
  <1>1. LinksGood /\ AllHeads \subseteq Hunks /\ \A a \in AllHeads : NoneLeadsTo(a)
    BY DEF Memory, HeadsFirst, NoneLeadsTo
  <1> DEFINE A == {}
             X == Chains(A)
  <1>2. X = {} /\ A \in SUBSET Hunks /\ \A b : b \notin A
    BY DEF Chains
  <1> HIDE DEF A, X
  <1>3. /\ \A a \in A : NoneLeadsTo(a)
        /\ \A v \in X : mem'[v] = Free
        /\ \A v \in Hunks \ X : mem'[v] = mem[v]
        /\ \A v \in Vec \ Hunks : mem'[v].use = "hunk" => mem'[v].next = Null
    BY <1>2 DEF Hunks
  <1>4. /\ LinksGood'
        /\ \A b \in Hunks \ A : NoneLeadsTo(b) =>
             /\ b \in Hunks' /\ NoneLeadsTo(b)'
             /\ Chain(b) \cap X = {} /\ Chain(b)' = Chain(b)
        /\ \A b \in Vec \ Hunks : NoneLeadsTo(b)'
    BY <1>1, <1>2, <1>3, SegmentsFreed DEF X
  <1>5. Hunks' = Hunks \cup {p}
    BY DEF Hunks
  <1>6. HeadsFirst'
    BY <1>1, <1>2, <1>4, <1>5 DEF HeadsFirst, NoneLeadsTo
  <1>7. MemTyped' /\ p # Null
    BY <1>4, NullIsNoPlace DEF LinksGood, MemTyped, Hunks
  <1>8. p \in Chain(p)'
    BY <1>7, ChainLawsNext DEF ChainFacts
  <1> QED
    BY <1>1, <1>2, <1>4, <1>5, <1>6, <1>8

LEMMA MemoryNextHunk ==
  ASSUME Memory, NEW p \in Vec \ Hunks, NEW a \in AllHeads, AllHeads' \subseteq AllHeads,
         NEW z \in Chain(a) \cap Hunks, mem[z].next = Null,
         mem'[p].use = "hunk", mem'[p].next = Null,
         mem'[z].use = "hunk", mem'[z].next = p,
         \A v \in Vec \ {p, z} : mem'[v] = mem[v]
  PROVE  /\ LinksGood' /\ HeadsFirst' /\ Hunks' = Hunks \cup {p} /\ p \in Chain(a)'
         /\ \A b \in AllHeads : Chain(b) \subseteq Chain(b)'
         /\ \A b \in AllHeads \ {a} : Chain(b)' = Chain(b)
  <1>1. LinksGood /\ AllHeads \subseteq Hunks /\ \A b \in AllHeads : NoneLeadsTo(b)
    BY DEF Memory, HeadsFirst, NoneLeadsTo
  <1>2. /\ LinksGood' /\ Hunks' = Hunks \cup {p}
        /\ \A b \in Hunks \ {a} : NoneLeadsTo(b) => NoneLeadsTo(b)' /\ Chain(b)' = Chain(b)
        /\ NoneLeadsTo(a)' /\ Chain(a)' = Chain(a) \cup {p}
    BY <1>1, HunkAdded
  <1>3. \A b \in AllHeads : NoneLeadsTo(b)'
    BY <1>1, <1>2
  <1>4. HeadsFirst'
    BY <1>1, <1>2, <1>3 DEF HeadsFirst, NoneLeadsTo
  <1>5. \A b \in AllHeads \ {a} : Chain(b)' = Chain(b)
    BY <1>1, <1>2
  <1>6. \A b \in AllHeads : Chain(b) \subseteq Chain(b)'
    BY <1>2, <1>5
  <1> QED
    BY <1>2, <1>4, <1>5, <1>6

LEMMA LoadHunkStep ==
  ASSUME OwnersInv, LoadHunk,
         UNCHANGED <<disc, gl, glob, stale, cli, frames, preloads, failed>>
  PROVE  /\ OwnersInv' /\ Hunks \subseteq Hunks' /\ Lost' \subseteq Lost
         /\ \A b \in AllHeads \ LoadHeads : Chain(b)' = Chain(b)
  <1>1. /\ ld.on = "reading" /\ ld.todo # <<>> /\ Places # {} /\ UNCHANGED twice
        /\ ld' = [ld EXCEPT !.todo = Tail(ld.todo), !.liste = Place,
                            !.list = IF ld.list = Null THEN Place ELSE ld.list]
        /\ mem' = [v \in Vec |-> IF v = Place THEN Hunk(Record1)
                                 ELSE IF v = ld.liste THEN [mem[v] EXCEPT !.next = Place]
                                 ELSE mem[v]]
    BY DEF LoadHunk, Reads
  <1>2. /\ ld \in LdRec /\ ld.name \in Name /\ Memory /\ MemOK /\ Shape
        /\ Tail(ld.todo) \in Seq(Record)
    BY <1>1, Reads1 DEF OwnersInv, Shape, Typed, Memory
  <1>3. /\ Place \in Vec \ Hunks /\ Place # Null /\ mem[Place].use = "free"
        /\ Hunk(Record1) \in [use : {"hunk"}, next : Vec \cup {Null}, of : Record]
        /\ Hunk(Record1).use = "hunk" /\ Hunk(Record1).next = Null
    BY <1>1, PlaceIsFree, HunkMade, NullIsNoPlace
  <1>4. /\ ld' \in LdRec /\ ld'.on = "reading" /\ ld'.name \in Name /\ ld'.liste = Place
        /\ ld'.list = IF ld.list = Null THEN Place ELSE ld.list
    BY <1>1, <1>2, <1>3 DEF LdRec
  <1>5. AllHeads \subseteq Hunks /\ LoadHeads = {ld.list} \ {Null} /\ LoadHeads \subseteq AllHeads
    BY <1>2 DEF Memory, HeadsFirst, LoadHeads, AllHeads
  <1>6. /\ Shape' /\ AllHeads' = (AllHeads \ LoadHeads) \cup ({ld'.list} \ {Null})
        /\ gl'.on = "off" /\ Items' = Items /\ cli'.co = cli.co
    BY <1>1, <1>2, <1>3, <1>4, <1>5, LoadingShape
  <1>7. /\ mem'[Place] = Hunk(Record1)
        /\ \A v \in Vec \ {Place, ld.liste} : mem'[v] = mem[v]
    BY <1>1, <1>3
  <1> DEFINE H == [use : {"hunk"}, next : Vec \cup {Null}, of : Record]
  <1>8. ld.liste # Null =>
          /\ ld.list # Null /\ ld.list \in AllHeads /\ ld.liste \in Chain(ld.list) \cap Hunks
          /\ mem[ld.liste].next = Null /\ ld.liste # Place
          /\ mem'[ld.liste] = [mem[ld.liste] EXCEPT !.next = Place]
    BY <1>1, <1>2, <1>3, <1>5 DEF Memory, TailKnown, Hunks
  <1>9. ld.liste = Null <=> ld.list = Null
    BY <1>1, <1>2 DEF Memory, TailKnown
  <1>10. ld.liste # Null =>
           /\ mem'[ld.liste] \in H /\ mem'[ld.liste].use = "hunk" /\ mem'[ld.liste].next = Place
    <2> SUFFICES ASSUME ld.liste # Null
                 PROVE  /\ mem'[ld.liste] \in H /\ mem'[ld.liste].use = "hunk"
                        /\ mem'[ld.liste].next = Place
      OBVIOUS
    <2> DEFINE h == mem[ld.liste]
    <2>1. ld.liste \in Vec /\ h.use = "hunk"
      BY <1>8 DEF Hunks
    <2>2. h \in H
      BY <1>2, <2>1 DEF MemOK, Free
    <2>3. mem'[ld.liste] = [h EXCEPT !.next = Place] /\ Place \in Vec
      BY <1>3, <1>8
    <2> HIDE DEF h
    <2>4. [h EXCEPT !.next = Place] \in H /\ [h EXCEPT !.next = Place].use = h.use
          /\ [h EXCEPT !.next = Place].next = Place
      BY <2>2, <2>3
    <2> QED
      BY <2>1, <2>3, <2>4 DEF h
  <1>11. MemOK'
    <2>1. DOMAIN mem' = Vec /\ mem' = [v \in Vec |-> mem'[v]]
      BY <1>1
    <2>2. \A v \in Vec : \/ v = Place \/ (v = ld.liste /\ ld.liste # Null) \/ v \in Vec \ {Place, ld.liste}
      BY NullIsNoPlace
    <2>3. \A v \in Vec : mem'[v] \in {Free, [use |-> "stack"], [use |-> "item"]} \cup H
      <3> SUFFICES ASSUME NEW v \in Vec
                   PROVE  mem'[v] \in {Free, [use |-> "stack"], [use |-> "item"]} \cup H
        OBVIOUS
      <3>1. CASE v = Place
        BY <1>3, <1>7, <3>1
      <3>2. CASE v = ld.liste /\ ld.liste # Null
        BY <1>10, <3>2
      <3>3. CASE v \in Vec \ {Place, ld.liste}
        BY <1>2, <1>7, <3>3 DEF MemOK
      <3> QED
        BY <2>2, <3>1, <3>2, <3>3
    <2> HIDE DEF H
    <2> QED
      BY <2>1, <2>3 DEF MemOK, H
  <1> HIDE DEF H
  <1>12. mem'[Place].use = "hunk" /\ mem'[Place].next = Null
    BY <1>3, <1>7
  <1>13. /\ LinksGood' /\ HeadsFirst' /\ Hunks' = Hunks \cup {Place}
         /\ \A b \in AllHeads : Chain(b) \subseteq Chain(b)'
         /\ \A b \in AllHeads \ LoadHeads : Chain(b)' = Chain(b)
         /\ Place \in Chain(ld.list)'
    <2>1. CASE ld.list = Null
      <3>1. LoadHeads = {} /\ ld'.list = Place
        BY <1>4, <1>5, <2>1
      <3>2. AllHeads' \subseteq AllHeads \cup {Place}
        BY <1>6, <3>1
      <3>3. \A v \in Vec \ {Place} : mem'[v] = mem[v]
        BY <1>7, <1>9, <2>1, NullIsNoPlace
      <3>4. ASSUME NEW p, p = Place
            PROVE  /\ LinksGood' /\ HeadsFirst' /\ Hunks' = Hunks \cup {p} /\ p \in Chain(p)'
                   /\ \A b \in AllHeads : Chain(b)' = Chain(b)
        BY <1>2, <1>3, <1>12, <3>2, <3>3, <3>4, MemoryFirstHunk
      <3>5. ASSUME NEW p, p = Place
            PROVE  p \in Chain(ld.list)'
        BY <3>1, <3>4, <3>5
      <3> QED
        BY <3>1, <3>4, <3>5
    <2>2. CASE ld.list # Null
      <3>1. ld'.list = ld.list /\ ld.list \in AllHeads /\ LoadHeads = {ld.list}
        BY <1>4, <1>5, <1>8, <1>9, <2>2
      <3>2. AllHeads' \subseteq AllHeads
        BY <1>6, <3>1
      <3>3. ASSUME NEW p, p = Place, NEW a, a = ld.list, NEW z, z = ld.liste
            PROVE  /\ LinksGood' /\ HeadsFirst' /\ Hunks' = Hunks \cup {p} /\ p \in Chain(a)'
                   /\ \A b \in AllHeads : Chain(b) \subseteq Chain(b)'
                   /\ \A b \in AllHeads \ {a} : Chain(b)' = Chain(b)
        BY <1>2, <1>3, <1>7, <1>8, <1>9, <1>10, <1>12, <2>2, <3>1, <3>2, <3>3, MemoryNextHunk
      <3>4. ASSUME NEW p, p = Place
            PROVE  p \in Chain(ld.list)'
        BY <3>1, <3>3, <3>4
      <3> QED
        BY <3>1, <3>3, <3>4
    <2> QED
      BY <2>1, <2>2
  <1>14. TailKnown'
    BY <1>3, <1>4, <1>12, <1>13 DEF TailKnown
  <1>15. GlobinAt'
    BY <1>6, GlobinOff
  <1>16. OthersKept'
    <2>1. \A v \in Vec : mem[v].use \in {"item", "stack"} => mem'[v] = mem[v]
      BY <1>3, <1>7, <1>8, NullIsNoPlace DEF Hunks
    <2>2. \A i \in 1 .. Len(preloads) : preloads[i].item \in Vec /\ mem[preloads[i].item].use = "item"
      BY ItemsApart DEF Items
    <2> QED
      BY <2>1, <2>2, ItemsApart DEF OthersKept
  <1>17. OwnersInv'
    BY <1>1, <1>2, <1>6, <1>11, <1>13, <1>14, <1>15, <1>16 DEF OwnersInv, Memory
  <1>18. Lost' \subseteq Lost
    <2>1. MemTyped /\ MemTyped' /\ Chains({}) = {}
      BY <1>17, LinksTyped, LinksTypedNext DEF Chains
    <2>2. ld'.list \in AllHeads' /\ AllHeads \subseteq AllHeads'
      BY <1>3, <1>4, <1>5, <1>6
    <2>3. Place \in Owned'
      BY <1>13, <2>1, <2>2, OwnedIsNext DEF OwnedByHeads, Chains
    <2>4. \A v \in Vec : mem'[v].use # "free" =>
           /\ v \notin Chains({}) /\ (v \in {cli.co} \cup Items => v \in {cli'.co} \cup Items')
           /\ mem[v].use = "free" => v \in Owned'
      BY <1>6, <1>7, <1>8, <2>1, <2>3, NullIsNoPlace DEF Hunks
    <2>5. \A b \in AllHeads \ {} : Chain(b) \subseteq Chain(b)'
      BY <1>13
    <2>6. AllHeads \ {} \subseteq AllHeads'
      BY <2>2
    <2> QED
      BY <2>1, <2>4, <2>5, <2>6, NoneLost
  <1> QED
    BY <1>13, <1>17, <1>18

-----------------------------------------------------------------------------
(* The invariant holds at the beginning and is kept by every step.         *)
LEMMA OwnersAtFirst == Init => OwnersInv
  <1> SUFFICES ASSUME Init PROVE OwnersInv
    OBVIOUS
  <1>1. /\ mem = [v \in Vec |-> Free] /\ disc \in Disc /\ ld = Resting /\ gl = NoGlobin
        /\ glob = [g \in Global |-> IF g \in Library \cup {Start} THEN InLibrary ELSE Unset]
        /\ stale = {} /\ twice = FALSE
        /\ cli = Prompt /\ frames = <<>> /\ preloads = <<>> /\ failed = FALSE
    BY DEF Init, InitSegments
  <1>2. /\ ld \in LdRec /\ ld.on = "off" /\ ld.list = Null /\ gl \in GlRec /\ gl.on = "off"
        /\ cli \in CliRec /\ cli.pc = "prompt" /\ cli.module = Null /\ ~cli.found
        /\ cli.co = Null
    BY <1>1, RestingTyped, PromptTyped DEF Prompt, Resting, NoGlobin
  <1>3. /\ frames \in Seq(FrameRec) /\ Len(frames) = 0 /\ preloads \in Seq(PreloadRec)
        /\ Len(preloads) = 0 /\ 1 .. Len(frames) = {} /\ 1 .. Len(preloads) = {}
    BY <1>1, EmptySeq
  <1>4. Typed
    <2>1. Len(frames) <= MaxCalls + 1
      BY <1>3, CliAssumption DEF CliAssumption
    <2>2. glob \in [Global -> Code] /\ stale \subseteq Global
      BY <1>1 DEF Code
    <2>3. failed \in BOOLEAN
      BY <1>1, Zenon
    <2>4. frames \in Seq(FrameRec) /\ preloads \in Seq(PreloadRec)
      BY <1>3
    <2> QED
      BY <1>1, <1>2, <2>1, <2>2, <2>3, <2>4 DEF Typed
  <1>5. Control
    BY <1>1, <1>2, <1>3 DEF Control
  <1>6. AllHeads = {} /\ PreloadHeads = {} /\ FrameHeads = {} /\ CliHeads = {} /\ LoadHeads = {}
    BY <1>2, <1>3 DEF AllHeads, PreloadHeads, FrameHeads, CliHeads, LoadHeads
  <1>7. HeadsApart
    BY <1>3, <1>6 DEF HeadsApart
  <1>8. Hunks = {} /\ MemOK
    BY <1>1 DEF Hunks, MemOK, Free
  <1>9. LinksGood /\ HeadsFirst /\ OthersKept /\ TailKnown /\ GlobinAt
    BY <1>1, <1>2, <1>3, <1>6, <1>8
       DEF LinksGood, HeadsFirst, OthersKept, TailKnown, GlobinAt
  <1> QED
    BY <1>1, <1>4, <1>5, <1>7, <1>8, <1>9 DEF OwnersInv, Shape, Memory

LEMMA OwnersKept ==
  ASSUME OwnersInv, Next
  PROVE  /\ OwnersInv'
         /\ Lost' \subseteq Lost \/ LoadCut \/ CallsegFails \/ PreloadNoItem \/ Stop
  <1>1. CASE \E n \in Name : \/ Command(n) \/ PreloadedCommand(n) \/ Callseg(n)
                             \/ Preload(n) \/ Unpreload(n)
    <2> PICK n \in Name : \/ Command(n) \/ PreloadedCommand(n) \/ Callseg(n)
                          \/ Preload(n) \/ Unpreload(n)
      BY <1>1
    <2>1. CASE Command(n)
      BY <2>1, CommandStep DEF StepKeeps
    <2>2. CASE PreloadedCommand(n)
      BY <2>2, PreloadedCommandStep DEF StepKeeps
    <2>3. CASE Callseg(n) \/ Preload(n)
      BY <2>3, CallsegStep DEF StepKeeps
    <2>4. CASE Unpreload(n)
      BY <2>4, UnpreloadStep DEF StepKeeps
    <2> QED
      BY <2>1, <2>2, <2>3, <2>4
  <1>2. CASE Steps
    <2>1. UNCHANGED <<cli, frames, preloads, failed>>
      BY <1>2 DEF Steps
    <2>2. CASE SettingGlobals
      BY <2>1, <2>2, GlobinStep DEF StepKeeps
    <2>3. CASE Loading
      <3>1. UNCHANGED <<disc, gl, glob, stale>>
        BY <2>3 DEF Loading
      <3>2. CASE LoadEof \/ LoadEnd
        BY <2>1, <3>1, <3>2, LoadEofStep DEF StepKeeps
      <3>3. CASE LoadErr
        BY <2>1, <3>1, <3>3, LoadErrStep DEF StepKeeps
      <3>4. CASE LoadHunk
        BY <2>1, <3>1, <3>4, LoadHunkStep
      <3>5. CASE LoadCut
        BY <2>1, <3>1, <3>5, LoadCutStep
      <3> QED
        BY <2>3, <3>2, <3>3, <3>4, <3>5 DEF Loading
    <2> QED
      BY <1>2, <2>2, <2>3 DEF Steps
  <1>3. CASE CommandLoaded
    BY <1>3, CommandLoadedStep DEF StepKeeps
  <1>4. CASE CommandFails
    BY <1>4, CommandFailsStep DEF StepKeeps
  <1>5. CASE CommandStarts
    BY <1>5, CommandStartsStep DEF StepKeeps
  <1>6. CASE Return
    BY <1>6, CommandEndsStep DEF Return
  <1>7. CASE Stop
    BY <1>7, CommandEndsStep DEF Stop
  <1>8. CASE CallsegLoaded
    BY <1>8, CallsegLoadedStep DEF StepKeeps
  <1>9. CASE CallsegCalls
    BY <1>9, CallsegCallsStep DEF StepKeeps
  <1>10. CASE CallsegFails
    BY <1>10, CallsegFailsStep
  <1>11. CASE CallsegReturns
    BY <1>11, CallsegReturnsStep DEF StepKeeps
  <1>12. CASE Preloads
    <2>1. CASE PreloadFails \/ PreloadNoItem
      BY <2>1, PreloadDropsStep
    <2>2. CASE PreloadReplaces
      BY <2>2, PreloadReplacesStep DEF StepKeeps
    <2>3. CASE PreloadNew
      BY <2>3, PreloadNewStep DEF StepKeeps
    <2> QED
      BY <1>12, <2>1, <2>2, <2>3 DEF Preloads
  <1>13. CASE UnpreloadAll
    BY <1>13, UnpreloadAllStep DEF StepKeeps
  <1> QED
    BY <1>1, <1>2, <1>3, <1>4, <1>5, <1>6, <1>7, <1>8, <1>9, <1>10, <1>11, <1>12, <1>13
       DEF Next

LEMMA OwnersSame ==
  ASSUME OwnersInv, UNCHANGED vars
  PROVE  OwnersInv' /\ Lost' = Lost
  <1>1. UNCHANGED <<mem, disc, ld, gl, glob, stale, twice, cli, frames, preloads, failed>>
    BY DEF vars
  <1>2. Shape' /\ AllHeads' = AllHeads
    <2>1. Typed' /\ Control'
      BY <1>1 DEF OwnersInv, Shape, Typed, Control, Top
    <2>2. /\ PreloadHeads' = PreloadHeads /\ FrameHeads' = FrameHeads
          /\ CliHeads' = CliHeads /\ LoadHeads' = LoadHeads
      BY <1>1 DEF PreloadHeads, FrameHeads, CliHeads, LoadHeads
    <2> QED
      BY <1>1, <2>1, <2>2 DEF OwnersInv, Shape, HeadsApart, AllHeads
  <1>3. TailKnown' /\ GlobinAt'
    <2>1. Hunks' = Hunks
      BY <1>1 DEF Hunks
    <2>2. Chain(ld.list)' = Chain(ld.list)
      <3>1. mem' = mem /\ ld' = ld
        BY <1>1
      <3>2. \A a \in Vec \cup {Null} : Chain(a)' = Chain(a)
        BY <1>1, <1>2, MemorySame DEF OwnersInv, Memory
      <3>3. ASSUME NEW a, a = ld.list PROVE Chain(ld.list)' = Chain(a)'
        BY <3>1, <3>3
      <3>4. ld.list \in Vec \cup {Null}
        BY DEF OwnersInv, Shape, Typed, LdRec
      <3> QED
        BY <3>2, <3>3, <3>4
    <2> QED
      BY <1>1, <2>1, <2>2 DEF OwnersInv, Memory, TailKnown, GlobinAt
  <1>4. OwnersInv'
    BY <1>1, <1>2, <1>3, QuietStep
  <1>5. Lost' = Lost
    BY <1>1 DEF Lost, Owned, Heads, Chain, Met, Link
  <1> QED
    BY <1>4, <1>5

LEMMA FreevecsTyped ==
  ASSUME NEW V, Freevecs(V)
  PROVE  twice' \in BOOLEAN
  <1>1. twice' = (twice \/ \E v \in V : mem[v].use = "free")
    BY DEF Freevecs
  <1> QED
    BY <1>1, Zenon

LEMMA TwiceTyped == Next => twice' \in BOOLEAN \/ twice' = twice
  <1> SUFFICES ASSUME Next PROVE twice' \in BOOLEAN \/ twice' = twice
    OBVIOUS
  <1>1. ASSUME NEW n, Unpreload(n) PROVE twice' \in BOOLEAN
    BY <1>1, FreevecsTyped, Zenon DEF Unpreload, UnpreloadItems
  <1>2. CASE UnpreloadAll
    BY <1>2, FreevecsTyped, Zenon DEF UnpreloadAll, UnpreloadItems
  <1>3. CASE LoadErr
    BY <1>3, FreevecsTyped, Zenon DEF LoadErr
  <1>4. CASE LoadCut
    <2>1. PICK V : twice' = (twice \/ \E v \in V : mem[v].use = "free")
      BY <1>4, Zenon DEF LoadCut
    <2> QED
      BY <2>1, Zenon
  <1>5. CASE CommandFails
    BY <1>5, FreevecsTyped, Zenon DEF CommandFails
  <1>6. CASE Return \/ Stop
    BY <1>6, FreevecsTyped, Zenon DEF Return, Stop, CommandEnds
  <1>7. CASE CallsegReturns
    BY <1>7, FreevecsTyped, Zenon DEF CallsegReturns
  <1>8. CASE PreloadReplaces
    BY <1>8, FreevecsTyped, Zenon DEF PreloadReplaces
  <1>9. ASSUME NEW n, Command(n) \/ PreloadedCommand(n) \/ Callseg(n) \/ Preload(n)
        PROVE  twice' = twice
    BY <1>9 DEF Command, PreloadedCommand, Callseg, Preload
  <1>10. CASE SettingGlobals \/ LoadEof \/ LoadEnd \/ LoadHunk
    BY <1>10 DEF SettingGlobals, LoadEof, LoadEnd, LoadHunk
  <1>11. CASE CommandLoaded \/ CommandStarts \/ CallsegLoaded \/ CallsegCalls \/ CallsegFails
    BY <1>11 DEF CommandLoaded, CommandStarts, CallsegLoaded, CallsegCalls, CallsegFails
  <1>12. CASE PreloadFails \/ PreloadNoItem \/ PreloadNew
    BY <1>12 DEF PreloadFails, PreloadNoItem, PreloadNew
  <1> QED
    BY <1>1, <1>2, <1>3, <1>4, <1>5, <1>6, <1>7, <1>8, <1>9, <1>10, <1>11, <1>12, Zenon
       DEF Next, Steps, Loading, Preloads

(* What is said of segments and their owners is an invariant.              *)
THEOREM OwnersKnown == Spec => []OwnersInv
  <1>1. OwnersInv /\ [Next]_vars => OwnersInv'
    BY OwnersKept, OwnersSame
  <1> QED
    BY <1>1, OwnersAtFirst, PTL DEF Spec

(* The variables of the command line interpreter and of the loader have    *)
(* their types, and globin is always at a hunk that is loaded.             *)
THEOREM Types == Spec => []TypeOK
  <1>1. ASSUME OwnersInv, twice \in BOOLEAN PROVE TypeOK
    <2>1. Typed /\ MemOK /\ GlobinAt
      BY <1>1 DEF OwnersInv, Shape, Memory
    <2>2. twice \in BOOLEAN
      BY <1>1
    <2>4. failed \in BOOLEAN
      BY <2>1 DEF Typed
    <2>3. gl.on = "setting" => gl.at \in Vec /\ mem[gl.at].use = "hunk"
      BY <2>1 DEF GlobinAt, Hunks
    <2> QED
      BY <2>1, <2>2, <2>3, <2>4 DEF Typed, MemOK, TypeOK, LdRec, GlRec, Code
  <1>2. Init => twice \in BOOLEAN
    BY DEF Init, InitSegments
  <1>3. twice \in BOOLEAN /\ [Next]_vars => (twice \in BOOLEAN)'
    BY TwiceTyped, Zenon DEF vars
  <1> QED
    BY <1>1, <1>2, <1>3, OwnersKnown, PTL DEF Spec

(* unloadseg never gives back a vector that is free or somebody else's:    *)
(* every segment has one owner.                                            *)
THEOREM OneOwner == Spec => []OwnersApart
  <1>1. ASSUME OwnersInv PROVE OwnersApart
    <2>1. /\ LinksGood /\ HeadsFirst /\ ~twice /\ MemTyped
      BY <1>1, LinksTyped DEF OwnersInv, Memory
    <2>2. Heads \ {Null} = AllHeads \ {Null}
      BY DEF Heads, AllHeads, PreloadHeads, FrameHeads, CliHeads, LoadHeads
    <2>3. Chain(Null) = {}
      BY <2>1, ChainLaws DEF ChainFacts
    <2>4. \A a \in Heads : a = Null \/ (a \in Hunks /\ NoneLeadsTo(a))
      BY <2>1, <2>2 DEF HeadsFirst, NoneLeadsTo
    <2>5. \A a \in Heads : \A v \in Chain(a) : mem[v].use = "hunk"
      BY <2>1, <2>3, <2>4, ChainOfHunks DEF Hunks
    <2>6. \A a, b \in Heads : a # b => Chain(a) \cap Chain(b) = {}
      BY <2>1, <2>3, <2>4, ChainsApart
    <2> QED
      BY <2>1, <2>5, <2>6 DEF OwnersApart
  <1> QED
    BY <1>1, OwnersKnown, PTL

(* Whatever is loaded, called, preloaded and unloaded, and in whatever     *)
(* order, a vector loses its owner in four steps only.                     *)
THEOREM NothingElseLost == Spec => LostOnly
  <1>1. ASSUME OwnersInv, [Next]_vars
        PROVE  [Lost' \subseteq Lost \/ LoadCut \/ CallsegFails \/ PreloadNoItem \/ Stop]_vars
    BY <1>1, OwnersKept
  <1> QED
    BY <1>1, OwnersKnown, PTL DEF Spec, LostOnly

-----------------------------------------------------------------------------
(* The frames of a command that runs.                                      *)
LEMMA RunFacts ==
  ASSUME Shape, cli.pc = "running"
  PROVE  /\ frames \in Seq(FrameRec) /\ frames # <<>> /\ Len(frames) \in Nat \ {0}
         /\ Top \in FrameRec /\ Top = frames[Len(frames)] /\ Len(frames) \in 1 .. Len(frames)
         /\ 1 \in 1 .. Len(frames) /\ \A i \in 1 .. Len(frames) : frames[i] \in FrameRec
         /\ cli \in CliRec /\ glob \in [Global -> Code] /\ Start \in Global
         /\ \A i \in 1 .. Len(frames) : i # Len(frames) => frames[i].on = "running"
  <1>1. frames \in Seq(FrameRec) /\ frames # <<>>
    BY DEF Shape, Typed, Control
  <1>2. \A i \in 1 .. Len(frames) : frames[i] \in FrameRec
    BY <1>1, ElementOfSeq
  <1>3. Len(frames) \in Nat \ {0} /\ Len(frames) \in 1 .. Len(frames) /\ 1 \in 1 .. Len(frames)
    BY <1>1, FramesSize
  <1>4. \A i \in 1 .. Len(frames) : i # Len(frames) => i \in 1 .. Len(frames) - 1
    BY <1>3
  <1>5. \A i \in 1 .. Len(frames) : i # Len(frames) => frames[i].on = "running"
    BY <1>4 DEF Shape, Control
  <1> QED
    BY <1>1, <1>2, <1>3, <1>5 DEF Top, Shape, Typed, Global

(* Callseg adds a frame, and returning from it takes it away; what is      *)
(* between changes the last one.                                           *)
LEMMA CallsegFrames ==
  ASSUME Shape, NEW n, Callseg(n)
  PROVE  LET k == Len(frames)
         IN  /\ Len(frames') = k + 1 /\ cli' = cli /\ Top.on = "running" /\ cli.pc = "running"
             /\ \A i \in 1 .. k : frames'[i] = frames[i]
             /\ frames'[k + 1].on = "loading" /\ frames'[k + 1].code = Unset
             /\ frames'[k + 1].module = Null
  <1> DEFINE e == [Frame(Unset, Unset, Null) EXCEPT !.on = "loading"]
  <1>1. frames' = Append(frames, e) /\ cli.pc = "running" /\ Top.on = "running" /\ cli' = cli
    BY DEF Callseg, Running
  <1>2. e \in FrameRec /\ e.on = "loading" /\ e.code = Unset /\ e.module = Null
    BY DEF Frame, FrameRec, Code
  <1> HIDE DEF e
  <1> QED
    BY <1>1, <1>2, RunFacts, FramesGrown

LEMMA PreloadFrames ==
  ASSUME Shape, NEW n, Preload(n)
  PROVE  LET k == Len(frames)
         IN  /\ Len(frames') = k /\ Top.on = "running" /\ cli.pc = "running"
             /\ cli'.pc = cli.pc /\ cli'.module = cli.module /\ cli'.found = cli.found
             /\ cli'.name = cli.name
             /\ \A i \in 1 .. k :
                  /\ frames'[i].module = frames[i].module /\ frames'[i].code = frames[i].code
                  /\ frames'[i].saved = frames[i].saved
                  /\ frames'[i].on = IF i = k THEN "preloading" ELSE frames[i].on
  <1> DEFINE e == [Top EXCEPT !.on = "preloading"]
  <1>1. /\ frames' = Append(Callers, e) /\ cli.pc = "running" /\ Top.on = "running"
        /\ cli' = [cli EXCEPT !.preload = n]
    BY DEF Preload, Running
  <1>2. /\ e \in FrameRec /\ e.on = "preloading" /\ e.code = Top.code /\ e.module = Top.module
        /\ e.saved = Top.saved
    BY <1>1, RunFacts DEF FrameRec
  <1>3. cli'.pc = cli.pc /\ cli'.module = cli.module /\ cli'.found = cli.found
        /\ cli'.name = cli.name
    BY <1>1, RunFacts DEF CliRec
  <1> HIDE DEF e
  <1>4. /\ Len(frames') = Len(frames)
        /\ \A i \in 1 .. Len(frames) : frames'[i] = IF i = Len(frames) THEN e ELSE frames[i]
    BY <1>1, <1>2, RunFacts, FramesLast
  <1> QED
    BY <1>1, <1>2, <1>3, <1>4, RunFacts

LEMMA CallsegLoadedFrames ==
  ASSUME Shape, CallsegLoaded
  PROVE  LET k == Len(frames)
         IN  /\ Len(frames') = k /\ Top.on = "loading" /\ cli.pc = "running" /\ k > 1
             /\ \A i \in 1 .. k : i # k => frames'[i] = frames[i]
             /\ frames'[k].on = "setting" /\ frames'[k].code = frames[k].code
             /\ frames'[k].module = ld.list /\ frames'[k].saved = glob[Start]
  <1> DEFINE e == [Top EXCEPT !.on = "setting", !.module = ld.list, !.saved = glob[Start]]
  <1>1. frames' = Append(Callers, e) /\ cli.pc = "running" /\ Top.on = "loading"
    BY DEF CallsegLoaded
  <1>2. ld.list \in Vec \cup {Null} /\ glob[Start] \in Code
    BY <1>1, RunFacts DEF Shape, Typed, LdRec
  <1>3. /\ e \in FrameRec /\ e.on = "setting" /\ e.code = Top.code /\ e.module = ld.list
        /\ e.saved = glob[Start]
    BY <1>1, <1>2, RunFacts DEF FrameRec
  <1> HIDE DEF e
  <1>4. /\ Len(frames') = Len(frames)
        /\ \A i \in 1 .. Len(frames) : frames'[i] = IF i = Len(frames) THEN e ELSE frames[i]
    BY <1>1, <1>3, RunFacts, FramesLast
  <1>5. Len(frames) > 1
    BY <1>1, RunFacts DEF Shape, Control
  <1> QED
    BY <1>1, <1>3, <1>4, <1>5, RunFacts

LEMMA CallsegCallsFrames ==
  ASSUME Shape, CallsegCalls
  PROVE  LET k == Len(frames)
         IN  /\ Len(frames') = k /\ Top.on = "setting" /\ cli.pc = "running" /\ k > 1
             /\ \A i \in 1 .. k : i # k => frames'[i] = frames[i]
             /\ frames'[k].on = "running" /\ frames'[k].code = glob[Start]
             /\ frames'[k].module = frames[k].module /\ frames'[k].saved = frames[k].saved
  <1> DEFINE e == [Top EXCEPT !.on = "running", !.code = glob[Start]]
  <1>1. frames' = Append(Callers, e) /\ cli.pc = "running" /\ Top.on = "setting"
    BY DEF CallsegCalls
  <1>2. glob[Start] \in Code
    BY <1>1, RunFacts
  <1>3. /\ e \in FrameRec /\ e.on = "running" /\ e.code = glob[Start] /\ e.module = Top.module
        /\ e.saved = Top.saved
    BY <1>1, <1>2, RunFacts DEF FrameRec
  <1> HIDE DEF e
  <1>4. /\ Len(frames') = Len(frames)
        /\ \A i \in 1 .. Len(frames) : frames'[i] = IF i = Len(frames) THEN e ELSE frames[i]
    BY <1>1, <1>3, RunFacts, FramesLast
  <1>5. Len(frames) > 1
    BY <1>1, RunFacts DEF Shape, Control
  <1> QED
    BY <1>1, <1>3, <1>4, <1>5, RunFacts

LEMMA ReturnFrames ==
  ASSUME Shape, CallsegFails \/ CallsegReturns
  PROVE  LET k == Len(frames)
         IN  /\ Len(frames') = k - 1 /\ k > 1 /\ cli.pc = "running" /\ cli' = cli
             /\ \A i \in 1 .. k - 1 : frames'[i] = frames[i]
             /\ frames[k - 1].on = "running" /\ k - 1 \in 1 .. k - 1 /\ k - 1 \in 1 .. k
             /\ Entered(k) \/ Top.on = "setting"
             /\ glob' = [glob EXCEPT ![Start] = Top.saved] /\ cli' = cli /\ failed' = failed
  <1>1. /\ frames' = Callers /\ cli.pc = "running" /\ cli' = cli /\ failed' = failed
        /\ glob' = [glob EXCEPT ![Start] = Top.saved]
        /\ Len(frames) > 1 \/ Top.on = "setting"
        /\ Top.on = "running" \/ Top.on = "setting"
    BY DEF CallsegFails, CallsegReturns, Running, StartRestored, SetStart
  <1>2. Len(frames) > 1
    BY <1>1, RunFacts DEF Shape, Control
  <1>3. /\ Len(frames') = Len(frames) - 1
        /\ \A i \in 1 .. Len(frames) - 1 : frames'[i] = frames[i]
    BY <1>1, RunFacts, FramesDropped
  <1>4. /\ Len(frames) - 1 \in 1 .. Len(frames) - 1 /\ Len(frames) - 1 \in 1 .. Len(frames)
        /\ Len(frames) - 1 # Len(frames)
    BY <1>1, <1>2, RunFacts
  <1>5. frames[Len(frames) - 1].on = "running"
    BY <1>1, <1>4, RunFacts
  <1> QED
    BY <1>1, <1>2, <1>3, <1>4, <1>5, RunFacts DEF Entered

-----------------------------------------------------------------------------
(* Steps and what the globals refer to.                                    *)
LEMMA StartIdle ==
  ASSUME frames' = <<>> \/ Len(frames') = 1, cli'.pc # "running"
  PROVE  StartKept'
  <1>1. 2 .. Len(frames') = {}
    BY EmptySeq
  <1> QED
    BY <1>1 DEF StartKept

LEMMA StartQuiet ==
  ASSUME StartKept, frames' = frames, cli'.pc = "running" => cli.pc = "running",
         glob'[Start] = glob[Start] \/ (cli.pc = "running" /\ Top.on = "setting") \/ frames = <<>>,
         frames = <<>> => cli.pc # "running"
  PROVE  StartKept'
  <1>1. Top' = Top /\ (TopEntered' <=> TopEntered)
    BY DEF Top, TopEntered
  <1>2. Top.on = "setting" => ~TopEntered
    BY DEF TopEntered
  <1>3. \A i \in 2 .. Len(frames') : frames'[i].on # "loading" => frames'[i].saved = frames'[i-1].code
    BY DEF StartKept
  <1>4. ASSUME cli'.pc = "running"
        PROVE  /\ TopEntered' => glob'[Start] = Top'.code
               /\ Top'.on = "loading" => glob'[Start] = frames'[Len(frames') - 1].code
    BY <1>1, <1>2, <1>4 DEF StartKept
  <1> QED
    BY <1>3, <1>4 DEF StartKept

LEMMA CleanQuiet ==
  ASSUME CleanKept, glob' = glob, stale' = stale, failed' = failed, NoCommand' => NoCommand
  PROVE  CleanKept'
  BY DEF CleanKept, Clean

LEMMA CleanBusy ==
  ASSUME ~NoCommand', \A g \in stale' : glob'[g] \in Vec
  PROVE  CleanKept'
  BY DEF CleanKept

LEMMA Quiet ==
  ASSUME GlobalsInv, UNCHANGED <<glob, stale, failed, cli, frames>>
  PROVE  GlobalsInv'
  <1>1. CleanKept'
    BY CleanQuiet DEF GlobalsInv, NoCommand
  <1>2. StartKept'
    BY DEF GlobalsInv, StartKept, TopEntered, Top
  <1> QED
    BY <1>1, <1>2 DEF GlobalsInv

LEMMA Apart ==
  /\ Start \in Global /\ Start \notin Library /\ Start \notin User /\ Start \notin Other
  /\ Library \cap User = {} /\ Global = {Start} \cup Library \cup Other \cup User
  /\ InLibrary \notin Vec /\ Unset \notin Vec /\ GlobinG \in Library /\ Unset # InLibrary
  BY SegmentsAssumption, CliAssumption DEF SegmentsAssumption, CliAssumption, Global

(* A command begins.                                                       *)
LEMMA PreloadedCommandGlobals ==
  ASSUME OwnersInv, GlobalsInv, NEW n \in Name, PreloadedCommand(n)
  PROVE  GlobalsInv'
  <1>1. /\ cli'.pc = "setting" /\ cli'.module = preloads[Entry(n)].module
        /\ glob' = [glob EXCEPT ![Start] = Unset] /\ stale' = stale \ {Start}
        /\ frames' = frames /\ cli.pc = "prompt" /\ IsPreloaded(n)
    BY DEF PreloadedCommand, Prompt, SetStart
  <1>2. preloads \in Seq(PreloadRec) /\ glob \in [Global -> Code] /\ frames = <<>>
    BY <1>1 DEF OwnersInv, Shape, Typed, Control
  <1>3. cli'.module \in Vec
    <2>1. Entry(n) \in 1 .. Len(preloads)
      BY <1>1, <1>2, EntryFound
    <2>2. preloads[Entry(n)] \in PreloadRec
      BY <1>2, <2>1, ElementOfSeq
    <2> QED
      BY <1>1, <2>2 DEF PreloadRec
  <1>4. ~NoCommand'
    BY <1>1, <1>3, NullIsNoPlace DEF NoCommand
  <1>5. \A g \in stale' : glob'[g] \in Vec
    BY <1>1, <1>2 DEF GlobalsInv, CleanKept, OwnersInv, Shape, Typed
  <1> QED
    BY <1>1, <1>2, <1>4, <1>5, CleanBusy, StartIdle DEF GlobalsInv

LEMMA CommandLoadedGlobals ==
  ASSUME OwnersInv, GlobalsInv, CommandLoaded
  PROVE  GlobalsInv'
  <1>1. /\ cli' = [cli EXCEPT !.pc = "setting", !.module = ld.list]
        /\ glob' = [glob EXCEPT ![Start] = Unset] /\ stale' = stale \ {Start}
        /\ frames' = frames /\ cli.pc = "loading" /\ failed' = failed
    BY DEF CommandLoaded, SetStart
  <1>2. /\ glob \in [Global -> Code] /\ frames = <<>> /\ cli \in CliRec /\ stale \subseteq Global
        /\ NoCommand
    BY <1>1 DEF OwnersInv, Shape, Typed, Control, NoCommand
  <1>3. cli'.pc = "setting"
    BY <1>1, <1>2 DEF CliRec
  <1>4. \A g \in Global : g # Start => glob'[g] = glob[g]
    BY <1>1, <1>2
  <1>5. CleanKept'
    BY <1>1, <1>2, <1>4, Apart DEF GlobalsInv, CleanKept, Clean
  <1> QED
    BY <1>1, <1>2, <1>3, <1>5, StartIdle DEF GlobalsInv

LEMMA CommandFailsGlobals ==
  ASSUME OwnersInv, GlobalsInv, CommandFails
  PROVE  GlobalsInv'
  <1>1. /\ stale' = stale \cup Refer(Unloaded) /\ glob' = glob /\ frames' = frames
        /\ failed' = (failed \/ cli.module # Null) /\ cli'.pc = "prompt" /\ cli.pc = "setting"
    BY DEF CommandFails, Prompt
  <1>2. MemTyped /\ AllHeads \subseteq Vec /\ cli.module \in Vec \cup {Null} /\ frames = <<>>
    BY <1>1, LinksTyped DEF OwnersInv, Shape, Typed, CliRec, Control
  <1>3. /\ cli.module = Null => Unloaded = {}
        /\ Unloaded \subseteq Vec
    BY <1>2, ChainLaws DEF ChainFacts, Unloaded
  <1>4. \A g \in stale' : glob'[g] \in Vec
    BY <1>1, <1>3 DEF GlobalsInv, CleanKept, Refer
  <1>5. ASSUME ~failed' PROVE Clean'
    <2>1. ~failed /\ cli.module = Null
      BY <1>1, <1>5
    <2>2. stale' = stale /\ Clean
      BY <1>1, <1>3, <2>1 DEF Refer, GlobalsInv, CleanKept, NoCommand
    <2> QED
      BY <1>1, <2>2 DEF Clean
  <1>6. CleanKept'
    BY <1>4, <1>5 DEF CleanKept
  <1> QED
    BY <1>1, <1>2, <1>6, StartIdle DEF GlobalsInv

LEMMA CommandStartsGlobals ==
  ASSUME OwnersInv, GlobalsInv, CommandStarts
  PROVE  GlobalsInv'
  <1>1. /\ cli' = [cli EXCEPT !.pc = "running", !.co = Place]
        /\ frames' = <<Frame(glob[Start], Unset, Null)>> /\ glob' = glob /\ stale' = stale
    BY DEF CommandStarts
  <1>2. cli'.pc = "running"
    BY <1>1 DEF OwnersInv, Shape, Typed, CliRec
  <1>3. Len(frames') = 1 /\ frames'[1].code = glob[Start] /\ frames'[1].on = "running"
    BY <1>1 DEF Frame
  <1>4. StartKept'
    BY <1>1, <1>2, <1>3 DEF StartKept, Top, TopEntered
  <1>5. CleanKept'
    BY <1>1, <1>2, CleanBusy DEF NoCommand, GlobalsInv, CleanKept
  <1> QED
    BY <1>4, <1>5 DEF GlobalsInv

(* A command ends.                                                         *)
LEMMA CommandEndsGlobals ==
  ASSUME OwnersInv, GlobalsInv, CommandEnds
  PROVE  GlobalsInv'
  <1> DEFINE V == Unloaded
  <1>1. /\ glob' = Restored /\ frames' = <<>> /\ cli'.pc = "prompt"
        /\ stale' = {g \in Global : Restored[g] = glob[g] /\ (g \in stale \/ glob[g] \in V)}
        /\ failed' = (glob[GlobinG] # InLibrary)
    BY DEF CommandEnds, Prompt
  <1>2. MemTyped /\ AllHeads \subseteq Vec /\ cli.module \in Vec \cup {Null}
    BY LinksTyped DEF OwnersInv, Shape, Typed, CliRec
  <1>3. V \subseteq Vec
    BY <1>2, ChainLaws DEF ChainFacts, Unloaded
  <1> HIDE DEF V
  <1>4. \A g \in stale' : glob'[g] \in Vec /\ g \in Global /\ glob'[g] = Restored[g]
    BY <1>1, <1>3 DEF GlobalsInv, CleanKept
  <1>5. ASSUME ~failed' PROVE Clean'
    <2>1. glob[GlobinG] = InLibrary
      BY <1>1, <1>5
    <2>2. /\ \A g \in Library : glob'[g] = InLibrary
          /\ \A g \in User : glob'[g] = Unset
      BY <1>1, <2>1, Apart DEF Restored
    <2>3. stale' \subseteq {Start} \cup Other
      BY <1>4, <2>2, Apart
    <2> QED
      BY <2>2, <2>3 DEF Clean
  <1>6. CleanKept'
    BY <1>4, <1>5 DEF CleanKept
  <1> QED
    BY <1>1, <1>6, StartIdle DEF GlobalsInv

(* callseg                                                                 *)
LEMMA CallsegGlobals ==
  ASSUME OwnersInv, GlobalsInv, NEW n, Callseg(n)
  PROVE  GlobalsInv'
  <1> DEFINE k == Len(frames)
  <1>1. UNCHANGED <<glob, stale, failed, cli>>
    BY DEF Callseg
  <1>2. /\ Len(frames') = k + 1 /\ Top.on = "running" /\ cli.pc = "running"
        /\ \A i \in 1 .. k : frames'[i] = frames[i]
        /\ frames'[k + 1].on = "loading"
        /\ k \in Nat \ {0} /\ k \in 1 .. k /\ Top = frames[k]
    BY CallsegFrames, RunFacts DEF OwnersInv
  <1>3. CleanKept'
    BY <1>1, CleanQuiet DEF GlobalsInv, NoCommand
  <1>4. \A i \in 2 .. k + 1 : frames'[i].on # "loading" => frames'[i].saved = frames'[i-1].code
    <2> SUFFICES ASSUME NEW i \in 2 .. k + 1, frames'[i].on # "loading"
                 PROVE  frames'[i].saved = frames'[i-1].code
      OBVIOUS
    <2>1. i \in 2 .. k /\ i \in 1 .. k /\ i - 1 \in 1 .. k
      BY <1>2
    <2> QED
      BY <1>2, <2>1 DEF GlobalsInv, StartKept
  <1>5. glob'[Start] = frames'[k].code /\ Len(frames') - 1 = k
    BY <1>1, <1>2 DEF GlobalsInv, StartKept, TopEntered
  <1>6. ~TopEntered'
    BY <1>2 DEF TopEntered, Top
  <1>7. StartKept'
    BY <1>2, <1>4, <1>5, <1>6 DEF StartKept
  <1> QED
    BY <1>3, <1>7 DEF GlobalsInv

LEMMA CallsegLoadedGlobals ==
  ASSUME OwnersInv, GlobalsInv, CallsegLoaded
  PROVE  GlobalsInv'
  <1> DEFINE k == Len(frames)
  <1>1. UNCHANGED <<glob, stale, failed, cli>>
    BY DEF CallsegLoaded
  <1>2. /\ Len(frames') = k /\ Top.on = "loading" /\ cli.pc = "running" /\ k > 1
        /\ \A i \in 1 .. k : i # k => frames'[i] = frames[i]
        /\ frames'[k].on = "setting" /\ frames'[k].saved = glob[Start]
        /\ k \in Nat \ {0} /\ Top = frames[k]
    BY CallsegLoadedFrames, RunFacts DEF OwnersInv
  <1>3. CleanKept'
    BY <1>1, CleanQuiet DEF GlobalsInv, NoCommand
  <1>4. frames'[k].saved = frames'[k-1].code
    <2>1. k - 1 \in 1 .. k /\ k - 1 # k
      BY <1>2
    <2> QED
      BY <1>2, <2>1 DEF GlobalsInv, StartKept
  <1>5. \A i \in 2 .. k : frames'[i].on # "loading" => frames'[i].saved = frames'[i-1].code
    <2> SUFFICES ASSUME NEW i \in 2 .. k, frames'[i].on # "loading"
                 PROVE  frames'[i].saved = frames'[i-1].code
      OBVIOUS
    <2>1. i = k \/ (i \in 2 .. k /\ i # k /\ i \in 1 .. k /\ i - 1 \in 1 .. k /\ i - 1 # k)
      BY <1>2
    <2> QED
      BY <1>2, <1>4, <2>1 DEF GlobalsInv, StartKept
  <1>6. ~TopEntered' /\ Top'.on = "setting"
    BY <1>2 DEF TopEntered, Top
  <1>7. StartKept'
    BY <1>2, <1>5, <1>6 DEF StartKept
  <1> QED
    BY <1>3, <1>7 DEF GlobalsInv

LEMMA CallsegCallsGlobals ==
  ASSUME OwnersInv, GlobalsInv, CallsegCalls
  PROVE  GlobalsInv'
  <1> DEFINE k == Len(frames)
  <1>1. UNCHANGED <<glob, stale, failed, cli>>
    BY DEF CallsegCalls
  <1>2. /\ Len(frames') = k /\ Top.on = "setting" /\ cli.pc = "running" /\ k > 1
        /\ \A i \in 1 .. k : i # k => frames'[i] = frames[i]
        /\ frames'[k].on = "running" /\ frames'[k].saved = frames[k].saved
        /\ frames'[k].code = glob[Start]
        /\ k \in Nat \ {0} /\ Top = frames[k]
    BY CallsegCallsFrames, RunFacts DEF OwnersInv
  <1>3. CleanKept'
    BY <1>1, CleanQuiet DEF GlobalsInv, NoCommand
  <1>5. \A i \in 2 .. k : frames'[i].on # "loading" => frames'[i].saved = frames'[i-1].code
    <2> SUFFICES ASSUME NEW i \in 2 .. k, frames'[i].on # "loading"
                 PROVE  frames'[i].saved = frames'[i-1].code
      OBVIOUS
    <2>1. i \in 1 .. k /\ i - 1 \in 1 .. k /\ i - 1 # k
      BY <1>2
    <2>2. frames'[i].saved = frames[i].saved /\ frames[i].on # "loading"
      BY <1>2, <2>1
    <2> QED
      BY <1>2, <2>1, <2>2 DEF GlobalsInv, StartKept
  <1>6. Top'.code = glob'[Start] /\ Top'.on = "running"
    BY <1>1, <1>2 DEF Top
  <1>7. StartKept'
    BY <1>2, <1>5, <1>6 DEF StartKept
  <1> QED
    BY <1>3, <1>7 DEF GlobalsInv

LEMMA ReturnGlobals ==
  ASSUME OwnersInv, GlobalsInv, CallsegFails \/ CallsegReturns
  PROVE  GlobalsInv'
  <1> DEFINE k == Len(frames)
             V == IF CallsegFails THEN {} ELSE Chain(Top.module)
  <1>1. /\ Len(frames') = k - 1 /\ k > 1 /\ cli.pc = "running" /\ cli' = cli
        /\ \A i \in 1 .. k - 1 : frames'[i] = frames[i]
        /\ frames[k - 1].on = "running" /\ k - 1 \in 1 .. k - 1 /\ k - 1 \in 1 .. k
        /\ Entered(k) \/ Top.on = "setting"
        /\ glob' = [glob EXCEPT ![Start] = Top.saved]
        /\ k \in Nat \ {0} /\ Top = frames[k] /\ glob \in [Global -> Code] /\ Top \in FrameRec
    BY ReturnFrames, RunFacts DEF OwnersInv
  <1>2. \E W \in SUBSET Vec : stale' = (stale \cup Refer(W)) \ {Start}
    <2>1. CASE CallsegFails
      BY <2>1 DEF CallsegFails, StartRestored
    <2>2. CASE CallsegReturns
      <3>1. MemTyped /\ Top.module \in Vec \cup {Null}
        BY <1>1, LinksTyped DEF FrameRec
      <3>2. Chain(Top.module) \subseteq Vec
        BY <3>1, ChainLaws DEF ChainFacts
      <3> QED
        BY <2>2, <3>2 DEF CallsegReturns, StartRestored
    <2> QED
      BY <2>1, <2>2
  <1>3. PICK W \in SUBSET Vec : stale' = (stale \cup Refer(W)) \ {Start}
    BY <1>2
  <1>4. \A g \in stale' : glob'[g] \in Vec
    <2> SUFFICES ASSUME NEW g \in stale' PROVE glob'[g] \in Vec
      OBVIOUS
    <2>1. g # Start /\ (g \in stale \/ g \in Refer(W)) /\ g \in Global
      BY <1>3 DEF Refer, OwnersInv, Shape, Typed
    <2>2. glob'[g] = glob[g]
      BY <1>1, <2>1
    <2> QED
      BY <2>1, <2>2 DEF Refer, GlobalsInv, CleanKept
  <1>5. ~NoCommand'
    BY <1>1 DEF NoCommand
  <1>6. \A i \in 2 .. k - 1 : frames'[i].on # "loading" => frames'[i].saved = frames'[i-1].code
    <2> SUFFICES ASSUME NEW i \in 2 .. k - 1, frames'[i].on # "loading"
                 PROVE  frames'[i].saved = frames'[i-1].code
      OBVIOUS
    <2>1. i \in 2 .. k /\ i \in 1 .. k - 1 /\ i - 1 \in 1 .. k - 1
      BY <1>1
    <2> QED
      BY <1>1, <2>1 DEF GlobalsInv, StartKept
  <1>7. Top.saved = frames[k - 1].code
    <2>1. k \in 2 .. k /\ Top.on # "loading"
      BY <1>1 DEF Entered
    <2> QED
      BY <1>1, <2>1 DEF GlobalsInv, StartKept
  <1>8. glob'[Start] = Top'.code /\ Top'.on = "running"
    <2>1. Top' = frames[k - 1]
      BY <1>1 DEF Top
    <2> QED
      BY <1>1, <1>7, <2>1, Apart
  <1>9. StartKept'
    BY <1>1, <1>6, <1>8 DEF StartKept
  <1> QED
    BY <1>4, <1>5, <1>9, CleanBusy DEF GlobalsInv

(* preload and unpreload: the globals stay, though their code may go.      *)
LEMMA PreloadGlobals ==
  ASSUME OwnersInv, GlobalsInv, NEW n, Preload(n)
  PROVE  GlobalsInv'
  <1>1. UNCHANGED <<glob, stale, failed>>
    BY DEF Preload
  <1>2. /\ Len(frames') = Len(frames) /\ Top.on = "running" /\ cli.pc = "running"
        /\ cli'.pc = cli.pc /\ cli'.module = cli.module
        /\ \A i \in 1 .. Len(frames) :
             /\ frames'[i].code = frames[i].code /\ frames'[i].saved = frames[i].saved
             /\ frames'[i].on = IF i = Len(frames) THEN "preloading" ELSE frames[i].on
        /\ Len(frames) \in Nat \ {0} /\ Len(frames) \in 1 .. Len(frames)
        /\ Top = frames[Len(frames)]
    BY PreloadFrames, RunFacts DEF OwnersInv
  <1>3. CleanKept'
    BY <1>1, <1>2, CleanQuiet DEF GlobalsInv, NoCommand
  <1>4. \A i \in 2 .. Len(frames) : i \in 1 .. Len(frames) /\ i - 1 \in 1 .. Len(frames)
    BY <1>2
  <1>5. StartKept'
    BY <1>1, <1>2, <1>4 DEF GlobalsInv, StartKept, TopEntered, Top
  <1> QED
    BY <1>3, <1>5 DEF GlobalsInv

LEMMA PreloadDoneGlobals ==
  ASSUME OwnersInv, GlobalsInv, Preloads
  PROVE  GlobalsInv'
  <1>1. PreloadDone /\ (cli'.pc = "running" \/ cli'.pc = "adrift")
    <2>1. PreloadDone /\ cli.pc = "running"
      BY DEF Preloads, PreloadFails, PreloadReplaces, PreloadNoItem, PreloadNew, PreloadDone
    <2>2. CASE PreloadReplaces
      BY <2>1, <2>2, RunFacts, AdriftTyped DEF PreloadReplaces, OwnersInv
    <2> QED
      BY <2>1, <2>2 DEF Preloads, PreloadFails, PreloadNoItem, PreloadNew
  <1>2. /\ Len(frames') = Len(frames) /\ Top.on = "preloading" /\ cli.pc = "running"
        /\ \A i \in 1 .. Len(frames) :
             /\ frames'[i].code = frames[i].code /\ frames'[i].saved = frames[i].saved
             /\ frames'[i].on = IF i = Len(frames) THEN "running" ELSE frames[i].on
        /\ Len(frames) \in Nat \ {0} /\ Len(frames) \in 1 .. Len(frames)
        /\ Top = frames[Len(frames)] /\ UNCHANGED <<glob, failed>>
    BY <1>1, PreloadDoneFrames, RunFacts DEF OwnersInv
  <1>3. \A g \in stale' : glob'[g] \in Vec
    <2>1. CASE PreloadReplaces
      <3> DEFINE V == Chain(preloads[Entry(cli.preload)].module)
      <3>1. V \subseteq Vec
        BY <2>1, PreloadReplacesStep DEF Hunks
      <3>2. stale' = stale \cup Refer(V)
        BY <2>1 DEF PreloadReplaces
      <3> HIDE DEF V
      <3> QED
        BY <1>2, <3>1, <3>2 DEF Refer, GlobalsInv, CleanKept
    <2>2. CASE stale' = stale
      BY <1>2, <2>2 DEF GlobalsInv, CleanKept
    <2> QED
      BY <2>1, <2>2 DEF Preloads, PreloadFails, PreloadNoItem, PreloadNew
  <1>4. CleanKept'
    BY <1>1, <1>3, CleanBusy DEF NoCommand
  <1>5. \A i \in 2 .. Len(frames) : i \in 1 .. Len(frames) /\ i - 1 \in 1 .. Len(frames)
    BY <1>2
  <1>6. StartKept'
    BY <1>1, <1>2, <1>5 DEF GlobalsInv, StartKept, TopEntered, Top
  <1> QED
    BY <1>4, <1>6 DEF GlobalsInv

LEMMA UnpreloadGlobals ==
  ASSUME OwnersInv, GlobalsInv, UnpreloadAll \/ \E n : Unpreload(n)
  PROVE  GlobalsInv'
  <1>1. Running /\ UNCHANGED <<glob, frames, failed>>
    BY DEF UnpreloadAll, Unpreload, UnpreloadItems
  <1>2. \E W \in SUBSET Vec : stale' = stale \cup Refer(W) /\ cli' = Adrift(W)
    <2>1. CASE UnpreloadAll
      BY <2>1, UnpreloadAllShape, UnpreloadAllStep DEF OwnersInv, Hunks
    <2>2. ASSUME NEW n, Unpreload(n)
          PROVE  \E W \in SUBSET Vec : stale' = stale \cup Refer(W) /\ cli' = Adrift(W)
      <3> DEFINE W == Chain(preloads[Entry(n)].module)
      <3>1. W \subseteq Vec
        BY <2>2, UnpreloadStep DEF Hunks
      <3>2. stale' = stale \cup Refer(W) /\ cli' = Adrift(W)
        BY <2>2, UnpreloadShape DEF OwnersInv
      <3> HIDE DEF W
      <3> QED
        BY <3>1, <3>2
    <2> QED
      BY <2>1, <2>2
  <1>3. PICK W \in SUBSET Vec : stale' = stale \cup Refer(W) /\ cli' = Adrift(W)
    BY <1>2
  <1>4. \A g \in stale' : glob'[g] \in Vec
    BY <1>1, <1>3 DEF Refer, GlobalsInv, CleanKept
  <1>5. cli.pc = "running" /\ cli'.pc \in {"running", "adrift"} /\ Top.on = "running"
    BY <1>1, <1>3, RunFacts, AdriftTyped DEF Running, OwnersInv
  <1>6. CleanKept'
    BY <1>4, <1>5, CleanBusy DEF NoCommand
  <1>7. frames # <<>>
    BY <1>5, RunFacts DEF OwnersInv
  <1>8. StartKept'
    BY <1>1, <1>5, <1>7, StartQuiet DEF GlobalsInv
  <1> QED
    BY <1>6, <1>8 DEF GlobalsInv

(* globin                                                                  *)
LEMMA GlobinGlobals ==
  ASSUME OwnersInv, GlobalsInv, CodeInv, SettingGlobals,
         UNCHANGED <<cli, frames, preloads, failed>>
  PROVE  GlobalsInv'
  <1>1. gl.on = "setting"
    BY DEF SettingGlobals, GlobinHunk, GlobinFails
  <1>2. CASE GlobinFails
    BY <1>2, Quiet DEF GlobinFails
  <1>3. CASE GlobinHunk
    <2> DEFINE r == mem[gl.at].of
    <2>1. /\ glob' = [g \in Global |-> IF g \in r.sets THEN gl.at ELSE glob[g]]
          /\ stale' = stale \ r.sets
      BY <1>3 DEF GlobinHunk
    <2> HIDE DEF r
    <2>2. stale \subseteq Global
      BY DEF OwnersInv, Shape, Typed
    <2>3. \A g \in stale' : glob'[g] \in Vec
      BY <2>1, <2>2 DEF GlobalsInv, CleanKept
    <2>4. ~NoCommand
      <3>1. cli.pc \in {"setting", "running"}
        BY <1>1 DEF OwnersInv, Shape, Control
      <3>2. ASSUME cli.pc = "setting", cli.module = Null PROVE FALSE
        <4>1. gl.at \in Chain(cli.module)
          BY <1>1, <3>2 DEF CodeInv, SetKept
        <4>2. Chain(Null) = {}
          BY LinksTyped, ChainLaws DEF ChainFacts
        <4> QED
          BY <3>2, <4>1, <4>2
      <3> QED
        BY <3>1, <3>2 DEF NoCommand
    <2>5. CleanKept'
      BY <2>3, <2>4, CleanBusy DEF NoCommand
    <2>6. frames = <<>> \/ (cli.pc = "running" /\ Top.on = "setting")
      BY <1>1 DEF OwnersInv, Shape, Control
    <2>7. frames = <<>> => cli.pc # "running"
      BY DEF OwnersInv, Shape, Control
    <2>8. StartKept'
      BY <2>6, <2>7, StartQuiet DEF GlobalsInv
    <2> QED
      BY <2>5, <2>8 DEF GlobalsInv
  <1> QED
    BY <1>2, <1>3 DEF SettingGlobals

LEMMA GlobalsKept ==
  ASSUME OwnersInv, GlobalsInv, CodeInv, Next
  PROVE  GlobalsInv'
  <1>1. CASE \E n \in Name : \/ Command(n) \/ PreloadedCommand(n) \/ Callseg(n)
                             \/ Preload(n) \/ Unpreload(n)
    <2> PICK n \in Name : \/ Command(n) \/ PreloadedCommand(n) \/ Callseg(n)
                          \/ Preload(n) \/ Unpreload(n)
      BY <1>1
    <2>1. CASE Command(n)
      <3>1. /\ cli.pc = "prompt" /\ cli'.pc = "loading" /\ frames' = frames
            /\ UNCHANGED <<glob, stale, failed>>
        BY <2>1 DEF Command, Prompt
      <3>2. frames = <<>> /\ NoCommand
        BY <3>1 DEF OwnersInv, Shape, Control, NoCommand
      <3> QED
        BY <3>1, <3>2, StartIdle, CleanQuiet DEF GlobalsInv
    <2>2. CASE PreloadedCommand(n)
      BY <2>2, PreloadedCommandGlobals
    <2>3. CASE Callseg(n)
      BY <2>3, CallsegGlobals
    <2>4. CASE Preload(n)
      BY <2>4, PreloadGlobals
    <2>5. CASE Unpreload(n)
      BY <2>5, UnpreloadGlobals
    <2> QED
      BY <2>1, <2>2, <2>3, <2>4, <2>5
  <1>2. CASE Steps
    BY <1>2, Quiet, GlobinGlobals DEF Steps, Loading
  <1>3. CASE CommandLoaded
    BY <1>3, CommandLoadedGlobals
  <1>4. CASE CommandFails
    BY <1>4, CommandFailsGlobals
  <1>5. CASE CommandStarts
    BY <1>5, CommandStartsGlobals
  <1>6. CASE Return \/ Stop
    BY <1>6, CommandEndsGlobals DEF Return, Stop
  <1>7. CASE CallsegLoaded
    BY <1>7, CallsegLoadedGlobals
  <1>8. CASE CallsegCalls
    BY <1>8, CallsegCallsGlobals
  <1>9. CASE CallsegFails \/ CallsegReturns
    BY <1>9, ReturnGlobals
  <1>10. CASE Preloads
    BY <1>10, PreloadDoneGlobals
  <1>11. CASE UnpreloadAll
    BY <1>11, UnpreloadGlobals
  <1> QED
    BY <1>1, <1>2, <1>3, <1>4, <1>5, <1>6, <1>7, <1>8, <1>9, <1>10, <1>11 DEF Next

-----------------------------------------------------------------------------
(* Steps and the code in execution.  The modules it is in have owners that *)
(* are not the loader.                                                     *)
Kept(a) == a \in (AllHeads \ LoadHeads) \cup {Null}
ModulesOwned ==
  /\ Kept(cli.module) /\ (cli.found => cli.module \in PreloadHeads)
  /\ \A i \in 1 .. Len(frames) :
       Kept(ModuleOf(i)) /\ (i # 1 => ModuleOf(i) \in FrameHeads \cup {Null})

InCommand == cli.pc \in {"setting", "running"}
LEMMA ModulesHaveOwners == Shape /\ FoundKept /\ InCommand => ModulesOwned
  <1> SUFFICES ASSUME Shape, FoundKept, cli.pc \in {"setting", "running"} PROVE ModulesOwned
    BY DEF InCommand
  <1>1. cli.found => cli.module \in PreloadHeads
    BY DEF FoundKept, PreloadHeads
  <1>2. Kept(cli.module)
    BY <1>1 DEF Kept, AllHeads, CliHeads, Shape, HeadsApart
  <1>3. \A i \in 1 .. Len(frames) : i # 1 => ModuleOf(i) \in FrameHeads \cup {Null}
    BY DEF FrameHeads, ModuleOf
  <1>4. \A i \in 1 .. Len(frames) : Kept(ModuleOf(i))
    BY <1>2, <1>3 DEF Kept, AllHeads, Shape, HeadsApart, ModuleOf
  <1> QED
    BY <1>1, <1>2, <1>3, <1>4 DEF ModulesOwned

LEMMA ModulesHaveOwnersNext == Shape' /\ FoundKept' /\ InCommand' => ModulesOwned'
  BY ModulesHaveOwners, PTL

(* What the steps but the loader's do to the chains, and the loader's too. *)
LoadedKept == \A b \in (AllHeads \cap AllHeads') \ LoadHeads : Chain(b)' = Chain(b)

LEMMA KeptSame ==
  ASSUME MemTyped, MemTyped', LoadedKept, NEW a, Kept(a), a \in AllHeads' \cup {Null}
  PROVE  Chain(a)' = Chain(a)
  <1>1. Chain(Null) = {}
    BY ChainLaws DEF ChainFacts
  <1>2. Chain(Null)' = {}
    BY ChainLawsNext DEF ChainFacts
  <1> QED
    BY <1>1, <1>2 DEF LoadedKept, Kept

(* The frames up to k have the modules and the code that they had.         *)
LEMMA ModulesSame ==
  ASSUME OwnersInv, OwnersInv', FoundKept, FoundKept', LoadedKept,
         cli.pc \in {"setting", "running"}, cli'.pc \in {"setting", "running"},
         cli'.module = cli.module, NEW k \in Nat, k <= Len(frames), k <= Len(frames'),
         Len(frames) \in Nat, Len(frames') \in Nat,
         \A i \in 1 .. k : frames'[i].module = frames[i].module
  PROVE  \A i \in 1 .. k : /\ ModulesTo(i)' = ModulesTo(i) /\ ModuleOf(i)' = ModuleOf(i)
                           /\ Chain(ModuleOf(i))' = Chain(ModuleOf(i))
  <1>1. MemTyped /\ MemTyped' /\ ModulesOwned /\ ModulesOwned'
    BY LinksTyped, LinksTypedNext, ModulesHaveOwners, ModulesHaveOwnersNext DEF OwnersInv, InCommand
  <1>2. \A i \in 1 .. k : ModuleOf(i)' = ModuleOf(i)
    BY DEF ModuleOf
  <1>3. ASSUME NEW i \in 1 .. k
        PROVE  Chain(ModuleOf(i))' = Chain(ModuleOf(i))
    <2>1. i \in 1 .. Len(frames) /\ i \in 1 .. Len(frames')
      OBVIOUS
    <2>2. Kept(ModuleOf(i)) /\ ModuleOf(i)' \in AllHeads' \cup {Null}
      BY <1>1, <2>1 DEF ModulesOwned, Kept
    <2>3. ASSUME NEW a, a = ModuleOf(i) PROVE Chain(a)' = Chain(a) /\ Chain(ModuleOf(i))' = Chain(a)'
      <3>1. a = ModuleOf(i)'
        BY <1>2, <2>3
      <3>2. Chain(a)' = Chain(a)
        BY <1>1, <1>2, <2>2, <2>3, KeptSame
      <3> QED
        BY <3>1, <3>2
    <2> QED
      BY <2>3
  <1>4. \A i \in 1 .. k : ModulesTo(i)' = ModulesTo(i)
    <2> SUFFICES ASSUME NEW i \in 1 .. k PROVE ModulesTo(i)' = ModulesTo(i)
      OBVIOUS
    <2>1. \A j \in 1 .. i : Chain(ModuleOf(j))' = Chain(ModuleOf(j))
      BY <1>3
    <2> QED
      BY <2>1 DEF ModulesTo
  <1> QED
    BY <1>2, <1>3, <1>4

FramesKept(k) ==
  /\ k \in Nat /\ k <= Len(frames) /\ k <= Len(frames')
  /\ Len(frames) \in Nat /\ Len(frames') \in Nat
  /\ \A i \in 1 .. k : /\ frames'[i].module = frames[i].module
                       /\ frames'[i].code = frames[i].code /\ (Entered(i)' <=> Entered(i))
                       /\ frames'[i].on = "setting" =>
                            /\ glob'[Start] \in ModulesTo(i)
                            /\ gl'.on = "setting" => gl'.at \in Chain(ModuleOf(i))

LEMMA CodeSame ==
  ASSUME OwnersInv, OwnersInv', CodeInv, FoundKept', LoadedKept,
         cli.pc = "running", cli'.pc = "running", cli'.module = cli.module,
         NEW k, FramesKept(k)
  PROVE  \A i \in 1 .. k : CodeAt(i)'
  <1>1. \A i \in 1 .. k : /\ ModulesTo(i)' = ModulesTo(i) /\ ModuleOf(i)' = ModuleOf(i)
                           /\ Chain(ModuleOf(i))' = Chain(ModuleOf(i))
    BY ModulesSame DEF CodeInv, FramesKept
  <1> SUFFICES ASSUME NEW i \in 1 .. k PROVE CodeAt(i)'
    OBVIOUS
  <1>2. i \in 1 .. Len(frames) /\ CodeAt(i)
    BY DEF CodeInv, RunKept, FramesKept
  <1>3. IF Entered(i)' THEN frames'[i].code \in ModulesTo(i)' ELSE frames'[i].code = Unset
    BY <1>1, <1>2 DEF CodeAt, FramesKept
  <1>4. frames'[i].on = "setting" => /\ glob'[Start] \in ModulesTo(i)'
                                     /\ gl'.on = "setting" => gl'.at \in Chain(ModuleOf(i))'
    BY <1>1 DEF FramesKept
  <1> QED
    BY <1>3, <1>4 DEF CodeAt

LEMMA FoundSame ==
  ASSUME FoundKept, preloads' = preloads, cli'.found = cli.found, cli'.name = cli.name,
         cli'.module = cli.module,
         cli'.pc \in {"setting", "running"} => cli.pc \in {"setting", "running"}
  PROVE  FoundKept'
  BY DEF FoundKept

LEMMA NotSetting == cli'.pc # "setting" => SetKept'
  BY DEF SetKept

LEMMA NotRunning == cli'.pc # "running" => RunKept'
  BY DEF RunKept

LEMMA ChainsLoadedKept == ChainsKept => LoadedKept
  BY DEF ChainsKept, LoadedKept

(* A command begins.                                                       *)
LEMMA PreloadedCommandCode ==
  ASSUME OwnersInv, OwnersInv', NEW n \in Name, PreloadedCommand(n)
  PROVE  CodeInv'
  <1>1. /\ IsPreloaded(n) /\ cli'.pc = "setting" /\ cli'.name = n
        /\ cli'.module = preloads[Entry(n)].module /\ Globin(preloads[Entry(n)].module)
        /\ glob' = [glob EXCEPT ![Start] = Unset] /\ preloads' = preloads
    BY DEF PreloadedCommand, SetStart, Prompt
  <1>2. preloads \in Seq(PreloadRec) /\ glob \in [Global -> Code] /\ Start \in Global
    BY DEF OwnersInv, Shape, Typed, Global
  <1>3. Entry(n) \in 1 .. Len(preloads) /\ preloads[Entry(n)].name = n
    BY <1>1, <1>2, EntryFound
  <1>4. preloads[Entry(n)] \in PreloadRec
    BY <1>2, <1>3, ElementOfSeq
  <1>5. cli'.module \in Vec /\ cli'.module # Null /\ gl'.on = "setting" => gl'.at = cli'.module
    BY <1>1, <1>4, NullIsNoPlace DEF PreloadRec, Globin
  <1>6. FoundKept'
    BY <1>1, <1>3 DEF FoundKept
  <1>7. glob'[Start] = Unset
    BY <1>1, <1>2
  <1>8. ASSUME gl'.on = "setting" PROVE gl'.at \in Chain(cli.module)'
    <2>1. MemTyped'
      BY LinksTypedNext
    <2>2. ASSUME NEW a, a = cli'.module PROVE a \in Chain(a)' /\ Chain(cli.module)' = Chain(a)'
      BY <1>1, <1>4, <2>1, <2>2, NullIsNoPlace, ChainLawsNext DEF ChainFacts, PreloadRec
    <2> QED
      BY <1>1, <1>4, <1>8, <2>2, GlobinTyped DEF PreloadRec
  <1>9. SetKept'
    BY <1>7, <1>8 DEF SetKept
  <1> QED
    BY <1>1, <1>6, <1>9, NotRunning DEF CodeInv

LEMMA CommandLoadedCode ==
  ASSUME OwnersInv, OwnersInv', CommandLoaded
  PROVE  CodeInv'
  <1>1. /\ cli.pc = "loading" /\ cli' = [cli EXCEPT !.pc = "setting", !.module = ld.list]
        /\ Globin(ld.list) /\ glob' = [glob EXCEPT ![Start] = Unset]
    BY DEF CommandLoaded, SetStart
  <1>2. /\ cli \in CliRec /\ glob \in [Global -> Code] /\ Start \in Global
        /\ ld.list \in Vec \cup {Null} /\ ~cli.found
    BY <1>1 DEF OwnersInv, Shape, Typed, Global, LdRec, Control
  <1>3. cli'.pc = "setting" /\ cli'.module = ld.list /\ ~cli'.found /\ glob'[Start] = Unset
    BY <1>1, <1>2 DEF CliRec
  <1>4. ASSUME gl'.on = "setting" PROVE gl'.at \in Chain(cli.module)'
    <2>1. MemTyped' /\ ld.list \in Vec /\ gl'.at = ld.list
      BY <1>1, <1>2, <1>4, GlobinTyped, LinksTypedNext
    <2>2. ASSUME NEW a, a = cli'.module PROVE a \in Chain(a)' /\ Chain(cli.module)' = Chain(a)'
      BY <1>3, <2>1, <2>2, NullIsNoPlace, ChainLawsNext DEF ChainFacts
    <2> QED
      BY <1>3, <2>1, <2>2
  <1>5. SetKept' /\ FoundKept'
    BY <1>3, <1>4 DEF SetKept, FoundKept
  <1> QED
    BY <1>3, <1>5, NotRunning DEF CodeInv

LEMMA CommandStartsCode ==
  ASSUME OwnersInv, OwnersInv', CodeInv, ChainsKept, CommandStarts
  PROVE  CodeInv'
  <1>1. /\ cli' = [cli EXCEPT !.pc = "running", !.co = Place] /\ cli.pc = "setting"
        /\ frames' = <<Frame(glob[Start], Unset, Null)>> /\ glob[Start] # Unset
        /\ preloads' = preloads
    BY DEF CommandStarts
  <1>2. /\ cli'.pc = "running" /\ cli'.found = cli.found /\ cli'.module = cli.module
        /\ cli'.name = cli.name
    BY <1>1 DEF OwnersInv, Shape, Typed, CliRec
  <1>3. FoundKept'
    BY <1>1, <1>2, FoundSame DEF CodeInv
  <1>4. glob[Start] \in Chain(cli.module)
    BY <1>1 DEF CodeInv, SetKept
  <1>5. Chain(cli.module)' = Chain(cli.module)
    <2>1. MemTyped /\ MemTyped' /\ ModulesOwned /\ ModulesOwned'
      BY <1>1, <1>2, <1>3, LinksTyped, LinksTypedNext, ModulesHaveOwners, ModulesHaveOwnersNext
         DEF OwnersInv, InCommand, CodeInv
    <2>2. Kept(cli.module) /\ cli.module \in AllHeads' \cup {Null}
      BY <1>2, <2>1 DEF ModulesOwned, Kept
    <2>3. ASSUME NEW a, a = cli.module PROVE Chain(a)' = Chain(a) /\ Chain(cli.module)' = Chain(a)'
      BY <1>2, <2>1, <2>2, <2>3, KeptSame, ChainsLoadedKept
    <2> QED
      BY <2>3
  <1>6. Len(frames') = 1 /\ frames'[1].code = glob[Start] /\ frames'[1].on = "running"
    BY <1>1 DEF Frame
  <1>7. frames'[1].code \in ModulesTo(1)'
    <2>1. Chain(ModuleOf(1))' = Chain(cli.module)'
      BY DEF ModuleOf
    <2>2. 1 \in 1 .. 1
      OBVIOUS
    <2> QED
      BY <1>4, <1>5, <1>6, <2>1, <2>2 DEF ModulesTo
  <1>8. CodeAt(1)'
    BY <1>6, <1>7 DEF CodeAt, Entered
  <1>9. RunKept'
    BY <1>6, <1>8 DEF RunKept
  <1> QED
    BY <1>2, <1>3, <1>9, NotSetting DEF CodeInv

(* globin, for the command or for a segment.                               *)
LEMMA GlobinCode ==
  ASSUME OwnersInv, OwnersInv', CodeInv, ChainsKept, SettingGlobals,
         UNCHANGED <<cli, frames, preloads, failed>>
  PROVE  CodeInv'
  <1>1. gl.on = "setting" /\ gl.at \in Hunks /\ MemTyped /\ ChainFacts /\ gl \in GlRec
        /\ Start \in Global
    BY LinksTyped, ChainLaws
       DEF SettingGlobals, GlobinHunk, GlobinFails, OwnersInv, Memory, GlobinAt, Shape, Typed, Global
  <1>2. FoundKept'
    BY FoundSame DEF CodeInv
  <1>3. /\ glob'[Start] \in {glob[Start], gl.at}
        /\ gl'.on = "setting" => gl'.at = mem[gl.at].next /\ gl'.at # Null
    <2>1. CASE GlobinHunk
      BY <1>1, <2>1 DEF GlobinHunk, GlRec
    <2>2. CASE GlobinFails
      BY <1>1, <2>2 DEF GlobinFails, GlRec
    <2> QED
      BY <2>1, <2>2 DEF SettingGlobals
  <1>4. ASSUME NEW a \in Vec \cup {Null}, gl.at \in Chain(a), gl'.on = "setting"
        PROVE  gl'.at \in Chain(a)
    <2>1. Link(gl.at) \in Chain(a) \cup {Null} /\ Link(gl.at) = mem[gl.at].next
      BY <1>1, <1>4, LinkTyped DEF ChainFacts
    <2> QED
      BY <1>3, <1>4, <2>1
  <1>5. cli.pc \in {"setting", "running"} /\ cli.module \in Vec \cup {Null}
    BY <1>1 DEF OwnersInv, Shape, Control, Typed, CliRec
  <1>6. CASE cli.pc = "setting"
    <2>1. MemTyped' /\ ModulesOwned /\ ModulesOwned'
      BY <1>2, <1>5, LinksTypedNext, ModulesHaveOwners, ModulesHaveOwnersNext
         DEF OwnersInv, InCommand, CodeInv
    <2>2. Kept(cli.module) /\ cli.module \in AllHeads' \cup {Null}
      BY <2>1 DEF ModulesOwned, Kept
    <2>3. ASSUME NEW a, a = cli.module PROVE Chain(a)' = Chain(a) /\ Chain(cli.module)' = Chain(a)'
      BY <1>1, <2>1, <2>2, <2>3, KeptSame, ChainsLoadedKept
    <2>4. Chain(cli.module)' = Chain(cli.module)
      BY <2>3
    <2>5. gl.at \in Chain(cli.module) /\ glob[Start] \in {Unset} \cup Chain(cli.module)
      BY <1>1, <1>6 DEF CodeInv, SetKept
    <2>6. /\ glob'[Start] \in {Unset} \cup Chain(cli.module)'
          /\ gl'.on = "setting" => gl'.at \in Chain(cli.module)'
      BY <1>3, <1>4, <1>5, <2>4, <2>5
    <2>7. SetKept'
      BY <2>6 DEF SetKept
    <2> QED
      BY <1>2, <1>6, <2>7, NotRunning DEF CodeInv
  <1>7. CASE cli.pc = "running"
    <2> DEFINE k == Len(frames)
    <2>1. /\ k \in Nat \ {0} /\ Top = frames[k] /\ k \in 1 .. k /\ \A i \in 1 .. k : frames[i] \in FrameRec
          /\ \A i \in 1 .. k : i # k => frames[i].on = "running"
      BY <1>7, RunFacts DEF OwnersInv
    <2>2. \A i \in 1 .. k : frames[i].on = "setting" =>
            /\ glob'[Start] \in ModulesTo(i)
            /\ gl'.on = "setting" => gl'.at \in Chain(ModuleOf(i))
      <3> SUFFICES ASSUME NEW i \in 1 .. k, frames[i].on = "setting"
                   PROVE  /\ glob'[Start] \in ModulesTo(i)
                          /\ gl'.on = "setting" => gl'.at \in Chain(ModuleOf(i))
        OBVIOUS
      <3>1. glob[Start] \in ModulesTo(i) /\ gl.at \in Chain(ModuleOf(i))
        BY <1>1, <1>7 DEF CodeInv, RunKept, CodeAt
      <3>2. ModuleOf(i) \in Vec \cup {Null}
        BY <1>5, <2>1 DEF ModuleOf, FrameRec
      <3>3. gl.at \in ModulesTo(i)
        <4>1. i \in 1 .. i
          BY <2>1
        <4> QED
          BY <3>1, <4>1 DEF ModulesTo
      <3> QED
        BY <1>3, <1>4, <3>1, <3>2, <3>3
    <2>4. Len(frames') = k /\ cli'.pc = "running" /\ cli'.module = cli.module
      BY <1>7
    <2>3. FramesKept(k)
      BY <2>1, <2>2, <2>4 DEF Entered, FramesKept
    <2> HIDE DEF k
    <2>5. \A i \in 1 .. k : CodeAt(i)'
      BY <1>2, <1>7, <2>3, <2>4, CodeSame, ChainsLoadedKept
    <2>6. RunKept'
      BY <2>4, <2>5 DEF RunKept
    <2> QED
      BY <1>2, <2>4, <2>6, NotSetting DEF CodeInv
  <1> QED
    BY <1>5, <1>6, <1>7

LEMMA RunSame ==
  ASSUME OwnersInv, OwnersInv', CodeInv, FoundKept', LoadedKept,
         cli.pc = "running", cli'.pc = "running", cli'.module = cli.module,
         NEW k, FramesKept(k), Len(frames') = k
  PROVE  RunKept'
  <1>1. \A i \in 1 .. k : CodeAt(i)'
    BY CodeSame
  <1> QED
    BY <1>1 DEF RunKept

(* callseg                                                                 *)
LEMMA CallsegCode ==
  ASSUME OwnersInv, OwnersInv', CodeInv, ChainsKept, NEW n, Callseg(n)
  PROVE  CodeInv'
  <1> DEFINE k == Len(frames)
  <1>1. /\ Len(frames') = k + 1 /\ cli' = cli /\ cli.pc = "running"
        /\ \A i \in 1 .. k : frames'[i] = frames[i]
        /\ frames'[k + 1].on = "loading" /\ frames'[k + 1].code = Unset
        /\ k \in Nat \ {0} /\ UNCHANGED <<glob, gl, preloads>>
    BY CallsegFrames, RunFacts DEF OwnersInv, Callseg
  <1>2. FoundKept'
    BY <1>1, FoundSame DEF CodeInv
  <1>3. FramesKept(k)
    BY <1>1 DEF FramesKept, Entered, CodeInv, RunKept, CodeAt
  <1> HIDE DEF k
  <1>4. \A i \in 1 .. k : CodeAt(i)'
    BY <1>1, <1>2, <1>3, CodeSame, ChainsLoadedKept
  <1>5. ASSUME NEW i, i = k + 1 PROVE CodeAt(i)'
    BY <1>1, <1>5 DEF CodeAt, Entered
  <1>6. \A i \in 1 .. k + 1 : i \in 1 .. k \/ i = k + 1
    BY <1>1
  <1>7. RunKept'
    BY <1>1, <1>4, <1>5, <1>6 DEF RunKept
  <1> QED
    BY <1>1, <1>2, <1>7, NotSetting DEF CodeInv

LEMMA CallsegLoadedCode ==
  ASSUME OwnersInv, OwnersInv', CodeInv, GlobalsInv, ChainsKept, CallsegLoaded
  PROVE  CodeInv'
  <1> SUFFICES ASSUME NEW k, k = Len(frames) PROVE CodeInv'
    OBVIOUS
  <1> DEFINE m == k - 1
  <1>1. /\ Len(frames') = k /\ Top.on = "loading" /\ cli.pc = "running" /\ k > 1
        /\ \A i \in 1 .. k : i # k => frames'[i] = frames[i]
        /\ frames'[k].on = "setting" /\ frames'[k].code = frames[k].code
        /\ frames'[k].module = ld.list /\ k \in Nat \ {0} /\ k \in 1 .. k /\ Top = frames[k]
        /\ \A i \in 1 .. k : i # k => frames[i].on = "running"
    BY CallsegLoadedFrames, RunFacts DEF OwnersInv
  <1>2. UNCHANGED <<glob, cli, preloads>> /\ Globin(ld.list)
    BY DEF CallsegLoaded
  <1>3. FoundKept'
    BY <1>2, FoundSame DEF CodeInv
  <1>4. m \in Nat /\ m # k /\ m \in 1 .. m /\ m \in 1 .. k /\ \A i \in 1 .. m : i \in 1 .. k /\ i # k
    BY <1>1
  <1>5. FramesKept(m)
    BY <1>1, <1>4 DEF FramesKept, Entered
  <1>6. \A i \in 1 .. m : CodeAt(i)'
    BY <1>1, <1>2, <1>3, <1>5, CodeSame, ChainsLoadedKept
  <1>7. CodeAt(m)' /\ CodeAt(m) /\ CodeAt(k) /\ Entered(m)' /\ frames'[m] = frames[m]
    BY <1>1, <1>4, <1>6 DEF CodeInv, RunKept, Entered
  <1>8. glob'[Start] = frames'[m].code
    BY <1>1, <1>2, <1>7 DEF GlobalsInv, StartKept
  <1>9. ModulesTo(m)' \subseteq ModulesTo(k)'
    BY <1>4, <1>1 DEF ModulesTo
  <1>10. frames'[k].code = Unset
    BY <1>1, <1>7 DEF CodeAt, Entered
  <1>11. glob'[Start] \in ModulesTo(k)'
    BY <1>7, <1>8, <1>9 DEF CodeAt
  <1>12. gl'.on = "setting" => gl'.at \in Chain(ModuleOf(k))'
    <2>1. ld.list \in Vec \cup {Null} /\ MemTyped' /\ k # 1
      <3>1. ld.list \in Vec \cup {Null}
        BY DEF OwnersInv, Shape, Typed, LdRec
      <3>2. MemTyped'
        BY LinksTypedNext
      <3> QED
        BY <1>1, <3>1, <3>2
    <2>2. ModuleOf(k)' = ld.list
      BY <1>1, <2>1 DEF ModuleOf
    <2>3. ASSUME NEW a, a = ld.list
          PROVE  Chain(ModuleOf(k))' = Chain(a)' /\ (a # Null => a \in Chain(a)')
      BY <2>1, <2>2, <2>3, ChainLawsNext DEF ChainFacts
    <2> QED
      BY <1>2, <2>1, <2>3, GlobinTyped
  <1>13. CodeAt(k)'
    BY <1>1, <1>10, <1>11, <1>12 DEF CodeAt, Entered
  <1>14. \A i \in 1 .. k : i \in 1 .. m \/ i = k
    BY <1>1
  <1>15. RunKept'
    BY <1>1, <1>6, <1>13, <1>14 DEF RunKept
  <1> QED
    BY <1>1, <1>2, <1>3, <1>15, NotSetting DEF CodeInv

LEMMA CallsegCallsCode ==
  ASSUME OwnersInv, OwnersInv', CodeInv, ChainsKept, CallsegCalls
  PROVE  CodeInv'
  <1> SUFFICES ASSUME NEW k, k = Len(frames) PROVE CodeInv'
    OBVIOUS
  <1> DEFINE m == k - 1
  <1>1. /\ Len(frames') = k /\ Top.on = "setting" /\ cli.pc = "running" /\ k > 1
        /\ \A i \in 1 .. k : i # k => frames'[i] = frames[i]
        /\ frames'[k].on = "running" /\ frames'[k].code = glob[Start]
        /\ frames'[k].module = frames[k].module
        /\ k \in Nat \ {0} /\ k \in 1 .. k /\ Top = frames[k]
        /\ \A i \in 1 .. k : i # k => frames[i].on = "running"
    BY CallsegCallsFrames, RunFacts DEF OwnersInv
  <1>2. UNCHANGED <<cli, preloads>>
    BY DEF CallsegCalls
  <1>3. FoundKept'
    BY <1>2, FoundSame DEF CodeInv
  <1>4. m \in Nat /\ \A i \in 1 .. m : i \in 1 .. k /\ i # k
    BY <1>1
  <1>5. FramesKept(m)
    BY <1>1, <1>4 DEF FramesKept, Entered
  <1>6. \A i \in 1 .. k : frames'[i].module = frames[i].module
    BY <1>1
  <1>7. LoadedKept /\ FoundKept /\ k \in Nat /\ Len(frames) = k /\ Len(frames') = k
        /\ k <= k
    BY <1>1, ChainsLoadedKept DEF CodeInv
  <1>8. \A i \in 1 .. m : CodeAt(i)'
    BY <1>1, <1>2, <1>3, <1>5, <1>7, CodeSame
  <1>9. ModulesTo(k)' = ModulesTo(k)
    <2>1. \A i \in 1 .. k : /\ ModulesTo(i)' = ModulesTo(i) /\ ModuleOf(i)' = ModuleOf(i)
                            /\ Chain(ModuleOf(i))' = Chain(ModuleOf(i))
      BY <1>1, <1>2, <1>3, <1>6, <1>7, ModulesSame
    <2> QED
      BY <1>1, <2>1
  <1>10. glob[Start] \in ModulesTo(k)
    BY <1>1, <1>7 DEF CodeInv, RunKept, CodeAt
  <1>11. CodeAt(k)'
    BY <1>1, <1>9, <1>10 DEF CodeAt, Entered
  <1>14. \A i \in 1 .. k : i \in 1 .. m \/ i = k
    BY <1>1
  <1>15. RunKept'
    BY <1>1, <1>8, <1>11, <1>14 DEF RunKept
  <1> QED
    BY <1>1, <1>2, <1>3, <1>15, NotSetting DEF CodeInv

LEMMA ReturnCode ==
  ASSUME OwnersInv, OwnersInv', CodeInv, ChainsKept, CallsegFails \/ CallsegReturns
  PROVE  CodeInv'
  <1> DEFINE m == Len(frames) - 1
  <1>1. /\ Len(frames') = m /\ Len(frames) > 1 /\ cli.pc = "running" /\ cli' = cli
        /\ \A i \in 1 .. m : frames'[i] = frames[i] /\ frames[i].on = "running"
        /\ Len(frames) \in Nat /\ m \in Nat
    <2>1. \A i \in 1 .. m : i \in 1 .. Len(frames) /\ i # Len(frames)
      BY ReturnFrames, RunFacts DEF OwnersInv
    <2> QED
      BY <2>1, ReturnFrames, RunFacts, SMTT(30) DEF OwnersInv
  <1>2. FoundKept'
    BY <1>1, FoundSame DEF CodeInv, CallsegFails, CallsegReturns
  <1>3. FramesKept(m)
    BY <1>1 DEF FramesKept, Entered
  <1> HIDE DEF m
  <1>4. RunKept'
    BY <1>1, <1>2, <1>3, RunSame, ChainsLoadedKept
  <1> QED
    BY <1>1, <1>2, <1>4, NotSetting DEF CodeInv

(* preload and unpreload: a command whose module has gone is adrift.       *)
LEMMA PreloadCode ==
  ASSUME OwnersInv, OwnersInv', CodeInv, ChainsKept, NEW n, Preload(n)
  PROVE  CodeInv'
  <1> DEFINE k == Len(frames)
  <1>1. /\ Len(frames') = k /\ Top.on = "running" /\ cli.pc = "running"
        /\ cli'.pc = cli.pc /\ cli'.module = cli.module /\ cli'.found = cli.found
        /\ cli'.name = cli.name /\ preloads' = preloads
        /\ \A i \in 1 .. k :
             /\ frames'[i].module = frames[i].module /\ frames'[i].code = frames[i].code
             /\ frames'[i].on = IF i = k THEN "preloading" ELSE frames[i].on
        /\ k \in Nat /\ Top = frames[k]
        /\ \A i \in 1 .. k : i # k => frames[i].on = "running"
    BY PreloadFrames, RunFacts DEF OwnersInv, Preload
  <1>2. FoundKept'
    BY <1>1, FoundSame DEF CodeInv
  <1>3. FramesKept(k)
    BY <1>1 DEF FramesKept, Entered
  <1> HIDE DEF k
  <1>4. RunKept'
    BY <1>1, <1>2, <1>3, RunSame, ChainsLoadedKept
  <1> QED
    BY <1>1, <1>2, <1>4, NotSetting DEF CodeInv

(* A command that goes on has its own module, or what it has called would  *)
(* have been adrift.                                                       *)
LEMMA OwnModule ==
  ASSUME Shape, RunKept, cli.pc = "running", NEW V, cli' = Adrift(V), cli'.pc = "running"
  PROVE  ~ (Chain(cli.module) \subseteq V)
  <1>1. 1 \in 1 .. Len(frames) /\ frames[1] \in FrameRec /\ CodeAt(1)
    BY RunFacts DEF RunKept
  <1>2. Entered(1)
    BY <1>1 DEF Shape, Control, Entered, FrameRec
  <1>3. frames[1].code \in Chain(cli.module)
    <2>1. \A j \in 1 .. 1 : ModuleOf(j) = cli.module
      BY DEF ModuleOf
    <2> QED
      BY <1>1, <1>2, <2>1 DEF CodeAt, ModulesTo
  <1>4. \A i \in 1 .. Len(frames) : frames[i].code \notin V
    BY AdriftTyped DEF Shape, Typed
  <1> QED
    BY <1>1, <1>3, <1>4

(* The end of a preload: the frames have what they had.                    *)
LEMMA PreloadDoneCode ==
  ASSUME OwnersInv, OwnersInv', CodeInv, ChainsKept, PreloadDone,
         cli'.pc \in {"running", "adrift"}, cli'.module = cli.module,
         cli'.pc = "running" => FoundKept'
  PROVE  CodeInv'
  <1> DEFINE k == Len(frames)
  <1>1. /\ Len(frames') = k /\ cli.pc = "running"
        /\ \A i \in 1 .. k :
             /\ frames'[i].module = frames[i].module /\ frames'[i].code = frames[i].code
             /\ frames'[i].on = IF i = k THEN "running" ELSE frames[i].on
        /\ k \in Nat /\ Top = frames[k] /\ Top.on = "preloading"
        /\ \A i \in 1 .. k : i # k => frames[i].on = "running"
    BY PreloadDoneFrames, RunFacts DEF OwnersInv
  <1>2. FramesKept(k)
    BY <1>1 DEF FramesKept, Entered
  <1>3. cli'.pc # "running" => FoundKept'
    BY DEF FoundKept
  <1> HIDE DEF k
  <1>4. RunKept'
    BY <1>1, <1>2, RunSame, NotRunning, ChainsLoadedKept
  <1> QED
    BY <1>3, <1>4, NotSetting DEF CodeInv

LEMMA PreloadDropsCode ==
  ASSUME OwnersInv, OwnersInv', CodeInv, ChainsKept, PreloadFails \/ PreloadNoItem
  PROVE  CodeInv'
  <1>1. PreloadDone /\ cli' = cli /\ preloads' = preloads /\ cli.pc = "running"
    BY DEF PreloadFails, PreloadNoItem, PreloadDone
  <1>2. FoundKept'
    BY <1>1, FoundSame DEF CodeInv
  <1> QED
    BY <1>1, <1>2, PreloadDoneCode

LEMMA PreloadNewCode ==
  ASSUME OwnersInv, OwnersInv', CodeInv, ChainsKept, PreloadNew
  PROVE  CodeInv'
  <1>1. PreloadDone /\ cli' = cli /\ cli.pc = "running"
    BY DEF PreloadNew, PreloadDone
  <1>2. /\ Len(preloads') = Len(preloads) + 1 /\ Len(preloads) \in Nat
        /\ \A i \in 2 .. Len(preloads) + 1 : preloads'[i] = preloads[i-1]
    <2>1. LoadHeads \subseteq Vec
      BY LinksTyped DEF AllHeads
    <2> QED
      BY <2>1, PreloadNewShape DEF OwnersInv
  <1>3. ASSUME NEW i \in 1 .. Len(preloads)
        PROVE  i + 1 \in 1 .. Len(preloads') /\ preloads'[i + 1] = preloads[i]
    <2>1. i + 1 \in 2 .. Len(preloads) + 1 /\ (i + 1) - 1 = i /\ i + 1 \in 1 .. Len(preloads')
      BY <1>2
    <2> QED
      BY <1>2, <2>1
  <1>4. FoundKept'
    BY <1>1, <1>3 DEF CodeInv, FoundKept
  <1> QED
    BY <1>1, <1>4, PreloadDoneCode

LEMMA PreloadReplacesCode ==
  ASSUME OwnersInv, OwnersInv', CodeInv, ChainsKept, PreloadReplaces
  PROVE  CodeInv'
  <1> SUFFICES ASSUME NEW k, k = Entry(cli.preload) PROVE CodeInv'
    OBVIOUS
  <1>1. /\ k \in 1 .. Len(preloads) /\ Len(preloads') = Len(preloads)
        /\ \A i \in 1 .. Len(preloads) :
             /\ preloads'[i].name = preloads[i].name
             /\ preloads'[i].module = IF i = k THEN ld.list ELSE preloads[i].module
    BY PreloadReplacesShape DEF OwnersInv
  <1>2. PreloadDone /\ cli.pc = "running" /\ cli' = Adrift(Chain(preloads[k].module))
    BY DEF PreloadReplaces, PreloadDone
  <1>3. /\ cli'.pc \in {"running", "adrift"} /\ cli'.found = cli.found
        /\ cli'.module = cli.module /\ cli'.name = cli.name
    BY <1>2, AdriftTyped DEF OwnersInv, Shape, Typed
  <1>4. ASSUME cli'.pc = "running" PROVE FoundKept'
    <2>1. cli.module # preloads[k].module
      BY <1>2, <1>4, OwnModule DEF OwnersInv, CodeInv
    <2> QED
      BY <1>1, <1>2, <1>3, <1>4, <2>1 DEF CodeInv, FoundKept
  <1> QED
    BY <1>2, <1>3, <1>4, PreloadDoneCode

(* Entries are taken from the list: the frames are as they were.           *)
LEMMA UnpreloadedCode ==
  ASSUME OwnersInv, OwnersInv', CodeInv, ChainsKept, NEW V, Running, cli' = Adrift(V),
         UNCHANGED <<frames, glob, gl>>, cli'.pc = "running" => FoundKept'
  PROVE  CodeInv'
  <1> DEFINE k == Len(frames)
  <1>1. /\ Len(frames') = k /\ cli.pc = "running" /\ k \in Nat
        /\ Top = frames[k] /\ Top.on = "running"
        /\ \A i \in 1 .. k : i # k => frames[i].on = "running"
    BY RunFacts DEF OwnersInv, Running
  <1>2. cli'.pc \in {"running", "adrift"} /\ cli'.module = cli.module
    BY <1>1, AdriftTyped DEF OwnersInv, Shape, Typed
  <1>3. FramesKept(k)
    BY <1>1 DEF FramesKept, Entered
  <1>4. cli'.pc # "running" => FoundKept'
    BY <1>2 DEF FoundKept
  <1> HIDE DEF k
  <1>5. RunKept'
    BY <1>1, <1>2, <1>3, RunSame, NotRunning, ChainsLoadedKept
  <1> QED
    BY <1>2, <1>4, <1>5, NotSetting DEF CodeInv

LEMMA UnpreloadCode ==
  ASSUME OwnersInv, OwnersInv', CodeInv, ChainsKept, NEW n, Unpreload(n)
  PROVE  CodeInv'
  <1> SUFFICES ASSUME NEW k, k = Entry(n) PROVE CodeInv'
    OBVIOUS
  <1>1. /\ k \in 1 .. Len(preloads) /\ Len(preloads) \in Nat
        /\ Len(preloads') = Len(preloads) - 1
        /\ \A i \in 1 .. Len(preloads') : preloads'[i] = preloads[IF i < k THEN i ELSE i + 1]
        /\ cli' = Adrift(Chain(preloads[k].module))
    BY UnpreloadShape DEF OwnersInv
  <1>2. Running /\ cli.pc = "running" /\ UNCHANGED <<frames, glob, gl>>
    BY DEF Unpreload, UnpreloadItems, Running
  <1>3. cli'.found = cli.found /\ cli'.module = cli.module /\ cli'.name = cli.name
    BY <1>1, <1>2, AdriftTyped DEF OwnersInv, Shape, Typed
  <1>4. ASSUME cli'.pc = "running" PROVE FoundKept'
    <2>1. cli.module # preloads[k].module
      BY <1>1, <1>2, <1>4, OwnModule DEF OwnersInv, CodeInv
    <2>2. ASSUME NEW i \in 1 .. Len(preloads), i # k
          PROVE  \E j \in 1 .. Len(preloads') : preloads'[j] = preloads[i]
      <3>1. CASE i < k
        <4>1. i \in 1 .. Len(preloads')
          BY <1>1, <3>1
        <4> QED
          BY <1>1, <3>1, <4>1
      <3>2. CASE ~ (i < k)
        <4>1. i - 1 \in 1 .. Len(preloads') /\ ~ (i - 1 < k) /\ (i - 1) + 1 = i
          BY <1>1, <2>2, <3>2
        <4> QED
          BY <1>1, <4>1
      <3> QED
        BY <3>1, <3>2
    <2>3. SUFFICES ASSUME cli'.found
                   PROVE  \E j \in 1 .. Len(preloads') : /\ preloads'[j].name = cli.name
                                                         /\ preloads'[j].module = cli.module
      BY <1>3 DEF FoundKept
    <2>4. PICK i \in 1 .. Len(preloads) : /\ preloads[i].name = cli.name
                                          /\ preloads[i].module = cli.module
      BY <1>2, <1>3, <2>3 DEF CodeInv, FoundKept
    <2> QED
      BY <2>1, <2>2, <2>4
  <1> QED
    BY <1>1, <1>2, <1>4, UnpreloadedCode

LEMMA UnpreloadAllCode ==
  ASSUME OwnersInv, OwnersInv', CodeInv, ChainsKept, UnpreloadAll
  PROVE  CodeInv'
  <1> SUFFICES ASSUME NEW V, V = Chains(PreloadHeads) PROVE CodeInv'
    OBVIOUS
  <1>1. cli' = Adrift(V)
    BY UnpreloadAllShape DEF OwnersInv
  <1>2. Running /\ cli.pc = "running" /\ UNCHANGED <<frames, glob, gl>>
    BY DEF UnpreloadAll, UnpreloadItems, Running
  <1>3. cli'.found = cli.found
    BY <1>1, <1>2, AdriftTyped DEF OwnersInv, Shape, Typed
  <1>4. ASSUME cli'.pc = "running" PROVE FoundKept'
    <2>1. ~ (Chain(cli.module) \subseteq V)
      BY <1>1, <1>2, <1>4, OwnModule DEF OwnersInv, CodeInv
    <2>2. cli.module \notin PreloadHeads
      BY <2>1 DEF Chains
    <2>3. ~cli.found
      BY <1>2, <2>2 DEF CodeInv, FoundKept, PreloadHeads
    <2> QED
      BY <1>3, <2>3 DEF FoundKept
  <1> QED
    BY <1>1, <1>2, <1>4, UnpreloadedCode

(* The loader does nothing to what is in execution.                        *)
LEMMA LoadingCode ==
  ASSUME OwnersInv, OwnersInv', CodeInv, LoadedKept, ld.on = "reading",
         UNCHANGED <<glob, gl, cli, frames, preloads>>
  PROVE  CodeInv'
  <1>1. cli.pc \in {"loading", "running"} /\ gl.on = "off"
    BY DEF OwnersInv, Shape, Control
  <1>2. FoundKept' /\ SetKept'
    BY <1>1, FoundSame, NotSetting DEF CodeInv
  <1>3. CASE cli.pc = "running"
    <2> DEFINE k == Len(frames)
    <2>1. /\ Len(frames') = k /\ k \in Nat /\ Top = frames[k]
          /\ \A i \in 1 .. k : i # k => frames[i].on = "running"
      BY <1>3, RunFacts DEF OwnersInv
    <2>2. Top.on # "setting"
      BY <1>1, <1>3 DEF OwnersInv, Shape, Control
    <2>3. FramesKept(k)
      BY <2>1, <2>2 DEF FramesKept, Entered
    <2> HIDE DEF k
    <2>4. RunKept'
      BY <1>2, <1>3, <2>1, <2>3, RunSame
    <2> QED
      BY <1>2, <2>4 DEF CodeInv
  <1>4. CASE cli.pc = "loading"
    BY <1>2, <1>4, NotRunning DEF CodeInv
  <1> QED
    BY <1>1, <1>3, <1>4

(* No command runs after it.                                               *)
LEMMA IdleCode ==
  ASSUME cli'.pc \in {"prompt", "loading"}
  PROVE  CodeInv'
  BY NotSetting, NotRunning DEF CodeInv, FoundKept

LEMMA CodeStutters ==
  ASSUME OwnersInv, CodeInv, UNCHANGED vars
  PROVE  CodeInv'
  <1>1. UNCHANGED <<mem, disc, ld, gl, glob, stale, twice, cli, frames, preloads, failed>>
    BY DEF vars
  <1>2. OwnersInv'
    BY OwnersSame
  <1>3. ChainsKept
    <2>1. AllHeads' \subseteq AllHeads
      BY <1>1 DEF AllHeads, PreloadHeads, FrameHeads, CliHeads, LoadHeads
    <2>2. \A a \in Vec \cup {Null} : Chain(a)' = Chain(a)
      BY <1>1, <2>1, MemorySame DEF OwnersInv, Memory
    <2> QED
      BY <2>2, LinksTyped DEF ChainsKept
  <1>4. FoundKept'
    BY <1>1, FoundSame DEF CodeInv
  <1>5. CASE cli.pc = "running"
    <2> DEFINE k == Len(frames)
    <2>1. /\ Len(frames') = k /\ k \in Nat
      BY <1>1, <1>5, RunFacts DEF OwnersInv
    <2>2. FramesKept(k)
      BY <1>1, <1>5, <2>1 DEF FramesKept, Entered, CodeInv, RunKept, CodeAt
    <2> HIDE DEF k
    <2>3. RunKept'
      BY <1>1, <1>2, <1>3, <1>4, <1>5, <2>1, <2>2, RunSame, ChainsLoadedKept
    <2> QED
      BY <1>1, <1>4, <1>5, <2>3, NotSetting DEF CodeInv
  <1>6. CASE cli.pc = "setting"
    <2>1. MemTyped /\ MemTyped' /\ ModulesOwned /\ ModulesOwned'
      BY <1>1, <1>2, <1>4, <1>6, LinksTyped, LinksTypedNext, ModulesHaveOwners, ModulesHaveOwnersNext
         DEF OwnersInv, InCommand, CodeInv
    <2>2. ASSUME NEW a, a = cli.module PROVE Chain(a)' = Chain(a) /\ Chain(cli.module)' = Chain(a)'
      <3>1. Kept(a) /\ a \in AllHeads' \cup {Null}
        BY <1>1, <2>1, <2>2 DEF ModulesOwned, Kept
      <3> QED
        BY <1>1, <1>3, <2>1, <2>2, <3>1, KeptSame, ChainsLoadedKept
    <2>3. Chain(cli.module)' = Chain(cli.module)
      BY <2>2
    <2>4. SetKept'
      BY <1>1, <1>6, <2>3 DEF CodeInv, SetKept
    <2> QED
      BY <1>1, <1>4, <1>6, <2>4, NotRunning DEF CodeInv
  <1> QED
    BY <1>1, <1>4, <1>5, <1>6, NotSetting, NotRunning DEF CodeInv

LEMMA CodeKept ==
  ASSUME OwnersInv, GlobalsInv, CodeInv, Next
  PROVE  CodeInv'
  <1> OwnersInv'
    BY OwnersKept
  <1>1. CASE \E n \in Name : \/ Command(n) \/ PreloadedCommand(n) \/ Callseg(n)
                             \/ Preload(n) \/ Unpreload(n)
    <2> PICK n \in Name : \/ Command(n) \/ PreloadedCommand(n) \/ Callseg(n)
                          \/ Preload(n) \/ Unpreload(n)
      BY <1>1
    <2>1. CASE Command(n)
      BY <2>1, IdleCode DEF Command, Prompt
    <2>2. CASE PreloadedCommand(n)
      BY <2>2, PreloadedCommandCode
    <2>3. CASE Callseg(n)
      BY <2>3, CallsegStep, CallsegCode DEF StepKeeps
    <2>4. CASE Preload(n)
      BY <2>4, CallsegStep, PreloadCode DEF StepKeeps
    <2>5. CASE Unpreload(n)
      BY <2>5, UnpreloadStep, UnpreloadCode DEF StepKeeps
    <2> QED
      BY <2>1, <2>2, <2>3, <2>4, <2>5
  <1>2. CASE Steps
    <2>1. UNCHANGED <<cli, frames, preloads, failed>>
      BY <1>2 DEF Steps
    <2>2. CASE SettingGlobals
      BY <2>1, <2>2, GlobinStep, GlobinCode DEF StepKeeps
    <2>3. CASE Loading
      <3>1. UNCHANGED <<disc, gl, glob, stale>> /\ ld.on = "reading"
        BY <2>3 DEF Loading, LoadEof, LoadEnd, LoadErr, LoadHunk, LoadCut, Reads
      <3>2. CASE LoadEof \/ LoadEnd
        BY <2>1, <3>1, <3>2, LoadEofStep, ChainsLoadedKept, LoadingCode DEF StepKeeps
      <3>3. CASE LoadErr
        BY <2>1, <3>1, <3>3, LoadErrStep, ChainsLoadedKept, LoadingCode DEF StepKeeps
      <3>4. CASE LoadHunk
        <4>1. LoadedKept
          BY <2>1, <3>1, <3>4, LoadHunkStep DEF LoadedKept
        <4> QED
          BY <2>1, <3>1, <4>1, LoadingCode
      <3>5. CASE LoadCut
        BY <2>1, <3>1, <3>5, LoadCutStep, ChainsLoadedKept, LoadingCode
      <3> QED
        BY <2>3, <3>2, <3>3, <3>4, <3>5 DEF Loading
    <2> QED
      BY <1>2, <2>2, <2>3 DEF Steps
  <1>3. CASE CommandLoaded
    BY <1>3, CommandLoadedCode
  <1>4. CASE CommandFails
    BY <1>4, IdleCode DEF CommandFails, Prompt
  <1>5. CASE CommandStarts
    BY <1>5, CommandStartsStep, CommandStartsCode DEF StepKeeps
  <1>6. CASE Return \/ Stop
    BY <1>6, IdleCode DEF Return, Stop, CommandEnds, Prompt
  <1>7. CASE CallsegLoaded
    BY <1>7, CallsegLoadedStep, CallsegLoadedCode DEF StepKeeps
  <1>8. CASE CallsegCalls
    BY <1>8, CallsegCallsStep, CallsegCallsCode DEF StepKeeps
  <1>9. CASE CallsegFails \/ CallsegReturns
    BY <1>9, CallsegFailsStep, CallsegReturnsStep, ReturnCode DEF StepKeeps
  <1>10. CASE Preloads
    <2>1. CASE PreloadFails \/ PreloadNoItem
      BY <2>1, PreloadDropsStep, PreloadDropsCode
    <2>2. CASE PreloadReplaces
      BY <2>2, PreloadReplacesStep, PreloadReplacesCode DEF StepKeeps
    <2>3. CASE PreloadNew
      BY <2>3, PreloadNewStep, PreloadNewCode DEF StepKeeps
    <2> QED
      BY <1>10, <2>1, <2>2, <2>3 DEF Preloads
  <1>11. CASE UnpreloadAll
    BY <1>11, UnpreloadAllStep, UnpreloadAllCode DEF StepKeeps
  <1> QED
    BY <1>1, <1>2, <1>3, <1>4, <1>5, <1>6, <1>7, <1>8, <1>9, <1>10, <1>11 DEF Next

(* What is said of owners, of the globals and of the code in execution is  *)
(* an invariant; the three need one another.                               *)
THEOREM Invariant == Spec => []IInv
  <1>1. Init => IInv
    <2> SUFFICES ASSUME Init PROVE IInv
      OBVIOUS
    <2>1. OwnersInv
      BY OwnersAtFirst
    <2>2. /\ cli = Prompt /\ frames = <<>> /\ stale = {} /\ Len(<<>>) = 0
          /\ glob = [g \in Global |-> IF g \in Library \cup {Start} THEN InLibrary ELSE Unset]
      BY FramesNone DEF Init, InitSegments
    <2>3. \A g \in User : g \in Global /\ g # Start /\ g \notin Library
      BY SegmentsAssumption DEF SegmentsAssumption, Global
    <2>4. \A g \in Library : g \in Global
      BY DEF Global
    <2>5. Clean
      BY <2>2, <2>3, <2>4 DEF Clean
    <2>6. GlobalsInv
      BY <2>2, <2>5 DEF GlobalsInv, CleanKept, StartKept, Prompt
    <2>7. CodeInv
      BY <2>2 DEF CodeInv, FoundKept, SetKept, RunKept, Prompt
    <2> QED
      BY <2>1, <2>6, <2>7 DEF IInv
  <1>2. IInv /\ [Next]_vars => IInv'
    <2>1. ASSUME IInv, Next PROVE IInv'
      BY <2>1, OwnersKept, GlobalsKept, CodeKept DEF IInv
    <2>2. ASSUME IInv, UNCHANGED vars PROVE IInv'
      <3>1. OwnersInv' /\ CodeInv'
        BY <2>2, OwnersSame, CodeStutters DEF IInv
      <3>2. GlobalsInv'
        BY <2>2 DEF IInv, GlobalsInv, CleanKept, StartKept, Clean, NoCommand, TopEntered, Top, vars
      <3> QED
        BY <3>1, <3>2 DEF IInv
    <2> QED
      BY <2>1, <2>2
  <1> QED
    BY <1>1, <1>2, PTL DEF Spec

(* Commands, and the segments they call, leave the globals as they have    *)
(* found them: at the prompt the library's are the library's and none of   *)
(* the user's is set, and start is always that of the segment that runs.   *)
THEOREM GlobalsReturned == Spec => []GlobalsGivenBack
  <1>1. IInv => GlobalsGivenBack
    BY DEF IInv, GlobalsInv, CleanKept, StartKept, Clean, NoCommand, TopEntered,
           GlobalsGivenBack, PromptClean, StartIsRunning, Running
  <1> QED
    BY <1>1, Invariant, PTL

-----------------------------------------------------------------------------
(* The code of a segment in execution is in a module that has an owner,    *)
(* and a hunk is in one owner's module only.                               *)
LEMMA CodeOwner ==
  ASSUME OwnersInv, CodeInv, cli.pc = "running",
         NEW i \in 1 .. Len(frames), frames[i].code \in Vec
  PROVE  \E j \in 1 .. i : /\ frames[i].code \in Chain(ModuleOf(j))
                           /\ ModuleOf(j) \in AllHeads \ LoadHeads
                           /\ j \in 1 .. Len(frames)
                           /\ IF j = 1 THEN ModuleOf(j) = cli.module
                              ELSE ModuleOf(j) = frames[j].module /\ ModuleOf(j) \in FrameHeads
  <1>1. frames[i].code \in ModulesTo(i)
    BY Apart DEF CodeInv, RunKept, CodeAt
  <1>2. PICK j \in 1 .. i : frames[i].code \in Chain(ModuleOf(j))
    BY <1>1 DEF ModulesTo
  <1>3. j \in 1 .. Len(frames) /\ ModulesOwned /\ MemTyped
    BY RunFacts, LinksTyped, ModulesHaveOwners DEF OwnersInv, CodeInv, InCommand
  <1>4. Chain(Null) = {}
    BY <1>3, ChainLaws DEF ChainFacts
  <1>5. ModuleOf(j) # Null
    BY <1>2, <1>4
  <1> QED
    BY <1>2, <1>3, <1>5 DEF ModulesOwned, Kept, ModuleOf

LEMMA OneHead ==
  ASSUME OwnersInv, NEW a \in AllHeads, NEW b \in AllHeads, NEW v, v \in Chain(a), v \in Chain(b)
  PROVE  a = b
  <1>1. LinksGood /\ a \in Hunks /\ b \in Hunks /\ NoneLeadsTo(a) /\ NoneLeadsTo(b)
    BY DEF OwnersInv, Memory, HeadsFirst, NoneLeadsTo
  <1> QED
    BY <1>1, ChainsApart

(* What a step takes from the code in execution.                           *)
LEMMA GoneIs == Gone = InExecution' \cap (Hunks \ Hunks')
  BY DEF Gone, InExecution, Hunks

LEMMA NoneInExecution == frames' = <<>> => InExecution' = {}
  BY FramesNone DEF InExecution

LEMMA SameInExecution ==
  ASSUME Len(frames') = Len(frames),
         \A i \in 1 .. Len(frames) : frames'[i].code = frames[i].code
  PROVE  InExecution' = InExecution
  BY DEF InExecution

LEMMA LoadingGone ==
  ASSUME OwnersInv, CodeInv, ld.on = "reading", frames' = frames,
         Hunks \ Chains(LoadHeads) \subseteq Hunks'
  PROVE  Gone = {}
  <1>1. CASE cli.pc # "running"
    <2>1. frames = <<>>
      BY <1>1 DEF OwnersInv, Shape, Control
    <2> QED
      BY <2>1, NoneInExecution, GoneIs
  <1>2. CASE cli.pc = "running"
    <2> SUFFICES ASSUME NEW v, v \in Gone PROVE FALSE
      OBVIOUS
    <2>1. v \in InExecution /\ v \in Chains(LoadHeads)
      BY GoneIs, SameInExecution
    <2>2. PICK a \in LoadHeads : v \in Chain(a)
      BY <2>1 DEF Chains
    <2>3. PICK i \in 1 .. Len(frames) : v = frames[i].code /\ v \in Vec
      BY <2>1 DEF InExecution
    <2>4. PICK j \in 1 .. i : v \in Chain(ModuleOf(j)) /\ ModuleOf(j) \in AllHeads \ LoadHeads
      BY <1>2, <2>3, CodeOwner
    <2>5. a \in AllHeads
      BY DEF AllHeads
    <2> QED
      BY <2>2, <2>4, <2>5, OneHead
  <1> QED
    BY <1>1, <1>2

LEMMA CallsegReturnsGone ==
  ASSUME OwnersInv, CodeInv, CallsegReturns
  PROVE  Gone = {}
  <1> SUFFICES ASSUME NEW v, v \in Gone, NEW k, k = Len(frames) PROVE FALSE
    OBVIOUS
  <1>1. /\ Len(frames') = k - 1 /\ k > 1 /\ k \in Nat /\ cli.pc = "running" /\ Top = frames[k]
        /\ \A i \in 1 .. k - 1 : frames'[i] = frames[i]
    BY ReturnFrames, RunFacts DEF OwnersInv
  <1>2. /\ Top.module \in FrameHeads \cup {Null} /\ MemTyped
        /\ Hunks' = Hunks \ Chain(Top.module)
    BY CallsegReturnsStep
  <1>3. v \in InExecution' /\ v \in Chain(Top.module)
    BY <1>2, GoneIs
  <1>4. Chain(Null) = {}
    BY <1>2, ChainLaws DEF ChainFacts
  <1>5. Top.module \in FrameHeads /\ Top.module \in AllHeads
    BY <1>2, <1>3, <1>4 DEF AllHeads
  <1>6. PICK i \in 1 .. k - 1 : v = frames[i].code /\ v \in Vec /\ i \in 1 .. Len(frames)
    BY <1>1, <1>3 DEF InExecution
  <1>7. PICK j \in 1 .. i : /\ v \in Chain(ModuleOf(j)) /\ ModuleOf(j) \in AllHeads \ LoadHeads
                            /\ j \in 1 .. Len(frames)
                            /\ IF j = 1 THEN ModuleOf(j) = cli.module
                               ELSE ModuleOf(j) = frames[j].module /\ ModuleOf(j) \in FrameHeads
    BY <1>1, <1>6, CodeOwner
  <1>8. ModuleOf(j) = Top.module
    BY <1>3, <1>5, <1>7, OneHead
  <1>9. j # k /\ k \in 1 .. Len(frames) /\ Top.module # Null
    BY <1>1, <1>6, <1>5 DEF FrameHeads
  <1>10. CASE j = 1
    <2>1. ~cli.found
      BY <1>1, <1>5, <1>7, <1>8, <1>10 DEF CodeInv, FoundKept, PreloadHeads, OwnersInv, Shape, HeadsApart
    <2>2. cli.module \in CliHeads
      BY <1>7, <1>8, <1>9, <1>10, <2>1 DEF CliHeads
    <2> QED
      BY <1>5, <1>7, <1>8, <1>10, <2>2 DEF OwnersInv, Shape, HeadsApart
  <1>11. CASE j # 1
    BY <1>1, <1>7, <1>8, <1>9, <1>11 DEF OwnersInv, Shape, HeadsApart
  <1> QED
    BY <1>10, <1>11

(* From the preload list only the module of a preloaded command is taken   *)
(* while it is executed.                                                   *)
LEMMA PreloadedGone ==
  ASSUME OwnersInv, CodeInv, cli.pc = "running", InExecution' = InExecution,
         NEW A \in SUBSET PreloadHeads, Hunks' = Hunks \ Chains(A), Gone # {}
  PROVE  cli.found /\ cli.module \in A /\ Gone \subseteq Chain(cli.module)
  <1>1. ASSUME NEW v, v \in Gone
        PROVE  cli.found /\ cli.module \in A /\ v \in Chain(cli.module)
    <2>1. v \in InExecution /\ v \in Chains(A)
      BY <1>1, GoneIs
    <2>2. PICK a \in A : v \in Chain(a)
      BY <2>1 DEF Chains
    <2>3. PICK i \in 1 .. Len(frames) : v = frames[i].code /\ v \in Vec
      BY <2>1 DEF InExecution
    <2>4. PICK j \in 1 .. i : /\ v \in Chain(ModuleOf(j)) /\ ModuleOf(j) \in AllHeads \ LoadHeads
                              /\ IF j = 1 THEN ModuleOf(j) = cli.module
                                 ELSE ModuleOf(j) = frames[j].module /\ ModuleOf(j) \in FrameHeads
      BY <2>3, CodeOwner
    <2>5. a \in AllHeads /\ a \in PreloadHeads
      BY DEF AllHeads
    <2>6. ModuleOf(j) = a
      BY <2>2, <2>4, <2>5, OneHead
    <2>7. j = 1
      BY <2>4, <2>5, <2>6 DEF OwnersInv, Shape, HeadsApart
    <2>8. a # Null
      <3>1. a \in Vec
        BY <2>5, LinksTyped
      <3> QED
        BY <3>1, NullIsNoPlace
    <2>9. cli.found
      BY <2>4, <2>5, <2>6, <2>7, <2>8 DEF CliHeads, OwnersInv, Shape, HeadsApart
    <2> QED
      BY <2>2, <2>4, <2>6, <2>7, <2>9
  <1> QED
    BY <1>1

(* Its entry is the one of its name.                                       *)
LEMMA OwnEntry ==
  ASSUME OwnersInv, CodeInv, cli.pc = "running", cli.found,
         NEW k \in 1 .. Len(preloads), preloads[k].module = cli.module
  PROVE  preloads[k].name = cli.name
  BY DEF CodeInv, FoundKept, OwnersInv, Shape, HeadsApart

(* Code in execution is unloaded by a preloaded command that takes itself  *)
(* from the preload list or replaces itself, and by nothing else.          *)
THEOREM CodeRemains == Spec => CodeStays
  <1> DEFINE Allowed == /\ cli.found
                        /\ UnpreloadAll \/ Unpreload(cli.name) \/ PreloadReplaces
                        /\ Gone \subseteq Chain(cli.module)
  <1>1. ASSUME OwnersInv, CodeInv, Next, Gone # {}
        PROVE  Allowed
    <2> USE <1>1
    <2>1. ~ (Hunks \subseteq Hunks') /\ frames' # <<>>
      BY GoneIs, NoneInExecution
    <2>2. ASSUME NEW n \in Name, \/ Command(n) \/ PreloadedCommand(n) \/ Callseg(n) \/ Preload(n)
          PROVE  FALSE
      BY <2>1, <2>2, CommandStep, PreloadedCommandStep, CallsegStep
    <2>3. ASSUME NEW n \in Name, Unpreload(n)
          PROVE  Allowed
      <3> SUFFICES ASSUME NEW k, k = Entry(n) PROVE Allowed
        OBVIOUS
      <3>1. /\ k \in 1 .. Len(preloads) /\ preloads[k].module \in PreloadHeads
            /\ preloads[k].name = n /\ Hunks' = Hunks \ Chain(preloads[k].module)
        BY <2>3, UnpreloadShape, UnpreloadStep DEF OwnersInv
      <3>2. cli.pc = "running" /\ frames' = frames
        BY <2>3 DEF Unpreload, UnpreloadItems, Running
      <3>3. Chains({preloads[k].module}) = Chain(preloads[k].module)
        BY DEF Chains
      <3>4. /\ cli.found /\ cli.module = preloads[k].module
            /\ Gone \subseteq Chain(cli.module)
        <4>1. {preloads[k].module} \in SUBSET PreloadHeads
          BY <3>1
        <4>2. InExecution' = InExecution
          BY <3>2, SameInExecution
        <4>3. cli.found /\ cli.module \in {preloads[k].module} /\ Gone \subseteq Chain(cli.module)
          BY <3>1, <3>2, <3>3, <4>1, <4>2, PreloadedGone
        <4> QED
          BY <4>3
      <3>5. n = cli.name
        BY <3>1, <3>2, <3>4, OwnEntry
      <3> QED
        BY <2>3, <3>4, <3>5
    <2>4. CASE Steps
      <3>1. UNCHANGED <<cli, frames, preloads, failed>>
        BY <2>4 DEF Steps
      <3>2. CASE SettingGlobals
        BY <2>1, <3>1, <3>2, GlobinStep
      <3>3. CASE Loading
        <4>1. UNCHANGED <<disc, gl, glob, stale>> /\ ld.on = "reading"
          BY <3>3 DEF Loading, LoadEof, LoadEnd, LoadErr, LoadHunk, LoadCut, Reads
        <4>2. CASE LoadEof \/ LoadEnd
          BY <2>1, <3>1, <4>1, <4>2, LoadEofStep
        <4>3. CASE LoadErr
          BY <3>1, <4>1, <4>3, LoadErrStep, LoadingGone
        <4>4. CASE LoadHunk
          BY <2>1, <3>1, <4>1, <4>4, LoadHunkStep
        <4>5. CASE LoadCut
          BY <3>1, <4>1, <4>5, LoadCutStep, LoadingGone
        <4> QED
          BY <3>3, <4>2, <4>3, <4>4, <4>5 DEF Loading
      <3> QED
        BY <2>4, <3>2, <3>3 DEF Steps
    <2>5. CASE CommandLoaded \/ CommandStarts \/ CallsegLoaded \/ CallsegCalls \/ CallsegFails
      BY <2>1, <2>5, CommandLoadedStep, CommandStartsStep, CallsegLoadedStep,
         CallsegCallsStep, CallsegFailsStep
    <2>6. CASE CommandFails
      BY <2>1, <2>6 DEF CommandFails, OwnersInv, Shape, Control
    <2>7. CASE Return \/ Stop
      BY <2>1, <2>7 DEF Return, Stop, CommandEnds
    <2>8. CASE CallsegReturns
      BY <2>8, CallsegReturnsGone
    <2>9. CASE PreloadFails \/ PreloadNoItem \/ PreloadNew
      BY <2>1, <2>9, PreloadDropsStep, PreloadNewStep
    <2>10. CASE PreloadReplaces
      <3> SUFFICES ASSUME NEW k, k = Entry(cli.preload) PROVE Allowed
        OBVIOUS
      <3>1. /\ preloads[k].module \in PreloadHeads /\ Hunks' = Hunks \ Chain(preloads[k].module)
        BY <2>10, PreloadReplacesStep
      <3>2. cli.pc = "running" /\ InExecution' = InExecution
        <4>1. PreloadDone
          BY <2>10 DEF PreloadReplaces
        <4> QED
          BY <4>1, PreloadDoneFrames, SameInExecution DEF OwnersInv
      <3>3. Chains({preloads[k].module}) = Chain(preloads[k].module)
        BY DEF Chains
      <3>4. {preloads[k].module} \in SUBSET PreloadHeads
        BY <3>1
      <3>5. cli.found /\ Gone \subseteq Chain(cli.module)
        BY <3>1, <3>2, <3>3, <3>4, PreloadedGone
      <3> QED
        BY <2>10, <3>5
    <2>11. CASE UnpreloadAll
      <3>1. cli.pc = "running" /\ frames' = frames
        BY <2>11 DEF UnpreloadAll, UnpreloadItems, Running
      <3>2. InExecution' = InExecution /\ Hunks' = Hunks \ Chains(PreloadHeads)
        BY <2>11, <3>1, SameInExecution, UnpreloadAllStep
      <3>3. cli.found /\ Gone \subseteq Chain(cli.module)
        BY <3>1, <3>2, PreloadedGone
      <3> QED
        BY <2>11, <3>3
    <2> QED
      BY <2>2, <2>3, <2>4, <2>5, <2>6, <2>7, <2>8, <2>9, <2>10, <2>11 DEF Next, Preloads
  <1>2. IInv /\ [Next]_vars => [Gone # {} => Allowed]_vars
    BY <1>1 DEF IInv
  <1> QED
    BY <1>2, Invariant, PTL DEF Spec, CodeStays
=============================================================================
