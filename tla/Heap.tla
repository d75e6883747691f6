-------------------------------- MODULE Heap --------------------------------
(***************************************************************************)
(* The storage allocator of the Cintcode system: getvec and freevec of     *)
(* cintcode/sysc/cintsys.c.                                                *)
(*                                                                         *)
(* The memory W is a chain of blocks that starts at word 0 and ends with a *)
(* zero word at memupb.  The first word of a block holds its size, which   *)
(* is even, with the bottom bit set when the block is free.  freevec only  *)
(* sets that bit; getvec joins adjacent free blocks when it looks for room.*)
(* The last nine words of an allocated block are there to detect a program *)
(* that writes past the end of its vector.                                 *)
(*                                                                         *)
(* getvec is modelled loop iteration by loop iteration with its own        *)
(* variables p, q and n.  No other use of the heap comes in between: the   *)
(* interpreter runs it to the end within one sys call.                     *)
(***************************************************************************)
EXTENDS Integers, FiniteSets

CONSTANTS
  Memupb,        \* the upper bound of the memory, even
  Requests,      \* the upper bounds that programs ask getvec for
  Vecstatsvupb,  \* the upper bound of vecstatsv
  MaxOver        \* how many words past its vector a program may write

ASSUME HeapAssumption ==
  /\ Memupb \in Nat /\ Memupb > 0 /\ Memupb % 2 = 0
  /\ Requests \subseteq Nat
  /\ Vecstatsvupb \in Nat
  /\ MaxOver \in 0 .. 2

VARIABLES
  W,          \* the words of the memory
  vecstatsv,  \* the counts of allocated vectors by requested upper bound
  pc,         \* where getvec is: "idle", "used", "free" (its two inner loops)
  requpb, n, p, q,   \* its argument and its variables
  res,        \* the result of the last getvec or freevec
  held,       \* the vectors programs have been given and not freed
  stale,      \* freed vectors whose memory was not handed out again
  heads       \* the addresses where the blocks start (nothing reads it)

vars == <<W, vecstatsv, pc, requpb, n, p, q, res, held, stale, heads>>
heap == <<W, vecstatsv, held, stale, heads>>

(* The contents of memory nobody has written, and of the safety words. *)
Unset  == 0 - 559038242   \* 0xDEADC0DE
Round  == 0 - 858993460   \* 0xCCCCCCCC
FiveA  == 1431655765      \* 0x55555555
TenA   == 0 - 1431655766  \* 0xAAAAAAAA
TRUTH  == 0 - 1           \* TRUE in BCPL

Odd(x) == x % 2 = 1

(* A block has its size word, the vector, and room for the safety words,   *)
(* and is an even number of words.                                         *)
BlockSize(r) == LET upb == r + 4 + 4 IN ((upb + 1 + 1 + 1) \div 2) * 2

Clip(r) == IF r > Vecstatsvupb THEN Vecstatsvupb ELSE r

(* The words from a up to but not including b. *)
Words(a, b) == a .. b - 1

(* The words of the block of vector v, and the words the program may use.  *)
Block(v) == Words(v.base - 1, v.base - 1 + BlockSize(v.upb))
Vector(v) == v.base .. v.base + v.upb

-----------------------------------------------------------------------------
(* main, before the first getvec. *)
Init ==
  /\ W = [a \in 0 .. Memupb |-> IF a = 0 THEN Memupb + 1
                                ELSE IF a = Memupb THEN 0 ELSE Unset]
  /\ vecstatsv = [i \in 0 .. Vecstatsvupb |-> 0]
  /\ pc = "idle"
  /\ requpb = 0 /\ n = 0 /\ p = 0 /\ q = 0
  /\ res = 0
  /\ held = {} /\ stale = {}
  /\ heads = {0, Memupb}

(* On return from getvec its variables are gone. *)
Return == pc' = "idle" /\ requpb' = 0 /\ n' = 0 /\ p' = 0 /\ q' = 0

GetvecCall(r) ==
  /\ pc = "idle"
  /\ requpb' = r
  /\ n' = BlockSize(r)
  /\ q' = 0 /\ p' = 0
  /\ pc' = "used"
  /\ UNCHANGED <<heap, res>>

(* The first inner loop skips the allocated blocks from p. *)
SkipUsed ==
  /\ pc = "used"
  /\ ~Odd(W[p]) /\ W[p] # 0
  /\ p' = p + W[p]
  /\ UNCHANGED <<heap, pc, requpb, n, q, res>>

GetvecFails ==
  /\ pc = "used"
  /\ W[p] = 0
  /\ res' = 0
  /\ Return
  /\ UNCHANGED heap

FreeFound ==
  /\ pc = "used"
  /\ Odd(W[p])
  /\ q' = p
  /\ pc' = "free"
  /\ UNCHANGED <<heap, requpb, n, p, res>>

(* Faulty: the free bit is added to the address. *)
SkipFreeWithBit ==
  /\ pc = "free"
  /\ Odd(W[q])
  /\ q' = q + W[q]
  /\ UNCHANGED <<heap, pc, requpb, n, p, res>>

(* The second inner loop skips the free blocks from q. *)
SkipFree ==
  /\ pc = "free"
  /\ Odd(W[q])
  /\ q' = q + W[q] - 1
  /\ UNCHANGED <<heap, pc, requpb, n, p, res>>

(* Faulty: an exact fit is refused. *)
TooSmallOrEqual ==
  /\ pc = "free"
  /\ ~Odd(W[q])
  /\ q - p <= n
  /\ p' = q
  /\ pc' = "used"
  /\ UNCHANGED <<heap, requpb, n, q, res>>

(* Faulty: the search goes on from the same place. *)
TooSmallStuck ==
  /\ pc = "free"
  /\ ~Odd(W[q])
  /\ q - p < n
  /\ p' = p
  /\ pc' = "used"
  /\ UNCHANGED <<heap, requpb, n, q, res>>

(* Faulty: only the first free words are looked at. *)
TooSmallGivesUp ==
  /\ pc = "free"
  /\ ~Odd(W[q])
  /\ q - p < n
  /\ res' = 0
  /\ Return
  /\ UNCHANGED heap

(* The test of the outer loop. *)
TooSmall ==
  /\ pc = "free"
  /\ ~Odd(W[q])
  /\ q - p < n
  /\ p' = q
  /\ pc' = "used"
  /\ UNCHANGED <<heap, requpb, n, q, res>>

(* Faulty: the rest keeps the size of the whole. *)
CarvedWhole ==
  [a \in 0 .. Memupb |->
     CASE a = p     -> n
       [] a = p+n-9 -> Round
       [] a = p+n-8 -> FiveA
       [] a = p+n-7 -> TenA
       [] a = p+n-6 -> requpb
       [] a \in p+n-5 .. p+n-2 -> 0
       [] a = p+n-1 -> p
       [] a = p+n /\ p+n # q -> q-p + 1
       [] OTHER -> W[a]]

(* Faulty: an exact fit is split too. *)
CarvedAlways ==
  [a \in 0 .. Memupb |->
     CASE a = p     -> n
       [] a = p+n-9 -> Round
       [] a = p+n-8 -> FiveA
       [] a = p+n-7 -> TenA
       [] a = p+n-6 -> requpb
       [] a \in p+n-5 .. p+n-2 -> 0
       [] a = p+n-1 -> p
       [] a = p+n -> q-p-n + 1
       [] OTHER -> W[a]]

(* The block at p, the rest of the free words up to q, the safety words.   *)
(* (The task name in the words n-5 to n-2 is zero in cintsys.)             *)
Carved ==
  [a \in 0 .. Memupb |->
     CASE a = p     -> n
       [] a = p+n-9 -> Round
       [] a = p+n-8 -> FiveA
       [] a = p+n-7 -> TenA
       [] a = p+n-6 -> requpb
       [] a \in p+n-5 .. p+n-2 -> 0
       [] a = p+n-1 -> p
       [] a = p+n /\ p+n # q -> q-p-n + 1
       [] OTHER -> W[a]]

(* Faulty: the room is compared with the request, not the block. *)
GetvecTakesUnsized ==
  /\ pc = "free"
  /\ ~Odd(W[q])
  /\ q - p > requpb
  /\ W' = Carved
  /\ vecstatsv' = [vecstatsv EXCEPT ![Clip(requpb)] = @ + 1]
  /\ res' = p + 1
  /\ Return
  /\ held' = held \cup {[base |-> p + 1, upb |-> requpb]}
  /\ stale' = {v \in stale : Block(v) \cap Words(p, p + n) = {}}
  /\ heads' = {h \in heads : h <= p \/ h >= q} \cup {p + n}

GetvecTakes ==
  /\ pc = "free"
  /\ ~Odd(W[q])
  /\ q - p >= n
  /\ W' = Carved
  /\ vecstatsv' = [vecstatsv EXCEPT ![Clip(requpb)] = @ + 1]
  /\ res' = p + 1
  /\ Return
  /\ held' = held \cup {[base |-> p + 1, upb |-> requpb]}
  /\ stale' = {v \in stale : Block(v) \cap Words(p, p + n) = {}}
  /\ heads' = {h \in heads : h <= p \/ h >= q} \cup {p + n}

(* The test of the safety words in freevec. *)
Intact(b) ==
  LET s == W[b] IN /\ W[b+s-1] = b
                   /\ W[b+s-7] = TenA
                   /\ W[b+s-8] = FiveA

(* Faulty: a block that has been overwritten is not freed. *)
FreevecIntactOnly(v) ==
  LET b == v.base - 1
      u == W[b + W[b] - 6]
  IN  /\ pc = "idle"
      /\ ~Odd(W[b])
      /\ res' = IF Intact(b) THEN TRUTH ELSE 0
      /\ W' = [W EXCEPT ![b] = IF Intact(b) THEN W[b] + 1 ELSE W[b]]
      /\ vecstatsv' = [vecstatsv EXCEPT ![Clip(u)] = @ - 1]
      /\ held' = held \ {v}
      /\ stale' = stale \cup {v}
      /\ UNCHANGED <<pc, requpb, n, p, q, heads>>

(***************************************************************************)
(* freevec of a vector that is allocated.  A block whose safety words have *)
(* been overwritten is reported, and freed all the same.                   *)
(***************************************************************************)
Freevec(v) ==
  LET b == v.base - 1
      u == W[b + W[b] - 6]
  IN  /\ pc = "idle"
      /\ ~Odd(W[b])
      /\ res' = IF Intact(b) THEN TRUTH ELSE 0
      /\ W' = [W EXCEPT ![b] = W[b] + 1]
      /\ vecstatsv' = [vecstatsv EXCEPT ![Clip(u)] = @ - 1]
      /\ held' = held \ {v}
      /\ stale' = stale \cup {v}
      /\ UNCHANGED <<pc, requpb, n, p, q, heads>>

(* freevec of a vector that is free already. *)
FreevecAgain(v) ==
  /\ pc = "idle"
  /\ Odd(W[v.base - 1])
  /\ res' = 0
  /\ UNCHANGED <<heap, pc, requpb, n, p, q>>

(***************************************************************************)
(* A program writes k words past the end of its vector v.                  *)
(***************************************************************************)
Overrun(v, k) ==
  /\ pc = "idle"
  /\ W' = [a \in 0 .. Memupb |->
             IF a \in v.base + v.upb + 1 .. v.base + v.upb + k THEN Unset ELSE W[a]]
  /\ UNCHANGED <<vecstatsv, pc, requpb, n, p, q, res, held, stale, heads>>

Getvec ==
  \/ \E r \in Requests : GetvecCall(r)
  \/ SkipUsed \/ GetvecFails \/ FreeFound \/ SkipFree \/ TooSmall \/ GetvecTakes

Next ==
  \/ Getvec
  \/ \E v \in held \cup stale : Freevec(v) \/ FreevecAgain(v)
  \/ \E v \in held, k \in 1 .. MaxOver : Overrun(v, k)

Spec == Init /\ [][Next]_vars

(* getvec is straight-line code of the interpreter: once called, it runs.  *)
FairSpec == Spec /\ WF_vars(pc # "idle" /\ Getvec)

-----------------------------------------------------------------------------
Even(x) == x % 2 = 0

(* The end of the block at h. *)
BlockEnd(h) == IF Odd(W[h]) THEN h + W[h] - 1 ELSE h + W[h]

(* Every variable has a value of its kind; addresses of blocks are even.   *)
TypeOK ==
  /\ W \in [0 .. Memupb -> Int]
  /\ vecstatsv \in [0 .. Vecstatsvupb -> Int]
  /\ pc \in {"idle", "used", "free"}
  /\ requpb \in Nat
  /\ n \in Nat /\ Even(n)
  /\ p \in 0 .. Memupb /\ Even(p)
  /\ q \in 0 .. Memupb /\ Even(q)
  /\ res \in Int
  /\ \A v \in held \cup stale : v.base \in 1 .. Memupb /\ v.upb \in Nat
  /\ heads \subseteq 0 .. Memupb

(* The chain of blocks covers the memory without gap or overlap, and the   *)
(* allocated blocks in it are exactly the vectors that programs hold.      *)
BlocksTile ==
  /\ {0, Memupb} \subseteq heads
  /\ W[Memupb] = 0
  /\ \A h \in heads \ {Memupb} :
       /\ BlockEnd(h) \in heads
       /\ BlockEnd(h) > h
       /\ \A g \in heads : g <= h \/ g >= BlockEnd(h)
  /\ \A v \in held : v.base - 1 \in heads /\ W[v.base - 1] = BlockSize(v.upb)
  /\ \A h \in heads \ {Memupb} : ~Odd(W[h]) => \E v \in held : v.base = h + 1

(***************************************************************************)
(* What getvec is for: no word of the vector a program holds belongs to    *)
(* the block of another one, and all of it lies in the memory, whatever    *)
(* was allocated, freed, freed twice or overrun before.                    *)
(***************************************************************************)
VectorsDisjoint ==
  \A v \in held :
    /\ Vector(v) \subseteq 0 .. Memupb - 1
    /\ \A w \in held : v # w => Vector(v) \cap Block(w) = {}

(* There is room for a block of size s at a. *)
Room(s, a) ==
  /\ a + s <= Memupb
  /\ \A v \in held : \/ a + s <= v.base - 1
                     \/ v.base - 1 + BlockSize(v.upb) <= a

(***************************************************************************)
(* The search of getvec, with its joining of free blocks on the way, never *)
(* passes over a place that is large enough: it takes the lowest one, and  *)
(* it returns 0 only when there is none.                                   *)
(***************************************************************************)
ScanMissesNothing ==
  pc # "idle" => \A a \in 0 .. p - 1 : ~Room(n, a)

(* A vector freed twice is reported, as long as its memory has not been    *)
(* handed out again: its size word still says that it is free.             *)
StaleReported == \A v \in stale : Odd(W[v.base - 1])

(* getvec writes no word of a block that somebody holds. *)
HeldUntouched ==
  [][Getvec => \A v \in held : \A a \in Block(v) : W'[a] = W[a]]_vars

(* Every call of getvec returns. *)
GetvecReturns == (pc # "idle") ~> (pc = "idle")

-----------------------------------------------------------------------------
(* The promise of getvec and freevec to the programs, in Storage.          *)
Abs == INSTANCE Storage WITH want <- IF pc = "idle" THEN -1 ELSE requpb

ImplementsStorage == Abs!Spec
=============================================================================
