----------------------------- MODULE HeapProofs -----------------------------
(***************************************************************************)
(* Proofs about the storage allocator of Heap, for every size of the       *)
(* memory and all requests: its vectors never overlap, its search misses   *)
(* nothing, and it implements Storage.                                     *)
(***************************************************************************)
EXTENDS Heap, TLAPS

(* Arithmetic on the size words: the bottom bit says that a block is free. *)
LEMMA Parity ==
  \A x \in Int : /\ Odd(x) <=> ~Even(x)
                 /\ Even(x) => Odd(x + 1)
                 /\ \A y \in Int : /\ Even(x) /\ Even(y) => Even(x + y) /\ Even(x - y)
                                   /\ Even(x) /\ Odd(y) => Even(x + y - 1)
  BY DEF Odd, Even

(* A block is even and has room for the vector and ten words more. *)
LEMMA BlockSizes ==
  \A r \in Nat : /\ BlockSize(r) \in Nat
                 /\ BlockSize(r) >= r + 10
                 /\ Even(BlockSize(r))
  BY DEF BlockSize, Even

-----------------------------------------------------------------------------
(* Where the search of getvec is: p is a block, and the blocks from p up   *)
(* to q are free.                                                          *)
SearchOK ==
  /\ pc # "idle" => n = BlockSize(requpb) /\ p \in heads
  /\ pc = "free" => /\ q \in heads
                    /\ p <= q
                    /\ Odd(W[p])
                    /\ \A h \in heads : p <= h /\ h < q => Odd(W[h])

(* No two vectors of programs have the same block. *)
OneOwner == \A v, w \in held : v.base = w.base => v = w

(* The size word of a freed vector is not in a vector somebody holds. *)
StaleApart == \A s \in stale, v \in held : s.base - 1 \notin Block(v)

(* The inductive invariant. *)
IInv ==
  /\ TypeOK
  /\ BlocksTile
  /\ SearchOK
  /\ ScanMissesNothing
  /\ OneOwner
  /\ StaleReported
  /\ StaleApart

-----------------------------------------------------------------------------
(* The first block of the chain is the whole memory. *)
LEMMA Initially == Init => IInv
  <1> SUFFICES ASSUME Init PROVE IInv
    OBVIOUS
  <1>0. Memupb \in Nat /\ Memupb > 0 /\ Even(Memupb)
    BY HeapAssumption DEF Even
  <1>1. W[0] = Memupb + 1 /\ W[Memupb] = 0 /\ W \in [0 .. Memupb -> Int]
    BY <1>0 DEF Init, Unset
  <1>2. Odd(W[0]) /\ Even(0)
    BY <1>0, <1>1, Parity DEF Even
  <1>3. TypeOK
    BY <1>0, <1>1, <1>2, HeapAssumption DEF TypeOK, Init
  <1>4. BlocksTile
    BY <1>0, <1>1, <1>2 DEF BlocksTile, BlockEnd, Init
  <1> QED
    BY <1>3, <1>4 DEF IInv, Init, SearchOK, ScanMissesNothing, OneOwner, StaleReported,
                      StaleApart

(* Every block but the end of the chain ends where another begins.         *)
LEMMA Blocks ==
  ASSUME TypeOK, BlocksTile, NEW h \in heads, h # Memupb
  PROVE  /\ h \in 0 .. Memupb /\ W[h] \in Int
         /\ BlockEnd(h) \in heads
         /\ h < BlockEnd(h) /\ BlockEnd(h) <= Memupb
         /\ BlockEnd(h) = IF Odd(W[h]) THEN h + W[h] - 1 ELSE h + W[h]
         /\ \A g \in heads : g <= h \/ g >= BlockEnd(h)
  BY DEF TypeOK, BlocksTile, BlockEnd

(* The vector v of a program has the block in front of it.                 *)
LEMMA Holders ==
  ASSUME TypeOK, BlocksTile, NEW v \in held
  PROVE  /\ v.base \in Int /\ v.upb \in Nat
         /\ v.base - 1 \in heads /\ v.base - 1 # Memupb
         /\ W[v.base - 1] = BlockSize(v.upb) /\ Even(W[v.base - 1])
         /\ BlockEnd(v.base - 1) = v.base - 1 + BlockSize(v.upb)
         /\ v.base - 1 + BlockSize(v.upb) <= Memupb
  <1>1. v.base \in Int /\ v.upb \in Nat
    BY DEF TypeOK
  <1>2. v.base - 1 \in heads /\ W[v.base - 1] = BlockSize(v.upb)
    BY DEF BlocksTile
  <1>3. BlockSize(v.upb) \in Nat /\ BlockSize(v.upb) > 0 /\ Even(BlockSize(v.upb))
    BY <1>1, BlockSizes
  <1>4. v.base - 1 # Memupb
    BY <1>2, <1>3 DEF BlocksTile
  <1>5. ~Odd(W[v.base - 1])
    BY <1>2, <1>3, Parity
  <1> QED
    BY <1>1, <1>2, <1>3, <1>4, <1>5, Blocks

-----------------------------------------------------------------------------
(* The steps of the search change nothing of the memory.                   *)
LEMMA SearchKeepsMemory ==
  ASSUME IInv, UNCHANGED heap
  PROVE  BlocksTile' /\ OneOwner' /\ StaleReported' /\ StaleApart'
  BY DEF IInv, heap, BlocksTile, BlockEnd, OneOwner, StaleReported, StaleApart

LEMMA CallStep ==
  ASSUME IInv, NEW r \in Requests, GetvecCall(r)
  PROVE  IInv'
  <1>0. r \in Nat /\ Memupb \in Nat /\ Even(0) /\ BlockSize(r) \in Nat /\ Even(BlockSize(r))
    BY HeapAssumption, BlockSizes DEF Even
  <1>1. TypeOK'
    BY <1>0 DEF IInv, TypeOK, GetvecCall, heap
  <1>2. SearchOK' /\ ScanMissesNothing'
    BY DEF IInv, TypeOK, SearchOK, ScanMissesNothing, GetvecCall, heap, BlocksTile
  <1> QED
    BY <1>1, <1>2, SearchKeepsMemory DEF GetvecCall, IInv

LEMMA SkipUsedStep ==
  ASSUME IInv, SkipUsed
  PROVE  IInv'
  <1>1. TypeOK /\ BlocksTile /\ p \in heads /\ n = BlockSize(requpb) /\ requpb \in Nat
    BY DEF IInv, SkipUsed, SearchOK, TypeOK
  <1>2. p # Memupb /\ ~Odd(W[p])
    BY <1>1 DEF SkipUsed, BlocksTile
  <1>3. /\ p \in 0 .. Memupb /\ W[p] \in Int
        /\ p + W[p] \in heads /\ W[p] > 0 /\ p + W[p] <= Memupb
    BY <1>1, <1>2, Blocks DEF TypeOK
  <1>4. Even(p + W[p])
    <2>1. Even(W[p]) /\ Even(p)
      BY <1>1, <1>2, <1>3, Parity DEF TypeOK
    <2> QED
      BY <1>3, <2>1, Parity, SMTT(30)
  <1>5. TypeOK'
    BY <1>1, <1>3, <1>4, HeapAssumption DEF TypeOK, SkipUsed, heap
  <1>6. SearchOK'
    BY <1>1, <1>3 DEF SearchOK, SkipUsed, heap
  <1>7. ScanMissesNothing'
    <2>0. p' = p + W[p] /\ n' = n /\ held' = held
      BY DEF SkipUsed, heap
    <2> SUFFICES ASSUME NEW a \in 0 .. p + W[p] - 1, Room(n, a) PROVE FALSE
      BY <1>3, <2>0 DEF ScanMissesNothing, Room
    <2>1. CASE a < p
      BY <1>3, <2>1 DEF IInv, ScanMissesNothing, SkipUsed
    <2>2. CASE a >= p
      <3>1. PICK v \in held : v.base = p + 1
        BY <1>1, <1>2 DEF BlocksTile
      <3>2. v.base - 1 = p /\ W[p] = BlockSize(v.upb)
        BY <1>3, <3>1, <1>1, Holders
      <3>3. n \in Nat /\ n > 0
        BY <1>1, BlockSizes
      <3> QED
        BY <1>3, <2>2, <3>1, <3>2, <3>3 DEF Room
    <2> QED
      BY <1>3, <2>1, <2>2
  <1> QED
    BY <1>5, <1>6, <1>7, SearchKeepsMemory DEF SkipUsed, IInv

LEMMA FailsStep ==
  ASSUME IInv, GetvecFails
  PROVE  IInv'
  <1>1. TypeOK'
    BY HeapAssumption DEF IInv, TypeOK, GetvecFails, Return, heap, Even
  <1>2. SearchOK' /\ ScanMissesNothing'
    BY DEF SearchOK, ScanMissesNothing, GetvecFails, Return
  <1> QED
    BY <1>1, <1>2, SearchKeepsMemory DEF GetvecFails, IInv

LEMMA FreeFoundStep ==
  ASSUME IInv, FreeFound
  PROVE  IInv'
  <1>1. TypeOK'
    BY DEF IInv, TypeOK, FreeFound, heap
  <1>2. SearchOK'
    BY DEF IInv, TypeOK, SearchOK, FreeFound, heap
  <1>3. ScanMissesNothing'
    BY DEF IInv, ScanMissesNothing, FreeFound, heap, Room
  <1> QED
    BY <1>1, <1>2, <1>3, SearchKeepsMemory DEF FreeFound, IInv

LEMMA SkipFreeStep ==
  ASSUME IInv, SkipFree
  PROVE  IInv'
  <1>1. TypeOK /\ BlocksTile /\ q \in heads /\ p <= q /\ p \in Int /\ Odd(W[q])
    BY DEF IInv, SkipFree, SearchOK, TypeOK
  <1>2. ~Odd(0)
    BY DEF Odd
  <1>3. q # Memupb
    BY <1>1, <1>2 DEF BlocksTile
  <1>4. /\ q \in 0 .. Memupb /\ W[q] \in Int
        /\ q + W[q] - 1 \in heads /\ q < q + W[q] - 1 /\ q + W[q] - 1 <= Memupb
        /\ \A g \in heads : g <= q \/ g >= q + W[q] - 1
    BY <1>1, <1>3, Blocks
  <1>5. Even(q + W[q] - 1)
    BY <1>1, <1>4, Parity DEF TypeOK
  <1>6. TypeOK'
    BY <1>1, <1>4, <1>5, HeapAssumption DEF TypeOK, SkipFree, heap
  <1>7. SearchOK'
    <2>1. ASSUME NEW h \in heads, p <= h, h < q + W[q] - 1
          PROVE  Odd(W[h])
      <3>1. h < q \/ h = q
        BY <1>1, <1>4, <2>1 DEF TypeOK
      <3> QED
        BY <1>1, <2>1, <3>1 DEF IInv, SearchOK, SkipFree
    <2> QED
      BY <1>1, <1>4, <2>1 DEF IInv, SearchOK, SkipFree, heap
  <1>8. ScanMissesNothing'
    BY DEF IInv, ScanMissesNothing, SkipFree, heap, Room
  <1> QED
    BY <1>6, <1>7, <1>8, SearchKeepsMemory DEF SkipFree, IInv

LEMMA TooSmallStep ==
  ASSUME IInv, TooSmall
  PROVE  IInv'
  <1>1. /\ TypeOK /\ BlocksTile /\ q \in heads /\ p <= q /\ p \in 0 .. Memupb
        /\ q \in 0 .. Memupb /\ n = BlockSize(requpb) /\ requpb \in Nat /\ q - p < n
        /\ ~Odd(W[q]) /\ pc = "free"
    BY DEF IInv, TooSmall, SearchOK, TypeOK
  <1>2. TypeOK'
    BY <1>1 DEF TypeOK, TooSmall, heap
  <1>3. SearchOK'
    BY <1>1 DEF SearchOK, TooSmall, heap
  <1>4. ScanMissesNothing'
    <2> SUFFICES ASSUME NEW a \in 0 .. q - 1, Room(n, a) PROVE FALSE
      BY DEF ScanMissesNothing, TooSmall, heap, Room
    <2>1. a >= p
      BY <1>1 DEF IInv, ScanMissesNothing
    <2>2. n \in Nat /\ n > 0
      BY <1>1, BlockSizes
    <2>3. a + n > q /\ q # Memupb
      BY <1>1, <2>1, <2>2, HeapAssumption DEF Room
    <2>4. PICK v \in held : v.base = q + 1
      BY <1>1, <2>3 DEF BlocksTile
    <2>5. v.base - 1 = q /\ BlockSize(v.upb) > 0 /\ BlockSize(v.upb) \in Nat
      BY <1>1, <2>4, Holders, BlockSizes
    <2> QED
      BY <1>1, <2>2, <2>3, <2>4, <2>5 DEF Room
  <1> QED
    BY <1>2, <1>3, <1>4, SearchKeepsMemory DEF TooSmall, IInv

-----------------------------------------------------------------------------
(* What is known when getvec has found room.                               *)
LEMMA RoomFound ==
  ASSUME IInv, GetvecTakes
  PROVE  /\ TypeOK /\ BlocksTile
         /\ p \in heads /\ q \in heads /\ p \in 0 .. Memupb /\ q \in 0 .. Memupb
         /\ Memupb \in Nat /\ requpb \in Nat
         /\ n = BlockSize(requpb) /\ n \in Nat /\ n >= requpb + 10 /\ p + n <= q
         /\ Even(n) /\ Odd(W[p]) /\ Odd(q-p-n + 1) /\ ~Odd(W[q])
         /\ \A h \in heads : p <= h /\ h < q => Odd(W[h])
  <1>1. /\ TypeOK /\ BlocksTile /\ SearchOK /\ p \in 0 .. Memupb /\ q \in 0 .. Memupb
        /\ Even(p) /\ Even(q) /\ Memupb \in Nat /\ requpb \in Nat /\ pc = "free"
        /\ q - p >= n /\ ~Odd(W[q])
    BY HeapAssumption DEF IInv, TypeOK, GetvecTakes
  <1>2. n = BlockSize(requpb) /\ n \in Nat /\ n >= requpb + 10 /\ Even(n)
    BY <1>1, BlockSizes DEF SearchOK
  <1>3. Odd(q-p-n + 1)
    <2>1. q-p \in Int /\ Even(q-p)
      BY <1>1, Parity
    <2>2. q-p-n \in Int /\ Even(q-p-n)
      BY <1>1, <1>2, <2>1 DEF Even
    <2> QED
      BY <2>2, Parity
  <1> QED
    BY <1>1, <1>2, <1>3 DEF SearchOK

(* What getvec writes into the memory.                                     *)
LEMMA CarvedWords ==
  ASSUME IInv, GetvecTakes
  PROVE  /\ W' \in [0 .. Memupb -> Int]
         /\ W'[p] = n
         /\ p + n # q => W'[p+n] = q-p-n + 1
         /\ \A a \in 0 .. Memupb : a < p \/ a > p + n \/ a >= q => W'[a] = W[a]
  <1>1. /\ p \in 0 .. Memupb /\ q \in 0 .. Memupb /\ Memupb \in Nat /\ requpb \in Nat
        /\ n \in Nat /\ n >= 10 /\ p + n <= q /\ W \in [0 .. Memupb -> Int]
    BY RoomFound, SMTT(30) DEF TypeOK
  <1>2. W' = Carved
    BY DEF GetvecTakes
  <1>3. W' \in [0 .. Memupb -> Int]
    BY <1>1, <1>2 DEF Carved, Round, FiveA, TenA
  <1>4. W'[p] = n
    <2>1. /\ p # p + n - 9 /\ p # p + n - 8 /\ p # p + n - 7 /\ p # p + n - 6
          /\ p \notin p + n - 5 .. p + n - 2 /\ p # p + n - 1 /\ p # p + n
      BY <1>1
    <2>2. Carved[p] = n
      BY <1>1, <2>1, Zenon DEF Carved
    <2> QED
      BY <1>2, <2>2
  <1>5. p + n # q => W'[p+n] = q-p-n + 1
    <2>1. p + n \in 0 .. Memupb
      BY <1>1
    <2>2. /\ p + n # p /\ p + n # p + n - 9 /\ p + n # p + n - 8 /\ p + n # p + n - 7
          /\ p + n # p + n - 6 /\ p + n \notin p + n - 5 .. p + n - 2 /\ p + n # p + n - 1
      BY <1>1
    <2>3. p + n # q => Carved[p + n] = q-p-n + 1
      BY <2>1, <2>2, Zenon DEF Carved
    <2> QED
      BY <1>2, <2>3
  <1>6. ASSUME NEW a \in 0 .. Memupb, a < p \/ a > p + n \/ a >= q
        PROVE  W'[a] = W[a]
    <2>1. /\ a # p /\ a # p + n - 9 /\ a # p + n - 8 /\ a # p + n - 7 /\ a # p + n - 6
          /\ a \notin p + n - 5 .. p + n - 2 /\ a # p + n - 1 /\ ~(a = p + n /\ p + n # q)
      BY <1>1, <1>6
    <2>2. W' = [b \in 0 .. Memupb |-> Carved[b]] /\ W'[a] = Carved[a]
      BY <1>2 DEF Carved
    <2>3. Carved[a] = W[a]
      BY <2>1, Zenon DEF Carved
    <2> QED
      BY <2>2, <2>3
  <1> QED
    BY <1>3, <1>4, <1>5, <1>6

(* The block of a vector in use lies in front of p or from q on.           *)
LEMMA HeldElsewhere ==
  ASSUME IInv, GetvecTakes, NEW v \in held
  PROVE  v.base - 1 + BlockSize(v.upb) <= p \/ v.base - 1 >= q
  <1>1. /\ v.base \in Int /\ v.base - 1 \in heads /\ v.base - 1 # Memupb
        /\ ~Odd(W[v.base - 1])
        /\ BlockEnd(v.base - 1) = v.base - 1 + BlockSize(v.upb)
        /\ W[v.base - 1] \in Int
    BY Holders, RoomFound, Blocks, Parity
  <1>2. p <= v.base - 1 \/ p >= BlockEnd(v.base - 1)
    BY <1>1, RoomFound, Blocks
  <1> QED
    BY <1>1, <1>2, RoomFound

LEMMA TakesTile ==
  ASSUME IInv, GetvecTakes
  PROVE  BlocksTile'
  <1>1. /\ p \in heads /\ q \in heads /\ p \in 0 .. Memupb /\ q \in 0 .. Memupb
        /\ Memupb \in Nat /\ n \in Nat /\ n >= 10 /\ p + n <= q /\ ~Odd(n)
        /\ Odd(q-p-n + 1) /\ n = BlockSize(requpb)
    BY RoomFound, Parity
  <1>s. TypeOK /\ BlocksTile
    BY RoomFound
  <1>2. heads' = {h \in heads : h <= p \/ h >= q} \cup {p + n}
    BY DEF GetvecTakes
  <1>3. \A h \in heads : h \in 0 .. Memupb /\ h \in Int
    BY <1>s, <1>1 DEF TypeOK
  <1>4. {0, Memupb} \subseteq heads'
    BY <1>1, <1>s, <1>2 DEF BlocksTile
  <1>5. W'[Memupb] = 0
    <2>1. W'[Memupb] = W[Memupb]
      BY <1>1, CarvedWords
    <2> QED
      BY <1>s, <2>1 DEF BlocksTile
  <1>6. ASSUME NEW h \in heads', h # Memupb
        PROVE  /\ BlockEnd(h)' \in heads'
               /\ BlockEnd(h)' > h
               /\ \A g \in heads' : g <= h \/ g >= BlockEnd(h)'
    <2>1. CASE h < p
      <3>0. h \in heads /\ h \in 0 .. Memupb
        BY <1>1, <1>2, <1>3, <2>1
      <3>1. h \in heads /\ h \in 0 .. Memupb /\ W'[h] = W[h]
        BY <2>1, <3>0, CarvedWords
      <3>2. BlockEnd(h)' = BlockEnd(h)
        BY <3>1 DEF BlockEnd
      <3>3. /\ BlockEnd(h) \in heads /\ BlockEnd(h) > h /\ BlockEnd(h) <= p
            /\ \A g \in heads : g <= h \/ g >= BlockEnd(h)
        BY <1>1, <1>s, <1>6, <2>1, <3>1, Blocks
      <3>4. BlockEnd(h) \in Int
        BY <1>3, <3>3
      <3> QED
        BY <1>1, <1>2, <3>2, <3>3, <3>4
    <2>2. CASE h = p
      <3>1. BlockEnd(h)' = p + n
        BY <1>1, <2>2, CarvedWords DEF BlockEnd
      <3> QED
        BY <1>1, <1>2, <1>3, <2>2, <3>1
    <2>3. CASE h = p + n /\ p + n # q
      <3>1. BlockEnd(h)' = p + n + (q-p-n + 1) - 1
        BY <1>1, <2>3, CarvedWords DEF BlockEnd
      <3>2. BlockEnd(h)' = q
        BY <1>1, <3>1
      <3> QED
        BY <1>1, <1>2, <1>3, <2>3, <3>2
    <2>4. CASE h >= q
      <3>1. h \in heads /\ h \in 0 .. Memupb
        BY <1>1, <1>2, <1>3, <2>4
      <3>2. W'[h] = W[h]
        BY <1>1, <2>4, <3>1, CarvedWords
      <3>3. BlockEnd(h)' = BlockEnd(h)
        BY <3>2 DEF BlockEnd
      <3>4. /\ BlockEnd(h) \in heads /\ BlockEnd(h) > h
            /\ \A g \in heads : g <= h \/ g >= BlockEnd(h)
        BY <1>s, <1>6, <3>1, Blocks
      <3>5. BlockEnd(h) \in Int
        BY <1>3, <3>4
      <3> QED
        BY <1>1, <1>2, <2>4, <3>1, <3>3, <3>4, <3>5
    <2> QED
      BY <1>1, <1>2, <1>3, <2>1, <2>2, <2>3, <2>4
  <1>7. held' = held \cup {[base |-> p + 1, upb |-> requpb]}
    BY DEF GetvecTakes
  <1>8. ASSUME NEW v \in held'
        PROVE  v.base - 1 \in heads' /\ W'[v.base - 1] = BlockSize(v.upb)
    <2>1. CASE v \in held
      <3>1. /\ v.base - 1 \in heads /\ v.base - 1 \in 0 .. Memupb
            /\ W[v.base - 1] = BlockSize(v.upb) /\ BlockSize(v.upb) > 0
            /\ BlockSize(v.upb) \in Nat
        BY <1>1, <1>s, <1>3, <2>1, Holders, BlockSizes
      <3>2. v.base - 1 < p \/ v.base - 1 >= q
        BY <1>1, <2>1, <3>1, HeldElsewhere
      <3>3. W'[v.base - 1] = W[v.base - 1]
        BY <1>1, <3>1, <3>2, CarvedWords
      <3> QED
        BY <1>1, <1>2, <1>3, <3>1, <3>2, <3>3
    <2>2. CASE v = [base |-> p + 1, upb |-> requpb]
      <3>1. v.base - 1 = p /\ v.upb = requpb
        BY <1>1, <2>2
      <3>2. W'[p] = n /\ p \in heads'
        BY <1>1, <1>2, CarvedWords
      <3> QED
        BY <1>1, <3>1, <3>2
    <2> QED
      BY <1>7, <2>1, <2>2
  <1>9. ASSUME NEW h \in heads', h # Memupb, ~Odd(W'[h])
        PROVE  \E v \in held' : v.base = h + 1
    <2>1. CASE h = p
      <3>1. [base |-> p + 1, upb |-> requpb] \in held'
        BY <1>7
      <3> QED
        BY <2>1, <3>1
    <2>2. CASE h = p + n /\ p + n # q
      BY <1>1, <1>9, <2>2, CarvedWords
    <2>3. CASE h \in heads /\ (h < p \/ h >= q)
      <3>1. W'[h] = W[h]
        BY <1>1, <1>3, <2>3, CarvedWords
      <3>2. \E v \in held : v.base = h + 1
        BY <1>s, <1>9, <2>3, <3>1 DEF BlocksTile
      <3> QED
        BY <1>7, <3>2
    <2> QED
      BY <1>1, <1>2, <1>3, <2>1, <2>2, <2>3
  <1> QED
    BY <1>4, <1>5, <1>6, <1>8, <1>9 DEF BlocksTile

LEMMA TakesStep ==
  ASSUME IInv, GetvecTakes
  PROVE  IInv'
  <1>1. /\ p \in 0 .. Memupb /\ q \in 0 .. Memupb /\ Odd(W[p])
        /\ Memupb \in Nat /\ n \in Nat /\ n >= 10 /\ p + n <= q /\ requpb \in Nat
        /\ n = BlockSize(requpb) /\ Odd(q-p-n + 1)
    BY RoomFound
  <1>s. TypeOK /\ BlocksTile
    BY RoomFound
  <1>2. /\ held' = held \cup {[base |-> p + 1, upb |-> requpb]}
        /\ stale' = {s \in stale : Block(s) \cap Words(p, p + n) = {}}
    BY DEF GetvecTakes
  <1>3. TypeOK'
    <2>1. vecstatsv' \in [0 .. Vecstatsvupb -> Int]
      <3>1. vecstatsv \in [0 .. Vecstatsvupb -> Int] /\ Vecstatsvupb \in Nat
        BY HeapAssumption, <1>s DEF TypeOK
      <3>2. Clip(requpb) \in 0 .. Vecstatsvupb
        BY <1>1, <3>1 DEF Clip
      <3>3. vecstatsv' = [vecstatsv EXCEPT ![Clip(requpb)] = @ + 1]
        BY DEF GetvecTakes
      <3> QED
        BY <3>1, <3>2, <3>3
    <2>2. \A v \in held' \cup stale' : v.base \in 1 .. Memupb /\ v.upb \in Nat
      <3>1. ASSUME NEW v \in held \cup stale
            PROVE  v.base \in 1 .. Memupb /\ v.upb \in Nat
        BY <1>s DEF TypeOK
      <3>2. ASSUME NEW v, v = [base |-> p + 1, upb |-> requpb]
            PROVE  v.base \in 1 .. Memupb /\ v.upb \in Nat
        BY <1>1, <3>2
      <3> QED
        BY <1>2, <3>1, <3>2
    <2>3. heads' \subseteq 0 .. Memupb
      <3>1. heads \subseteq 0 .. Memupb
        BY <1>s DEF TypeOK
      <3>2. p + n \in 0 .. Memupb
        BY <1>1
      <3> QED
        BY <3>1, <3>2 DEF GetvecTakes
    <2>4. Even(0)
      BY DEF Even
    <2> QED
      <3>1. pc' = "idle" /\ requpb' = 0 /\ n' = 0 /\ p' = 0 /\ q' = 0 /\ res' = p + 1
        BY DEF GetvecTakes, Return
      <3>2. W' \in [0 .. Memupb -> Int]
        BY CarvedWords
      <3>3. /\ requpb' \in Nat /\ n' \in Nat /\ Even(n')
            /\ p' \in 0 .. Memupb /\ Even(p') /\ q' \in 0 .. Memupb /\ Even(q')
            /\ res' \in Int
        BY <1>1, <2>4, <3>1
      <3>4. pc' \in {"idle", "used", "free"}
        BY <3>1
      <3> QED
        BY <2>1, <2>2, <2>3, <3>2, <3>3, <3>4 DEF TypeOK
  <1>4. SearchOK' /\ ScanMissesNothing'
    BY DEF SearchOK, ScanMissesNothing, GetvecTakes, Return
  <1>5. OneOwner'
    <2>1. ASSUME NEW v \in held, v.base = p + 1
          PROVE  FALSE
      <3>0. v.base - 1 = p /\ Even(W[v.base - 1])
        BY <1>1, <1>s, <2>1, Holders
      <3>1. v.base - 1 = p /\ Even(W[v.base - 1]) /\ W[p] \in Int
        BY <1>1, <1>s, <3>0 DEF TypeOK
      <3> QED
        BY <1>1, <3>1, Parity
    <2> QED
      BY <1>1, <1>2, <2>1 DEF IInv, OneOwner
  <1>6. ASSUME NEW s \in stale'
        PROVE  /\ s \in stale
               /\ s.base - 1 \in 0 .. Memupb
               /\ s.base - 1 < p \/ s.base - 1 >= p + n
    <2>1. /\ s \in stale /\ Block(s) \cap Words(p, p + n) = {}
          /\ s.base \in 1 .. Memupb /\ s.upb \in Nat
      BY <1>s, <1>2 DEF TypeOK
    <2>2. BlockSize(s.upb) \in Nat /\ BlockSize(s.upb) > 0
      BY <2>1, BlockSizes
    <2>3. s.base - 1 \in Block(s)
      BY <2>1, <2>2 DEF Block, Words
    <2> QED
      BY <1>1, <2>1, <2>3 DEF Words
  <1>7. StaleReported'
    <2>1. ASSUME NEW s \in stale'
          PROVE  Odd(W'[s.base - 1])
      <3>1. Odd(W[s.base - 1])
        BY <1>6 DEF IInv, StaleReported
      <3>2. CASE s.base - 1 = p + n /\ p + n # q
        BY <1>1, <3>2, CarvedWords
      <3>3. CASE ~(s.base - 1 = p + n /\ p + n # q)
        <4>1. s.base - 1 < p \/ s.base - 1 > p + n \/ s.base - 1 >= q
          BY <1>1, <1>6, <3>3
        <4>2. W'[s.base - 1] = W[s.base - 1]
          BY <1>6, <4>1, CarvedWords
        <4> QED
          BY <3>1, <4>2
      <3> QED
        BY <3>2, <3>3
    <2> QED
      BY <2>1 DEF StaleReported
  <1>8. StaleApart'
    <2>1. ASSUME NEW s \in stale', NEW v \in held'
          PROVE  s.base - 1 \notin Block(v)
      <3>1. CASE v \in held
        BY <1>6, <3>1 DEF IInv, StaleApart
      <3>2. CASE v = [base |-> p + 1, upb |-> requpb]
        <4>1. Block(v) = Words(p, p + n)
          BY <1>1, <3>2 DEF Block
        <4> QED
          BY <1>1, <1>6, <4>1, SMTT(30) DEF Words
      <3> QED
        BY <1>2, <3>1, <3>2
    <2> QED
      BY <2>1 DEF StaleApart, Block, BlockSize, Words
  <1> QED
    BY <1>3, <1>4, <1>5, <1>7, <1>8, TakesTile DEF IInv

-----------------------------------------------------------------------------
(* freevec can only find an even size word in front of a vector in use.    *)
LEMMA FreedIsHeld ==
  ASSUME IInv, NEW v \in held \cup stale, Freevec(v)
  PROVE  v \in held
  BY DEF IInv, StaleReported, Freevec

LEMMA FreevecStep ==
  ASSUME IInv, NEW v \in held, Freevec(v)
  PROVE  IInv'
  <1> DEFINE b == v.base - 1
  <1>1. TypeOK /\ BlocksTile /\ Memupb \in Nat
    BY HeapAssumption DEF IInv
  <1>2. /\ v.base \in Int /\ b \in heads /\ b # Memupb
        /\ W[b] = BlockSize(v.upb) /\ Even(W[b])
        /\ BlockEnd(b) = b + BlockSize(v.upb)
    BY <1>1, Holders
  <1>3. \A h \in heads : h \in 0 .. Memupb /\ h \in Int /\ W[h] \in Int
    BY <1>1 DEF TypeOK
  <1>4. /\ W' = [W EXCEPT ![b] = W[b] + 1]
        /\ held' = held \ {v} /\ stale' = stale \cup {v} /\ heads' = heads
    BY DEF Freevec
  <1>5. /\ W'[b] = W[b] + 1 /\ Odd(W'[b])
        /\ \A a \in 0 .. Memupb : a # b => W'[a] = W[a]
    <2>1. W \in [0 .. Memupb -> Int]
      BY <1>1 DEF TypeOK
    <2>2. W'[b] = W[b] + 1
      BY <1>2, <1>3, <1>4, <2>1
    <2>3. \A a \in 0 .. Memupb : a # b => W'[a] = W[a]
      BY <1>4, <2>1
    <2> QED
      BY <1>2, <1>3, <2>2, <2>3, Parity
  <1>6. TypeOK'
    <2>1. W' \in [0 .. Memupb -> Int]
      <3>1. W \in [0 .. Memupb -> Int]
        BY <1>1 DEF TypeOK
      <3>2. W[b] + 1 \in Int
        BY <1>2, <1>3
      <3> QED
        BY <1>4, <3>1, <3>2
    <2>2. vecstatsv' \in [0 .. Vecstatsvupb -> Int]
      <3>1. vecstatsv \in [0 .. Vecstatsvupb -> Int]
        BY <1>1 DEF TypeOK
      <3>2. PICK u : vecstatsv' = [vecstatsv EXCEPT ![u] = @ - 1]
        BY DEF Freevec
      <3>3. \A i \in 0 .. Vecstatsvupb : vecstatsv'[i] \in Int
        <4> SUFFICES ASSUME NEW i \in 0 .. Vecstatsvupb PROVE vecstatsv'[i] \in Int
          OBVIOUS
        <4>1. CASE i = u
          <5>1. vecstatsv'[i] = vecstatsv[i] - 1
            BY <3>1, <3>2, <4>1
          <5> QED
            BY <3>1, <5>1
        <4>2. CASE i # u
          BY <3>1, <3>2, <4>2
        <4> QED
          BY <4>1, <4>2
      <3>4. vecstatsv' = [i \in 0 .. Vecstatsvupb |-> vecstatsv'[i]]
        BY <3>1, <3>2
      <3> QED
        BY <3>3, <3>4
    <2>3. res' \in Int
      <3>1. res' = TRUTH \/ res' = 0
        BY DEF Freevec
      <3> QED
        BY <3>1 DEF TRUTH
    <2>4. UNCHANGED <<pc, requpb, n, p, q>>
      BY DEF Freevec
    <2>5. \A w \in held' \cup stale' : w.base \in 1 .. Memupb /\ w.upb \in Nat
      BY <1>1, <1>4 DEF TypeOK
    <2> QED
      BY <1>1, <1>4, <2>1, <2>2, <2>3, <2>4, <2>5 DEF TypeOK
  <1>7. BlocksTile'
    <2>1. {0, Memupb} \subseteq heads' /\ W'[Memupb] = 0
      BY <1>1, <1>2, <1>4, <1>5 DEF BlocksTile
    <2>2. ASSUME NEW h \in heads, h # Memupb
          PROVE  BlockEnd(h)' = BlockEnd(h)
      <3>1. CASE h = b
        <4>1. ~Odd(W[b])
          BY <1>2, <1>3, Parity
        <4>2. BlockEnd(h)' = b + (W[b] + 1) - 1
          BY <1>5, <3>1 DEF BlockEnd
        <4>3. BlockEnd(h) = b + W[b]
          BY <3>1, <4>1 DEF BlockEnd
        <4> QED
          BY <1>2, <1>3, <4>2, <4>3
      <3>2. CASE h # b
        BY <1>3, <1>5, <3>2 DEF BlockEnd
      <3> QED
        BY <3>1, <3>2
    <2>3. ASSUME NEW h \in heads', h # Memupb
          PROVE  /\ BlockEnd(h)' \in heads' /\ BlockEnd(h)' > h
                 /\ \A g \in heads' : g <= h \/ g >= BlockEnd(h)'
      BY <1>1, <1>4, <2>2, <2>3, Blocks
    <2>4. ASSUME NEW w \in held'
          PROVE  w.base - 1 \in heads' /\ W'[w.base - 1] = BlockSize(w.upb)
      <3>1. w \in held /\ w # v
        BY <1>4
      <3>2. w.base \in Int /\ w.base - 1 \in heads /\ W[w.base - 1] = BlockSize(w.upb)
        BY <1>1, <3>1, Holders
      <3>3. w.base - 1 # b
        BY <1>2, <3>1, <3>2 DEF IInv, OneOwner
      <3> QED
        BY <1>3, <1>4, <1>5, <3>2, <3>3
    <2>5. ASSUME NEW h \in heads', h # Memupb, ~Odd(W'[h])
          PROVE  \E w \in held' : w.base = h + 1
      <3>1. h # b /\ h \in heads /\ h \in Int
        BY <1>3, <1>4, <1>5, <2>5
      <3>2. W'[h] = W[h]
        BY <1>3, <1>5, <3>1
      <3>3. PICK w \in held : w.base = h + 1
        BY <1>1, <2>5, <3>1, <3>2 DEF BlocksTile
      <3>4. w # v
        BY <1>2, <3>1, <3>3
      <3> QED
        BY <1>4, <3>3, <3>4
    <2> QED
      BY <2>1, <2>3, <2>4, <2>5 DEF BlocksTile
  <1>8. pc = "idle" /\ pc' = "idle"
    BY DEF Freevec
  <1>9. SearchOK' /\ ScanMissesNothing'
    BY <1>8 DEF SearchOK, ScanMissesNothing
  <1>10. OneOwner'
    BY <1>4 DEF IInv, OneOwner
  <1>11. StaleReported'
    <2>1. ASSUME NEW s \in stale'
          PROVE  Odd(W'[s.base - 1])
      <3>1. CASE s = v
        BY <1>5, <3>1
      <3>2. CASE s \in stale
        <4>1. Odd(W[s.base - 1]) /\ s.base - 1 \in 0 .. Memupb
          BY <1>1, <3>2 DEF IInv, StaleReported, TypeOK
        <4> QED
          BY <1>5, <4>1
      <3> QED
        BY <1>4, <3>1, <3>2
    <2> QED
      BY <2>1 DEF StaleReported
  <1>12. StaleApart'
    <2>1. ASSUME NEW s \in stale', NEW w \in held'
          PROVE  s.base - 1 \notin Block(w)
      <3>1. w \in held /\ w # v
        BY <1>4
      <3>2. CASE s \in stale
        BY <3>1, <3>2 DEF IInv, StaleApart
      <3>3. CASE s = v
        <4>1. /\ w.base \in Int /\ w.base - 1 \in heads /\ w.base - 1 # Memupb
              /\ BlockEnd(w.base - 1) = w.base - 1 + BlockSize(w.upb)
          BY <1>1, <3>1, Holders
        <4>2. w.base - 1 # b
          BY <1>2, <3>1, <4>1 DEF IInv, OneOwner
        <4>3. b <= w.base - 1 \/ b >= BlockEnd(w.base - 1)
          BY <1>1, <1>2, <4>1, Blocks
        <4>4. BlockSize(w.upb) \in Nat
          BY <1>1, <3>1, Holders, BlockSizes
        <4> QED
          BY <1>2, <3>3, <4>1, <4>2, <4>3, <4>4 DEF Block, Words
      <3> QED
        BY <1>4, <3>2, <3>3
    <2> QED
      BY <2>1 DEF StaleApart, Block, BlockSize, Words
  <1> QED
    BY <1>6, <1>7, <1>9, <1>10, <1>11, <1>12 DEF IInv

LEMMA FreevecAgainStep ==
  ASSUME IInv, NEW v \in held \cup stale, FreevecAgain(v)
  PROVE  IInv'
  <1>1. TypeOK'
    BY DEF IInv, TypeOK, FreevecAgain, heap
  <1>2. SearchOK' /\ ScanMissesNothing'
    BY DEF SearchOK, ScanMissesNothing, FreevecAgain
  <1> QED
    BY <1>1, <1>2, SearchKeepsMemory DEF FreevecAgain, IInv

(* A program that writes one or two words too many stays in its block.     *)
LEMMA OverrunStep ==
  ASSUME IInv, NEW v \in held, NEW k \in 1 .. MaxOver, Overrun(v, k)
  PROVE  IInv'
  <1> DEFINE b == v.base - 1
  <1>1. TypeOK /\ BlocksTile /\ Memupb \in Nat /\ k \in 1 .. 2
    BY HeapAssumption DEF IInv
  <1>2. /\ v.base \in Int /\ v.upb \in Nat /\ b \in heads /\ b # Memupb
        /\ BlockEnd(b) = b + BlockSize(v.upb)
        /\ BlockSize(v.upb) \in Nat /\ BlockSize(v.upb) >= v.upb + 10
    BY <1>1, Holders, BlockSizes
  <1>3. \A h \in heads : h \in 0 .. Memupb /\ h \in Int
    BY <1>1 DEF TypeOK
  <1>4. /\ W' = [a \in 0 .. Memupb |->
                   IF a \in v.base + v.upb + 1 .. v.base + v.upb + k THEN Unset ELSE W[a]]
        /\ UNCHANGED <<vecstatsv, pc, requpb, n, p, q, res, held, stale, heads>>
        /\ pc = "idle"
    BY DEF Overrun
  <1>5. ASSUME NEW a \in 0 .. Memupb, a \notin Block(v) \/ a = b
        PROVE  W'[a] = W[a]
    <2>1. ~(a \in v.base + v.upb + 1 .. v.base + v.upb + k)
      BY <1>1, <1>2, <1>5 DEF Block, Words
    <2> QED
      BY <1>4, <2>1
  <1>6. ASSUME NEW h \in heads
        PROVE  W'[h] = W[h]
    <2>1. h <= b \/ h >= BlockEnd(b)
      BY <1>1, <1>2, Blocks
    <2>2. h \notin Block(v) \/ h = b
      BY <1>2, <1>3, <2>1 DEF Block, Words
    <2> QED
      BY <1>3, <1>5, <2>2
  <1>7. TypeOK'
    <2>1. W' \in [0 .. Memupb -> Int]
      <3>1. W \in [0 .. Memupb -> Int] /\ Unset \in Int
        BY <1>1 DEF TypeOK, Unset
      <3> QED
        BY <1>4, <3>1
    <2> QED
      BY <1>1, <1>4, <2>1 DEF TypeOK
  <1>8. BlocksTile'
    <2>1. \A h \in heads : BlockEnd(h)' = BlockEnd(h)
      BY <1>6 DEF BlockEnd
    <2>2. \A w \in held : w.base - 1 \in heads /\ W[w.base - 1] = BlockSize(w.upb)
      BY <1>1 DEF BlocksTile
    <2>3. Memupb \in heads
      BY <1>1 DEF BlocksTile
    <2> QED
      BY <1>1, <1>4, <1>6, <2>1, <2>2, <2>3 DEF BlocksTile
  <1>9. SearchOK' /\ ScanMissesNothing' /\ OneOwner' /\ StaleApart'
    BY <1>4 DEF IInv, SearchOK, ScanMissesNothing, OneOwner, StaleApart
  <1>10. StaleReported'
    <2>1. ASSUME NEW s \in stale
          PROVE  Odd(W'[s.base - 1])
      <3>1. s.base - 1 \in 0 .. Memupb /\ s.base - 1 \notin Block(v) /\ Odd(W[s.base - 1])
        BY <1>1, SMTT(30) DEF TypeOK, IInv, StaleApart, StaleReported
      <3> QED
        BY <1>5, <3>1
    <2> QED
      BY <1>4, <2>1 DEF StaleReported
  <1> QED
    BY <1>7, <1>8, <1>9, <1>10 DEF IInv

-----------------------------------------------------------------------------
LEMMA Invariance == IInv /\ [Next]_vars => IInv'
  <1> SUFFICES ASSUME IInv, [Next]_vars PROVE IInv'
    OBVIOUS
  <1>1. CASE Getvec
    BY <1>1, CallStep, SkipUsedStep, FailsStep, FreeFoundStep, SkipFreeStep, TooSmallStep,
       TakesStep DEF Getvec
  <1>2. ASSUME NEW v \in held \cup stale, Freevec(v) PROVE IInv'
    BY <1>2, FreedIsHeld, FreevecStep
  <1>3. ASSUME NEW v \in held \cup stale, FreevecAgain(v) PROVE IInv'
    BY <1>3, FreevecAgainStep
  <1>4. ASSUME NEW v \in held, NEW k \in 1 .. MaxOver, Overrun(v, k) PROVE IInv'
    BY <1>4, OverrunStep
  <1>5. CASE UNCHANGED vars
    <2>1. TypeOK'
      BY <1>5 DEF IInv, TypeOK, vars
    <2>2. SearchOK' /\ ScanMissesNothing'
      BY <1>5 DEF IInv, SearchOK, ScanMissesNothing, Room, vars
    <2>3. UNCHANGED heap
      BY <1>5 DEF vars, heap
    <2> QED
      BY <2>1, <2>2, <2>3, SearchKeepsMemory DEF IInv
  <1> QED
    BY <1>1, <1>2, <1>3, <1>4, <1>5 DEF Next

(* The inductive invariant holds in every state of the allocator: main     *)
(* builds it, and no call of getvec or freevec and no overrun within the   *)
(* safety words breaks it.                                                 *)
THEOREM AllocatorSound == Spec => []IInv
  BY Initially, Invariance, PTL DEF Spec

(* Every variable of getvec and freevec keeps a value of its kind, and     *)
(* their indices stay within the memory.                                   *)
THEOREM HeapTypeCorrect == Spec => []TypeOK
  <1>1. IInv => TypeOK
    BY DEF IInv
  <1> QED
    BY <1>1, AllocatorSound, PTL

(* The chain of blocks that getvec walks covers the memory exactly.        *)
THEOREM ChainAlwaysTiles == Spec => []BlocksTile
  <1>1. IInv => BlocksTile
    BY DEF IInv
  <1> QED
    BY <1>1, AllocatorSound, PTL

(* getvec never gives out a word that belongs to somebody else.            *)
THEOREM VectorsNeverOverlap == Spec => []VectorsDisjoint
  <1>1. ASSUME IInv PROVE VectorsDisjoint
    <2>1. TypeOK /\ BlocksTile /\ Memupb \in Nat
      BY <1>1, HeapAssumption DEF IInv
    <2>2. \A h \in heads : h \in 0 .. Memupb /\ h \in Int
      BY <2>1 DEF TypeOK
    <2>3. ASSUME NEW v \in held
          PROVE  Vector(v) \subseteq 0 .. Memupb - 1
      <3>1. /\ v.base \in Int /\ v.upb \in Nat /\ v.base - 1 \in heads
            /\ v.base - 1 + BlockSize(v.upb) <= Memupb
            /\ BlockSize(v.upb) \in Nat /\ BlockSize(v.upb) >= v.upb + 10
        BY <2>1, Holders, BlockSizes
      <3>2. v.base - 1 >= 0
        BY <2>1, <2>2, <3>1
      <3> QED
        BY <2>1, <3>1, <3>2 DEF Vector
    <2>4. ASSUME NEW v \in held, NEW w \in held, v # w
          PROVE  Vector(v) \cap Block(w) = {}
      <3>1. /\ v.base \in Int /\ v.upb \in Nat /\ v.base - 1 \in heads
            /\ v.base - 1 # Memupb
            /\ BlockEnd(v.base - 1) = v.base - 1 + BlockSize(v.upb)
            /\ BlockSize(v.upb) \in Nat /\ BlockSize(v.upb) >= v.upb + 10
        BY <2>1, Holders, BlockSizes
      <3>2. /\ w.base \in Int /\ w.base - 1 \in heads /\ w.base - 1 # Memupb
            /\ BlockEnd(w.base - 1) = w.base - 1 + BlockSize(w.upb)
            /\ BlockSize(w.upb) \in Nat
        BY <2>1, Holders, BlockSizes
      <3>3. v.base # w.base
        BY <1>1, <2>4 DEF IInv, OneOwner
      <3>4. w.base - 1 <= v.base - 1 \/ w.base - 1 >= BlockEnd(v.base - 1)
        BY <2>1, <3>1, <3>2, Blocks
      <3>5. v.base - 1 <= w.base - 1 \/ v.base - 1 >= BlockEnd(w.base - 1)
        BY <2>1, <3>1, <3>2, Blocks
      <3>6. \/ v.base - 1 + BlockSize(v.upb) <= w.base - 1
            \/ w.base - 1 + BlockSize(w.upb) <= v.base - 1
        BY <3>1, <3>2, <3>3, <3>4, <3>5
      <3> QED
        BY <3>1, <3>2, <3>6 DEF Vector, Block, Words
    <2> QED
      BY <2>3, <2>4 DEF VectorsDisjoint
  <1> QED
    BY <1>1, AllocatorSound, PTL

(* getvec takes the lowest place that is large enough: its search never    *)
(* passes over one.                                                        *)
THEOREM SearchNeverMisses == Spec => []ScanMissesNothing
  <1>1. IInv => ScanMissesNothing
    BY DEF IInv
  <1> QED
    BY <1>1, AllocatorSound, PTL

(* A vector freed twice is reported unless its memory was handed out again.*)
THEOREM DoubleFreeReported == Spec => []StaleReported
  <1>1. IInv => StaleReported
    BY DEF IInv
  <1> QED
    BY <1>1, AllocatorSound, PTL

(* getvec writes nothing into a block that somebody holds.                 *)
THEOREM GetvecWritesNobodys == Spec => HeldUntouched
  <1>1. ASSUME IInv, Getvec, NEW v \in held, NEW a \in Block(v)
        PROVE  W'[a] = W[a]
    <2>1. CASE UNCHANGED heap
      BY <2>1 DEF heap
    <2>2. CASE GetvecTakes
      <3>1. /\ TypeOK /\ BlocksTile /\ p \in 0 .. Memupb /\ q \in 0 .. Memupb
            /\ Memupb \in Nat /\ n \in Nat /\ p + n <= q
        BY <1>1, <2>2, RoomFound
      <3>2. /\ v.base \in Int /\ v.upb \in Nat /\ v.base - 1 \in heads
            /\ v.base - 1 + BlockSize(v.upb) <= Memupb /\ BlockSize(v.upb) \in Nat
        BY <3>1, Holders, BlockSizes
      <3>3. v.base - 1 \in 0 .. Memupb
        BY <3>1, <3>2 DEF TypeOK
      <3>4. v.base - 1 + BlockSize(v.upb) <= p \/ v.base - 1 >= q
        BY <1>1, <2>2, HeldElsewhere
      <3>5. a \in 0 .. Memupb /\ (a < p \/ a >= q)
        BY <3>1, <3>2, <3>3, <3>4 DEF Block, Words
      <3> QED
        BY <1>1, <2>2, <3>5, CarvedWords
    <2> QED
      BY <1>1, <2>1, <2>2 DEF Getvec, GetvecCall, SkipUsed, GetvecFails, FreeFound, SkipFree,
                              TooSmall
  <1>2. IInv /\ [Next]_vars =>
          [Getvec => \A v \in held : \A a \in Block(v) : W'[a] = W[a]]_vars
    BY <1>1
  <1> QED
    BY <1>2, AllocatorSound, PTL DEF Spec, HeldUntouched

-----------------------------------------------------------------------------
(* The room of Storage is the room of Heap.                                *)
LEMMA SameRoom ==
  ASSUME TypeOK
  PROVE  \A r \in Nat, a \in Int : Abs!Fits(r, a) <=> Room(BlockSize(r), a)
  <1>1. \A r \in Nat : Abs!Footprint(r) = BlockSize(r)
    BY DEF Abs!Footprint, BlockSize
  <1>2. \A v \in held : v.upb \in Nat
    BY DEF TypeOK
  <1> QED
    BY <1>1, <1>2 DEF Abs!Fits, Room

(* A refusal: the search has come to the end of the memory.                *)
LEMMA RefusalJustified ==
  ASSUME IInv, GetvecFails
  PROVE  \A a \in 0 .. Memupb - 1 : ~Abs!Fits(requpb, a)
  <1>1. /\ TypeOK /\ BlocksTile /\ p \in heads /\ n = BlockSize(requpb) /\ requpb \in Nat
        /\ \A a \in 0 .. p - 1 : ~Room(n, a)
    BY DEF IInv, SearchOK, ScanMissesNothing, GetvecFails, TypeOK
  <1>2. p = Memupb
    <2>1. ~Odd(0)
      BY DEF Odd
    <2> QED
      BY <1>1, <2>1, Blocks DEF GetvecFails
  <1> QED
    BY <1>1, <1>2, SameRoom, HeapAssumption

LEMMA StorageStep == IInv /\ [Next]_vars => [Abs!Next]_(Abs!svars)
  <1> SUFFICES ASSUME IInv, [Next]_vars PROVE Abs!Next \/ UNCHANGED Abs!svars
    OBVIOUS
  <1> DEFINE want == IF pc = "idle" THEN -1 ELSE requpb
  <1>1. requpb \in Nat
    BY DEF IInv, TypeOK
  <1>2. ASSUME NEW r \in Requests, GetvecCall(r) PROVE Abs!Ask(r)
    BY <1>2 DEF GetvecCall, Abs!Ask, heap
  <1>3. CASE SkipUsed \/ FreeFound \/ SkipFree \/ TooSmall
    BY <1>3 DEF SkipUsed, FreeFound, SkipFree, TooSmall, heap, Abs!svars
  <1>4. CASE GetvecFails
    BY <1>1, <1>4, RefusalJustified DEF GetvecFails, Return, heap, Abs!Next, Abs!Refuse
  <1>5. CASE GetvecTakes
    <2>1. /\ p \in 0 .. Memupb /\ q \in 0 .. Memupb /\ Memupb \in Nat /\ n \in Nat /\ n > 0
          /\ p + n <= q /\ n = BlockSize(requpb) /\ TypeOK
      BY <1>5, RoomFound
    <2>2. Room(n, p)
      <3>1. ASSUME NEW v \in held
            PROVE  p + n <= v.base - 1 \/ v.base - 1 + BlockSize(v.upb) <= p
        <4>1. v.base \in Int
          BY <2>1 DEF TypeOK
        <4> QED
          BY <1>5, <2>1, <4>1, HeldElsewhere
      <3> QED
        BY <2>1, <3>1 DEF Room
    <2>3. Abs!Fits(requpb, p)
      BY <1>1, <2>1, <2>2, SameRoom
    <2>4. Abs!Give(p) /\ p \in 0 .. Memupb - 1
      BY <1>1, <1>5, <2>1, <2>3 DEF GetvecTakes, Return, Abs!Give
    <2> QED
      BY <2>4 DEF Abs!Next
  <1>6. ASSUME NEW v \in held \cup stale, Freevec(v) PROVE Abs!Next
    <2>1. v \in held
      BY <1>6, FreedIsHeld
    <2>2. Abs!Release(v)
      BY <1>6 DEF Freevec, Abs!Release, TRUTH
    <2> QED
      BY <2>1, <2>2 DEF Abs!Next
  <1>7. ASSUME NEW v \in held \cup stale, FreevecAgain(v) PROVE Abs!ReleaseAgain
    BY <1>7 DEF FreevecAgain, Abs!ReleaseAgain, heap
  <1>8. ASSUME NEW v \in held, NEW k \in 1 .. MaxOver, Overrun(v, k) PROVE UNCHANGED Abs!svars
    BY <1>8 DEF Overrun, Abs!svars
  <1>9. CASE UNCHANGED vars
    BY <1>9 DEF vars, Abs!svars
  <1> QED
    BY <1>2, <1>3, <1>4, <1>5, <1>6, <1>7, <1>8, <1>9 DEF Next, Getvec, Abs!Next

(* The allocator implements Storage: it gives out a vector where there was *)
(* room for its block, and refuses a request only when no place has room.  *)
THEOREM AllocatorImplementsStorage == Spec => ImplementsStorage
  <1>1. Init => Abs!Init
    BY DEF Init, Abs!Init
  <1> QED
    BY <1>1, StorageStep, AllocatorSound, PTL DEF Spec, ImplementsStorage, Abs!Spec
=============================================================================
