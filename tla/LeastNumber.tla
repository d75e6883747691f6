---------------------------- MODULE LeastNumber -----------------------------
(***************************************************************************)
(* A set of natural numbers that is not empty has a least one.  The proofs *)
(* about chains, lists and sequences of any length rest on it: what holds  *)
(* at the beginning and is handed on from each place to the next one has   *)
(* no first place at which it fails.                                       *)
(***************************************************************************)
EXTENDS Integers, WellFoundedInduction, FiniteSetTheorems, TLAPS

(* The least number of a set, from the well-foundedness of the order.      *)
LEMMA LeastNat ==
  ASSUME NEW T \in SUBSET Nat, T # {}
  PROVE  \E x \in T : \A y \in T : x <= y
  <1>1. \E x \in T : \A y \in T : <<y, x>> \notin OpToRel(<, Nat)
    BY NatLessThanWellFounded, WFMin, Zenon
  <1>2. PICK x \in T : \A y \in T : <<y, x>> \notin OpToRel(<, Nat)
    BY <1>1
  <1>3. \A y \in T : y < x => <<y, x>> \in OpToRel(<, Nat)
    BY Zenon DEF OpToRel
  <1>4. \A y \in T : ~(y < x)
    BY <1>2, <1>3
  <1> QED
    BY <1>4

(* Two functions on numbers that agree at zero, and at a number if they do *)
(* at the one before it, agree everywhere.                                 *)
LEMMA AgreeByRecursion ==
  ASSUME NEW f, NEW g, f[0] = g[0],
         \A n \in Nat \ {0} : f[n-1] = g[n-1] => f[n] = g[n]
  PROVE  \A n \in Nat : f[n] = g[n]
  <1> DEFINE T == {n \in Nat : f[n] # g[n]}
  <1>1. SUFFICES ASSUME T # {} PROVE FALSE
    OBVIOUS
  <1>2. PICK n \in T : \A k \in T : n <= k
    BY <1>1, LeastNat
  <1>3. n # 0 /\ n - 1 \in Nat /\ n - 1 \notin T
    BY <1>2
  <1> QED
    BY <1>2, <1>3

(* A recursion over 0 .. n with values in a set has a solution.            *)
Recursion(S, F, a, n, f) ==
  f \in [0 .. n -> S] /\ f[0] = a /\ \A t \in 1 .. n : f[t] = F[t][f[t - 1]]

LEMMA RecursionTo ==
  ASSUME NEW n \in Nat, NEW S, NEW a \in S, NEW F \in [1 .. n -> [S -> S]]
  PROVE  \E f : Recursion(S, F, a, n, f)
  <1> DEFINE Solves(m, f) == Recursion(S, F, a, m, f)
             Bad == {m \in 0 .. n : ~\E f : Solves(m, f)}
  <1>1. SUFFICES ASSUME Bad # {} PROVE FALSE
    <2>1. n \in 0 .. n /\ n \notin Bad => \E f : Solves(n, f)
      OBVIOUS
    <2> HIDE DEF Bad
    <2> QED
      BY <2>1
  <1>2. PICK m \in Bad : \A j \in Bad : m <= j
    <2>1. Bad \in SUBSET Nat
      OBVIOUS
    <2> HIDE DEF Bad
    <2> QED
      BY <1>1, <2>1, LeastNat
  <1>3. m \in 0 .. n /\ ~\E f : Solves(m, f)
    OBVIOUS
  <1>4. m # 0
    <2>1. Solves(0, [i \in 0 .. 0 |-> a])
      BY DEF Recursion
    <2> QED
      BY <1>3, <2>1
  <1>5. m - 1 \in 0 .. n /\ m - 1 \notin Bad
    <2>1. m - 1 \in 0 .. n /\ ~(m <= m - 1)
      BY <1>3, <1>4
    <2> HIDE DEF Bad
    <2> QED
      BY <1>2, <2>1
  <1>6. PICK f : Solves(m - 1, f)
    BY <1>5
  <1> DEFINE v == F[m][f[m - 1]]
             h == [i \in 0 .. m |-> IF i = m THEN v ELSE f[i]]
  <1>7. f[m - 1] \in S /\ v \in S
    <2>1. m - 1 \in 0 .. m - 1 /\ m \in 1 .. n
      BY <1>3, <1>4
    <2>2. f[m - 1] \in S
      BY <1>6, <2>1 DEF Recursion
    <2>3. F[m] \in [S -> S]
      BY <2>1
    <2> QED
      BY <2>2, <2>3
  <1> HIDE DEF v
  <1>8. Solves(m, h)
    <2>1. ASSUME NEW i \in 0 .. m PROVE h[i] \in S
      <3>1. i # m => i \in 0 .. m - 1
        BY <1>3
      <3> QED
        BY <1>6, <1>7, <3>1 DEF Recursion
    <2>2. h[0] = a
      BY <1>3, <1>4, <1>6 DEF Recursion
    <2>3. ASSUME NEW t \in 1 .. m PROVE h[t] = F[t][h[t - 1]]
      <3>1. t - 1 \in 0 .. m /\ t - 1 # m /\ h[t - 1] = f[t - 1] /\ t \in 0 .. m
        BY <1>3
      <3>2. CASE t = m
        BY <3>1, <3>2 DEF v
      <3>3. CASE t # m
        <4>1. t \in 1 .. m - 1
          BY <1>3, <3>3
        <4> QED
          BY <1>6, <3>1, <3>3, <4>1 DEF Recursion
      <3> QED
        BY <3>2, <3>3
    <2> QED
      BY <2>1, <2>2, <2>3 DEF Recursion
  <1> QED
    BY <1>3, <1>8

(* A function from a set to itself can be applied any number of times.     *)
Iteration(S, F, a, f) ==
  f \in [Nat -> S] /\ f[0] = a /\ \A n \in Nat : f[n+1] = F[f[n]]

LEMMA Iterates ==
  ASSUME NEW S, NEW F \in [S -> S], NEW a \in S
  PROVE  \E f : Iteration(S, F, a, f)
  <1> DEFINE Upto(n, g) == /\ g \in [0 .. n -> S] /\ g[0] = a
                           /\ \A k \in 0 .. n-1 : g[k+1] = F[g[k]]
  <1>1. \A n \in Nat : \E g : Upto(n, g)
    <2> DEFINE T == {n \in Nat : ~\E g : Upto(n, g)}
    <2>1. SUFFICES ASSUME T # {} PROVE FALSE
      OBVIOUS
    <2>2. PICK n \in T : \A k \in T : n <= k
      BY <2>1, LeastNat
    <2>3. n # 0
      <3>1. Upto(0, [k \in 0 .. 0 |-> a])
        OBVIOUS
      <3>2. 0 \notin T
        BY <3>1
      <3>3. QED
        BY <2>2, <3>2
    <2>4. n-1 \in Nat /\ n-1 \notin T
      <3>1. n \in Nat
        OBVIOUS
      <3> HIDE DEF T
      <3> QED
        BY <3>1, <2>2, <2>3
    <2>5. PICK g : Upto(n-1, g)
      BY <2>4
    <2> DEFINE h == [k \in 0 .. n |-> IF k = n THEN F[g[n-1]] ELSE g[k]]
    <2>6. Upto(n, h)
      <3>1. n \in Nat /\ n > 0 /\ g \in [0 .. n-1 -> S] /\ g[0] = a
        BY <2>3, <2>5
      <3>2. h \in [0 .. n -> S] /\ h[0] = a
        BY <3>1
      <3>3. ASSUME NEW k \in 0 .. n-1 PROVE h[k+1] = F[h[k]]
        <4>1. CASE k = n-1
          BY <3>1, <4>1
        <4>2. CASE k # n-1
          <5>1. k \in 0 .. (n-1)-1 /\ h[k+1] = g[k+1] /\ h[k] = g[k]
            BY <3>1, <4>2
          <5> QED
            BY <5>1, <2>5
        <4> QED
          BY <4>1, <4>2
      <3> QED
        BY <3>2, <3>3
    <2>7. n \notin T
      BY <2>6
    <2> QED
      BY <2>2, <2>7
  <1>2. ASSUME NEW m \in Nat, NEW n \in Nat, NEW g, NEW h, Upto(m, g), Upto(n, h)
        PROVE  \A k \in Nat : k <= m /\ k <= n => g[k] = h[k]
    <2> DEFINE T == {k \in Nat : k <= m /\ k <= n /\ g[k] # h[k]}
    <2>1. SUFFICES ASSUME T # {} PROVE FALSE
      OBVIOUS
    <2>2. PICK k \in T : \A j \in T : k <= j
      BY <2>1, LeastNat
    <2>3. k # 0 /\ k-1 \in Nat /\ k-1 \notin T
      BY <1>2, <2>2
    <2>4. g[k-1] = h[k-1] /\ g[k] = F[g[k-1]] /\ h[k] = F[h[k-1]]
      BY <1>2, <2>2, <2>3
    <2> QED
      BY <2>2, <2>4
  <1> DEFINE G(n) == CHOOSE g : Upto(n, g)
  <1>3. \A n \in Nat : Upto(n, G(n))
    BY <1>1
  <1> DEFINE f == [n \in Nat |-> G(n)[n]]
  <1> HIDE DEF G
  <1>4. f \in [Nat -> S] /\ f[0] = a
    BY <1>3
  <1>5. \A n \in Nat : f[n+1] = F[f[n]]
    <2> SUFFICES ASSUME NEW n \in Nat PROVE f[n+1] = F[f[n]]
      OBVIOUS
    <2>1. Upto(n, G(n)) /\ Upto(n+1, G(n+1))
      BY <1>3
    <2>2. G(n+1)[n] = G(n)[n]
      BY <1>2, <2>1, SMTT(30)
    <2>3. G(n+1)[n+1] = F[G(n+1)[n]]
      BY <2>1
    <2> QED
      BY <2>2, <2>3
  <1> QED
    BY <1>4, <1>5 DEF Iteration

(***************************************************************************)
(* In a finite set of N things, from which a function leads to one of them *)
(* or to an end, N steps from any of them reach all that can be reached.   *)
(***************************************************************************)
LEMMA OrbitCloses ==
  ASSUME NEW S, IsFiniteSet(S), NEW end, end \notin S,
         NEW f \in [Nat -> S \cup {end}],
         \A m, n \in Nat : f[m] = f[n] => f[m+1] = f[n+1],
         \A n \in Nat : f[n] = end => f[n+1] = end
  PROVE  \A n \in Nat : \E k \in 0 .. Cardinality(S) : f[n] = f[k]
  <1> DEFINE N == Cardinality(S)
  <1>1. N \in Nat
    BY FS_CardinalityType
  <1>2. \E i, j \in 0 .. N : (i < j /\ f[i] = f[j]) \/ f[i] = end
    <2> SUFFICES ASSUME \A i, j \in 0 .. N : f[i] = f[j] => i = j,
                        \A i \in 0 .. N : f[i] # end
                 PROVE  FALSE
      BY <1>1
    <2> DEFINE g == [i \in 0 .. N |-> f[i]]
    <2>1. g \in Injection(0 .. N, S)
      BY <1>1 DEF Injection, IsInjective
    <2>2. Cardinality(0 .. N) <= Cardinality(S)
      BY <2>1, <1>1, FS_Injection
    <2>3. Cardinality(0 .. N) = N + 1
      <3> HIDE DEF N
      <3> QED
        BY <1>1, FS_Interval
    <2> QED
      BY <1>1, <2>2, <2>3
  <1>3. PICK j \in 0 .. N+1 : \E i \in 0 .. N : i < j /\ f[i] = f[j]
    <2>1. CASE \E i \in 0 .. N : f[i] = end
      <3>1. PICK i \in 0 .. N : f[i] = end
        BY <2>1
      <3>2. f[i+1] = f[i] /\ i+1 \in 0 .. N+1
        BY <1>1, <3>1
      <3> QED
        BY <3>2
    <2>2. CASE \E i, j \in 0 .. N : i < j /\ f[i] = f[j]
      BY <1>1, <2>2
    <2> QED
      BY <1>2, <2>1, <2>2
  <1>4. PICK i \in 0 .. N : i < j /\ f[i] = f[j]
    BY <1>3
  <1> DEFINE T == {n \in Nat : ~\E k \in 0 .. N : f[n] = f[k]}
  <1>5. SUFFICES ASSUME T # {} PROVE FALSE
    OBVIOUS
  <1>6. PICK n \in T : \A k \in T : n <= k
    BY <1>5, LeastNat
  <1>7. n > N /\ n-1 \in Nat /\ n-1 \notin T
    BY <1>1, <1>6
  <1>8. PICK k \in 0 .. N : f[n-1] = f[k]
    BY <1>7
  <1>9. f[n] = f[k+1]
    BY <1>1, <1>7, <1>8
  <1>10. k = N
    <2>1. k+1 \notin 0 .. N
      BY <1>6, <1>9
    <2> QED
      BY <1>1, <2>1
  <1>11. f[n] = f[N+1]
    BY <1>9, <1>10
  <1> DEFINE U == {d \in Nat : f[i+d] # f[j+d]}
  <1>12. U = {}
    <2> SUFFICES ASSUME U # {} PROVE FALSE
      OBVIOUS
    <2>1. PICK d \in U : \A e \in U : d <= e
      BY LeastNat
    <2>2. d # 0 /\ d-1 \in Nat /\ d-1 \notin U
      <3>1. i+0 = i /\ j+0 = j /\ f[i+d] # f[j+d] /\ d \in Nat
        BY <1>1, <2>1
      <3>2. d # 0
        BY <1>4, <3>1
      <3>3. d-1 \in Nat
        BY <3>1, <3>2
      <3> HIDE DEF U
      <3> QED
        BY <2>1, <3>1, <3>2, <3>3
    <2>3. f[i+(d-1)] = f[j+(d-1)] /\ i+(d-1) \in Nat /\ j+(d-1) \in Nat
      BY <2>2, <1>1
    <2>4. f[(i+(d-1))+1] = f[(j+(d-1))+1]
      BY <2>3
    <2>5. (i+(d-1))+1 = i+d /\ (j+(d-1))+1 = j+d
      BY <2>1, <1>1
    <2> QED
      BY <2>1, <2>4, <2>5
  <1>13. f[N+1] = f[i+(N+1-j)] /\ i+(N+1-j) \in 0 .. N
    <2>1. N+1-j \in Nat /\ N+1-j \notin U /\ j+(N+1-j) = N+1
      BY <1>1, <1>3, <1>12
    <2> QED
      BY <2>1, <1>1, <1>4
  <1> QED
    BY <1>6, <1>11, <1>13
=============================================================================
