-------------------------- MODULE CoroutinesProofs --------------------------
(***************************************************************************)
(* Proofs about the coroutine library, for any number of stacks.           *)
(***************************************************************************)
EXTENDS Coroutines, LeastNumber, FiniteSetTheorems, SequenceTheorems, TLAPS

USE CoAssumption

(* Every action keeps the types. *)
LEMMA StepTypeOK == TypeOK /\ [Next]_vars => TypeOK'
<1> SUFFICES ASSUME TypeOK, [Next]_vars
             PROVE  TypeOK'
  OBVIOUS
<1> USE DEF TypeOK, Modes, Faults, Frames, ChangeCo
<1>1. CASE FirstCowait
  BY <1>1 DEF FirstCowait, GiveToParent
<1>2. CASE Cowait
  BY <1>2 DEF Cowait, GiveToParent
<1>3. CASE MainReturns
  BY <1>3 DEF MainReturns, GiveToParent
<1>4. CASE ContinueDelete
  BY <1>4 DEF ContinueDelete
<1>5. CASE ContinueCall
  BY <1>5 DEF ContinueCall
<1>6. ASSUME NEW c \in Co, CreateCo(c)
      PROVE  TypeOK'
  BY <1>6 DEF CreateCo
<1>7. ASSUME NEW c \in Co, DeleteCo(c)
      PROVE  TypeOK'
  BY <1>7 DEF DeleteCo
<1>8. ASSUME NEW c \in Co, DeleteCoFault(c)
      PROVE  TypeOK'
  BY <1>8 DEF DeleteCoFault
<1>9. ASSUME NEW c \in Co, CallCo(c)
      PROVE  TypeOK'
  BY <1>9 DEF CallCo
<1>10. ASSUME NEW c \in Co, CallCoFault(c)
       PROVE  TypeOK'
  BY <1>10 DEF CallCoFault
<1>11. ASSUME NEW c \in Co, ResumeCo(c)
       PROVE  TypeOK'
  BY <1>11 DEF ResumeCo, Cleared
<1>12. ASSUME NEW c \in Co, ResumeCoFault(c)
       PROVE  TypeOK'
  BY <1>12 DEF ResumeCoFault, Cleared
<1>13. CASE UNCHANGED vars
  BY <1>13 DEF vars
<1>14. QED
  BY <1>1, <1>2, <1>3, <1>4, <1>5, <1>6, <1>7, <1>8, <1>9, <1>10, <1>11,
     <1>12, <1>13 DEF Next

(* The words of a stack keep their types, and the running coroutine is a   *)
(* stack as long as control has not gone wild.                             *)
THEOREM TypeCorrect == Spec => []TypeOK
<1>1. Init => TypeOK
  BY DEF Init, TypeOK, Modes, Faults, Frames, NoPend
<1>2. QED
  BY <1>1, StepTypeOK, PTL DEF Spec
-----------------------------------------------------------------------------
(***************************************************************************)
(* The chain of calls.  ActiveChain bounds the length of the chain by the  *)
(* number of stacks, for TLC; a chain has no repetition, so the bound is   *)
(* no restriction.                                                         *)
(***************************************************************************)
WholeChain(n, p) ==
  /\ n \in Nat
  /\ p \in [0 .. n -> Co]
  /\ IsChain(n, p)
  /\ {c \in Co : parent[c] # Null} = {p[i] : i \in 0 .. n}
  /\ \A i \in 0 .. n : p[i] \in live

(* A chain is never longer than the number of stacks. *)
LEMMA ChainBound ==
  ASSUME NEW n \in Nat, NEW p \in [0 .. n -> Co],
         \A i, j \in 0 .. n : p[i] = p[j] => i = j
  PROVE  n \in 0 .. Cardinality(Co) - 1
<1>1. p \in Injection(0 .. n, Co)
  BY DEF Injection, IsInjective
<1>2. Cardinality(0 .. n) <= Cardinality(Co)
  BY <1>1, FS_Injection
<1>3. Cardinality(0 .. n) = n + 1
  BY FS_Interval
<1>4. Cardinality(Co) \in Nat
  BY FS_CardinalityType
<1>5. QED
  BY <1>2, <1>3, <1>4

LEMMA ChainIffWhole ==
  ActiveChain <=> (Sound => \E n, p : WholeChain(n, p))
<1>1. ASSUME ActiveChain, Sound
      PROVE  \E n, p : WholeChain(n, p)
  <2>1. PICK n \in 0 .. Cardinality(Co) - 1 : \E p \in [0 .. n -> Co] :
               /\ IsChain(n, p)
               /\ {c \in Co : parent[c] # Null} = {p[i] : i \in 0 .. n}
               /\ \A i \in 0 .. n : p[i] \in live
    BY <1>1 DEF ActiveChain
  <2>2. PICK p \in [0 .. n -> Co] :
               /\ IsChain(n, p)
               /\ {c \in Co : parent[c] # Null} = {p[i] : i \in 0 .. n}
               /\ \A i \in 0 .. n : p[i] \in live
    BY <2>1
  <2>3. n \in Nat
    BY FS_CardinalityType
  <2>4. QED
    BY <2>2, <2>3 DEF WholeChain
<1>2. ASSUME NEW n, NEW p, WholeChain(n, p)
      PROVE  ActiveChain
  <2>1. n \in 0 .. Cardinality(Co) - 1
    BY <1>2, ChainBound DEF WholeChain, IsChain
  <2>2. QED
    BY <1>2, <2>1 DEF WholeChain, ActiveChain
<1>3. ~Sound => ActiveChain
  BY DEF ActiveChain
<1>4. QED
  BY <1>1, <1>2, <1>3

(* The same after a step. *)
LEMMA WholeIsActiveNext ==
  ASSUME NEW n, NEW p, WholeChain(n, p)'
  PROVE  ActiveChain'
<1>1. n \in 0 .. Cardinality(Co) - 1
  BY ChainBound DEF WholeChain, IsChain
<1>2. QED
  BY <1>1 DEF WholeChain, ActiveChain

(* The inductive invariant: the chain is whole, and the frames fit it. *)
IInv == TypeOK /\ ActiveChain /\ FrameDiscipline

(* The running coroutine is on the chain. *)
LEMMA RunningHasParent ==
  ASSUME IInv, Sound
  PROVE  parent[currco] # Null /\ currco \in live
<1>1. PICK n, p : WholeChain(n, p)
  BY ChainIffWhole DEF IInv
<1>2. QED
  BY <1>1 DEF WholeChain, IsChain

LEMMA InitIInv == Init => IInv
<1> SUFFICES ASSUME Init PROVE IInv
  OBVIOUS
<1>1. TypeOK
  BY DEF Init, TypeOK, Modes, Faults, Frames, NoPend
<1>2. WholeChain(0, [i \in 0 .. 0 |-> Root])
  BY DEF Init, WholeChain, IsChain
<1>3. FrameDiscipline
  BY DEF Init, FrameDiscipline
<1>4. QED
  BY <1>1, <1>2, <1>3, ChainIffWhole DEF IInv

(***************************************************************************)
(* Giving control to the parent takes the last coroutine off the chain.    *)
(***************************************************************************)
Popped(n, p) == [i \in 0 .. n-1 |-> p[i]]

LEMMA GivePopsChain ==
  ASSUME TypeOK, NEW f, GiveToParent(f), parent[currco] \in Co,
         NEW n, NEW p, WholeChain(n, p)
  PROVE  n > 0 /\ WholeChain(n-1, Popped(n, p))'
<1> DEFINE q == Popped(n, p)
<1> USE DEF Popped
<1>1. currco' = parent[currco] /\ parent[currco] # Bottom
  BY DEF GiveToParent, ChangeCo
<1>3. n > 0
  BY <1>1 DEF WholeChain, IsChain
<1>4. p[n] = currco /\ p[n-1] = parent[currco]
  BY <1>3 DEF WholeChain, IsChain
<1>5. \A i \in 0 .. n-1 : p[i] # currco /\ parent'[p[i]] = parent[p[i]]
  BY <1>3, <1>4 DEF WholeChain, IsChain, GiveToParent, TypeOK
<1>6. WholeChain(n-1, q)'
  <2>1. n-1 \in Nat /\ q \in [0 .. n-1 -> Co]
    BY <1>3 DEF WholeChain
  <2>2. IsChain(n-1, q)'
    BY <1>1, <1>3, <1>4, <1>5 DEF WholeChain, IsChain
  <2>3. ASSUME NEW c \in Co
        PROVE  parent'[c] # Null <=> \E i \in 0 .. n-1 : q[i] = c
    <3>1. parent'[c] = IF c = currco THEN Null ELSE parent[c]
      BY DEF GiveToParent, TypeOK
    <3>2. parent[c] # Null <=> \E i \in 0 .. n : p[i] = c
      BY DEF WholeChain
    <3>3. QED
      BY <3>1, <3>2, <1>3, <1>4, <1>5 DEF WholeChain
  <2>4. \A i \in 0 .. n-1 : q[i] \in live'
    BY <1>3 DEF WholeChain, GiveToParent
  <2>5. QED
    BY <2>1, <2>2, <2>3, <2>4 DEF WholeChain
<1>9. QED
  BY <1>3, <1>6

LEMMA GiveKeepsChain ==
  ASSUME IInv, TypeOK', NEW f \in {"idle", "cowait"}, GiveToParent(f),
         mode \in {"user", "born"}
  PROVE  ActiveChain' /\ FrameDiscipline'
<1> SUFFICES ASSUME Sound' PROVE ActiveChain' /\ FrameDiscipline'
  BY DEF ActiveChain, FrameDiscipline
<1>1. parent[currco] \in Co /\ mode' = "user" /\ currco' = parent[currco]
  BY DEF GiveToParent, ChangeCo, Sound
<1>2. PICK n, p : WholeChain(n, p)
  BY ChainIffWhole DEF IInv, Sound
<1>3. ActiveChain'
  BY <1>1, <1>2, GivePopsChain, WholeIsActiveNext DEF IInv
<1>4. FrameDiscipline'
  BY <1>1 DEF IInv, TypeOK, FrameDiscipline, Sound, GiveToParent, ChangeCo
<1>5. QED
  BY <1>3, <1>4

(***************************************************************************)
(* A call puts a coroutine that has no parent at the end of the chain.  It *)
(* may be a new one, as in createco, or an idle one, as in callco.         *)
(***************************************************************************)
Pushed(n, p, c) == [i \in 0 .. n+1 |-> IF i = n+1 THEN c ELSE p[i]]

LEMMA CallPushesChain ==
  ASSUME TypeOK, NEW c \in Co, parent[c] = Null,
         parent' = [parent EXCEPT ![c] = currco], currco' = c, currco \in Co,
         c \in live', live \subseteq live',
         NEW n, NEW p, WholeChain(n, p)
  PROVE  WholeChain(n+1, Pushed(n, p, c))'
<1> DEFINE q == Pushed(n, p, c)
<1> USE DEF Pushed
<1>2. \A i \in 0 .. n : p[i] # c /\ parent'[p[i]] = parent[p[i]]
  BY DEF WholeChain, TypeOK
<1>3. WholeChain(n+1, q)'
  <2>1. n+1 \in Nat /\ q \in [0 .. n+1 -> Co]
    BY DEF WholeChain
  <2>2. IsChain(n+1, q)'
    BY <1>2 DEF WholeChain, IsChain, TypeOK
  <2>3. ASSUME NEW d \in Co
        PROVE  parent'[d] # Null <=> \E i \in 0 .. n+1 : q[i] = d
    <3>1. parent'[d] = IF d = c THEN currco ELSE parent[d]
      BY DEF TypeOK
    <3>2. parent[d] # Null <=> \E i \in 0 .. n : p[i] = d
      BY DEF WholeChain
    <3>3. currco # Null
      OBVIOUS
    <3>4. CASE d = c
      BY <3>1, <3>3, <3>4 DEF WholeChain
    <3>5. CASE d # c
      BY <3>1, <3>2, <3>5 DEF WholeChain
    <3>6. QED
      BY <3>4, <3>5
  <2>4. \A i \in 0 .. n+1 : q[i] \in live'
    BY DEF WholeChain
  <2>5. QED
    BY <2>1, <2>2, <2>3, <2>4 DEF WholeChain
<1>4. QED
  BY <1>3

LEMMA PushKeepsChain ==
  ASSUME IInv, mode = "user",
         NEW c \in Co, parent[c] = Null,
         parent' = [parent EXCEPT ![c] = currco], currco' = c,
         c \in live', live \subseteq live'
  PROVE  ActiveChain'
<1>1. PICK n, p : WholeChain(n, p)
  BY ChainIffWhole DEF IInv, Sound
<1>2. TypeOK /\ currco \in Co
  BY DEF IInv, TypeOK
<1>3. QED
  BY <1>1, <1>2, CallPushesChain, WholeIsActiveNext

(***************************************************************************)
(* resumeco replaces the last coroutine of the chain.                      *)
(***************************************************************************)
LEMMA ResumeReplacesChain ==
  ASSUME TypeOK, NEW c \in Co, ResumeCo(c), NEW n, NEW p, WholeChain(n, p)
  PROVE  WholeChain(n, [p EXCEPT ![n] = c])'
<1> DEFINE q == [p EXCEPT ![n] = c]
<1>2. p[n] = currco /\ \A i \in 0 .. n-1 : p[i] # currco
  BY DEF WholeChain, IsChain
<1>3. \A i \in 0 .. n-1 : p[i] # c /\ parent'[p[i]] = parent[p[i]]
  BY <1>2 DEF WholeChain, ResumeCo, Cleared, TypeOK
<1>4. parent'[c] = parent[currco] /\ parent[currco] # Null
  BY <1>2 DEF WholeChain, ResumeCo, Cleared, TypeOK
<1>5. WholeChain(n, q)'
  <2>1. n \in Nat /\ q \in [0 .. n -> Co]
    BY DEF WholeChain
  <2>2. IsChain(n, q)'
    BY <1>2, <1>3, <1>4 DEF WholeChain, IsChain, ResumeCo, ChangeCo
  <2>3. ASSUME NEW d \in Co
        PROVE  parent'[d] # Null <=> \E i \in 0 .. n : q[i] = d
    <3>1. parent'[d] = IF d = c THEN parent[currco]
                       ELSE IF d = currco THEN Null ELSE parent[d]
      BY DEF ResumeCo, Cleared, TypeOK
    <3>2. parent[d] # Null <=> \E i \in 0 .. n : p[i] = d
      BY DEF WholeChain
    <3>3. QED
      BY <3>1, <3>2, <1>2, <1>3, <1>4 DEF WholeChain
  <2>4. \A i \in 0 .. n : q[i] \in live'
    BY DEF WholeChain, ResumeCo
  <2>5. QED
    BY <2>1, <2>2, <2>3, <2>4 DEF WholeChain
<1>6. QED
  BY <1>5

LEMMA ResumeKeepsChain ==
  ASSUME IInv, NEW c \in Co, ResumeCo(c)
  PROVE  ActiveChain'
<1>1. PICK n, p : WholeChain(n, p)
  BY ChainIffWhole DEF IInv, Sound, ResumeCo
<1>2. QED
  BY <1>1, ResumeReplacesChain, WholeIsActiveNext DEF IInv

(* Steps that leave the chain and the frames alone. *)
LEMMA SameChain ==
  ASSUME IInv, TypeOK', Sound, UNCHANGED <<parent, currco, pptr>>,
         mode = "born" <=> mode' = "born",
         live' \subseteq live,
         \A c \in live : parent[c] # Null => c \in live'
  PROVE  ActiveChain' /\ FrameDiscipline'
<1>1. PICK n, p : WholeChain(n, p)
  BY ChainIffWhole DEF IInv
<1>2. \A i \in 0 .. n : parent[p[i]] # Null
  BY <1>1 DEF WholeChain
<1>3. WholeChain(n, p)'
  BY <1>1, <1>2 DEF WholeChain, IsChain
<1>4. FrameDiscipline'
  BY DEF IInv, FrameDiscipline, Sound
<1>5. QED
  BY <1>3, <1>4, WholeIsActiveNext

LEMMA StepIInv == IInv /\ [Next]_vars => IInv'
<1> SUFFICES ASSUME IInv, [Next]_vars
             PROVE  IInv'
  OBVIOUS
<1>1. TypeOK'
  BY StepTypeOK DEF IInv
<1>2. SUFFICES ActiveChain' /\ FrameDiscipline'
  BY <1>1 DEF IInv
<1>3. CASE FirstCowait \/ Cowait \/ MainReturns
  BY <1>1, <1>3, GiveKeepsChain DEF FirstCowait, Cowait, MainReturns
<1>4. ASSUME NEW c \in Co, CreateCo(c)
      PROVE  ActiveChain' /\ FrameDiscipline'
  <2>1. parent[c] = Null
    BY <1>4, ChainIffWhole DEF CreateCo, IInv, Sound, WholeChain
  <2>2. ActiveChain'
    BY <1>1, <1>4, <2>1, PushKeepsChain DEF CreateCo
  <2>3. FrameDiscipline'
    BY <1>4, <2>1, RunningHasParent DEF CreateCo, IInv, TypeOK, FrameDiscipline, Sound
  <2>4. QED
    BY <2>2, <2>3
<1>5. ASSUME NEW c \in Co, CallCo(c)
      PROVE  ActiveChain' /\ FrameDiscipline'
  <2>1. ActiveChain'
    BY <1>1, <1>5, PushKeepsChain DEF CallCo, ChangeCo
  <2>2. FrameDiscipline'
    BY <1>5, RunningHasParent DEF CallCo, ChangeCo, IInv, TypeOK, FrameDiscipline, Sound
  <2>3. QED
    BY <2>1, <2>2
<1>6. ASSUME NEW c \in Co, ResumeCo(c)
      PROVE  ActiveChain' /\ FrameDiscipline'
  <2>1. ActiveChain'
    BY <1>1, <1>6, ResumeKeepsChain
  <2>2. FrameDiscipline'
    BY <1>6, RunningHasParent DEF ResumeCo, Cleared, ChangeCo, IInv, TypeOK, FrameDiscipline, Sound
  <2>3. QED
    BY <2>1, <2>2
<1>7. ASSUME NEW c \in Co, DeleteCo(c)
      PROVE  ActiveChain' /\ FrameDiscipline'
  BY <1>1, <1>7, SameChain DEF DeleteCo, Sound
<1>8. ASSUME NEW c \in Co, DeleteCoFault(c) \/ CallCoFault(c)
      PROVE  ActiveChain' /\ FrameDiscipline'
  BY <1>1, <1>8, SameChain DEF DeleteCoFault, CallCoFault, Sound
<1>9. CASE ContinueDelete
  BY <1>1, <1>9, SameChain DEF ContinueDelete, Sound
<1>10. CASE ContinueCall \/ \E c \in Co : ResumeCoFault(c)
  BY <1>10 DEF ContinueCall, ResumeCoFault, Sound, ActiveChain, FrameDiscipline
<1>11. CASE UNCHANGED vars /\ Sound
  BY <1>1, <1>11, SameChain DEF vars
<1>12. CASE UNCHANGED vars /\ ~Sound
  BY <1>12 DEF vars, Sound, ActiveChain, FrameDiscipline
<1>13. QED
  BY <1>3, <1>4, <1>5, <1>6, <1>7, <1>8, <1>9, <1>10, <1>11, <1>12 DEF Next

(* The parent words of blib.b are a call stack at every moment at which    *)
(* user code runs, and also when callco or deleteco has reported a fault.  *)
THEOREM ChainAlwaysWhole == Spec => []ActiveChain
<1>1. IInv => ActiveChain
  BY DEF IInv
<1>2. QED
  BY <1>1, InitIInv, StepIInv, PTL DEF Spec

(* Control always comes back into the call that gave it away.              *)
THEOREM FramesAlwaysFit == Spec => []FrameDiscipline
<1>1. IInv => FrameDiscipline
  BY DEF IInv
<1>2. QED
  BY <1>1, InitIInv, StepIInv, PTL DEF Spec
-----------------------------------------------------------------------------
(***************************************************************************)
(* The list of coroutines, which createco extends and deleteco shortens.   *)
(* q[0] is the first of the m coroutines on it.                            *)
(***************************************************************************)
Listed(m, q) ==
  /\ m \in Nat
  /\ q \in [0 .. m-1 -> Co]
  /\ \A i, j \in 0 .. m-1 : q[i] = q[j] => i = j
  /\ colist = IF m = 0 THEN Null ELSE q[0]
  /\ \A i \in 0 .. m-1 : link[q[i]] = IF i = m-1 THEN Null ELSE q[i+1]
  /\ live = {q[i] : i \in 0 .. m-1}

(* What the recursion of ListNth says of a function. *)
FollowsLinks(f) ==
  f = [n \in Nat |-> IF n = 0 THEN colist
                     ELSE IF f[n-1] = Null THEN Null ELSE link[f[n-1]]]

LEMMA ListIsQ ==
  ASSUME TypeOK, NEW m, NEW q, Listed(m, q)
  PROVE  \A n \in Nat : ListNth[n] = IF n < m THEN q[n] ELSE Null
<1> DEFINE f == [n \in Nat |-> IF n < m THEN q[n] ELSE Null]
<1>1. FollowsLinks(f)
  <2>1. \A n \in Nat : f[n] = IF n = 0 THEN colist
                              ELSE IF f[n-1] = Null THEN Null ELSE link[f[n-1]]
    BY DEF Listed
  <2>2. QED
    BY <2>1 DEF FollowsLinks
<1>2. FollowsLinks(ListNth)
  BY <1>1, Zenon DEF ListNth, FollowsLinks
<1> DEFINE g == ListNth
<1>3. \A n \in Nat : g[n] = IF n = 0 THEN colist
                            ELSE IF g[n-1] = Null THEN Null ELSE link[g[n-1]]
  BY <1>2 DEF FollowsLinks
<1>4. \A n \in Nat : f[n] = IF n = 0 THEN colist
                            ELSE IF f[n-1] = Null THEN Null ELSE link[f[n-1]]
  BY <1>1 DEF FollowsLinks
<1>5. g[0] = f[0] /\ \A n \in Nat \ {0} : g[n-1] = f[n-1] => g[n] = f[n]
  <2> HIDE DEF f, g
  <2> QED
    BY <1>3, <1>4
<1>6. \A n \in Nat : g[n] = f[n]
  <2> HIDE DEF f, g
  <2> QED
    BY <1>5, AgreeByRecursion
<1> QED
  BY <1>6

(* There are no more on it than stacks, so that InList looks far enough.   *)
LEMMA InListIsLive ==
  ASSUME TypeOK, NEW m, NEW q, Listed(m, q)
  PROVE  /\ \A c \in Co : InList(c) <=> c \in live
         /\ Cardinality(live) = m
<1>1. m <= Cardinality(Co) /\ Cardinality(Co) \in Nat
  <2>1. Cardinality(Co) \in Nat
    BY FS_CardinalityType
  <2>2. CASE m = 0
    BY <2>1, <2>2
  <2>3. CASE m # 0
    BY <2>1, <2>3, ChainBound DEF Listed
  <2>4. QED
    BY <2>1, <2>2, <2>3
<1>2. \A c \in Co : InList(c) <=> c \in live
  <2>1. \A n \in 0 .. Cardinality(Co) - 1 : ListNth[n] = IF n < m THEN q[n] ELSE Null
    BY <1>1, ListIsQ
  <2>2. ASSUME NEW c \in Co, InList(c)
        PROVE  c \in live
    <3>1. PICK n \in 0 .. Cardinality(Co) - 1 : ListNth[n] = c
      BY <2>2 DEF InList
    <3>2. n < m /\ c = q[n]
      BY <2>1, <3>1
    <3>3. QED
      BY <3>1, <3>2, <1>1 DEF Listed
  <2>3. ASSUME NEW c \in live
        PROVE  InList(c)
    <3>1. PICK i \in 0 .. m-1 : q[i] = c
      BY DEF Listed
    <3>2. i \in 0 .. Cardinality(Co) - 1 /\ ListNth[i] = c
      BY <2>1, <3>1, <1>1 DEF Listed
    <3>3. QED
      BY <3>2 DEF InList
  <2>4. QED
    BY <2>2, <2>3
<1>3. Cardinality(live) = m
  <2>1. q \in Bijection(0 .. m-1, live)
    BY DEF Listed, Bijection, Injection, Surjection, IsInjective
  <2>2. IsFiniteSet(0 .. m-1) /\ Cardinality(0 .. m-1) = m
    BY FS_Interval DEF Listed
  <2>3. QED
    BY <2>1, <2>2, FS_Bijection DEF ExistsBijection
<1>4. QED
  BY <1>2, <1>3

(* The invariant: some sequence of stacks is the list. *)
LInv == TypeOK /\ \E m, q : Listed(m, q)

LEMMA LInvIsListLive == LInv => ListIsLive
<1> SUFFICES ASSUME LInv PROVE ListIsLive
  OBVIOUS
<1>1. PICK m, q : Listed(m, q)
  BY DEF LInv
<1>2. live \subseteq Co /\ m \in Nat
  BY <1>1 DEF LInv, TypeOK, Listed
<1>3. QED
  BY <1>1, <1>2, ListIsQ, InListIsLive DEF LInv, ListIsLive

(* deleteco of the coroutine at place k. *)
LEMMA DeleteKeepsList ==
  ASSUME TypeOK, NEW m, NEW q, Listed(m, q), NEW c \in Co, DeleteCo(c)
  PROVE  \E m1, q1 : Listed(m1, q1)'
<1>1. PICK k \in 0 .. m-1 : q[k] = c
  <2>1. c \in live
    BY InListIsLive DEF DeleteCo
  <2>2. QED
    BY <2>1 DEF Listed
<1>0. m \in Nat /\ m-1 \in Nat /\ (m-1)-1 = m-2
  BY <1>1 DEF Listed
<1> DEFINE r == [i \in 0 .. m-2 |-> IF i < k THEN q[i] ELSE q[i+1]]
<1>2. live' = {r[i] : i \in 0 .. m-2}
  <2>1. ASSUME NEW d \in live, d # c
        PROVE  \E i \in 0 .. m-2 : r[i] = d
    <3>1. PICK j \in 0 .. m-1 : q[j] = d
      BY DEF Listed
    <3>2. CASE j < k
      <4>1. j \in 0 .. m-2 /\ r[j] = d
        BY <1>0, <3>1, <3>2
      <4>2. QED
        BY <4>1
    <3>3. CASE j > k
      <4>1. j-1 \in 0 .. m-2 /\ r[j-1] = d
        BY <1>0, <3>1, <3>3
      <4>2. QED
        BY <4>1
    <3>4. QED
      BY <2>1, <3>1, <3>2, <3>3, <1>1 DEF Listed
  <2>2. \A i \in 0 .. m-2 : r[i] \in live /\ r[i] # c
    BY <1>1 DEF Listed
  <2>3. QED
    BY <2>1, <2>2 DEF DeleteCo
<1>3. \A i \in 0 .. m-1 : link'[q[i]] = IF i = k-1 THEN link[c] ELSE link[q[i]]
  <2>1. \A i \in 0 .. m-1 : link[q[i]] = c <=> i = k-1
    BY <1>1 DEF Listed
  <2>2. CASE colist = c
    BY <2>1, <2>2, <1>1 DEF DeleteCo, Listed
  <2>3. CASE colist # c
    <3>1. \A i \in 0 .. m-1 : InList(q[i]) /\ q[i] \in Co
      BY InListIsLive DEF Listed
    <3>2. link' = [d \in Co |-> IF InList(d) /\ link[d] = c THEN link[c] ELSE link[d]]
      BY <2>3 DEF DeleteCo
    <3>3. QED
      BY <2>1, <3>1, <3>2
  <2>4. QED
    BY <2>2, <2>3
<1>4. link[c] = IF k = m-1 THEN Null ELSE q[k+1]
  BY <1>1 DEF Listed
<1>5. \A i \in 0 .. m-2 : link'[r[i]] = IF i = m-2 THEN Null ELSE r[i+1]
  <2>1. SUFFICES ASSUME NEW i \in 0 .. m-2
                 PROVE  link'[r[i]] = IF i = m-2 THEN Null ELSE r[i+1]
    OBVIOUS
  <2>2. CASE i >= k
    <3>1. r[i] = q[i+1] /\ i+1 \in 0 .. m-1 /\ i+1 # k-1
      BY <1>0, <2>2
    <3>2. link'[r[i]] = link[q[i+1]]
      BY <3>1, <1>3
    <3>3. link[q[i+1]] = IF i+1 = m-1 THEN Null ELSE q[i+2]
      BY <3>1, <1>0 DEF Listed
    <3>4. i # m-2 => r[i+1] = q[i+2]
      BY <1>0, <2>2
    <3>5. QED
      BY <3>2, <3>3, <3>4, <1>0
  <2>3. CASE i = k-1
    <3>1. r[i] = q[i] /\ link'[r[i]] = link[c]
      BY <1>0, <1>3, <2>3
    <3>2. i # m-2 => r[i+1] = q[k+1]
      BY <1>0, <2>3
    <3>3. QED
      BY <3>1, <3>2, <1>4, <1>0, <2>3
  <2>4. CASE i < k-1
    <3>1. r[i] = q[i] /\ r[i+1] = q[i+1] /\ i \in 0 .. m-1 /\ i # m-2
      BY <1>0, <2>4
    <3>2. link'[r[i]] = link[q[i]]
      BY <3>1, <1>3, <2>4
    <3>3. link[q[i]] = q[i+1]
      BY <3>1, <1>0, <2>4 DEF Listed
    <3>4. QED
      BY <3>1, <3>2, <3>3
  <2>5. QED
    BY <2>2, <2>3, <2>4, <1>0
<1>6. colist' = IF m-1 = 0 THEN Null ELSE r[0]
  <2>1. colist = c <=> k = 0
    BY <1>1 DEF Listed
  <2>2. QED
    BY <2>1, <1>1, <1>4 DEF Listed, DeleteCo
<1>7. Listed(m-1, r)'
  <2>1. m-1 \in Nat /\ r \in [0 .. m-2 -> Co]
    BY <1>1 DEF Listed
  <2>2. \A i, j \in 0 .. m-2 : r[i] = r[j] => i = j
    BY <1>1 DEF Listed
  <2>3. QED
    BY <2>1, <2>2, <1>0, <1>2, <1>5, <1>6 DEF Listed
<1>8. QED
  BY <1>7

LEMMA StepLInv == LInv /\ [Next]_vars => LInv'
<1> SUFFICES ASSUME LInv, [Next]_vars
             PROVE  LInv'
  OBVIOUS
<1>1. TypeOK'
  BY StepTypeOK DEF LInv
<1>2. PICK m, q : Listed(m, q)
  BY DEF LInv
<1>3. CASE UNCHANGED <<live, colist, link>>
  <2>1. Listed(m, q)'
    BY <1>2, <1>3 DEF Listed
  <2>2. QED
    BY <1>1, <2>1 DEF LInv
<1>4. ASSUME NEW c \in Co, CreateCo(c)
      PROVE  LInv'
  <2> DEFINE r == [i \in 0 .. m |-> IF i = 0 THEN c ELSE q[i-1]]
  <2>1. \A i \in 0 .. m-1 : q[i] # c
    BY <1>2, <1>4 DEF CreateCo, Listed
  <2>2. m+1 \in Nat /\ r \in [0 .. m -> Co] /\ \A i, j \in 0 .. m : r[i] = r[j] => i = j
    BY <1>2, <2>1 DEF Listed
  <2>3. colist' = r[0]
    BY <1>2, <1>4 DEF CreateCo, Listed
  <2>4. \A d \in Co : link'[d] = IF d = c THEN colist ELSE link[d]
    BY <1>4 DEF CreateCo, LInv, TypeOK
  <2>5. \A i \in 0 .. m : link'[r[i]] = IF i = m THEN Null ELSE r[i+1]
    <3>1. SUFFICES ASSUME NEW i \in 0 .. m
                   PROVE  link'[r[i]] = IF i = m THEN Null ELSE r[i+1]
      OBVIOUS
    <3>2. m \in Nat
      BY <1>2 DEF Listed
    <3>3. CASE i = 0
      BY <1>2, <2>1, <2>4, <3>2, <3>3 DEF Listed
    <3>4. CASE i # 0
      <4>1. r[i] = q[i-1] /\ i-1 \in 0 .. m-1 /\ (i # m => r[i+1] = q[i])
        BY <3>2, <3>4
      <4>2. link[q[i-1]] = IF i-1 = m-1 THEN Null ELSE q[(i-1)+1]
        BY <1>2, <4>1 DEF Listed
      <4>3. link'[q[i-1]] = link[q[i-1]]
        BY <1>2, <2>1, <2>4, <4>1 DEF Listed
      <4>4. QED
        BY <3>2, <4>1, <4>2, <4>3
    <3>5. QED
      BY <3>3, <3>4
  <2>6. live' = {r[i] : i \in 0 .. m}
    <3>1. \A d \in live : \E i \in 0 .. m : r[i] = d
      <4>1. SUFFICES ASSUME NEW j \in 0 .. m-1 PROVE \E i \in 0 .. m : r[i] = q[j]
        BY <1>2 DEF Listed
      <4>2. r[j+1] = q[j] /\ j+1 \in 0 .. m
        BY <1>2 DEF Listed
      <4>3. QED
        BY <4>2
    <3>2. \A i \in 0 .. m : r[i] \in live \cup {c}
      BY <1>2 DEF Listed
    <3>3. r[0] = c /\ 0 \in 0 .. m
      BY <1>2 DEF Listed
    <3>4. live' = live \cup {c}
      BY <1>4 DEF CreateCo
    <3>5. QED
      BY <3>1, <3>2, <3>3, <3>4
  <2>7. Listed(m+1, r)'
    <3>1. m \in Nat /\ (m+1)-1 = m /\ m+1 # 0
      BY <1>2 DEF Listed
    <3>2. (\A i \in 0 .. m : link'[r[i]] = IF i = (m+1)-1 THEN Null ELSE r[i+1])
          /\ 0 .. (m+1)-1 = 0 .. m
      BY <3>1, <2>5
    <3> HIDE DEF r
    <3>3. QED
      BY <3>1, <3>2, <2>2, <2>3, <2>6 DEF Listed
  <2>8. QED
    BY <1>1, <2>7 DEF LInv
<1>5. ASSUME NEW c \in Co, DeleteCo(c)
      PROVE  LInv'
  BY <1>1, <1>2, <1>5, DeleteKeepsList DEF LInv
<1>6. CASE ~(\E c \in Co : CreateCo(c) \/ DeleteCo(c))
  BY <1>3, <1>6 DEF Next, vars, FirstCowait, Cowait, MainReturns, GiveToParent, ContinueDelete,
     ContinueCall, DeleteCoFault, CallCo, CallCoFault, ResumeCo, ResumeCoFault
<1>7. QED
  BY <1>4, <1>5, <1>6

LEMMA InitLInv == Init => LInv
<1> SUFFICES ASSUME Init PROVE LInv
  OBVIOUS
<1>1. TypeOK
  BY DEF Init, TypeOK, Modes, Faults, Frames, NoPend
<1>2. Listed(1, [i \in 0 .. 0 |-> Root])
  BY DEF Init, Listed
<1>3. QED
  BY <1>1, <1>2 DEF LInv

(***************************************************************************)
(* The list from colist ends, has no coroutine twice, and holds exactly    *)
(* the stacks that are allocated, however createco and deleteco follow     *)
(* each other.                                                             *)
(***************************************************************************)
THEOREM ListAlwaysLive == Spec => []ListIsLive
BY InitLInv, StepLInv, LInvIsListLive, PTL DEF Spec
-----------------------------------------------------------------------------
(***************************************************************************)
(* The call stack that the parent words stand for.  A chain is read from   *)
(* its end, where the running coroutine is.                                *)
(***************************************************************************)
ChainSeq(n, p) == [i \in 1 .. n+1 |-> p[n+1-i]]

(* What the recursion of ParentNth says of a function. *)
FollowsParents(f) ==
  f = [n \in Nat |-> IF n = 0 THEN currco
                     ELSE IF f[n-1] \in Co THEN parent[f[n-1]] ELSE Null]

LEMMA ParentsAreChain ==
  ASSUME TypeOK, NEW n, NEW p, WholeChain(n, p)
  PROVE  \A k \in Nat : ParentNth[k] = IF k <= n THEN p[n-k]
                                       ELSE IF k = n+1 THEN Bottom ELSE Null
<1> DEFINE f == [k \in Nat |-> IF k <= n THEN p[n-k] ELSE IF k = n+1 THEN Bottom ELSE Null]
<1> DEFINE g == ParentNth
<1>1. n \in Nat /\ p \in [0 .. n -> Co]
  BY DEF WholeChain
<1>2. FollowsParents(f)
  <2>1. SUFFICES ASSUME NEW k \in Nat
                 PROVE  f[k] = IF k = 0 THEN currco
                               ELSE IF f[k-1] \in Co THEN parent[f[k-1]] ELSE Null
    BY DEF FollowsParents
  <2>2. CASE k = 0
    BY <1>1, <2>2 DEF WholeChain, IsChain
  <2>3. CASE k \in 1 .. n
    <3>1. f[k-1] = p[n-k+1] /\ f[k] = p[n-k] /\ n-k+1 \in 1 .. n /\ f[k-1] \in Co
      BY <1>1, <2>3
    <3>2. parent[p[n-k+1]] = p[n-k]
      BY <1>1, <3>1 DEF WholeChain, IsChain
    <3>3. QED
      BY <3>1, <3>2, <2>3
  <2>4. CASE k = n+1
    <3>1. f[k-1] = p[0] /\ f[k] = Bottom /\ f[k-1] \in Co
      BY <1>1, <2>4
    <3>2. QED
      BY <3>1, <2>4, <1>1 DEF WholeChain, IsChain
  <2>5. CASE k > n+1
    BY <1>1, <2>5
  <2>6. QED
    BY <1>1, <2>2, <2>3, <2>4, <2>5
<1>3. FollowsParents(ParentNth)
  BY <1>2, Zenon DEF ParentNth, FollowsParents
<1>4. \A k \in Nat : g[k] = IF k = 0 THEN currco
                            ELSE IF g[k-1] \in Co THEN parent[g[k-1]] ELSE Null
  BY <1>3 DEF FollowsParents
<1>5. \A k \in Nat : f[k] = IF k = 0 THEN currco
                            ELSE IF f[k-1] \in Co THEN parent[f[k-1]] ELSE Null
  BY <1>2 DEF FollowsParents
<1>6. g[0] = f[0] /\ \A k \in Nat \ {0} : g[k-1] = f[k-1] => g[k] = f[k]
  <2> HIDE DEF f, g
  <2> QED
    BY <1>4, <1>5
<1>7. \A k \in Nat : g[k] = f[k]
  <2> HIDE DEF f, g
  <2> QED
    BY <1>6, AgreeByRecursion
<1> QED
  BY <1>7

LEMMA ActiveIsChain ==
  ASSUME TypeOK, NEW n, NEW p, WholeChain(n, p)
  PROVE  ActiveSeq = ChainSeq(n, p)
<1>1. n \in Nat /\ p \in [0 .. n -> Co]
  BY DEF WholeChain
<1>2. n \in 0 .. Cardinality(Co) - 1
  BY <1>1, ChainBound DEF WholeChain, IsChain
<1>3. \A k \in Nat : ParentNth[k] = IF k <= n THEN p[n-k]
                                    ELSE IF k = n+1 THEN Bottom ELSE Null
  BY ParentsAreChain
<1>4. \A k \in Nat : ParentNth[k] \in Co <=> k <= n
  BY <1>1, <1>3
<1>5. \A k \in 0 .. n : parent[p[n-k]] = Bottom <=> k = n
  <2>1. parent[p[0]] = Bottom /\ \A i \in 1 .. n : parent[p[i]] = p[i-1]
    BY DEF WholeChain, IsChain
  <2>2. \A i \in 1 .. n : p[i-1] \in Co
    BY <1>1
  <2>3. \A i \in 0 .. n : parent[p[i]] = Bottom <=> i = 0
    BY <1>1, <2>1, <2>2
  <2>4. \A k \in 0 .. n : n-k \in 0 .. n /\ (n-k = 0 <=> k = n)
    BY <1>1
  <2>5. QED
    BY <2>3, <2>4
<1>6. \A k \in Nat : ParentNth[k] \in Co /\ parent[ParentNth[k]] = Bottom <=> k = n
  BY <1>1, <1>3, <1>4, <1>5
<1>7. Cardinality(Co) \in Nat
  BY FS_CardinalityType
<1>8. Depth = n
  BY <1>2, <1>6, <1>7 DEF Depth
<1>9. \A i \in 1 .. n+1 : ParentNth[i-1] = p[n+1-i]
  BY <1>1, <1>3
<1>10. QED
  BY <1>8, <1>9 DEF ActiveSeq, ChainSeq

(* The changes to a chain, as changes to the stack of calls.               *)
LEMMA ChainSeqIsSeq ==
  ASSUME NEW n \in Nat, NEW p \in [0 .. n -> Co]
  PROVE  /\ ChainSeq(n, p) \in Seq(Co) /\ Len(ChainSeq(n, p)) = n+1
         /\ Head(ChainSeq(n, p)) = p[n]
         /\ Range(ChainSeq(n, p)) = {p[i] : i \in 0 .. n}
<1>1. \A i \in 1 .. n+1 : p[n+1-i] \in Co
  OBVIOUS
<1>2. ChainSeq(n, p) \in Seq(Co) /\ Len(ChainSeq(n, p)) = n+1
  BY <1>1 DEF ChainSeq
<1>3. Head(ChainSeq(n, p)) = p[n]
  BY <1>2 DEF ChainSeq
<1>4. Range(ChainSeq(n, p)) = {p[n+1-i] : i \in 1 .. n+1}
  BY DEF ChainSeq, Range
<1>5. {p[n+1-i] : i \in 1 .. n+1} = {p[i] : i \in 0 .. n}
  <2>1. ASSUME NEW i \in 0 .. n
        PROVE  \E j \in 1 .. n+1 : p[i] = p[n+1-j]
    <3>1. n+1-i \in 1 .. n+1 /\ p[i] = p[n+1-(n+1-i)]
      OBVIOUS
    <3>2. QED
      BY <3>1
  <2>2. \A j \in 1 .. n+1 : n+1-j \in 0 .. n
    OBVIOUS
  <2>3. QED
    BY <2>1, <2>2
<1>6. QED
  BY <1>2, <1>3, <1>4, <1>5

LEMMA PushSeq ==
  ASSUME NEW n \in Nat, NEW p \in [0 .. n -> Co], NEW c \in Co
  PROVE  ChainSeq(n+1, Pushed(n, p, c)) = <<c>> \o ChainSeq(n, p)
<1> DEFINE s == ChainSeq(n+1, Pushed(n, p, c))
           t == <<c>> \o ChainSeq(n, p)
<1>1. Pushed(n, p, c) \in [0 .. n+1 -> Co]
  BY DEF Pushed
<1>2. s \in Seq(Co) /\ Len(s) = n+2
  BY <1>1, ChainSeqIsSeq
<1>3. ChainSeq(n, p) \in Seq(Co) /\ Len(ChainSeq(n, p)) = n+1
  BY ChainSeqIsSeq
<1>4. t \in Seq(Co) /\ Len(t) = n+2
  BY <1>3
<1>5. \A i \in 1 .. n+2 : t[i] = IF i = 1 THEN c ELSE ChainSeq(n, p)[i-1]
  BY <1>3
<1>6. ASSUME NEW i \in 1 .. n+2 PROVE s[i] = t[i]
  BY <1>5 DEF ChainSeq, Pushed
<1>7. s = t
  <2> HIDE DEF s, t
  <2> QED
    BY <1>2, <1>4, <1>6, SeqEqual
<1> QED
  BY <1>7

LEMMA PopSeq ==
  ASSUME NEW n \in Nat, n > 0, NEW p \in [0 .. n -> Co]
  PROVE  ChainSeq(n-1, Popped(n, p)) = Tail(ChainSeq(n, p))
<1> DEFINE s == ChainSeq(n-1, Popped(n, p))
           t == Tail(ChainSeq(n, p))
<1>1. Popped(n, p) \in [0 .. n-1 -> Co] /\ n-1 \in Nat
  BY DEF Popped
<1>2. s \in Seq(Co) /\ Len(s) = n
  BY <1>1, ChainSeqIsSeq
<1>3. ChainSeq(n, p) \in Seq(Co) /\ Len(ChainSeq(n, p)) = n+1
  BY ChainSeqIsSeq
<1>4. t \in Seq(Co) /\ Len(t) = n /\ \A i \in 1 .. n : t[i] = ChainSeq(n, p)[i+1]
  BY <1>3, HeadTailProperties
<1>5. ASSUME NEW i \in 1 .. n PROVE s[i] = t[i]
  BY <1>4 DEF ChainSeq, Popped
<1>6. s = t
  <2> HIDE DEF s, t
  <2> QED
    BY <1>2, <1>4, <1>5, SeqEqual
<1> QED
  BY <1>6

LEMMA ReplaceSeq ==
  ASSUME NEW n \in Nat, NEW p \in [0 .. n -> Co], NEW c \in Co
  PROVE  ChainSeq(n, [p EXCEPT ![n] = c]) = <<c>> \o Tail(ChainSeq(n, p))
<1> DEFINE q == [p EXCEPT ![n] = c]
           s == ChainSeq(n, q)
           t == <<c>> \o Tail(ChainSeq(n, p))
<1>1. q \in [0 .. n -> Co]
  OBVIOUS
<1>2. s \in Seq(Co) /\ Len(s) = n+1
  BY <1>1, ChainSeqIsSeq
<1>3. ChainSeq(n, p) \in Seq(Co) /\ Len(ChainSeq(n, p)) = n+1
  BY ChainSeqIsSeq
<1>4. /\ Tail(ChainSeq(n, p)) \in Seq(Co) /\ Len(Tail(ChainSeq(n, p))) = n
      /\ \A i \in 1 .. n : Tail(ChainSeq(n, p))[i] = ChainSeq(n, p)[i+1]
  BY <1>3, HeadTailProperties
<1>5. t \in Seq(Co) /\ Len(t) = n+1
  BY <1>4
<1>6. \A i \in 1 .. n+1 : t[i] = IF i = 1 THEN c ELSE Tail(ChainSeq(n, p))[i-1]
  BY <1>4
<1>7. \A i \in 2 .. n+1 : t[i] = ChainSeq(n, p)[i]
  BY <1>4, <1>6
<1>8. ASSUME NEW i \in 1 .. n+1 PROVE s[i] = t[i]
  <2>1. CASE i = 1
    BY <1>6, <2>1 DEF ChainSeq
  <2>2. CASE i # 1
    <3>1. s[i] = q[n+1-i] /\ q[n+1-i] = p[n+1-i] /\ ChainSeq(n, p)[i] = p[n+1-i]
      BY <2>2 DEF ChainSeq
    <3>2. t[i] = ChainSeq(n, p)[i]
      <4> HIDE DEF t
      <4> QED
        BY <2>2, <1>7
    <3>3. QED
      <4> HIDE DEF s, t, q
      <4> QED
        BY <3>1, <3>2
  <2>3. QED
    BY <2>1, <2>2
<1>9. s = t
  <2> HIDE DEF s, t
  <2> QED
    BY <1>2, <1>5, <1>8, SeqEqual
<1> QED
  BY <1>9
-----------------------------------------------------------------------------
(***************************************************************************)
(* The coroutine library implements CallChain, step by step.               *)
(***************************************************************************)
LEMMA ActiveNow == \A n, p : TypeOK /\ WholeChain(n, p) => ActiveSeq = ChainSeq(n, p)
  BY ActiveIsChain

LEMMA ActiveNext == (\A n, p : TypeOK /\ WholeChain(n, p) => ActiveSeq = ChainSeq(n, p))'
  BY ActiveNow, PTL

Idle == {c \in live : parent[c] = Null}

(* The stack of calls is the chain, with the running coroutine in front.   *)
LEMMA StackOfCalls ==
  ASSUME TypeOK, NEW n, NEW p, WholeChain(n, p)
  PROVE  /\ ActiveSeq = ChainSeq(n, p) /\ ActiveSeq # <<>>
         /\ Len(ActiveSeq) = n+1 /\ Head(ActiveSeq) = currco
         /\ Range(ActiveSeq) = {c \in Co : parent[c] # Null}
         /\ \A c \in Co : c \in Range(ActiveSeq) \cup Idle => c \in live
<1>1. n \in Nat /\ p \in [0 .. n -> Co] /\ p[n] = currco
  BY DEF WholeChain, IsChain
<1>2. ActiveSeq = ChainSeq(n, p)
  BY ActiveIsChain
<1>3. /\ ActiveSeq \in Seq(Co) /\ Len(ActiveSeq) = n+1 /\ Head(ActiveSeq) = currco
      /\ Range(ActiveSeq) = {p[i] : i \in 0 .. n}
  BY <1>1, <1>2, ChainSeqIsSeq
<1>4. Range(ActiveSeq) = {c \in Co : parent[c] # Null}
  BY <1>3 DEF WholeChain
<1>5. \A c \in Co : c \in Range(ActiveSeq) \cup Idle => c \in live
  BY <1>3 DEF WholeChain, Idle
<1>6. ActiveSeq # <<>>
  BY <1>1, <1>3
<1>7. QED
  BY <1>2, <1>3, <1>4, <1>5, <1>6

(* A step that ends the promise, and one that it does not see.             *)
LEMMA BreakImplements ==
  ASSUME ~Sound'
  PROVE  Abs!Break
BY DEF Abs!Break, Sound

LEMMA SameImplements ==
  ASSUME TypeOK, TypeOK', Sound, Sound', UNCHANGED <<parent, currco, live>>,
         NEW n, NEW p, WholeChain(n, p)
  PROVE  UNCHANGED Abs!cvars
<1>1. WholeChain(n, p)'
  BY DEF WholeChain, IsChain
<1>2. ActiveSeq' = ActiveSeq
  BY <1>1, ActiveNow, ActiveNext
<1>3. QED
  BY <1>2 DEF Abs!cvars

LEMMA GiveImplements ==
  ASSUME TypeOK, TypeOK', Sound, NEW f, GiveToParent(f), NEW n, NEW p, WholeChain(n, p)
  PROVE  Abs!Yield \/ Abs!Break
<1>1. CASE parent[currco] \notin Co
  BY <1>1, BreakImplements DEF GiveToParent, Sound
<1>2. CASE parent[currco] \in Co
  <2>1. n \in Nat /\ n > 0 /\ p \in [0 .. n -> Co] /\ WholeChain(n-1, Popped(n, p))'
    BY <1>2, GivePopsChain DEF WholeChain
  <2>2. Sound' /\ live' = live
    BY <1>2 DEF GiveToParent, Sound
  <2>3. ActiveSeq' = ChainSeq(n-1, Popped(n, p))
    BY <2>1, ActiveNext
  <2>4. ActiveSeq' = Tail(ActiveSeq)
    BY <2>1, <2>3, StackOfCalls, PopSeq
  <2>5. currco \in live /\ \A c \in Co : parent'[c] = IF c = currco THEN Null ELSE parent[c]
    BY DEF WholeChain, IsChain, GiveToParent, TypeOK
  <2>6. Idle' = Idle \cup {currco}
    BY <2>2, <2>5 DEF Idle, TypeOK
  <2>7. Len(ActiveSeq) > 1 /\ Head(ActiveSeq) = currco
    BY <2>1, StackOfCalls
  <2>8. Abs!Yield
    BY <2>2, <2>4, <2>6, <2>7 DEF Abs!Yield, Idle
  <2>9. QED
    BY <2>8
<1>3. QED
  BY <1>1, <1>2

(* createco and callco put a coroutine on the stack.                       *)
LEMMA CallImplements ==
  ASSUME TypeOK, TypeOK', Sound, Sound', NEW c \in Co, CreateCo(c) \/ CallCo(c),
         NEW n, NEW p, WholeChain(n, p)
  PROVE  Abs!Start(c) \/ Abs!Call(c)
<1>1. parent[c] = Null /\ currco \in Co
  BY DEF CreateCo, CallCo, WholeChain, IsChain
<1>2. /\ parent' = [parent EXCEPT ![c] = currco] /\ currco' = c
      /\ c \in live' /\ live' = live \cup {c}
  BY DEF CreateCo, CallCo, ChangeCo
<1>3. n \in Nat /\ p \in [0 .. n -> Co] /\ WholeChain(n+1, Pushed(n, p, c))'
  <2>1. live \subseteq live'
    BY <1>2
  <2>2. WholeChain(n+1, Pushed(n, p, c))'
    BY <1>1, <1>2, <2>1, CallPushesChain
  <2>3. QED
    BY <2>2 DEF WholeChain
<1>4. ActiveSeq' = <<c>> \o ActiveSeq
  BY <1>3, ActiveNow, ActiveNext, PushSeq
<1>5. \A d \in Co : parent'[d] = IF d = c THEN currco ELSE parent[d]
  BY <1>2 DEF TypeOK
<1>6. Idle' = Idle \ {c} /\ (c \in Idle <=> c \in live)
  BY <1>1, <1>2, <1>5 DEF Idle, TypeOK
<1>7. c \notin Range(ActiveSeq) /\ ActiveSeq # <<>>
  BY <1>1, StackOfCalls
<1>8. CASE c \in live
  BY <1>4, <1>6, <1>7, <1>8 DEF Abs!Call, Idle
<1>9. CASE c \notin live
  <2>1. Idle' = Idle /\ c \notin Idle
    BY <1>6, <1>9 DEF Idle
  <2>2. c \notin Abs!Running
    BY <1>7 DEF Abs!Running, Abs!Range, Range
  <2>3. QED
    BY <1>4, <1>7, <2>1, <2>2 DEF Abs!Start, Idle
<1>10. QED
  BY <1>8, <1>9

LEMMA ResumeImplements ==
  ASSUME TypeOK, TypeOK', NEW c \in Co, ResumeCo(c), NEW n, NEW p, WholeChain(n, p)
  PROVE  Abs!Resume(c) \/ UNCHANGED Abs!cvars
<1>1. n \in Nat /\ p \in [0 .. n -> Co] /\ p[n] = currco /\ currco \in live
  BY DEF WholeChain, IsChain
<1>2. Sound /\ Sound' /\ live' = live /\ c \in live
  BY DEF ResumeCo, Sound
<1>3. WholeChain(n, [p EXCEPT ![n] = c])'
  BY ResumeReplacesChain
<1>4. ActiveSeq' = ChainSeq(n, [p EXCEPT ![n] = c])
  BY <1>3, ActiveNext
<1>5. ActiveSeq' = <<c>> \o Tail(ActiveSeq)
  BY <1>1, <1>4, ActiveNow, ReplaceSeq, ZenonT(40)
<1>6. parent[currco] # Null
  BY <1>1 DEF WholeChain
<1>7. \A d \in Co : parent'[d] = IF d = c THEN parent[currco]
                                 ELSE IF d = currco THEN Null ELSE parent[d]
  BY DEF ResumeCo, Cleared, TypeOK
<1>8. CASE c = currco
  <2>1. [p EXCEPT ![n] = c] = p
    BY <1>1, <1>8
  <2>2. ActiveSeq' = ActiveSeq
    BY <1>4, <2>1, ActiveNow
  <2>3. Idle' = Idle
    BY <1>2, <1>7, <1>8 DEF Idle, TypeOK
  <2>4. QED
    BY <1>2, <2>2, <2>3 DEF Abs!cvars, Idle
<1>9. CASE c # currco
  <2>1. parent[c] = Null
    BY <1>9 DEF ResumeCo, Cleared, TypeOK
  <2>2. c \in Idle /\ Idle' = (Idle \ {c}) \cup {currco}
    BY <1>1, <1>2, <1>6, <1>7, <1>9, <2>1 DEF Idle, TypeOK
  <2>3. ActiveSeq # <<>> /\ Head(ActiveSeq) = currco
    BY StackOfCalls
  <2>4. Abs!Resume(c)
    BY <1>2, <1>5, <2>2, <2>3 DEF Abs!Resume, Idle
  <2>5. QED
    BY <2>4
<1>10. QED
  BY <1>8, <1>9

LEMMA DeleteImplements ==
  ASSUME LInv, TypeOK', NEW c \in Co, DeleteCo(c), NEW n, NEW p, WholeChain(n, p)
  PROVE  Abs!Delete(c)
<1>1. TypeOK /\ Sound /\ Sound' /\ parent' = parent /\ currco' = currco /\ live' = live \ {c}
  BY DEF LInv, DeleteCo, Sound
<1>2. c \in live
  BY LInvIsListLive DEF ListIsLive, DeleteCo
<1>3. \A i \in 0 .. n : p[i] # c
  BY DEF WholeChain, DeleteCo
<1>4. WholeChain(n, p)'
  BY <1>1, <1>3 DEF WholeChain, IsChain
<1>5. ActiveSeq' = ActiveSeq /\ ActiveSeq # <<>>
  BY <1>1, <1>4, ActiveNow, ActiveNext, StackOfCalls
<1>6. c \in Idle /\ Idle' = Idle \ {c}
  BY <1>1, <1>2 DEF Idle, DeleteCo
<1>7. QED
  BY <1>1, <1>5, <1>6 DEF Abs!Delete, Idle

LEMMA StepImplements ==
  IInv /\ LInv /\ IInv' /\ [Next]_vars => [Abs!Next]_(Abs!cvars)
<1> SUFFICES ASSUME IInv, LInv, IInv', [Next]_vars
             PROVE  Abs!Next \/ UNCHANGED Abs!cvars
  OBVIOUS
<1>1. TypeOK /\ TypeOK'
  BY DEF IInv
<1>2. CASE ~Sound'
  BY <1>2, BreakImplements DEF Abs!Next
<1>3. CASE Sound' /\ ~Sound
  <2>1. UNCHANGED vars
    BY <1>3 DEF Next, Sound, Cowait, FirstCowait, MainReturns, ContinueDelete, ContinueCall,
       CreateCo, DeleteCo, DeleteCoFault, CallCo, CallCoFault, ResumeCo, ResumeCoFault
  <2>2. QED
    BY <1>3, <2>1 DEF vars, Sound
<1>4. CASE Sound' /\ Sound
  <2>1. PICK n, p : WholeChain(n, p)
    BY <1>4, ChainIffWhole DEF IInv
  <2>2. CASE FirstCowait \/ Cowait \/ MainReturns
    BY <1>1, <1>4, <2>1, <2>2, GiveImplements
       DEF FirstCowait, Cowait, MainReturns, Abs!Next
  <2>3. ASSUME NEW c \in Co, CreateCo(c) \/ CallCo(c)
        PROVE  Abs!Next
    BY <1>1, <1>4, <2>1, <2>3, CallImplements DEF Abs!Next
  <2>4. ASSUME NEW c \in Co, ResumeCo(c)
        PROVE  Abs!Next \/ UNCHANGED Abs!cvars
    BY <1>1, <2>1, <2>4, ResumeImplements DEF Abs!Next
  <2>5. ASSUME NEW c \in Co, DeleteCo(c)
        PROVE  Abs!Next
    BY <1>1, <2>1, <2>5, DeleteImplements DEF Abs!Next
  <2>6. CASE UNCHANGED <<parent, currco, live>>
    BY <1>1, <1>4, <2>1, <2>6, SameImplements
  <2>7. (ContinueDelete \/ (\E c \in Co : DeleteCoFault(c) \/ CallCoFault(c)) \/ UNCHANGED vars)
          => UNCHANGED <<parent, currco, live>>
    BY DEF ContinueDelete, DeleteCoFault, CallCoFault, vars
  <2>8. ~ContinueCall /\ \A c \in Co : ~ResumeCoFault(c)
    BY <1>4 DEF ContinueCall, ResumeCoFault, Sound
  <2>9. QED
    BY <2>2, <2>3, <2>4, <2>5, <2>6, <2>7, <2>8 DEF Next
<1>5. QED
  BY <1>2, <1>3, <1>4

(* To the user of blib.b the coroutines are a stack of calls and a set of  *)
(* idle ones, until control is given to something that is not a coroutine. *)
THEOREM ImplementsCalls == Spec => ImplementsCallChain
<1>1. Init => Abs!Init
  <2> SUFFICES ASSUME Init PROVE Abs!Init
    OBVIOUS
  <2>1. TypeOK /\ Sound
    BY DEF Init, TypeOK, Modes, Faults, Frames, NoPend, Sound
  <2>2. WholeChain(0, [i \in 0 .. 0 |-> Root])
    BY DEF Init, WholeChain, IsChain
  <2>3. ActiveSeq = ChainSeq(0, [i \in 0 .. 0 |-> Root])
    BY <2>1, <2>2, ActiveNow
  <2>4. ChainSeq(0, [i \in 0 .. 0 |-> Root]) = <<Root>>
    BY DEF ChainSeq
  <2>5. {c \in live : parent[c] = Null} = {}
    BY DEF Init
  <2>6. QED
    BY <2>1, <2>3, <2>4, <2>5 DEF Abs!Init
<1>2. Init => IInv /\ LInv
  BY InitIInv, InitLInv
<1>3. QED
  BY <1>1, <1>2, StepIInv, StepLInv, StepImplements, PTL
     DEF Spec, ImplementsCallChain, Abs!Spec
=============================================================================
