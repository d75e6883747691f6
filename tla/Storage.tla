------------------------------- MODULE Storage -------------------------------
(***************************************************************************)
(* What the storage allocator promises: a vector is given out where no     *)
(* other one is, and a request is refused only when no place in the memory *)
(* has room for it.  Nothing is said of how the memory is organised.       *)
(***************************************************************************)
EXTENDS Integers

CONSTANTS
  Memupb,    \* the number of words that can be given out
  Requests   \* the upper bounds asked for

VARIABLES
  held,  \* the vectors given out and not freed
  want,  \* the upper bound being asked for, or -1
  res    \* the result of the last call

svars == <<held, want, res>>

(* What a vector takes: its words, a size word and nine safety words, the  *)
(* first of which may be its last word when the number of words is odd.    *)
Footprint(upb) == IF upb % 2 = 0 THEN upb + 10 ELSE upb + 11

(* There is room for a vector of upper bound upb at a. *)
Fits(upb, a) ==
  /\ a + Footprint(upb) <= Memupb
  /\ \A v \in held : \/ a + Footprint(upb) <= v.base - 1
                     \/ v.base - 1 + Footprint(v.upb) <= a

Init == held = {} /\ want = -1 /\ res = 0

Ask(r) ==
  /\ want = -1
  /\ want' = r
  /\ UNCHANGED <<held, res>>

Give(a) ==
  /\ want # -1
  /\ Fits(want, a)
  /\ held' = held \cup {[base |-> a + 1, upb |-> want]}
  /\ res' = a + 1
  /\ want' = -1

Refuse ==
  /\ want # -1
  /\ \A a \in 0 .. Memupb - 1 : ~Fits(want, a)
  /\ res' = 0
  /\ want' = -1
  /\ UNCHANGED held

Release(v) ==
  /\ want = -1
  /\ held' = held \ {v}
  /\ res' \in {0, -1}
  /\ UNCHANGED want

ReleaseAgain ==
  /\ want = -1
  /\ res' = 0
  /\ UNCHANGED <<held, want>>

Next ==
  \/ \E r \in Requests : Ask(r)
  \/ \E a \in 0 .. Memupb - 1 : Give(a)
  \/ Refuse
  \/ \E v \in held : Release(v)
  \/ ReleaseAgain

Spec == Init /\ [][Next]_svars
=============================================================================
