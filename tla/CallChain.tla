------------------------------ MODULE CallChain ------------------------------
(***************************************************************************)
(* What the coroutine library of blib.b promises to its users, with no     *)
(* word about stacks in memory: the coroutines that have been started and  *)
(* have not given control away form a stack of calls, of which the top one *)
(* runs; every other coroutine is idle.  Cintcode/sysb/blib.b, createco    *)
(* to cowait, is to behave like this.                                      *)
(***************************************************************************)
EXTENDS Sequences, Functions

CONSTANTS Co, Root

VARIABLES
  active,  \* the running coroutine, its caller, and so on up to the root
  idle     \* the coroutines waiting to be called or resumed

cvars == <<active, idle>>

Running == Range(active)

Init == active = <<Root>> /\ idle = {}

(* A new coroutine runs before its creator goes on. *)
Start(c) ==
  /\ active # <<>>
  /\ c \in Co \ (Running \cup idle)
  /\ active' = <<c>> \o active
  /\ UNCHANGED idle

(* The running coroutine waits: the one that called it goes on. *)
Yield ==
  /\ Len(active) > 1
  /\ active' = Tail(active)
  /\ idle' = idle \cup {Head(active)}

Call(c) ==
  /\ active # <<>>
  /\ c \in idle
  /\ active' = <<c>> \o active
  /\ idle' = idle \ {c}

(* The running coroutine is replaced by c, with the same caller. *)
Resume(c) ==
  /\ active # <<>>
  /\ c \in idle
  /\ active' = <<c>> \o Tail(active)
  /\ idle' = (idle \ {c}) \cup {Head(active)}

(* Only an idle coroutine can be deleted. *)
Delete(c) ==
  /\ active # <<>>
  /\ c \in idle
  /\ idle' = idle \ {c}
  /\ UNCHANGED active

(* The end of the promise: control was given away by the root, or an       *)
(* attempt to resume an active coroutine was reported.                     *)
Break ==
  /\ active' = <<>>
  /\ idle' = {}

Next ==
  \/ Yield \/ Break
  \/ \E c \in Co : Start(c) \/ Call(c) \/ Resume(c) \/ Delete(c)

Spec == Init /\ [][Next]_cvars
=============================================================================
