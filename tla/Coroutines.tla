----------------------------- MODULE Coroutines -----------------------------
(***************************************************************************)
(* The coroutine library of cintcode/sysb/blib.b: createco, deleteco,      *)
(* callco, resumeco and cowait, over the CHGCO instruction of cinterp.c    *)
(* that they all end in.                                                   *)
(*                                                                         *)
(* A coroutine is its stack, a vector taken with getvec, and is known by   *)
(* the address of that vector.  The first words of the stack are the only  *)
(* book-keeping there is:                                                  *)
(*    co_pptr   (0)  the frame to go on from when control comes back,      *)
(*    co_parent (1)  0, or the coroutine that a cowait gives control to,   *)
(*    co_list   (2)  the next coroutine of the list that starts in colist. *)
(* Freed memory is not cleared, so the words keep their values until the   *)
(* vector is used again.                                                   *)
(*                                                                         *)
(* One coroutine runs at a time and keeps control until it calls the       *)
(* library, so a step is one call of the library by the running coroutine. *)
(* The user code in between is any sequence of such calls.                 *)
(***************************************************************************)
EXTENDS Naturals, FiniteSets

CONSTANTS
  Co,      \* the addresses getvec can return for a coroutine stack
  Root,    \* the stack set up by startroot in boot.b, which runs the CLI
  Null,    \* the null pointer, 0
  Bottom   \* the parent of the root coroutine, -1

ASSUME CoAssumption ==
  /\ IsFiniteSet(Co)
  /\ Root \in Co
  /\ Null \notin Co
  /\ Bottom \notin Co
  /\ Null # Bottom

VARIABLES
  live,    \* the stacks that getvec has given out and freevec not taken back
  colist,  \* the global colist
  link,    \* co_list of every stack
  parent,  \* co_parent of every stack
  pptr,    \* co_pptr of every stack: the library call whose frame it points to
  currco,  \* the global currco, the running coroutine
  mode,    \* what the running coroutine is doing
  pend     \* the arguments of the library call that has aborted

vars == <<live, colist, link, parent, pptr, currco, mode, pend>>

(***************************************************************************)
(* The saved frames.  "base" is the bare stack createco builds; the others *)
(* are the frames of the library function that gave control away; "idle"   *)
(* is the cowait in createco's own loop, below which no user code runs.    *)
(***************************************************************************)
Frames == {"base", "createco", "callco", "resumeco", "cowait", "idle"}

(***************************************************************************)
(* "user": user code runs.  "born": on a new stack, about to do the first  *)
(* cowait of the loop in createco.  110, 111 and 112 are the abort codes:  *)
(* the debugger has control.  "forced": the user of the debugger continued *)
(* after 110 or 111.  "wild": control went to a parent that is not a stack.*)
(***************************************************************************)
Faults == {"110", "111", "112"}
Modes  == {"user", "born", "forced", "wild"} \cup Faults

NoPend == [cptr |-> Null, parent |-> Null]

-----------------------------------------------------------------------------
(* The coroutines of the list from colist: Nth[n] is the (n+1)th of them.  *)
ListNth ==
  LET Nth[n \in Nat] == IF n = 0 THEN colist
                        ELSE IF Nth[n-1] = Null THEN Null ELSE link[Nth[n-1]]
  IN  Nth

(* The search of deleteco, which stops at the first null link. *)
InList(c) == \E n \in 0 .. Cardinality(Co) - 1 : ListNth[n] = c

(* CHGCO: save the frame of the library call f, and run coroutine t. *)
ChangeCo(f, t) ==
  /\ currco' = t
  /\ pptr' = [pptr EXCEPT ![currco] = f]

-----------------------------------------------------------------------------
(* startroot, before the CLI is entered. *)
Init ==
  /\ live = {Root}
  /\ colist = Root
  /\ link = [c \in Co |-> Null]
  /\ parent = [c \in Co |-> IF c = Root THEN Bottom ELSE Null]
  /\ pptr = [c \in Co |-> "base"]
  /\ currco = Root
  /\ mode = "user"
  /\ pend = NoPend

(* Faulty: user code starts at once on the new stack. *)
CreateCoNoWait(c) ==
  /\ mode = "user"
  /\ c \in Co \ live
  /\ live' = live \cup {c}
  /\ parent' = [parent EXCEPT ![c] = currco]
  /\ link' = [link EXCEPT ![c] = colist]
  /\ colist' = c
  /\ currco' = c
  /\ pptr' = [pptr EXCEPT ![currco] = "createco", ![c] = "base"]
  /\ UNCHANGED <<mode, pend>>

(***************************************************************************)
(* createco up to its changeco.  It saves the creator in the frame of      *)
(* createco and goes on in the same code, on the new stack.  (When getvec  *)
(* fails createco returns 0 and changes nothing.)                          *)
(***************************************************************************)
CreateCo(c) ==
  /\ mode = "user"
  /\ c \in Co \ live
  /\ live' = live \cup {c}
  /\ parent' = [parent EXCEPT ![c] = currco]
  /\ link' = [link EXCEPT ![c] = colist]
  /\ colist' = c
  /\ currco' = c
  /\ pptr' = [pptr EXCEPT ![currco] = "createco", ![c] = "base"]
  /\ mode' = "born"
  /\ UNCHANGED pend

(* Faulty: the parent of the waiting coroutine is not cleared. *)
GiveToParentKept(f) ==
  /\ ChangeCo(f, parent[currco])
  /\ mode' = IF parent[currco] \in Co THEN "user" ELSE "wild"
  /\ UNCHANGED <<live, colist, link, parent, pend>>

(* Faulty: the parent is taken for a coroutine whatever it is. *)
GiveToAnyParent(f) ==
  /\ parent' = [parent EXCEPT ![currco] = Null]
  /\ ChangeCo(f, parent[currco])
  /\ mode' = "user"
  /\ UNCHANGED <<live, colist, link, pend>>

(***************************************************************************)
(* cowait in frame f.  The parent of the running coroutine is cleared      *)
(* whatever it is; nothing checks that it is a coroutine.                  *)
(***************************************************************************)
GiveToParent(f) ==
  /\ parent' = [parent EXCEPT ![currco] = Null]
  /\ ChangeCo(f, parent[currco])
  /\ mode' = IF parent[currco] \in Co THEN "user" ELSE "wild"
  /\ UNCHANGED <<live, colist, link, pend>>

(* The first cowait(c) of the loop in createco: createco returns. *)
FirstCowait == mode = "born" /\ GiveToParent("idle")

(* cowait called by user code. *)
Cowait == mode = "user" /\ GiveToParent("cowait")

(* The main function of a coroutine returns to the loop in createco. *)
MainReturns == mode = "user" /\ currco # Root /\ GiveToParent("idle")

(* callco of an idle coroutine. *)
CallCo(c) ==
  /\ mode = "user"
  /\ c \in live
  /\ parent[c] = Null
  /\ parent' = [parent EXCEPT ![c] = currco]
  /\ ChangeCo("callco", c)
  /\ UNCHANGED <<live, colist, link, mode, pend>>

(* callco of a coroutine that has a parent: nothing is changed yet. *)
CallCoFault(c) ==
  /\ mode = "user"
  /\ c \in live
  /\ parent[c] # Null
  /\ mode' = "110"
  /\ pend' = [cptr |-> c, parent |-> currco]
  /\ UNCHANGED <<live, colist, link, parent, pptr, currco>>

(* resumeco clears the parent of the running coroutine before it looks at  *)
(* the parent of its target, so a coroutine may resume itself.             *)
Cleared == [parent EXCEPT ![currco] = Null]

(* Faulty: the resuming coroutine keeps its parent. *)
ResumeCoKeeping(c) ==
  /\ mode = "user"
  /\ c \in live
  /\ Cleared[c] = Null
  /\ parent' = [parent EXCEPT ![c] = parent[currco]]
  /\ ChangeCo("resumeco", c)
  /\ UNCHANGED <<live, colist, link, mode, pend>>

ResumeCo(c) ==
  /\ mode = "user"
  /\ c \in live
  /\ Cleared[c] = Null
  /\ parent' = [Cleared EXCEPT ![c] = parent[currco]]
  /\ ChangeCo("resumeco", c)
  /\ UNCHANGED <<live, colist, link, mode, pend>>

(* resumeco of a coroutine that has a parent: the running coroutine has    *)
(* lost its own, which only the local variable parent still holds.         *)
ResumeCoFault(c) ==
  /\ mode = "user"
  /\ c \in live
  /\ Cleared[c] # Null
  /\ parent' = Cleared
  /\ mode' = "111"
  /\ pend' = [cptr |-> c, parent |-> parent[currco]]
  /\ UNCHANGED <<live, colist, link, pptr, currco>>

(* Faulty: the head of the list is taken for the word that points to c. *)
DeleteCoAtHead(c) ==
  /\ mode = "user"
  /\ InList(c)
  /\ parent[c] = Null
  /\ colist' = link[c]
  /\ live' = live \ {c}
  /\ UNCHANGED <<link, parent, pptr, currco, mode, pend>>

(* deleteco of a coroutine that it finds and that has no parent.  The word *)
(* that points to c is colist or the link of another coroutine.            *)
DeleteCo(c) ==
  /\ mode = "user"
  /\ InList(c)
  /\ parent[c] = Null
  /\ IF colist = c
       THEN colist' = link[c] /\ UNCHANGED link
       ELSE /\ link' = [d \in Co |-> IF InList(d) /\ link[d] = c
                                       THEN link[c] ELSE link[d]]
            /\ UNCHANGED colist
  /\ live' = live \ {c}
  /\ UNCHANGED <<parent, pptr, currco, mode, pend>>

DeleteCoFault(c) ==
  /\ mode = "user"
  /\ c \in Co
  /\ ~InList(c) \/ parent[c] # Null
  /\ mode' = "112"
  /\ UNCHANGED <<live, colist, link, parent, pptr, currco, pend>>

(***************************************************************************)
(* The C command of the debugger makes abort return.  deleteco then        *)
(* returns FALSE; callco and resumeco go on as if there had been no fault. *)
(***************************************************************************)
ContinueDelete ==
  /\ mode = "112"
  /\ mode' = "user"
  /\ UNCHANGED <<live, colist, link, parent, pptr, currco, pend>>

ContinueCall ==
  /\ mode \in {"110", "111"}
  /\ parent' = [parent EXCEPT ![pend.cptr] = pend.parent]
  /\ ChangeCo(IF mode = "110" THEN "callco" ELSE "resumeco", pend.cptr)
  /\ mode' = "forced"
  /\ UNCHANGED <<live, colist, link, pend>>

Next ==
  \/ FirstCowait \/ Cowait \/ MainReturns
  \/ ContinueDelete \/ ContinueCall
  \/ \E c \in Co : \/ CreateCo(c) \/ DeleteCo(c) \/ DeleteCoFault(c)
                   \/ CallCo(c) \/ CallCoFault(c)
                   \/ ResumeCo(c) \/ ResumeCoFault(c)

Spec == Init /\ [][Next]_vars

-----------------------------------------------------------------------------
(* Every variable has a value of its kind; the running coroutine is a live *)
(* stack until control has gone wild.                                      *)
TypeOK ==
  /\ live \subseteq Co
  /\ colist \in Co \cup {Null}
  /\ link \in [Co -> Co \cup {Null}]
  /\ parent \in [Co -> Co \cup {Null, Bottom}]
  /\ pptr \in [Co -> Frames]
  /\ currco \in Co \cup {Null, Bottom}
  /\ mode \in Modes
  /\ pend \in [cptr : Co \cup {Null}, parent : Co \cup {Null, Bottom}]
  /\ mode # "wild" => currco \in Co
  /\ mode \in {"110", "111"} => pend.cptr \in Co

(* The modes in which the chain of calls is whole. *)
Sound == mode \in {"user", "born", "110", "112"}

(* p[0] is the bottom of the chain of calls, p[n] the running coroutine.   *)
IsChain(n, p) ==
  /\ p[n] = currco
  /\ parent[p[0]] = Bottom
  /\ \A i \in 1 .. n : parent[p[i]] = p[i-1]
  /\ \A i, j \in 0 .. n : p[i] = p[j] => i = j

(***************************************************************************)
(* The parent links of blib.b are a call stack: from the running coroutine *)
(* they lead through live coroutines, without a repetition, to the one     *)
(* marked -1, and the coroutines with a parent are exactly those on the    *)
(* way.  It holds at an abort of callco or deleteco too, so the debugger   *)
(* can be left; an abort of resumeco has lost a link.                      *)
(***************************************************************************)
ActiveChain ==
  Sound => \E n \in 0 .. Cardinality(Co) - 1 : \E p \in [0 .. n -> Co] :
             /\ IsChain(n, p)
             /\ {c \in Co : parent[c] # Null} = {p[i] : i \in 0 .. n}
             /\ \A i \in 0 .. n : p[i] \in live

(***************************************************************************)
(* Control comes back into the call that gave it away: while user code     *)
(* runs, each coroutine with a parent but the running one is inside        *)
(* callco, save that the creator of a coroutine not yet at its first       *)
(* cowait is inside createco; and each one without a parent is in a cowait *)
(* or a resumeco, never on the bare stack of createco (returning from that *)
(* would use the list and parent words as a return link).                  *)
(***************************************************************************)
FrameDiscipline ==
  Sound => \A c \in live \ {currco} :
             pptr[c] \in IF parent[c] = Null THEN {"idle", "cowait", "resumeco"}
                         ELSE IF mode = "born" /\ c = parent[currco]
                              THEN {"createco"} ELSE {"callco"}

(* deleteco and createco keep the list exact: it ends, no coroutine is in  *)
(* it twice, and it holds the stacks that are allocated and no freed one.  *)
ListIsLive ==
  /\ live = {c \in Co : InList(c)}
  /\ ListNth[Cardinality(live)] = Null

-----------------------------------------------------------------------------
(* The call stack seen through the parent words, the running one first:    *)
(* ParentNth[n] has been reached through n of them.                        *)
ParentNth ==
  LET Nth[n \in Nat] == IF n = 0 THEN currco
                        ELSE IF Nth[n-1] \in Co THEN parent[Nth[n-1]] ELSE Null
  IN  Nth

Depth == CHOOSE n \in 0 .. Cardinality(Co) - 1 :
           ParentNth[n] \in Co /\ parent[ParentNth[n]] = Bottom

ActiveSeq == [i \in 1 .. Depth + 1 |-> ParentNth[i-1]]

Abs == INSTANCE CallChain WITH
         active <- IF Sound THEN ActiveSeq ELSE <<>>,
         idle   <- IF Sound THEN {c \in live : parent[c] = Null} ELSE {}

(* The words in memory implement the promise of CallChain.                 *)
ImplementsCallChain == Abs!Spec
=============================================================================
