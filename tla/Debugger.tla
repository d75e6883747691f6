------------------------------ MODULE Debugger ------------------------------
(***************************************************************************)
(* The standalone debugger (sadebug of boot.b) and the interpreter it      *)
(* drives.  A breakpoint is the byte BRK put in place of an instruction    *)
(* while the program runs; the instructions are put back while the         *)
(* debugger has control.  To go on from a breakpoint, or by a single step, *)
(* the program runs with a count of one instruction and no BRKs.           *)
(*                                                                         *)
(* Boot's loop calls the interpreter, which returns with a reason, and     *)
(* then sadebug, which returns when the user has typed a command that goes *)
(* on.  A step is an instruction, the beginning of sadebug, or a command.  *)
(***************************************************************************)
EXTENDS Integers, FiniteSets

CONSTANTS
  Addr,        \* addresses of the program's instructions: 0 .. n
  Program,     \* the programs to begin with: functions from Addr to Instr
  Reloadable,  \* addresses over which a program may load others (a bound)
  Slot,        \* the numbers of the breakpoints
  Limit        \* counts a program sets; -1 is for ever

VARIABLES
  prog,        \* the instructions the program has there
  code,        \* the bytes that are there
  pc, count,   \* of regs
  word,        \* the watched word has changed since it was looked at
  watchaddr,   \* the program's word, or another that it does not write
  mode,        \* who has control: the program, boot (with res), the user
  res,         \* what the interpreter has returned, until it is called again
  bpt_addr, bpt_instr, brkstep, snglstep, oldcount,
  interrupted, \* a step with a count of one was stopped by something else
  limited,     \* the program has set its count
  reloaded     \* instructions that were overwritten under a breakpoint

vars == <<prog, code, pc, count, word, watchaddr, mode, res, bpt_addr, bpt_instr,
          brkstep, snglstep, oldcount, interrupted, limited, reloaded>>
regsvars == <<prog, word, watchaddr, pc, limited, reloaded>>
bptvars == <<bpt_addr, bpt_instr>>

(* Instructions by what they do: go on; go to the first; write the watched *)
(* word; fault at themselves; call sys to abort, or to set the count.      *)
Instr == {"op", "loop", "store", "fault", "abort", "setcount"}
BRK == "brk"
None == -1

DebuggerAssumption ==
  /\ IsFiniteSet(Addr) /\ 0 \in Addr /\ Addr \subseteq Nat
  /\ Program \subseteq [Addr -> Instr]
  /\ \A f \in Program, a \in Addr : a + 1 \notin Addr => f[a] = "loop"
  /\ Reloadable \subseteq Addr
  /\ Limit \subseteq Nat \cup {-1}
ASSUME DebuggerAssumption

(***************************************************************************)
(* The interpreter.                                                        *)
(***************************************************************************)
Traps(r, at, left) ==
  /\ mode' = "trap" /\ res' = r /\ pc' = at /\ count' = left
  /\ interrupted' = (interrupted \/ (r # 3 /\ (brkstep \/ snglstep)))

Changed == watchaddr = "word" /\ word

(* Tested in this order before each instruction.                           *)
WatchTrap ==
  /\ mode = "run" /\ Changed
  /\ word' = FALSE
  /\ Traps(11, pc, count)
  /\ UNCHANGED <<prog, code, watchaddr, brkstep, snglstep, oldcount, limited, reloaded>>
  /\ UNCHANGED bptvars

CountTrap ==
  /\ mode = "run" /\ ~Changed /\ count = 0
  /\ Traps(3, pc, 0)
  /\ UNCHANGED <<prog, code, word, watchaddr, brkstep, snglstep, oldcount, limited, reloaded>>
  /\ UNCHANGED bptvars

Counted == IF count > 0 THEN count - 1 ELSE count
Fetches(i) == mode = "run" /\ ~Changed /\ count # 0 /\ code[pc] = i

Goes(to) == pc' = to /\ count' = Counted /\ UNCHANGED <<mode, res, interrupted>>

Execute ==
  /\ \/ Fetches("op") /\ Goes(pc + 1) /\ UNCHANGED <<word, limited>>
     \/ Fetches("loop") /\ Goes(0) /\ UNCHANGED <<word, limited>>
     \/ Fetches("store") /\ Goes(pc + 1) /\ word' = (watchaddr = "word") /\ UNCHANGED limited
     \/ Fetches("abort") /\ Traps(99, pc + 1, Counted) /\ UNCHANGED <<word, limited>>
     \/ /\ Fetches("setcount")        \* res is -1: boot enters at once again
        /\ pc' = pc + 1 /\ count' \in Limit /\ limited' = TRUE
        /\ interrupted' = (interrupted \/ brkstep \/ snglstep)
        /\ UNCHANGED <<word, mode, res>>
  /\ UNCHANGED <<prog, code, watchaddr, brkstep, snglstep, oldcount, reloaded>>
  /\ UNCHANGED bptvars

(* Faulty: the address of the next instruction is left.                    *)
FaultTrapBehind ==
  /\ Fetches("fault")
  /\ \/ pc + 1 \in Addr /\ Traps(5, pc + 1, Counted)
     \/ pc + 1 \notin Addr /\ Traps(5, pc, Counted)
  /\ UNCHANGED <<prog, code, word, watchaddr, brkstep, snglstep, oldcount, limited, reloaded>>
  /\ UNCHANGED bptvars

(* A division by zero, among others.                                       *)
FaultTrap ==
  /\ Fetches("fault")
  /\ Traps(5, pc, Counted)
  /\ UNCHANGED <<prog, code, word, watchaddr, brkstep, snglstep, oldcount, limited, reloaded>>
  /\ UNCHANGED bptvars

(* Faulty: the byte after the BRK is the next instruction.                 *)
BreakTrapBehind ==
  /\ Fetches(BRK)
  /\ Traps(2, (pc + 1) % Cardinality(Addr), Counted)
  /\ UNCHANGED <<prog, code, word, watchaddr, brkstep, snglstep, oldcount, limited, reloaded>>
  /\ UNCHANGED bptvars

BreakTrap ==
  /\ Fetches(BRK)
  /\ Traps(2, pc, Counted)
  /\ UNCHANGED <<prog, code, word, watchaddr, brkstep, snglstep, oldcount, limited, reloaded>>
  /\ UNCHANGED bptvars

(* The running program loads other code over an instruction.               *)
Reload(a) ==
  /\ mode = "run" /\ a # pc
  /\ \E f \in Program :
       /\ prog' = [prog EXCEPT ![a] = f[a]] /\ code' = [code EXCEPT ![a] = f[a]]
       /\ f[a] # prog[a]
  /\ reloaded' = IF \E n \in Slot : bpt_addr[n] = a THEN reloaded \cup {a} ELSE reloaded
  /\ UNCHANGED <<pc, count, word, watchaddr, mode, res, brkstep, snglstep, oldcount,
                 interrupted, limited>>
  /\ UNCHANGED bptvars

(***************************************************************************)
(* sadebug, as far as the user's first command.                            *)
(***************************************************************************)
Breakpoints == {bpt_addr[n] : n \in Slot} \ {None}
At(a) == CHOOSE n \in Slot : bpt_addr[n] = a

WithBrks == [a \in Addr |-> IF a \in Breakpoints THEN BRK ELSE code[a]]
(* Faulty: only the instruction at the breakpoint reached.                 *)
WithoutThisBrk == [a \in Addr |-> IF a \in Breakpoints /\ code[a] = BRK /\ a = pc
                                    THEN bpt_instr[At(a)] ELSE code[a]]

WithoutBrks == [a \in Addr |-> IF a \in Breakpoints /\ code[a] = BRK
                                 THEN bpt_instr[At(a)] ELSE code[a]]

(* Faulty: without regard to a count that is for ever.                     *)
StepCountAlways == oldcount' = oldcount - 1 /\ count' = oldcount'

StepCount ==
  /\ oldcount' = IF oldcount > 0 THEN oldcount - 1 ELSE oldcount
  /\ count' = oldcount'

(* Faulty: the program continues without the BRKs.                         *)
SteppedOverOnly ==
  /\ mode = "trap" /\ res = 3 /\ brkstep
  /\ brkstep' = FALSE /\ StepCount
  /\ mode' = "run" /\ res' = 0
  /\ UNCHANGED <<code, snglstep, interrupted>>
  /\ UNCHANGED regsvars /\ UNCHANGED bptvars

(* Faulty: the count of one is set again.                                  *)
SteppedOverAgain ==
  /\ mode = "trap" /\ res = 3 /\ brkstep
  /\ count' = 1 /\ mode' = "run" /\ res' = 0
  /\ UNCHANGED <<code, brkstep, snglstep, oldcount, interrupted>>
  /\ UNCHANGED regsvars /\ UNCHANGED bptvars

(* The instruction at a breakpoint has been executed: the BRKs are put     *)
(* back and the program continues.                                         *)
SteppedOver ==
  /\ mode = "trap" /\ res = 3 /\ brkstep
  /\ brkstep' = FALSE /\ StepCount
  /\ code' = WithBrks /\ mode' = "run" /\ res' = 0
  /\ UNCHANGED <<snglstep, interrupted>>
  /\ UNCHANGED regsvars /\ UNCHANGED bptvars

SingleStepped ==
  /\ mode = "trap" /\ res = 3 /\ ~brkstep /\ snglstep
  /\ snglstep' = FALSE /\ StepCount
  /\ mode' = "user"
  /\ UNCHANGED <<code, res, brkstep, interrupted>>
  /\ UNCHANGED regsvars /\ UNCHANGED bptvars

Stopped ==
  /\ mode = "trap" /\ (res = 3 => ~brkstep /\ ~snglstep)
  /\ code' = WithoutBrks /\ mode' = "user"
  /\ UNCHANGED <<count, res, brkstep, snglstep, oldcount, interrupted>>
  /\ UNCHANGED regsvars /\ UNCHANGED bptvars

Sadebug == SteppedOver \/ SingleStepped \/ Stopped

(***************************************************************************)
(* The user's commands.  A bound: after a step that something else stopped *)
(* the user only continues.                                                *)
(***************************************************************************)
User == mode = "user" /\ ~interrupted

Moved(n, a) == [m \in Slot |-> IF m = n THEN a
                               ELSE IF bpt_addr[m] = a THEN None ELSE bpt_addr[m]]

(* B: a breakpoint is in one place only, with the byte that is there now.  *)
SetBreakpoint(n, a) ==
  /\ User
  /\ bpt_addr' = Moved(n, a) /\ bpt_instr' = [bpt_instr EXCEPT ![n] = code[a]]
  /\ UNCHANGED <<code, count, mode, res, brkstep, snglstep, oldcount, interrupted>>
  /\ UNCHANGED regsvars

ClearBreakpoint(n) ==
  /\ User /\ bpt_addr[n] # None
  /\ bpt_addr' = [bpt_addr EXCEPT ![n] = None]
  /\ UNCHANGED <<bpt_instr, code, count, mode, res, brkstep, snglstep, oldcount, interrupted>>
  /\ UNCHANGED regsvars

(* C: at a breakpoint one instruction without BRKs, else all of them.      *)
ContinueAtBreakpoint ==
  /\ mode = "user" /\ pc \in Breakpoints
  /\ oldcount' = count /\ count' = 1 /\ brkstep' = TRUE
  /\ mode' = "run" /\ res' = 0
  /\ UNCHANGED <<code, snglstep, interrupted>>
  /\ UNCHANGED regsvars /\ UNCHANGED bptvars

Continue ==
  /\ mode = "user" /\ pc \notin Breakpoints
  /\ code' = WithBrks /\ mode' = "run" /\ res' = 0
  /\ UNCHANGED <<count, brkstep, snglstep, oldcount, interrupted>>
  /\ UNCHANGED regsvars /\ UNCHANGED bptvars

(* Faulty: the count is not kept.                                          *)
SingleStepForgets ==
  /\ User
  /\ count' = 1 /\ snglstep' = TRUE
  /\ mode' = "run" /\ res' = 0
  /\ UNCHANGED <<code, brkstep, oldcount, interrupted>>
  /\ UNCHANGED regsvars /\ UNCHANGED bptvars

(* \: the next instruction with a count of one and no BRKs.                *)
SingleStep ==
  /\ User
  /\ oldcount' = count /\ count' = 1 /\ snglstep' = TRUE
  /\ mode' = "run" /\ res' = 0
  /\ UNCHANGED <<code, brkstep, interrupted>>
  /\ UNCHANGED regsvars /\ UNCHANGED bptvars

(* M, with an address or with 0, which only makes word 0 the watched one.  *)
Watch(w) ==
  /\ User
  /\ watchaddr' = w /\ word' = FALSE
  /\ UNCHANGED <<prog, code, pc, count, mode, res, brkstep, snglstep, oldcount,
                 interrupted, limited, reloaded>>
  /\ UNCHANGED bptvars

Commands ==
  \/ \E n \in Slot : ClearBreakpoint(n) \/ \E a \in Addr : SetBreakpoint(n, a)
  \/ ContinueAtBreakpoint \/ Continue \/ SingleStep
  \/ \E w \in {"word", "other"} : Watch(w)

Interpret == WatchTrap \/ CountTrap \/ Execute \/ FaultTrap \/ BreakTrap

Init ==
  /\ prog \in Program /\ code = prog /\ pc = 0 /\ count = -1
  /\ word = FALSE /\ watchaddr = "other"
  /\ mode = "run" /\ res = 0
  /\ bpt_addr = [n \in Slot |-> None] /\ bpt_instr = [n \in Slot |-> "op"]
  /\ brkstep = FALSE /\ snglstep = FALSE /\ oldcount = 0
  /\ interrupted = FALSE /\ limited = FALSE /\ reloaded = {}

Next == Interpret \/ Sadebug \/ Commands \/ \E a \in Reloadable : Reload(a)

(* The interpreter and sadebug go on by themselves; users need not type.   *)
Spec == Init /\ [][Next]_vars /\ WF_vars(Interpret \/ Sadebug)
-----------------------------------------------------------------------------
TypeOK ==
  /\ prog \in [Addr -> Instr] /\ code \in [Addr -> Instr \cup {BRK}]
  /\ pc \in Addr /\ count \in Int /\ count >= -1 /\ oldcount \in Int /\ oldcount >= -1
  /\ word \in BOOLEAN /\ watchaddr \in {"word", "other"}
  /\ mode \in {"run", "trap", "user"} /\ res \in {0, 2, 3, 5, 11, 99}
  /\ bpt_addr \in [Slot -> Addr \cup {None}] /\ bpt_instr \in [Slot -> Instr \cup {BRK}]
  /\ brkstep \in BOOLEAN /\ snglstep \in BOOLEAN
  /\ interrupted \in BOOLEAN /\ limited \in BOOLEAN /\ reloaded \subseteq Addr

(* While the user types, the program's code is what the program made it,   *)
(* so that what is shown, and what a new breakpoint keeps, is that.  Not   *)
(* so after a single step was stopped by a fault, for the next zero count  *)
(* is then taken for the step's and the BRKs stay; nor where code has been *)
(* loaded over a breakpoint, for the old instruction is put back into it.  *)
CodeIntact ==
  mode = "user" /\ ~interrupted => \A a \in Addr \ reloaded : code[a] = prog[a]

(* While a program runs with no step asked for, there is a BRK in every    *)
(* breakpoint and in no other place.                                       *)
BrksInPlace ==
  mode = "run" /\ ~interrupted /\ ~brkstep /\ ~snglstep =>
    \A a \in Addr \ reloaded : code[a] = IF a \in Breakpoints THEN BRK ELSE prog[a]

(* A program that has set no count runs with none, after any number of     *)
(* breakpoints and steps: it is never stopped for a count of zero.         *)
CountKept ==
  mode = "user" /\ ~interrupted /\ ~limited => count = -1

(* What the debugger has borrowed of the program it has given back, and it *)
(* has put its breakpoints in place.                                       *)
ProgramIntact == CodeIntact /\ BrksInPlace /\ CountKept

(* Where the program goes is decided by its own instructions: breakpoints, *)
(* steps and watches leave no trace in it.  And no breakpoint is run       *)
(* through: the instruction at one is executed only after the user has     *)
(* been there and has gone on from it.                                     *)
Follows(a, b) ==
  CASE prog[a] = "loop" -> b = 0
    [] prog[a] = "fault" -> b = a
    [] OTHER -> b = a + 1
Transparent ==
  [][pc' # pc /\ ~interrupted /\ pc \notin reloaded =>
       /\ Follows(pc, pc')
       /\ pc \in Breakpoints => brkstep \/ snglstep]_vars

(* A step the program takes on the debugger's behalf comes to its end.     *)
StepsEnd ==
  (brkstep \/ snglstep) /\ mode = "run" ~>
     (~brkstep /\ ~snglstep) \/ mode = "user" \/ interrupted

(* "Remove all BRK instructions" (boot.b:463): the user sees none.         *)
BrksRemoved ==
  mode = "user" => \A a \in Breakpoints \ reloaded : code[a] # BRK
=============================================================================
