--------------------------- MODULE DebuggerProofs ---------------------------
(***************************************************************************)
(* Proofs about the debugger of Debugger, for every program, any number of *)
(* breakpoints and all counts: it gives back what it has borrowed of the   *)
(* program, and the program goes where it would have gone without it.      *)
(***************************************************************************)
EXTENDS Debugger, TLAPS

(* Behind the last instruction there is none: it is a jump, or covered.    *)
LastJumps ==
  /\ \A a \in Addr : a + 1 \notin Addr => prog[a] = "loop" /\ code[a] \in {"loop", BRK}
  /\ \A n \in Slot : bpt_addr[n] \in Addr /\ bpt_addr[n] + 1 \notin Addr =>
                       bpt_instr[n] \in {"loop", BRK}

Stepping == brkstep \/ snglstep

(* Each breakpoint keeps the instruction that is to be put back.           *)
InstrKept ==
  \A n \in Slot : bpt_addr[n] \in Addr \ reloaded => bpt_instr[n] = prog[bpt_addr[n]]

(* The BRKs are in the code exactly when the program has control, or has   *)
(* just lost it, and no step has been asked for.                           *)
CodeKnown ==
  \A a \in Addr \ reloaded :
    code[a] = IF mode # "user" /\ ~Stepping /\ a \in Breakpoints THEN BRK ELSE prog[a]

(* A step ends with a count of zero and with nothing else, before the user *)
(* has control.                                                            *)
StepKnown ==
  /\ mode = "user" => ~Stepping
  /\ mode = "trap" /\ Stepping => res = 3
  /\ ~(brkstep /\ snglstep)

(* The count of a program that has set none is for ever, and is kept so    *)
(* while a step uses another.                                              *)
CountKnown ==
  ~limited => IF Stepping THEN oldcount = -1 /\ count \in {0, 1} ELSE count = -1

(* The inductive invariant.                                                *)
IInv ==
  /\ TypeOK
  /\ LastJumps
  /\ ~interrupted => InstrKept /\ CodeKnown /\ StepKnown /\ CountKnown

-----------------------------------------------------------------------------
LEMMA Initially == Init => IInv
  <1> SUFFICES ASSUME Init PROVE IInv
    OBVIOUS
  <1>1. TypeOK
    <2>1. prog \in [Addr -> Instr] /\ code \in [Addr -> Instr \cup {BRK}] /\ pc \in Addr
      BY DebuggerAssumption DEF DebuggerAssumption, Init
    <2>2. bpt_instr \in [Slot -> Instr \cup {BRK}] /\ bpt_addr \in [Slot -> Addr \cup {None}]
      BY DEF Init, Instr
    <2>3. /\ word \in BOOLEAN /\ brkstep \in BOOLEAN /\ snglstep \in BOOLEAN
          /\ interrupted \in BOOLEAN /\ limited \in BOOLEAN
      BY Zenon DEF Init
    <2>4. /\ count \in Int /\ count >= -1 /\ oldcount \in Int /\ oldcount >= -1
          /\ watchaddr \in {"word", "other"} /\ mode \in {"run", "trap", "user"}
          /\ res \in {0, 2, 3, 5, 11, 99} /\ reloaded \subseteq Addr
      BY DEF Init
    <2> QED
      BY <2>1, <2>2, <2>3, <2>4 DEF TypeOK
  <1>2. LastJumps
    BY DebuggerAssumption DEF DebuggerAssumption, Init, LastJumps, None
  <1>3. Breakpoints = {}
    BY DEF Init, Breakpoints
  <1>4. InstrKept /\ CodeKnown /\ StepKnown /\ CountKnown
    BY <1>3, DebuggerAssumption
       DEF DebuggerAssumption, Init, InstrKept, CodeKnown, StepKnown, CountKnown, Stepping, None
  <1> QED
    BY <1>1, <1>2, <1>4 DEF IInv

(* The addresses are numbers, and the mark of no breakpoint is none.       *)
LEMMA Addresses ==
  ASSUME TypeOK
  PROVE  /\ Breakpoints \subseteq Addr
         /\ \A n \in Slot : bpt_addr[n] # None => bpt_addr[n] \in Breakpoints
         /\ \A a \in Breakpoints : At(a) \in Slot /\ bpt_addr[At(a)] = a
         /\ None \notin Addr /\ 0 \in Addr
  BY DebuggerAssumption DEF TypeOK, Breakpoints, At, None, DebuggerAssumption

(* An instruction that goes on to the next one has a next one.             *)
LEMMA NextAddress ==
  ASSUME IInv, code[pc] \notin {"loop", BRK}
  PROVE  pc + 1 \in Addr
  BY DEF IInv, TypeOK, LastJumps

-----------------------------------------------------------------------------
(* The interpreter changes neither the code nor what the debugger keeps.   *)
Known == InstrKept /\ CodeKnown /\ StepKnown /\ CountKnown

LEMMA InterpretLeaves ==
  ASSUME IInv, UNCHANGED <<prog, code, brkstep, snglstep, oldcount, reloaded>>,
         UNCHANGED bptvars
  PROVE  /\ LastJumps'
         /\ ~interrupted => InstrKept'
         /\ ~interrupted /\ mode # "user" /\ mode' # "user" => CodeKnown'
  BY DEF IInv, bptvars, LastJumps, InstrKept, CodeKnown, Breakpoints, Stepping

LEMMA WatchTrapStep == ASSUME IInv, WatchTrap PROVE IInv'
  <1>1. TypeOK'
    BY DEF IInv, TypeOK, WatchTrap, Traps, bptvars
  <1>2. ~interrupted' => Known'
    BY InterpretLeaves
       DEF IInv, TypeOK, WatchTrap, Traps, bptvars, Known, StepKnown, CountKnown, Stepping
  <1> QED
    BY <1>1, <1>2, InterpretLeaves DEF IInv, Known, WatchTrap

LEMMA CountTrapStep == ASSUME IInv, CountTrap PROVE IInv'
  <1>1. TypeOK'
    BY DEF IInv, TypeOK, CountTrap, Traps, bptvars
  <1>2. ~interrupted' => Known'
    BY InterpretLeaves
       DEF IInv, TypeOK, CountTrap, Traps, bptvars, Known, StepKnown, CountKnown, Stepping
  <1> QED
    BY <1>1, <1>2, InterpretLeaves DEF IInv, Known, CountTrap

(* A step with a trap other than the count's is interrupted.               *)
LEMMA TrapStep ==
  ASSUME IInv, NEW i, Fetches(i), NEW r \in {2, 5, 99}, NEW at \in Addr,
         Traps(r, at, Counted),
         UNCHANGED <<prog, code, word, watchaddr, brkstep, snglstep, oldcount, limited, reloaded>>,
         UNCHANGED bptvars
  PROVE  IInv'
  <1>1. Counted \in Int /\ Counted >= -1 /\ (count = -1 => Counted = -1)
    BY DEF IInv, TypeOK, Counted
  <1>2. TypeOK'
    BY <1>1 DEF IInv, TypeOK, Traps, bptvars
  <1>3. ~interrupted' => Known'
    BY <1>1, InterpretLeaves
       DEF IInv, TypeOK, Fetches, Traps, Known, StepKnown, CountKnown, Stepping
  <1> QED
    BY <1>2, <1>3, InterpretLeaves DEF IInv, Known

LEMMA GoesStep ==
  ASSUME IInv, NEW i, Fetches(i), NEW to \in Addr, Goes(to), word' \in BOOLEAN,
         UNCHANGED <<limited, prog, code, watchaddr, brkstep, snglstep, oldcount, reloaded>>,
         UNCHANGED bptvars
  PROVE  IInv'
  <1>1. /\ Counted \in Int /\ Counted >= -1 /\ (count = -1 => Counted = -1)
        /\ count = 1 => Counted = 0
        /\ count # 0
    BY DEF IInv, TypeOK, Counted, Fetches
  <1>2. TypeOK'
    BY <1>1 DEF IInv, TypeOK, Goes, bptvars
  <1>3. ~interrupted' => Known'
    BY <1>1, InterpretLeaves
       DEF IInv, TypeOK, Fetches, Goes, Known, StepKnown, CountKnown, Stepping
  <1> QED
    BY <1>2, <1>3, InterpretLeaves DEF IInv, Known

LEMMA SetCountStep ==
  ASSUME IInv, Fetches("setcount"), pc' = pc + 1, count' \in Limit, limited' = TRUE,
         interrupted' = (interrupted \/ brkstep \/ snglstep),
         UNCHANGED <<word, mode, res>>,
         UNCHANGED <<prog, code, watchaddr, brkstep, snglstep, oldcount, reloaded>>,
         UNCHANGED bptvars
  PROVE  IInv'
  <1>1. pc + 1 \in Addr
    BY NextAddress DEF Fetches, BRK
  <1>2. count' \in Int /\ count' >= -1
    BY DebuggerAssumption DEF DebuggerAssumption
  <1>3. TypeOK'
    BY <1>1, <1>2 DEF IInv, TypeOK, bptvars
  <1>4. ~interrupted' => Known'
    BY InterpretLeaves DEF IInv, TypeOK, Fetches, Known, StepKnown, CountKnown, Stepping
  <1> QED
    BY <1>3, <1>4, InterpretLeaves DEF IInv, Known

LEMMA InterpretStep == ASSUME IInv, Interpret PROVE IInv'
  <1>1. CASE WatchTrap
    BY <1>1, WatchTrapStep
  <1>2. CASE CountTrap
    BY <1>2, CountTrapStep
  <1>3. CASE Execute
    <2> USE <1>3 DEF Execute
    <2>1. CASE Fetches("op") /\ Goes(pc + 1) /\ UNCHANGED <<word, limited>>
      BY <2>1, NextAddress, GoesStep DEF Fetches, BRK, IInv, TypeOK
    <2>2. CASE Fetches("loop") /\ Goes(0) /\ UNCHANGED <<word, limited>>
      BY <2>2, GoesStep, Addresses DEF IInv, TypeOK
    <2>3. CASE /\ Fetches("store") /\ Goes(pc + 1)
               /\ word' = (watchaddr = "word") /\ UNCHANGED limited
      BY <2>3, NextAddress, GoesStep DEF Fetches, BRK
    <2>4. CASE Fetches("abort") /\ Traps(99, pc + 1, Counted) /\ UNCHANGED <<word, limited>>
      BY <2>4, NextAddress, TrapStep DEF Fetches, BRK
    <2>5. CASE /\ Fetches("setcount")
               /\ pc' = pc + 1 /\ count' \in Limit /\ limited' = TRUE
               /\ interrupted' = (interrupted \/ brkstep \/ snglstep)
               /\ UNCHANGED <<word, mode, res>>
      BY <2>5, SetCountStep
    <2> QED
      BY <2>1, <2>2, <2>3, <2>4, <2>5
  <1>4. CASE FaultTrap
    BY <1>4, TrapStep DEF FaultTrap, IInv, TypeOK
  <1>5. CASE BreakTrap
    BY <1>5, TrapStep DEF BreakTrap, IInv, TypeOK
  <1> QED
    BY <1>1, <1>2, <1>3, <1>4, <1>5 DEF Interpret

-----------------------------------------------------------------------------
(* Other code is loaded: where a breakpoint was, nothing more is said.     *)
LEMMA ReloadStep == ASSUME IInv, NEW a \in Reloadable, Reload(a) PROVE IInv'
  <1>0. a \in Addr
    BY DebuggerAssumption DEF DebuggerAssumption
  <1>1. PICK f \in Program : /\ prog' = [prog EXCEPT ![a] = f[a]]
                             /\ code' = [code EXCEPT ![a] = f[a]]
    BY DEF Reload
  <1>2. f \in [Addr -> Instr] /\ \A b \in Addr : b + 1 \notin Addr => f[b] = "loop"
    BY DebuggerAssumption DEF DebuggerAssumption
  <1>3. /\ UNCHANGED <<mode, brkstep, snglstep, oldcount, count, interrupted, limited>>
        /\ UNCHANGED bptvars /\ UNCHANGED <<pc, res, word, watchaddr>>
        /\ reloaded' = IF \E n \in Slot : bpt_addr[n] = a THEN reloaded \cup {a} ELSE reloaded
    BY DEF Reload
  <1>4. TypeOK'
    <2>1. prog' \in [Addr -> Instr] /\ code' \in [Addr -> Instr \cup {BRK}]
      BY <1>0, <1>1, <1>2, ZenonT(40) DEF IInv, TypeOK
    <2>2. reloaded' \subseteq Addr
      BY <1>0, <1>3 DEF IInv, TypeOK
    <2> QED
      BY <1>3, <2>1, <2>2 DEF IInv, TypeOK, bptvars
  <1>5. LastJumps'
    BY <1>0, <1>1, <1>2, <1>3 DEF IInv, TypeOK, LastJumps, bptvars
  <1>6. ASSUME ~interrupted PROVE InstrKept' /\ CodeKnown'
    <2>1. Breakpoints' = Breakpoints /\ Stepping' = Stepping
      BY <1>3 DEF Breakpoints, Stepping, bptvars
    <2>2. CASE a \in Breakpoints
      <3>1. reloaded' = reloaded \cup {a}
        BY <1>3, <2>2 DEF Breakpoints
      <3>2. \A b \in Addr \ reloaded' : prog'[b] = prog[b] /\ code'[b] = code[b]
        BY <1>0, <1>1, <3>1 DEF IInv, TypeOK
      <3> QED
        BY <1>3, <1>6, <2>1, <3>1, <3>2 DEF IInv, InstrKept, CodeKnown, bptvars
    <2>3. CASE a \notin Breakpoints
      <3>1. \A n \in Slot : bpt_addr[n] # a
        BY <2>3, <1>0, Addresses DEF IInv
      <3>2. reloaded' = reloaded
        BY <1>3, <3>1
      <3>3. \A b \in Addr : b # a => prog'[b] = prog[b] /\ code'[b] = code[b]
        BY <1>0, <1>1 DEF IInv, TypeOK
      <3>4. prog'[a] = code'[a]
        BY <1>0, <1>1 DEF IInv, TypeOK
      <3>5. InstrKept'
        BY <1>3, <1>6, <3>1, <3>2, <3>3 DEF IInv, InstrKept, bptvars
      <3>6. CodeKnown'
        BY <1>3, <1>6, <2>1, <2>3, <3>2, <3>3, <3>4 DEF IInv, CodeKnown
      <3> QED
        BY <3>5, <3>6
    <2> QED
      BY <2>2, <2>3
  <1>7. ~interrupted => StepKnown' /\ CountKnown'
    BY <1>3 DEF IInv, StepKnown, CountKnown, Stepping
  <1> QED
    BY <1>3, <1>4, <1>5, <1>6, <1>7 DEF IInv

-----------------------------------------------------------------------------
(* What sadebug takes out is what the program had there.                   *)
LEMMA WithBrksKnown ==
  ASSUME TypeOK, LastJumps
  PROVE  /\ WithBrks \in [Addr -> Instr \cup {BRK}]
         /\ \A a \in Addr : a + 1 \notin Addr => WithBrks[a] \in {"loop", BRK}
         /\ \A a \in Addr : WithBrks[a] = IF a \in Breakpoints THEN BRK ELSE code[a]
  BY DEF TypeOK, LastJumps, WithBrks

LEMMA WithoutBrksKnown ==
  ASSUME TypeOK, LastJumps
  PROVE  /\ WithoutBrks \in [Addr -> Instr \cup {BRK}]
         /\ \A a \in Addr : a + 1 \notin Addr => WithoutBrks[a] \in {"loop", BRK}
         /\ \A a \in Addr : WithoutBrks[a] = IF a \in Breakpoints /\ code[a] = BRK
                                               THEN bpt_instr[At(a)] ELSE code[a]
  BY Addresses DEF TypeOK, LastJumps, WithoutBrks

LEMMA StepCounts ==
  ASSUME TypeOK, StepCount
  PROVE  /\ count' \in Int /\ count' >= -1 /\ (oldcount = -1 => count' = -1)
         /\ oldcount' \in Int /\ oldcount' >= -1
  BY DEF TypeOK, StepCount

LEMMA SteppedOverStep == ASSUME IInv, SteppedOver PROVE IInv'
  <1> USE DEF SteppedOver, regsvars, bptvars
  <1>1. TypeOK'
    BY WithBrksKnown, StepCounts DEF IInv, TypeOK
  <1>2. LastJumps'
    BY WithBrksKnown DEF IInv, LastJumps
  <1>3. ASSUME ~interrupted PROVE Known'
    <2>1. brkstep /\ ~snglstep /\ ~Stepping' /\ mode' = "run"
      BY <1>3 DEF IInv, StepKnown, Stepping, TypeOK
    <2>2. InstrKept' /\ Breakpoints' = Breakpoints
      BY <1>3 DEF IInv, InstrKept, Breakpoints
    <2>3. CodeKnown'
      BY <1>3, <2>1, <2>2, WithBrksKnown DEF IInv, CodeKnown, Stepping
    <2>4. StepKnown' /\ CountKnown'
      BY <1>3, <2>1, StepCounts DEF IInv, StepKnown, CountKnown, Stepping
    <2> QED
      BY <2>2, <2>3, <2>4 DEF Known
  <1> QED
    BY <1>1, <1>2, <1>3 DEF IInv, Known

LEMMA SingleSteppedStep == ASSUME IInv, SingleStepped PROVE IInv'
  <1> USE DEF SingleStepped, regsvars, bptvars
  <1>1. TypeOK'
    BY StepCounts DEF IInv, TypeOK
  <1>2. LastJumps'
    BY DEF IInv, LastJumps
  <1>3. ASSUME ~interrupted PROVE Known'
    <2>1. snglstep /\ ~brkstep /\ Stepping /\ ~Stepping' /\ mode' = "user"
      BY DEF Stepping
    <2>2. InstrKept'
      BY <1>3 DEF IInv, InstrKept
    <2>3. CodeKnown'
      BY <1>3, <2>1 DEF IInv, CodeKnown
    <2>4. StepKnown' /\ CountKnown'
      BY <1>3, <2>1, StepCounts DEF IInv, StepKnown, CountKnown, Stepping
    <2> QED
      BY <2>2, <2>3, <2>4 DEF Known
  <1> QED
    BY <1>1, <1>2, <1>3 DEF IInv, Known

LEMMA StoppedStep == ASSUME IInv, Stopped PROVE IInv'
  <1> USE DEF Stopped, regsvars, bptvars
  <1>1. TypeOK'
    BY WithoutBrksKnown DEF IInv, TypeOK
  <1>2. LastJumps'
    BY WithoutBrksKnown DEF IInv, LastJumps
  <1>3. ASSUME ~interrupted PROVE Known'
    <2>1. ~Stepping /\ ~Stepping' /\ mode' = "user"
      BY <1>3 DEF IInv, StepKnown, Stepping, TypeOK
    <2>2. InstrKept'
      BY <1>3 DEF IInv, InstrKept
    <2>3. ASSUME NEW a \in Addr \ reloaded PROVE WithoutBrks[a] = prog[a]
      <3>1. CASE a \in Breakpoints
        BY <1>3, <2>1, <2>3, <3>1, WithoutBrksKnown, Addresses DEF IInv, CodeKnown, InstrKept
      <3>2. CASE a \notin Breakpoints
        BY <1>3, <2>1, <2>3, <3>2, WithoutBrksKnown DEF IInv, CodeKnown
      <3> QED
        BY <3>1, <3>2
    <2>4. CodeKnown'
      BY <2>1, <2>3 DEF CodeKnown
    <2>5. StepKnown' /\ CountKnown'
      BY <1>3, <2>1 DEF IInv, StepKnown, CountKnown, Stepping
    <2> QED
      BY <2>2, <2>4, <2>5 DEF Known
  <1> QED
    BY <1>1, <1>2, <1>3 DEF IInv, Known

-----------------------------------------------------------------------------
(* The user has control: no step is asked for and no BRK is in the code.   *)
LEMMA UserKnows ==
  ASSUME IInv, mode = "user", ~interrupted
  PROVE  ~Stepping /\ \A a \in Addr \ reloaded : code[a] = prog[a]
  BY DEF IInv, StepKnown, CodeKnown

(* The breakpoints change: what they keep is what the program has there.   *)
LEMMA BreakpointsChange ==
  ASSUME IInv, User,
         UNCHANGED <<code, count, mode, res, brkstep, snglstep, oldcount, interrupted>>,
         UNCHANGED regsvars,
         bpt_addr' \in [Slot -> Addr \cup {None}],
         bpt_instr' \in [Slot -> Instr \cup {BRK}],
         \A n \in Slot : bpt_addr'[n] \in Addr =>
           \/ bpt_addr'[n] = bpt_addr[n] /\ bpt_instr'[n] = bpt_instr[n]
           \/ bpt_instr'[n] = code[bpt_addr'[n]]
  PROVE  IInv'
  <1>1. TypeOK'
    BY DEF IInv, TypeOK, regsvars
  <1>2. LastJumps'
    BY DEF IInv, LastJumps, regsvars
  <1>3. InstrKept'
    BY UserKnows DEF User, IInv, InstrKept, regsvars
  <1>4. CodeKnown' /\ StepKnown' /\ CountKnown'
    BY UserKnows DEF User, IInv, CodeKnown, StepKnown, CountKnown, Stepping, regsvars
  <1> QED
    BY <1>1, <1>2, <1>3, <1>4 DEF IInv

LEMMA SetBreakpointStep ==
  ASSUME IInv, NEW n \in Slot, NEW a \in Addr, SetBreakpoint(n, a)
  PROVE  IInv'
  <1>1. bpt_addr' \in [Slot -> Addr \cup {None}] /\ bpt_instr' \in [Slot -> Instr \cup {BRK}]
    BY DEF IInv, TypeOK, SetBreakpoint, Moved
  <1>2. \A m \in Slot : bpt_addr'[m] \in Addr =>
           \/ bpt_addr'[m] = bpt_addr[m] /\ bpt_instr'[m] = bpt_instr[m]
           \/ bpt_instr'[m] = code[bpt_addr'[m]]
    BY Addresses DEF IInv, TypeOK, SetBreakpoint, Moved
  <1> QED
    BY <1>1, <1>2, BreakpointsChange DEF SetBreakpoint

LEMMA ClearBreakpointStep ==
  ASSUME IInv, NEW n \in Slot, ClearBreakpoint(n)
  PROVE  IInv'
  <1>1. bpt_addr' \in [Slot -> Addr \cup {None}] /\ bpt_instr' \in [Slot -> Instr \cup {BRK}]
    BY DEF IInv, TypeOK, ClearBreakpoint
  <1>2. \A m \in Slot : bpt_addr'[m] \in Addr =>
           bpt_addr'[m] = bpt_addr[m] /\ bpt_instr'[m] = bpt_instr[m]
    BY Addresses DEF IInv, TypeOK, ClearBreakpoint
  <1> QED
    BY <1>1, <1>2, BreakpointsChange DEF ClearBreakpoint

(* A step begins: the code stays the program's, the count is kept.         *)
LEMMA StepBegins ==
  ASSUME IInv, mode = "user", oldcount' = count, count' = 1, mode' = "run", res' = 0,
         brkstep' \in BOOLEAN, snglstep' \in BOOLEAN, Stepping',
         ~interrupted => ~(brkstep' /\ snglstep'),
         UNCHANGED <<code, interrupted>>, UNCHANGED regsvars, UNCHANGED bptvars
  PROVE  IInv'
  <1>1. TypeOK'
    BY DEF IInv, TypeOK, regsvars, bptvars
  <1>2. LastJumps'
    BY DEF IInv, LastJumps, regsvars, bptvars
  <1>3. ASSUME ~interrupted PROVE Known'
    <2>1. InstrKept'
      BY <1>3 DEF IInv, InstrKept, regsvars, bptvars
    <2>2. CodeKnown'
      BY <1>3, UserKnows DEF CodeKnown, regsvars
    <2>3. StepKnown'
      BY <1>3 DEF StepKnown
    <2>4. CountKnown'
      BY <1>3, UserKnows DEF IInv, CountKnown, regsvars
    <2> QED
      BY <2>1, <2>2, <2>3, <2>4 DEF Known
  <1> QED
    BY <1>1, <1>2, <1>3 DEF IInv, Known

LEMMA ContinueStep == ASSUME IInv, Continue PROVE IInv'
  <1> USE DEF Continue, regsvars, bptvars
  <1>1. TypeOK'
    BY WithBrksKnown DEF IInv, TypeOK
  <1>2. LastJumps'
    BY WithBrksKnown DEF IInv, LastJumps
  <1>3. ASSUME ~interrupted PROVE Known'
    <2>1. InstrKept' /\ Breakpoints' = Breakpoints
      BY <1>3 DEF IInv, InstrKept, Breakpoints
    <2>2. CodeKnown'
      BY <1>3, <2>1, UserKnows, WithBrksKnown DEF IInv, CodeKnown, Stepping
    <2>3. StepKnown' /\ CountKnown'
      BY <1>3, UserKnows DEF IInv, StepKnown, CountKnown, Stepping
    <2> QED
      BY <2>1, <2>2, <2>3 DEF Known
  <1> QED
    BY <1>1, <1>2, <1>3 DEF IInv, Known

LEMMA WatchStep == ASSUME IInv, NEW w \in {"word", "other"}, Watch(w) PROVE IInv'
  <1>1. TypeOK'
    BY DEF IInv, TypeOK, Watch, bptvars
  <1>2. LastJumps' /\ (~interrupted' => InstrKept' /\ CodeKnown' /\ StepKnown' /\ CountKnown')
    BY DEF IInv, LastJumps, InstrKept, CodeKnown, StepKnown, CountKnown, Stepping, Breakpoints,
           Watch, bptvars
  <1> QED
    BY <1>1, <1>2 DEF IInv

LEMMA CommandStep == ASSUME IInv, Commands PROVE IInv'
  <1>1. ASSUME NEW n \in Slot, ClearBreakpoint(n) PROVE IInv'
    BY <1>1, ClearBreakpointStep
  <1>2. ASSUME NEW n \in Slot, NEW a \in Addr, SetBreakpoint(n, a) PROVE IInv'
    BY <1>2, SetBreakpointStep
  <1>3. CASE ContinueAtBreakpoint
    <2>1. ~interrupted => ~(brkstep' /\ snglstep')
      BY <1>3, UserKnows DEF ContinueAtBreakpoint, Stepping
    <2>2. Stepping' /\ brkstep' \in BOOLEAN /\ snglstep' \in BOOLEAN
      BY <1>3 DEF ContinueAtBreakpoint, Stepping, IInv, TypeOK
    <2> QED
      BY <1>3, <2>1, <2>2, StepBegins DEF ContinueAtBreakpoint
  <1>4. CASE Continue
    BY <1>4, ContinueStep
  <1>5. CASE SingleStep
    <2>1. ~interrupted => ~(brkstep' /\ snglstep')
      BY <1>5, UserKnows DEF SingleStep, User, Stepping
    <2>2. Stepping' /\ brkstep' \in BOOLEAN /\ snglstep' \in BOOLEAN
      BY <1>5 DEF SingleStep, Stepping, IInv, TypeOK
    <2> QED
      BY <1>5, <2>1, <2>2, StepBegins DEF SingleStep, User
  <1>6. ASSUME NEW w \in {"word", "other"}, Watch(w) PROVE IInv'
    BY <1>6, WatchStep
  <1> QED
    BY <1>1, <1>2, <1>3, <1>4, <1>5, <1>6 DEF Commands

-----------------------------------------------------------------------------
LEMMA Step == IInv /\ [Next]_vars => IInv'
  <1> SUFFICES ASSUME IInv, [Next]_vars PROVE IInv'
    OBVIOUS
  <1>1. CASE Interpret
    BY <1>1, InterpretStep
  <1>2. CASE Sadebug
    BY <1>2, SteppedOverStep, SingleSteppedStep, StoppedStep DEF Sadebug
  <1>3. CASE Commands
    BY <1>3, CommandStep
  <1>4. ASSUME NEW a \in Reloadable, Reload(a) PROVE IInv'
    BY <1>4, ReloadStep
  <1>5. CASE UNCHANGED vars
    BY <1>5 DEF vars, IInv, TypeOK, LastJumps, InstrKept, CodeKnown, StepKnown, CountKnown,
                Stepping, Breakpoints
  <1> QED
    BY <1>1, <1>2, <1>3, <1>4, <1>5 DEF Next

LEMMA Invariance == Spec => []IInv
  BY Initially, Step, PTL DEF Spec

(***************************************************************************)
(* Every variable has its type; the program never runs past its end.       *)
(***************************************************************************)
THEOREM Typed == Spec => []TypeOK
  <1>1. IInv => TypeOK
    BY DEF IInv
  <1> QED
    BY <1>1, Invariance, PTL

(***************************************************************************)
(* While the user types, the code and the count are the program's; while   *)
(* the program runs, there is a BRK in each breakpoint and nowhere else.   *)
(***************************************************************************)
THEOREM Intact == Spec => []ProgramIntact
  <1>1. IInv => ProgramIntact
    <2> SUFFICES ASSUME IInv PROVE ProgramIntact
      OBVIOUS
    <2>1. CodeIntact
      BY DEF IInv, CodeKnown, CodeIntact
    <2>2. BrksInPlace
      BY DEF IInv, CodeKnown, BrksInPlace, Stepping
    <2>3. CountKept
      BY DEF IInv, CountKnown, StepKnown, CountKept
    <2> QED
      BY <2>1, <2>2, <2>3 DEF ProgramIntact
  <1> QED
    BY <1>1, Invariance, PTL

(***************************************************************************)
(* The program goes from each instruction to where that leads, whatever    *)
(* the debugger does, and through no breakpoint unless by a step.          *)
(***************************************************************************)
THEOREM Undisturbed == Spec => Transparent
  <1>1. ASSUME IInv, [Next]_vars
        PROVE  [pc' # pc /\ ~interrupted /\ pc \notin reloaded =>
                  /\ Follows(pc, pc')
                  /\ pc \in Breakpoints => brkstep \/ snglstep]_vars
    <2> SUFFICES ASSUME pc' # pc, ~interrupted, pc \notin reloaded
                 PROVE  Follows(pc, pc') /\ (pc \in Breakpoints => brkstep \/ snglstep)
      OBVIOUS
    <2>1. Interpret
      BY <1>1 DEF Next, vars, Reload, Commands, SetBreakpoint, ClearBreakpoint, SingleStep,
                  ContinueAtBreakpoint, Continue, Watch, Sadebug, SteppedOver, SingleStepped,
                  Stopped, regsvars
    <2>2. Execute
      BY <2>1 DEF Interpret, WatchTrap, CountTrap, FaultTrap, BreakTrap, Traps
    <2>3. mode = "run" /\ code[pc] # BRK
      BY <2>2 DEF Execute, Fetches, BRK
    <2>4. code[pc] = prog[pc] /\ (pc \in Breakpoints => Stepping)
      BY <1>1, <2>3 DEF IInv, CodeKnown, TypeOK
    <2>5. Follows(pc, pc')
      BY <2>2, <2>4 DEF Execute, Fetches, Goes, Traps, Follows
    <2> QED
      BY <2>4, <2>5 DEF Stepping
  <1> QED
    BY <1>1, Invariance, PTL DEF Spec, Transparent
=============================================================================
