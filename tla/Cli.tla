-------------------------------- MODULE Cli ---------------------------------
(***************************************************************************)
(* The command line interpreter (cli.b), the commands preload and          *)
(* unpreload, and callseg of blib.b, over the loader.  A command is a      *)
(* module from the preload list or one that is loaded for it; while it     *)
(* runs it may call other segments and change the preload list, in any     *)
(* order, and return or stop.                                              *)
(***************************************************************************)
EXTENDS Segments

CONSTANTS
  GlobinG,     \* the global called globin, one of the library's
  MaxCalls     \* calls of callseg within one another (a bound)

VARIABLES
  cli,         \* what the loop of the CLI is doing
  frames,      \* the command, and the segments it has called
  preloads,    \* cli_preloadlist
  failed       \* since a command has run, one could not be started

ASSUME CliAssumption == MaxCalls \in Nat /\ GlobinG \in Library

vars == <<mem, disc, ld, gl, glob, stale, twice, cli, frames, preloads, failed>>

Prompt == [pc |-> "prompt", name |-> NoFile, found |-> FALSE, module |-> Null,
           co |-> Null, preload |-> NoFile]

(* A segment in execution: code is where its start is, saved the start of  *)
(* its caller, module what callseg has loaded.                             *)
Frame(code, saved, module) == [on |-> "running", code |-> code, saved |-> saved, module |-> module]
Top == frames[Len(frames)]
Callers == SubSeq(frames, 1, Len(frames) - 1)
Running == cli.pc = "running" /\ Top.on = "running"

Entry(n) == CHOOSE i \in 1 .. Len(preloads) :
              preloads[i].name = n /\ \A j \in 1 .. i - 1 : preloads[j].name # n
IsPreloaded(n) == \E i \in 1 .. Len(preloads) : preloads[i].name = n

SetStart(c) == glob' = [glob EXCEPT ![Start] = c]

-----------------------------------------------------------------------------
(* A name is read; the preload list is searched and, if it is not there,   *)
(* loadseg begins.                                                         *)
PreloadedCommand(n) ==
  /\ cli.pc = "prompt" /\ IsPreloaded(n)
  /\ LET module == preloads[Entry(n)].module
     IN  /\ cli' = [Prompt EXCEPT !.pc = "setting", !.name = n, !.found = TRUE,
                                  !.module = module]
         /\ Globin(module)
  /\ SetStart(Unset) /\ stale' = stale \ {Start}
  /\ UNCHANGED <<mem, disc, ld, twice, frames, preloads, failed>>

Command(n) ==
  /\ cli.pc = "prompt" /\ ~IsPreloaded(n)
  /\ Loadseg(n)
  /\ cli' = [Prompt EXCEPT !.pc = "loading", !.name = n]
  /\ UNCHANGED <<mem, disc, gl, glob, stale, twice, frames, preloads, failed>>

CommandLoaded ==
  /\ cli.pc = "loading" /\ ld.on = "done"
  /\ cli' = [cli EXCEPT !.pc = "setting", !.module = ld.list]
  /\ ld' = Resting /\ Globin(ld.list)
  /\ SetStart(Unset) /\ stale' = stale \ {Start}
  /\ UNCHANGED <<mem, disc, twice, frames, preloads, failed>>

(* Faulty: also when it was found there.                                   *)
UnloadedAlways == Chain(cli.module)

(* The module is unloaded unless it was found in the preload list.         *)
Unloaded == IF ~cli.found THEN Chain(cli.module) ELSE {}

(* globin or createco has failed: "Can't load".                            *)
CommandFails ==
  /\ cli.pc = "setting" /\ gl.on = "done"
  /\ Freevecs(Unloaded)
  /\ stale' = stale \cup Refer(Unloaded)
  /\ failed' = (failed \/ cli.module # Null)
  /\ cli' = Prompt /\ gl' = NoGlobin
  /\ UNCHANGED <<disc, ld, glob, frames, preloads>>

(* Faulty: the module is unloaded when its globals have been set.          *)
CommandStartsUnloading ==
  /\ cli.pc = "setting" /\ gl.on = "done" /\ gl.seg # Null
  /\ glob[Start] # Unset
  /\ Places # {}
  /\ mem' = [v \in Vec |-> IF v = Place THEN [use |-> "stack"]
                           ELSE IF v \in Unloaded THEN Free ELSE mem[v]]
  /\ cli' = [cli EXCEPT !.pc = "running", !.co = Place, !.module = Null]
  /\ frames' = <<Frame(glob[Start], Unset, Null)>>
  /\ gl' = NoGlobin
  /\ UNCHANGED <<disc, ld, glob, stale, twice, preloads, failed>>

(* createco, and callco of the new coroutine, whose clihook calls start.   *)
(* Without a start the command faults, which is the end of the model.      *)
CommandStarts ==
  /\ cli.pc = "setting" /\ gl.on = "done" /\ gl.seg # Null
  /\ glob[Start] # Unset
  /\ Places # {}
  /\ mem' = [mem EXCEPT ![Place] = [use |-> "stack"]]
  /\ cli' = [cli EXCEPT !.pc = "running", !.co = Place]
  /\ frames' = <<Frame(glob[Start], Unset, Null)>>
  /\ gl' = NoGlobin
  /\ UNCHANGED <<disc, ld, glob, stale, twice, preloads, failed>>

(* Faulty: the user's globals are left for the next command.               *)
RestoredLibrary ==
  [g \in Global |-> IF g \in Library /\ glob[GlobinG] = InLibrary THEN InLibrary
                    ELSE glob[g]]

(* The user's globals are unset, the library's set again by globin (if the *)
(* command has left that to the library), the coroutine deleted and the    *)
(* module unloaded.                                                        *)
Restored ==
  [g \in Global |-> IF g \in User THEN Unset
                    ELSE IF g \in Library /\ glob[GlobinG] = InLibrary THEN InLibrary
                    ELSE glob[g]]

CommandEnds ==
  LET V == Unloaded
  IN  /\ Freevecs(V \cup {cli.co})
      /\ glob' = Restored
      /\ stale' = {g \in Global : Restored[g] = glob[g] /\ (g \in stale \/ glob[g] \in V)}
      /\ failed' = (glob[GlobinG] # InLibrary)
      /\ cli' = Prompt /\ frames' = <<>>
      /\ UNCHANGED <<disc, ld, gl, preloads>>

(* The command returns from its start, or calls stop at any depth.  One    *)
(* that is adrift, in memory it has given back, is followed to its end but *)
(* not in what it calls, which might use that memory again.                *)
Executing == cli.pc \in {"running", "adrift"} /\ Top.on = "running"
Return == Executing /\ Len(frames) = 1 /\ CommandEnds
Stop == Executing /\ Len(frames) > 1 /\ CommandEnds

Adrift(V) == [cli EXCEPT !.pc = IF \E i \in 1 .. Len(frames) : frames[i].code \in V
                                  THEN "adrift" ELSE @]

-----------------------------------------------------------------------------
(* callseg *)
Callseg(n) ==
  /\ Running /\ Len(frames) <= MaxCalls
  /\ Loadseg(n)
  /\ frames' = Append(frames, [Frame(Unset, Unset, Null) EXCEPT !.on = "loading"])
  /\ UNCHANGED <<mem, disc, gl, glob, stale, twice, cli, preloads, failed>>

(* seg & globin(seg): a segment that was not loaded is not initialised.    *)
CallsegLoaded ==
  /\ cli.pc = "running" /\ Top.on = "loading" /\ ld.on = "done"
  /\ frames' = Append(Callers, [Top EXCEPT !.on = "setting", !.module = ld.list,
                                           !.saved = glob[Start]])
  /\ ld' = Resting
  /\ Globin(ld.list)
  /\ UNCHANGED <<mem, disc, glob, stale, twice, cli, preloads, failed>>

(* Faulty: start is saved only now, when it is the segment's.              *)
CallsegCallsSaving ==
  /\ cli.pc = "running" /\ Top.on = "setting" /\ gl.on = "done" /\ gl.seg # Null
  /\ frames' = Append(Callers, [Top EXCEPT !.on = "running", !.code = glob[Start],
                                           !.saved = glob[Start]])
  /\ gl' = NoGlobin
  /\ UNCHANGED <<mem, disc, ld, glob, stale, twice, cli, preloads, failed>>

CallsegCalls ==
  /\ cli.pc = "running" /\ Top.on = "setting" /\ gl.on = "done" /\ gl.seg # Null
  /\ frames' = Append(Callers, [Top EXCEPT !.on = "running", !.code = glob[Start]])
  /\ gl' = NoGlobin
  /\ UNCHANGED <<mem, disc, ld, glob, stale, twice, cli, preloads, failed>>

(* start := s, after the vectors of V have been given back.                *)
StartRestored(V) ==
  /\ SetStart(Top.saved)
  /\ stale' = (stale \cup Refer(V)) \ {Start}

(* abort(999), continued: the segment is left where it is.                 *)
CallsegFails ==
  /\ cli.pc = "running" /\ Top.on = "setting" /\ gl.on = "done" /\ gl.seg = Null
  /\ StartRestored({})
  /\ frames' = Callers /\ gl' = NoGlobin
  /\ UNCHANGED <<mem, disc, ld, twice, cli, preloads, failed>>

CallsegReturns ==
  /\ Running /\ Len(frames) > 1
  /\ Freevecs(Chain(Top.module))
  /\ StartRestored(Chain(Top.module))
  /\ frames' = Callers
  /\ UNCHANGED <<disc, ld, gl, cli, preloads, failed>>
-----------------------------------------------------------------------------
(* preload: the segment is loaded, then an old one of that name replaced or *)
(* an item made for it.                                                     *)
Preload(n) ==
  /\ Running
  /\ Loadseg(n)
  /\ frames' = Append(Callers, [Top EXCEPT !.on = "preloading"])
  /\ cli' = [cli EXCEPT !.preload = n]
  /\ UNCHANGED <<mem, disc, gl, glob, stale, twice, preloads, failed>>

PreloadDone ==
  /\ cli.pc = "running" /\ Top.on = "preloading" /\ ld.on = "done"
  /\ frames' = Append(Callers, [Top EXCEPT !.on = "running"])
  /\ ld' = Resting
  /\ UNCHANGED <<disc, gl, glob, failed>>

PreloadFails ==
  /\ PreloadDone /\ ld.list = Null
  /\ UNCHANGED <<mem, stale, twice, cli, preloads>>

PreloadReplaces ==
  /\ PreloadDone /\ ld.list # Null /\ IsPreloaded(cli.preload)
  /\ LET V == Chain(preloads[Entry(cli.preload)].module)
     IN  Freevecs(V) /\ stale' = stale \cup Refer(V) /\ cli' = Adrift(V)
  /\ preloads' = [preloads EXCEPT ![Entry(cli.preload)].module = ld.list]

(* No vector for the item: the segment stays loaded.                       *)
PreloadNoItem ==
  /\ PreloadDone /\ ld.list # Null /\ ~IsPreloaded(cli.preload)
  /\ UNCHANGED <<mem, stale, twice, cli, preloads>>

PreloadNew ==
  /\ PreloadDone /\ ld.list # Null /\ ~IsPreloaded(cli.preload)
  /\ Places # {}
  /\ mem' = [mem EXCEPT ![Place] = [use |-> "item"]]
  /\ preloads' = <<[name |-> cli.preload, module |-> ld.list, item |-> Place]>> \o preloads
  /\ UNCHANGED <<stale, twice, cli>>

(* unpreload of one name, or of all.                                       *)
Without(i) == SubSeq(preloads, 1, i - 1) \o SubSeq(preloads, i + 1, Len(preloads))

UnpreloadItems(I, rest) ==
  LET V == UNION {Chain(preloads[i].module) : i \in I}
  IN  /\ Running
      /\ Freevecs(V \cup {preloads[i].item : i \in I})
      /\ stale' = stale \cup Refer(V)
      /\ preloads' = rest /\ cli' = Adrift(V)
      /\ UNCHANGED <<disc, ld, gl, glob, frames, failed>>

Unpreload(n) == IsPreloaded(n) /\ UnpreloadItems({Entry(n)}, Without(Entry(n)))
UnpreloadAll == Len(preloads) > 0 /\ UnpreloadItems(1 .. Len(preloads), <<>>)

-----------------------------------------------------------------------------
Init ==
  /\ InitSegments
  /\ cli = Prompt /\ frames = <<>> /\ preloads = <<>> /\ failed = FALSE

Steps == (Loading \/ SettingGlobals) /\ UNCHANGED <<cli, frames, preloads, failed>>

Preloads == PreloadFails \/ PreloadReplaces \/ PreloadNoItem \/ PreloadNew

Next ==
  \/ \E n \in Name : \/ Command(n) \/ PreloadedCommand(n) \/ Callseg(n)
                      \/ Preload(n) \/ Unpreload(n)
  \/ Steps \/ CommandLoaded \/ CommandFails \/ CommandStarts \/ Return \/ Stop
  \/ CallsegLoaded \/ CallsegCalls \/ CallsegFails \/ CallsegReturns
  \/ Preloads \/ UnpreloadAll

Spec == Init /\ [][Next]_vars

-----------------------------------------------------------------------------
(* The segments that somebody will unload: those of the preload list, the  *)
(* module of the command unless it was preloaded, those that have been     *)
(* called, and the one being loaded.                                       *)
Heads ==
  {preloads[i].module : i \in 1 .. Len(preloads)}
    \cup (IF cli.found THEN {} ELSE {cli.module})
    \cup {frames[i].module : i \in 1 .. Len(frames)} \cup {ld.list}

Owned == (UNION {Chain(a) : a \in Heads}) \cup {cli.co}
           \cup {preloads[i].item : i \in 1 .. Len(preloads)}

Lost == {v \in Vec : mem[v].use # "free" /\ v \notin Owned}

TypeOK ==
  /\ mem \in [Vec -> {Free, [use |-> "stack"], [use |-> "item"]}
                 \cup [use : {"hunk"}, next : Vec \cup {Null}, of : Record]]
  /\ ld \in [on : {"off", "reading", "done"}, list : Vec \cup {Null}, liste : Vec \cup {Null},
              todo : Seq(Record),
              path : BOOLEAN, name : Name \cup {NoFile}]
  /\ gl \in [on : {"off", "setting", "done"}, seg : Vec \cup {Null}, at : Vec \cup {Null}]
  /\ glob \in [Global -> Vec \cup {Unset, InLibrary}]
  /\ stale \subseteq Global /\ twice \in BOOLEAN /\ failed \in BOOLEAN
  /\ Len(frames) <= MaxCalls + 1
  /\ gl.on = "setting" => gl.at \in Vec /\ mem[gl.at].use = "hunk"

(* What is to be unloaded is loaded, and no two segments share a hunk:     *)
(* unloadseg never gives back a vector that is free or somebody else's.    *)
OwnersApart ==
  /\ ~twice
  /\ LET C == [a \in Heads |-> Chain(a)]
     IN  /\ \A a \in Heads : \A v \in C[a] : mem[v].use = "hunk"
         /\ \A a, b \in Heads : a # b => C[a] \cap C[b] = {}

(* A vector is lost, so that nobody can give it back, only when a binary   *)
(* hunk is cut, callseg cannot set the globals of a segment, preload can   *)
(* make no item for it, or a called segment stops.                         *)
LostOnly ==
  [][Lost' \subseteq Lost
       \/ LoadCut \/ CallsegFails \/ PreloadNoItem \/ Stop]_vars

(* At the prompt, if the last command could be started, the library is the *)
(* library's again, no global of the user is set, and none below ug refers *)
(* to code that is gone except start and those the library has not got.    *)
PromptClean ==
  cli.pc = "prompt" /\ ~failed =>
    /\ \A g \in Library : glob[g] = InLibrary
    /\ \A g \in User : glob[g] = Unset
    /\ stale \subseteq {Start} \cup Other

(* start is that of the segment that runs, whatever it has called.         *)
StartIsRunning == Running => glob[Start] = Top.code

(* Commands and segments leave the globals as they have found them.        *)
GlobalsGivenBack == PromptClean /\ StartIsRunning

(* Code in execution is unloaded only when it is a preloaded command that  *)
(* takes itself from the list or replaces itself.                          *)
InExecution == {frames[i].code : i \in 1 .. Len(frames)} \cap Vec
Gone == {v \in InExecution' : mem[v].use = "hunk" /\ mem'[v].use # "hunk"}
CodeStays ==
  [][Gone # {} =>
       /\ cli.found
       /\ UnpreloadAll \/ Unpreload(cli.name) \/ PreloadReplaces
       /\ Gone \subseteq Chain(cli.module)]_vars
=============================================================================
