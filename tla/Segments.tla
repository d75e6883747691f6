------------------------------ MODULE Segments ------------------------------
(***************************************************************************)
(* The segment loader of the interpreter (cintsys.c): loadseg reads the    *)
(* hunks of a file into vectors that are linked by their first words,      *)
(* globin sets the globals that the hunks define, and unloadseg gives the  *)
(* vectors back.  Each record of a file and each hunk is a step, because   *)
(* each may be where it fails.                                             *)
(***************************************************************************)
EXTENDS Naturals, Sequences, FiniteSets

CONSTANTS
  Vec,        \* the places for vectors: positive numbers
  Name,       \* names of files
  Image,      \* the files there can be: sequences of records
  Disc,       \* which files there may be here and on the path: a set
  NoFile,     \* no file of that name
  Start,      \* the global called start
  Library,    \* globals that blib, syslib and dlib define
  Other,      \* further globals below ug, which they do not define
  User,       \* globals from ug on
  GlobSize,   \* the number of the last global
  Unset,      \* globword + n, what an unset global holds: calling it faults
  InLibrary   \* code of the library, which is never unloaded

VARIABLES
  mem,        \* what each place is used for
  disc,       \* the files here and on the path
  ld,         \* the file being loaded
  gl,         \* the segment whose globals are being set
  glob,       \* the code each global refers to
  stale,      \* the globals whose code has been unloaded
  twice       \* freevec has been given a vector that was free

segvars == <<mem, disc, ld, gl, glob, stale, twice>>

Global == {Start} \cup Library \cup Other \cup User

Null == 0

(* A record of a file.  A hunk is cut when the file ends within it; top is *)
(* its last word, the highest global it uses.                              *)
Record == [type : {"hunk", "bhunk", "end", "other"}, sets : SUBSET Global,
           top : Nat, cut : BOOLEAN]

SegmentsAssumption ==
  /\ Vec \subseteq Nat \ {0} /\ IsFiniteSet(Vec)
  /\ Global \subseteq 1 .. GlobSize /\ GlobSize \in Nat
  /\ Start \notin Library \cup Other \cup User
  /\ Library \cap (Other \cup User) = {} /\ Other \cap User = {}
  /\ Image \ {NoFile} \subseteq Seq(Record)
  /\ Disc \subseteq [Name -> [here : Image, path : Image]]
  /\ Unset \notin Vec \cup {InLibrary} /\ InLibrary \notin Vec
ASSUME SegmentsAssumption

Free == [use |-> "free"]
Hunk(r) == [use |-> "hunk", next |-> Null, of |-> r]

Places == {v \in Vec : mem[v].use = "free"}
Place == CHOOSE v \in Places : \A w \in Places : v <= w

(* The vectors that are met on following the links from a.                 *)
Link(v) == IF v \in Vec /\ mem[v].use = "hunk" THEN mem[v].next ELSE Null
Met(a) ==
  LET Nth[n \in 0 .. Cardinality(Vec)] == IF n = 0 THEN a ELSE Link(Nth[n - 1])
  IN  Nth
Chain(a) == LET nth == Met(a) IN {nth[n] : n \in DOMAIN nth} \ {Null}

(* freevec of each vector of V, which unloadseg finds by the links.        *)
Freevecs(V) ==
  /\ mem' = [v \in Vec |-> IF v \in V THEN Free ELSE mem[v]]
  /\ twice' = (twice \/ \E v \in V : mem[v].use = "free")

(* The globals that refer to code in V.                                    *)
Refer(V) == {g \in Global : glob[g] \in V}

-----------------------------------------------------------------------------
Resting == [on |-> "off", list |-> Null, liste |-> Null, todo |-> <<>>,
            path |-> FALSE, name |-> NoFile]
Reading(n, p, f) == [Resting EXCEPT !.on = "reading", !.todo = f, !.path = p, !.name = n]
Loaded(a) == [Resting EXCEPT !.on = "done", !.list = a]

FromPath(n) == IF disc[n].path = NoFile THEN Loaded(Null)
               ELSE Reading(n, TRUE, disc[n].path)

(* loadseg looks in the current directory first.                           *)
Loadseg(n) ==
  /\ ld.on = "off"
  /\ ld' = IF disc[n].here = NoFile THEN FromPath(n)
           ELSE Reading(n, FALSE, disc[n].here)

(* loadsegfp has come to its end with a; if it failed in the current       *)
(* directory the file is looked for on the path.                           *)
Ends(a) == ld' = IF a = Null /\ ~ld.path THEN FromPath(ld.name) ELSE Loaded(a)

Record1 == Head(ld.todo)
Reads(types) == ld.on = "reading" /\ ld.todo # <<>> /\ Record1.type \in types

LoadEof ==
  /\ ld.on = "reading" /\ ld.todo = <<>>
  /\ Ends(ld.list)
  /\ UNCHANGED <<mem, twice>>

LoadEnd ==
  /\ Reads({"end"})
  /\ ld' = [ld EXCEPT !.todo = Tail(@)]
  /\ UNCHANGED <<mem, twice>>

(* Faulty: what has been loaded is forgotten.                              *)
LoadErrForgets ==
  /\ Reads({"other"}) \/ Reads({"hunk", "bhunk"})
  /\ Ends(Null)
  /\ UNCHANGED <<mem, twice>>

(* err: what has been loaded is given back.                                *)
LoadErr ==
  /\ \/ Reads({"other"})
     \/ Reads({"hunk", "bhunk"})       \* getvec(n) gives zero
  /\ Freevecs(Chain(ld.list))
  /\ Ends(Null)

(* A hexadecimal hunk.  Past the end of the file rdhex gives -1 for every  *)
(* word, so a hunk that is cut is filled up, and the next type is -1 too.  *)
(* A binary hunk has all its words, or is not taken.                       *)
LoadHunk ==
  /\ Reads({"hunk", "bhunk"}) /\ Places # {}
  /\ Record1.type = "bhunk" => ~Record1.cut
  /\ mem' = [v \in Vec |->
               IF v = Place THEN Hunk(Record1)
               ELSE IF v = ld.liste THEN [mem[v] EXCEPT !.next = Place]
               ELSE mem[v]]
  /\ ld' = [ld EXCEPT !.todo = Tail(@), !.liste = Place,
                      !.list = IF @ = Null THEN Place ELSE @]
  /\ UNCHANGED twice

(* A binary hunk that is cut: goto err, with the hunk not yet linked.      *)
LoadCut ==
  /\ Reads({"bhunk"}) /\ Places # {} /\ Record1.cut
  /\ LET V == Chain(ld.list)
     IN  /\ mem' = [v \in Vec |-> IF v \in V THEN Free
                                  ELSE IF v = Place THEN Hunk(Record1) ELSE mem[v]]
         /\ twice' = (twice \/ \E v \in V : mem[v].use = "free")
  /\ Ends(Null)

Loading ==
  /\ LoadEof \/ LoadEnd \/ LoadErr \/ LoadHunk \/ LoadCut
  /\ UNCHANGED <<disc, gl, glob, stale>>

-----------------------------------------------------------------------------
NoGlobin == [on |-> "off", seg |-> Null, at |-> Null]

(* Faulty: no segment is taken for one at zero.                            *)
GlobinOfNone(a) == gl' = [on |-> "setting", seg |-> a, at |-> a]

(* globin(a) begins; of no segment it is zero at once.                     *)
Globin(a) == gl' = [on |-> IF a = Null THEN "done" ELSE "setting", seg |-> a, at |-> a]

(* The globals of the next hunk, if the vector has room for the highest.   *)
(* Nothing follows for a hunk that was cut short: globin takes what filled *)
(* it up for globals and entry points, and writes in any word of memory.   *)
GlobinHunk ==
  /\ gl.on = "setting"
  /\ LET r == mem[gl.at].of
     IN  /\ ~r.cut /\ r.top <= GlobSize
         /\ glob' = [g \in Global |-> IF g \in r.sets THEN gl.at ELSE glob[g]]
         /\ stale' = stale \ r.sets
         /\ gl' = IF mem[gl.at].next = Null THEN [gl EXCEPT !.on = "done"]
                  ELSE [gl EXCEPT !.at = mem[gl.at].next]

(* RETURN 0, with the globals of the hunks before this one set.            *)
GlobinFails ==
  /\ gl.on = "setting" /\ mem[gl.at].of.top > GlobSize
  /\ gl' = [gl EXCEPT !.on = "done", !.seg = Null]
  /\ UNCHANGED <<glob, stale>>

SettingGlobals ==
  /\ GlobinHunk \/ GlobinFails
  /\ UNCHANGED <<mem, disc, ld, twice>>

InitSegments ==
  /\ mem = [v \in Vec |-> Free]
  /\ disc \in Disc
  /\ ld = Resting /\ gl = NoGlobin
  /\ glob = [g \in Global |-> IF g \in Library \cup {Start} THEN InLibrary ELSE Unset]
  /\ stale = {} /\ twice = FALSE
=============================================================================
