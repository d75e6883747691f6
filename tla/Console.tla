------------------------------ MODULE Console -------------------------------
(***************************************************************************)
(* The streams of the console and of NIL:, and the life of stream control  *)
(* blocks (dlib.b, blib.b).  There is one block for the keyboard and one   *)
(* for the screen, which the root node points at and every stream to the   *)
(* console shares.  Streams to files are here for the blocks they take;    *)
(* what passes through them is in FileStream.                              *)
(*                                                                         *)
(* The interpreter runs one program at a time, so finding, selecting,      *)
(* ending and writing are a step each; reading is a step for each          *)
(* character, as the user types it.                                        *)
(***************************************************************************)
EXTENDS Integers, SequencesExt

CONSTANTS
  Place,       \* the places for vectors: positive numbers
  Char,        \* the characters there are, "nl" and "bs" among them
  Typed,       \* what a user may type: sequences of characters
  Direction,   \* of the streams commands find: "in", "out", "inout", "append"
  Writable,    \* the characters commands write
  BufEnd,      \* the bytes in a console's buffer, 4096
  MaxHeld,     \* the streams a command holds at once (a bound)
  MaxWritten   \* the characters written to the screen (a bound)

VARIABLES
  mem,               \* what each place is used for
  keyboard, screen,  \* of the root node
  cis, cos,          \* the streams selected, or 0
  held,              \* the streams the command has found and not ended
  ended,             \* blocks of the console that have been ended
  left,              \* buffers that a find has left behind
  input, at,         \* what is typed, and how much of it sardch has given
  text,              \* the same with its corrections made
  call, fill,        \* the rdch or readn going on, and cnslrdfn in it
  before,            \* the characters in buffers before this one
  got, number,       \* what rdch from the keyboard and readn gave last
  shown, written     \* on the screen, and by programs

memvars == <<mem, keyboard, screen>>
streamvars == <<cis, cos, held, ended, left>>
typedvars == <<input, at, text, before, got, number>>
callvars == <<call, fill>>
screenvars == <<shown, written>>
vars == <<mem, keyboard, screen, cis, cos, held, ended, left, input, at, text,
          call, fill, before, got, number, shown, written>>

ConsoleAssumption ==
  /\ Place \subseteq Nat \ {0} /\ IsFiniteSet(Place) /\ {1, 2, 3, 4} \subseteq Place
  /\ Typed \subseteq Seq(Char) /\ Char \subseteq STRING /\ "x" \in Char
  /\ Direction \subseteq {"in", "out", "inout", "append"}
  /\ Writable \subseteq Char /\ BufEnd \in Nat \ {0}
ASSUME ConsoleAssumption

Null == 0
Free == [use |-> "free"]
Buf == [use |-> "buf", data |-> [i \in 0 .. BufEnd - 1 |-> "x"]]
Scb(id, type, buf) ==
  [use |-> "scb", id |-> id, type |-> type, buf |-> buf, pos |-> 0, end |-> 0]

(* The lowest free places, for a block and its buffer.                     *)
Places == {v \in Place : mem[v].use = "free"}
Lowest(V) == CHOOSE v \in V : \A w \in V : v <= w
Block == Lowest(Places)
Second == Lowest(Places \ {Block})

IsScb(s) == s # Null /\ mem[s].use = "scb"

-----------------------------------------------------------------------------
(* findstream of the console gives the block there is.                     *)
FindConsole(id) ==
  /\ call.on = "none"
  /\ held' = held \cup {IF id = "in" THEN keyboard ELSE screen}
  /\ UNCHANGED <<cis, cos, ended, left>>
  /\ UNCHANGED memvars /\ UNCHANGED typedvars /\ UNCHANGED callvars /\ UNCHANGED screenvars

MayFind == Cardinality(held) < MaxHeld

FindNil(id) ==
  /\ call.on = "none" /\ MayFind /\ Places # {}
  /\ mem' = [mem EXCEPT ![Block] = Scb(id, "nil", Null)]
  /\ held' = held \cup {Block}
  /\ UNCHANGED <<keyboard, screen, cis, cos, ended, left>>
  /\ UNCHANGED typedvars /\ UNCHANGED callvars /\ UNCHANGED screenvars

(* A file that opens; when it does not, or there is no buffer, or the      *)
(* console is asked for as something else, the block is freed again.       *)
FindFile(id) ==
  /\ call.on = "none" /\ MayFind /\ Cardinality(Places) > 1
  /\ mem' = [mem EXCEPT ![Block] = Scb(id, "file", Second), ![Second] = Buf]
  /\ held' = held \cup {Block}
  /\ UNCHANGED <<keyboard, screen, cis, cos, ended, left>>
  /\ UNCHANGED typedvars /\ UNCHANGED callvars /\ UNCHANGED screenvars

(* The first block of a file opened for updating cannot be read: only the  *)
(* control block is freed.  A bound: once.                                 *)
FindUnreadable ==
  /\ call.on = "none" /\ left = {} /\ Cardinality(Places) > 1
  /\ mem' = [mem EXCEPT ![Second] = Buf] /\ left' = left \cup {Second}
  /\ UNCHANGED <<keyboard, screen, cis, cos, held, ended>>
  /\ UNCHANGED typedvars /\ UNCHANGED callvars /\ UNCHANGED screenvars

(* What a command may name: what it has found, and what is selected.       *)
Known == (held \cup {cis, cos}) \ {Null}

(* Faulty: only the input is told.                                         *)
DeselectedInput(s) == cis' = (IF cis = s THEN Null ELSE cis) /\ cos' = cos

Deselected(s) ==
  cis' = (IF cis = s THEN Null ELSE cis) /\ cos' = (IF cos = s THEN Null ELSE cos)

Endstream(s) ==
  /\ call.on = "none" /\ s \in Known /\ IsScb(s)
  /\ mem' = [v \in Place |-> IF v = s \/ v = mem[s].buf THEN Free ELSE mem[v]]
  /\ Deselected(s)
  /\ held' = held \ {s}
  /\ ended' = ended \cup ({s} \cap {keyboard, screen})
  /\ before' = IF s = keyboard /\ s \notin ended THEN before + mem[s].pos ELSE before
  /\ UNCHANGED <<keyboard, screen, left, input, at, text, got, number>>
  /\ UNCHANGED callvars /\ UNCHANGED screenvars

(* Other streams are refused with abort 186 or 187.                        *)
Selectinput(s) ==
  /\ call.on = "none" /\ s \in Known /\ IsScb(s) /\ mem[s].id \in {"in", "inout"}
  /\ cis' = s
  /\ UNCHANGED <<cos, held, ended, left>>
  /\ UNCHANGED memvars /\ UNCHANGED typedvars /\ UNCHANGED callvars /\ UNCHANGED screenvars

Selectoutput(s) ==
  /\ call.on = "none" /\ s \in Known /\ IsScb(s) /\ mem[s].id \in {"out", "append", "inout"}
  /\ cos' = s
  /\ UNCHANGED <<cis, held, ended, left>>
  /\ UNCHANGED memvars /\ UNCHANGED typedvars /\ UNCHANGED callvars /\ UNCHANGED screenvars

(* The CLI selects the streams it was started with.  A bound: a command    *)
(* ends the streams it has found, but perhaps those of the console.        *)
CommandEnds ==
  /\ call.on = "none" /\ held \subseteq {keyboard, screen}
  /\ cis' = keyboard /\ cos' = screen /\ held' = {}
  /\ UNCHANGED <<ended, left>>
  /\ UNCHANGED memvars /\ UNCHANGED typedvars /\ UNCHANGED callvars /\ UNCHANGED screenvars

-----------------------------------------------------------------------------
(* rdch and readn *)
(* A bound: once a command has ended a stream of the console it neither    *)
(* reads nor writes, but finds, selects and ends other streams.            *)
Idle == [on |-> "none", neg |-> FALSE, sum |-> 0, from |-> 0]
NotFilling == -1
Readable == IsScb(cis) /\ mem[cis].type \in {"console", "nil"} /\ mem[cis].id # "out"
Pos == IF IsScb(keyboard) /\ keyboard \notin ended THEN mem[keyboard].pos ELSE 0

Begins(what) ==
  /\ call.on = "none" /\ Readable /\ ended = {}
  /\ call' = [Idle EXCEPT !.on = what, !.from = before + Pos]
  /\ UNCHANGED <<fill, before, input, at, text, got, number>>
  /\ UNCHANGED memvars /\ UNCHANGED streamvars /\ UNCHANGED screenvars

Rdch == Begins("rdch")
Readn == Begins("space")

(* Faulty: the character behind a number is not given back.                *)
UnrdchNever(at1) == at1

(* unrdch after a character that leaves the place at at1.                  *)
Unrdch(at1) == IF at1 > 0 THEN at1 - 1 ELSE at1

At1(p) == mem' = [mem EXCEPT ![cis].pos = p]
Digit == [c \in {"0", "1", "2"} |-> IF c = "0" THEN 0 ELSE IF c = "1" THEN 1 ELSE 2]
More(ch) == 10 * call.sum + Digit[ch]
Returns(n, p) == call' = Idle /\ number' = n /\ At1(p)

(* The rdch that was called gives ch and leaves the place at at1.          *)
Given(ch, at1) ==
  /\ got' = IF cis = keyboard THEN ch ELSE got
  /\ CASE call.on = "rdch" -> Returns(number, at1)
       [] call.on \in {"space", "sign", "digits"} /\ ch \in DOMAIN Digit ->
            call' = [call EXCEPT !.on = "digits", !.sum = More(ch)] /\ number' = number /\ At1(at1)
       [] call.on = "space" /\ ch \in {"sp", "nl"} ->
            UNCHANGED <<call, number>> /\ At1(at1)
       [] call.on = "space" /\ ch = "-" ->
            call' = [call EXCEPT !.on = "sign", !.neg = TRUE] /\ number' = number /\ At1(at1)
       [] OTHER -> Returns(IF call.neg THEN -call.sum ELSE call.sum, Unrdch(at1))

Stream == mem[cis]
Reading == call.on # "none" /\ fill = NotFilling

(* Carriage returns in the buffer are passed over.                         *)
TakeCr ==
  /\ Reading /\ Stream.pos < Stream.end /\ mem[Stream.buf].data[Stream.pos] = "cr"
  /\ At1(Stream.pos + 1)
  /\ UNCHANGED <<call, fill, got, number, input, at, text, before>>

Take ==
  /\ Reading /\ Stream.pos < Stream.end /\ mem[Stream.buf].data[Stream.pos] # "cr"
  /\ Given(mem[Stream.buf].data[Stream.pos], Stream.pos + 1)
  /\ UNCHANGED <<fill, input, at, text, before>>

(* replenish: NIL: has no function for it.                                 *)
ReplenishNil ==
  /\ Reading /\ Stream.pos >= Stream.end /\ Stream.type = "nil"
  /\ Given("eof", Stream.pos)
  /\ UNCHANGED <<fill, input, at, text, before>>

Replenish ==
  /\ Reading /\ Stream.pos >= Stream.end /\ Stream.type = "console"
  /\ fill' = 0
  /\ UNCHANGED <<mem, call, got, number, input, at, text, before>>

(* Faulty: the place is not that of the new buffer.                        *)
FilledFrom(d, p) ==
  /\ mem' = [mem EXCEPT ![Stream.buf].data = d, ![cis].end = p]
  /\ before' = before + Stream.end
  /\ fill' = NotFilling

Filled(d, p) ==
  /\ mem' = [mem EXCEPT ![Stream.buf].data = d, ![cis].pos = 0, ![cis].end = p]
  /\ before' = before + Stream.end
  /\ fill' = NotFilling

(* cnslrdfn: the user's next character, or the end of the input.           *)
Typing == fill # NotFilling /\ at < Len(input)
Ch == input[at + 1]

(* Faulty: the first character of a line is not erased.                    *)
SardchErasesOthers ==
  /\ Typing /\ Ch = "bs"
  /\ fill' = (IF fill > 1 THEN fill - 1 ELSE fill) /\ at' = at + 1
  /\ UNCHANGED <<mem, before, call, got, number, input, text>>

SardchErases ==
  /\ Typing /\ Ch = "bs"
  /\ fill' = (IF fill > 0 THEN fill - 1 ELSE 0) /\ at' = at + 1
  /\ UNCHANGED <<mem, before, call, got, number, input, text>>

SardchStores ==
  /\ Typing /\ Ch # "bs"
  /\ at' = at + 1
  /\ LET d == [mem[Stream.buf].data EXCEPT ![fill] = Ch]
     IN  IF Ch = "nl" \/ fill + 1 = BufEnd THEN Filled(d, fill + 1)
         ELSE /\ mem' = [mem EXCEPT ![Stream.buf].data = d]
              /\ fill' = fill + 1 /\ before' = before
  /\ UNCHANGED <<call, got, number, input, text>>

SardchEnds ==
  /\ fill # NotFilling /\ at = Len(input)
  /\ \/ fill > 0 /\ Filled(mem[Stream.buf].data, fill) /\ UNCHANGED <<call, got, number>>
     \/ fill = 0 /\ fill' = NotFilling /\ before' = before /\ Given("eof", Stream.pos)
  /\ UNCHANGED <<input, at, text>>

ReadSteps ==
  /\ TakeCr \/ Take \/ ReplenishNil \/ Replenish
       \/ SardchErases \/ SardchStores \/ SardchEnds
  /\ UNCHANGED <<keyboard, screen>> /\ UNCHANGED streamvars /\ UNCHANGED screenvars

-----------------------------------------------------------------------------
(* wrch to the screen: its buffer and what is shown, as a record.          *)
FirstOf(d, n) == [i \in 1 .. n |-> d[i - 1]]
Depleted(r) == [r EXCEPT !.shown = @ \o FirstOf(r.data, r.pos), !.pos = 0, !.end = 0]

Put(r, c) ==
  LET f == IF r.pos >= BufEnd THEN Depleted(r) ELSE r
  IN  [f EXCEPT !.data[f.pos] = c, !.pos = f.pos + 1,
                !.end = IF f.end < f.pos + 1 THEN f.pos + 1 ELSE @]

(* Faulty: the line is shown before its carriage return.                   *)
PuttingEarly(r, c) == IF c = "nl" THEN Put(Depleted(Put(r, c)), "cr") ELSE Put(r, c)

(* A line is shown at its end; a carriage return is put after it.          *)
Putting(r, c) == IF c = "nl" THEN Depleted(Put(Put(r, c), "cr")) ELSE Put(r, c)

OnScreen == [data |-> mem[mem[screen].buf].data, pos |-> mem[screen].pos,
             end |-> mem[screen].end, shown |-> shown]
NowOnScreen(r) ==
  /\ mem' = [mem EXCEPT ![mem[screen].buf].data = r.data,
                        ![screen].pos = r.pos, ![screen].end = r.end]
  /\ shown' = r.shown

ToScreen == call.on = "none" /\ cos = screen /\ ended = {}

Wrch(c) ==
  /\ ToScreen /\ Len(written) < MaxWritten
  /\ NowOnScreen(Putting(OnScreen, c))
  /\ written' = written \o (IF c = "nl" THEN <<"nl", "cr">> ELSE <<c>>)
  /\ UNCHANGED <<keyboard, screen>>
  /\ UNCHANGED streamvars /\ UNCHANGED typedvars /\ UNCHANGED callvars

Deplete ==
  /\ ToScreen /\ mem[screen].pos > 0
  /\ NowOnScreen(Depleted(OnScreen))
  /\ UNCHANGED <<keyboard, screen, written>>
  /\ UNCHANGED streamvars /\ UNCHANGED typedvars /\ UNCHANGED callvars

-----------------------------------------------------------------------------
(***************************************************************************)
(* The lines typed, with what was erased in each of them gone: those done  *)
(* after each character, and the line begun.  A line longer than the       *)
(* buffer is two.                                                          *)
(***************************************************************************)
NoLines == [done |-> <<>>, line |-> <<>>]
With(e, ch) ==
  LET l == IF ch = "bs" THEN SubSeq(e.line, 1, Len(e.line) - 1) ELSE Append(e.line, ch)
  IN  IF ch = "nl" \/ Len(l) = BufEnd THEN [done |-> e.done \o l, line |-> <<>>]
      ELSE [done |-> e.done, line |-> l]
Lines(t) ==
  LET E[i \in 0 .. Len(t)] == IF i = 0 THEN NoLines ELSE With(E[i - 1], t[i])
  IN  E
Corrected(t) == LET e == Lines(t)[Len(t)] IN e.done \o e.line

(* Both streams of the console have been found and selected by rootcode.   *)
Init ==
  /\ mem = [v \in Place |-> CASE v = 1 -> Scb("in", "console", 2) [] v = 2 -> Buf
                              [] v = 3 -> Scb("out", "console", 4) [] v = 4 -> Buf
                              [] OTHER -> Free]
  /\ keyboard = 1 /\ screen = 3 /\ cis = 1 /\ cos = 3
  /\ held = {} /\ ended = {} /\ left = {}
  /\ input \in Typed /\ text = Corrected(input) /\ at = 0
  /\ call = Idle /\ fill = NotFilling /\ before = 0
  /\ got = "none" /\ number = 0
  /\ shown = <<>> /\ written = <<>>

Finds ==
  \/ \E id \in {"in", "out"} : FindConsole(id)
  \/ \E id \in Direction : FindNil(id) \/ FindFile(id)
  \/ FindUnreadable

Next ==
  \/ Finds \/ CommandEnds
  \/ \E s \in Place : Endstream(s) \/ Selectinput(s) \/ Selectoutput(s)
  \/ Rdch \/ Readn \/ ReadSteps
  \/ \E c \in Writable : Wrch(c)
  \/ Deplete

Spec == Init /\ [][Next]_vars

-----------------------------------------------------------------------------
TypeOK ==
  /\ \A v \in Place :
       LET m == mem[v]
       IN  \/ m.use = "free"
           \/ m.use = "buf" /\ m.data \in [0 .. BufEnd - 1 -> Char \cup {"cr"}]
           \/ /\ m.use = "scb" /\ m.id \in {"in", "out", "inout", "append"}
              /\ m.pos \in 0 .. BufEnd /\ m.end \in 0 .. BufEnd /\ m.pos <= m.end
  /\ {cis, cos} \cup ended \cup left \subseteq Place \cup {Null}
  /\ at \in 0 .. Len(input) /\ fill \in NotFilling .. BufEnd - 1
  /\ number \in Int

(***************************************************************************)
(* A stream that is selected, or that a command still holds, has a control *)
(* block and is of the direction it is selected for; no two share a        *)
(* buffer; and every vector in use is one of these or its buffer, but for  *)
(* the buffer of a file that could not be read.  Not so of a stream of the *)
(* console after a command has ended it: its block is free, or another's,  *)
(* while the root node points at it and the CLI selects it.                *)
(***************************************************************************)
Blocks == {v \in Place : mem[v].use = "scb"}
Buffers == {mem[s].buf : s \in Blocks} \ {Null}
BlocksKept ==
  /\ \A s \in (held \cup {keyboard, screen, cis, cos}) \ (ended \cup {Null}) : s \in Blocks
  /\ cis \notin ended \cup {Null} => mem[cis].id \in {"in", "inout"}
  /\ cos \notin ended \cup {Null} => mem[cos].id \in {"out", "append", "inout"}
  /\ \A s, t \in Blocks : mem[s].buf = mem[t].buf => s = t \/ mem[s].buf = Null
  /\ {v \in Place : mem[v].use = "buf"} = Buffers \cup left /\ Buffers \cap left = {}
  /\ Blocks \subseteq held \cup {keyboard, screen}

PlaceInText == before + Pos

Abs == INSTANCE TypedText WITH place <- PlaceInText

(* All the streams to the keyboard read one text, in order, with nothing   *)
(* lost or read twice where one is selected after another, a buffer is     *)
(* filled again, or characters are erased at its end.  But when the input  *)
(* ends where all of a line begun has been erased, what was erased is in   *)
(* the buffer in place of the line before, and readn gives one of its      *)
(* characters back: so not for inputs that end in an erasure.              *)
EndsWithoutErasing == \A t \in Typed : t # <<>> => t[Len(t)] # "bs"
ImplementsTypedText == Abs!Spec

(***************************************************************************)
(* readn gives the number that begins behind the spaces and new lines at   *)
(* the place, and the next character read is the one behind it, wherever   *)
(* the lines are divided; except that at the end of the text the last      *)
(* digit is read again.                                                    *)
(***************************************************************************)
From(i) == SelectSeq(SubSeq(text, i + 1, Len(text)), LAMBDA c : c # "cr")
Run(s, i, C) == CHOOSE n \in 0 .. Len(s) - i :
                  /\ \A j \in i + 1 .. i + n : s[j] \in C
                  /\ i + n < Len(s) => s[i + n + 1] \notin C
NumberRead ==
  [][call.on \in {"space", "sign", "digits"} /\ call'.on = "none" /\ cis = keyboard =>
       LET s == From(call.from)
           w == Run(s, 0, {"sp", "nl"})
           m == IF w < Len(s) /\ s[w + 1] = "-" THEN 1 ELSE 0
           d == Run(s, w + m, DOMAIN Digit)
           v == FoldLeft(LAMBDA n, c : 10 * n + Digit[c], 0, SubSeq(s, w + m + 1, w + m + d))
       IN  /\ number' = IF m = 1 THEN -v ELSE v
           /\ w + m + d < Len(s) => From(PlaceInText') = SubSeq(s, w + m + d + 1, Len(s))]_vars

(* What is on the screen and in its buffer is what was written, in order,  *)
(* and a line is on the screen when it has been written to its end.        *)
ScreenShowsWritten ==
  screen \notin ended =>
    /\ shown \o FirstOf(mem[mem[screen].buf].data, mem[screen].pos) = written
    /\ Len(written) > 1 /\ written[Len(written) - 1] = "nl" => mem[screen].pos = 0

(* What rdch and readn gave last does not matter to what comes next; nor a *)
(* byte of a buffer that has not been read or written since the buffer was *)
(* filled or depleted; nor the text, once nothing is read or written.      *)
Used(v) ==
  IF keyboard \in Blocks /\ v = mem[keyboard].buf
    THEN IF fill > mem[keyboard].end THEN fill ELSE mem[keyboard].end
  ELSE IF screen \in Blocks /\ v = mem[screen].buf THEN mem[screen].pos ELSE 0
View ==
  IF ended # {} THEN <<[v \in Place |-> mem[v].use], [v \in Blocks |-> <<mem[v].id, mem[v].buf>>],
                       cis, cos, held, ended, left>>
  ELSE <<[v \in Place |-> IF mem[v].use = "buf" THEN FirstOf(mem[v].data, Used(v)) ELSE mem[v]],
         cis, cos, held, left, input, at, call, fill, before, shown, written>>
=============================================================================
