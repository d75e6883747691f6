---------------------------- MODULE MCTranslate ----------------------------
EXTENDS Translate

(* The first locals point at the other variables, and a global at one of   *)
(* the locals; all the words are different.                                *)
Global == Frame
Static == Frame + Globals
MCInitial == [x \in 0 .. Size - 1 |->
  CASE x = 3 -> Global + 1 [] x = 4 -> Static
    [] x = Global -> 4 [] x = Global + 1 -> Static + 1
    [] x = Static -> 3 [] x = Static + 1 -> 9
    [] OTHER -> 0]

Program(statements, numbers, places, items, length) ==
  [statements |-> statements, numbers |-> numbers, places |-> places,
   items |-> items, length |-> length]

Assignments == Program({"lp", "add", "rv", "stind", "sp"}, {0, 1}, {3, Global}, 4, 6)
Arithmetic  == Program({"lp", "neg", "add", "sub", "mul", "ls", "store", "jt"}, {0, 7}, {3}, 3, 6)
Strings     == Program({"lp", "getbyte", "putbyte", "sp"}, {1}, {3, Static}, 4, 7)
Calls       == Program({"lp", "call", "add", "rv"}, {1}, {3, Global}, 5, 7)
Blocks      == Program({"lp", "sp", "lab", "store", "query", "add"}, {1}, {3, Global}, 3, 6)
Pointers    == Program({"lp", "rv", "lab", "sp"}, {}, {3, Static}, 3, 7)
Everything  == Program({"lp", "llp", "query", "neg", "add", "sub", "mul", "eq", "ls", "rv", "getbyte",
                        "sp", "stind", "putbyte", "call", "jt", "store", "lab"},
                       {0, 1}, {3, Global, Static}, 3, 4)
MCPrograms  == {Assignments, Arithmetic, Strings, Calls, Blocks, Pointers, Everything}

(* Calls with more arguments than SS has room for. *)
ManyArguments == {Program({"lp", "call", "add", "manyargs"}, {1}, {3}, 3, 7)}

(* Stores through a variable named by its number, and 0 words on. *)
ZeroOffset == {Program({"lp", "add", "rv", "stind"}, {0, Global + 1}, {3}, 4, 6)}

(* How a state was reached makes no difference to what can follow. *)
View == <<g, base, cells, program>>
=============================================================================
