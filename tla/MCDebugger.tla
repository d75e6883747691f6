----------------------------- MODULE MCDebugger -----------------------------
(* Three instructions: two of several kinds and the jump back.             *)
EXTENDS Debugger
MCAddr == 0 .. 2
MCLimit == {-1, 2}
Two(x, y) == [a \in MCAddr |-> CASE a = 0 -> x [] a = 1 -> y [] a = 2 -> "loop"]
MCProgram == {Two("store", "op"), Two("setcount", "op"),
              Two("op", "fault"), Two("op", "abort")}
=============================================================================
