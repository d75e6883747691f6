----------------------------- MODULE MCConsole ------------------------------
(* Lines that end, that are longer than the buffer, that are erased beyond *)
(* their beginning, numbers over two buffers, and an input that just ends. *)
EXTENDS Console
MCChar == {"1", "2", "-", "sp", "x", "nl", "cr", "bs"}
MCTyped == {<<"1", "2", "1", "nl", "2", "x", "nl">>,
            <<"1", "bs", "bs", "2", "sp", "-", "1">>,
            <<"1", "cr", "nl", "x", "-", "1">>}
(* What TextAlwaysRead needs.                                             *)
ASSUME EndsWithoutErasing
=============================================================================
