----------------------------- MODULE TypedText ------------------------------
(***************************************************************************)
(* What rdch and unrdch promise a program that reads from the console: one *)
(* text, read character by character from one place in it, whichever of    *)
(* the streams to the console is selected.                                 *)
(***************************************************************************)
EXTENDS Naturals, Sequences

VARIABLES
  text,   \* what has been typed, with its corrections made
  place,  \* the characters in front of this have been read
  got     \* the last character read

Init == place = 0 /\ got = "none"

(* Carriage returns are not given to the program.                          *)
Skip == place < Len(text) /\ text[place + 1] = "cr" /\ place' = place + 1 /\ got' = got

Read ==
  /\ place < Len(text) /\ text[place + 1] # "cr"
  /\ got' = text[place + 1] /\ place' = place + 1

ReadEnd == place = Len(text) /\ got' = "eof" /\ place' = place

Unread == place > 0 /\ place' = place - 1 /\ got' = got

(* readn reads a character and steps back over it.                         *)
Peek ==
  /\ place' = place
  /\ place < Len(text) /\ got' = text[place + 1]

PeekEnd == place > 0 /\ place = Len(text) /\ place' = place - 1 /\ got' = "eof"

Next == (Skip \/ Read \/ ReadEnd \/ Unread \/ Peek \/ PeekEnd) /\ text' = text

Spec == Init /\ [][Next]_<<text, place, got>>
=============================================================================
