------------------------------ MODULE ByteFile ------------------------------
(***************************************************************************)
(* What an open stream is to the program that uses it: a sequence of bytes *)
(* and a place in it.  Reading gives the bytes from the place on, up to    *)
(* the end; writing replaces the bytes at the place, or adds to the end;   *)
(* both move the place on, over what they have read or written.  Pointing  *)
(* and stepping move it anywhere up to the end, and nowhere else.          *)
(* Closing the stream leaves its bytes in the file.                        *)
(***************************************************************************)
EXTENDS Integers, Sequences

CONSTANTS Kinds,   \* how a stream can be opened
          Byte,    \* what programs write to it
          Near     \* stepstream may refuse to step to one of the first Near places

VARIABLES kind,    \* "none" while no stream is open
          content, \* the bytes of the open stream
          file,    \* the file, while the stream does not stand for it
          place,   \* how many bytes are in front of the place
          got,     \* the bytes the last call has read
          ok,      \* whether it was successful
          call     \* which call it was, and what for

absvars == <<kind, content, file, place, got, ok, call>>

Places   == 0 .. Len(content)
Readable == kind \in {"in", "inout", "ram"}
Writable == kind \in {"out", "inout", "append", "ram"}

Init ==
  /\ kind = "none"
  /\ content = <<>>
  /\ place = 0
  /\ got = <<>> /\ ok = TRUE

(* A RAM stream starts empty and leaves the file alone. *)
Open(k) ==
  /\ call' = <<"open", k>>
  /\ kind = "none"
  /\ kind' = k
  /\ content' = IF k \in {"out", "ram"} THEN <<>> ELSE file
  /\ file' = IF k = "ram" THEN file ELSE <<>>
  /\ place' = IF k = "append" THEN Len(file) ELSE 0
  /\ got' = <<>> /\ ok' = TRUE

Close ==
  /\ call' = <<"close">>
  /\ kind # "none"
  /\ kind' = "none"
  /\ file' = IF kind = "ram" THEN file ELSE content
  /\ content' = <<>>
  /\ place' = 0
  /\ got' = <<>> /\ ok' = TRUE

-----------------------------------------------------------------------------
(* What a call can do.                                                     *)

(* k bytes read from p on, where there are as many; fewer only at the end. *)
ReadsFrom(p, k) ==
  LET last == IF p + k <= Len(content) THEN p + k ELSE Len(content)
  IN  /\ got' = SubSeq(content, p + 1, last)
      /\ ok' = (last = p + k)
      /\ place' = last
      /\ UNCHANGED <<kind, content, file>>

(* The first n bytes of d written from p on. *)
Replaced(p, d, n) ==
  [i \in 1 .. IF p + n > Len(content) THEN p + n ELSE Len(content) |->
     IF i \in p + 1 .. p + n THEN d[i - p] ELSE content[i]]

(* Only the memory of a RAM stream can run out before all is written.      *)
WritesFrom(p, d) ==
  \E n \in 0 .. Len(d) :
    /\ n = Len(d) \/ kind = "ram"
    /\ content' = Replaced(p, d, n)
    /\ place' = p + n
    /\ got' = <<>> /\ ok' = (n = Len(d))
    /\ UNCHANGED <<kind, file>>

MovesTo(p) == place' = p /\ got' = <<>> /\ ok' = TRUE /\ UNCHANGED <<kind, content, file>>
Refuses    == got' = <<>> /\ ok' = FALSE /\ UNCHANGED <<kind, content, file, place>>

-----------------------------------------------------------------------------
(* The calls.                                                              *)
Read(k)  == call' = <<"read", k>> /\ Readable /\ ReadsFrom(place, k)
Write(d) == call' = <<"write", d>> /\ Writable /\ WritesFrom(place, d)

(* The byte that has just been read can always be put back. *)
Unread ==
  /\ call' = <<"unread">>
  /\ \/ place > 0 /\ MovesTo(place - 1)
     \/ Refuses /\ (ok => got = <<>>)

(* To the program nothing has happened. *)
Deplete ==
  /\ call' = <<"deplete">>
  /\ ok' = TRUE \/ (ok' = FALSE /\ kind = "ram")
  /\ got' = <<>> /\ UNCHANGED <<kind, content, file, place>>

Point(p) ==
  /\ call' = <<"point", p>>
  /\ IF Readable /\ p \in Places THEN MovesTo(p) ELSE Refuses

ToEnd ==
  /\ call' = <<"append">>
  /\ IF kind \in {"inout", "ram"} THEN MovesTo(Len(content)) ELSE Refuses

Step(n) ==
  /\ call' = <<"step", n>>
  /\ \/ Readable /\ place + n \in Places /\ MovesTo(place + n)
     \/ Refuses /\ (place + n \in Places => kind = "ram" \/ place + n <= Near)

(* Records of k bytes from p on.  For one that is not in the file nothing  *)
(* is written, but what is at the place is read (get_record does not look  *)
(* at the result of recordpoint).                                          *)
GetRecord(p, k) ==
  call' = <<"get", p>> /\ Readable /\ ReadsFrom(IF p \in Places THEN p ELSE place, k)

PutRecord(p, d) ==
  /\ call' = <<"put", p, d>>
  /\ IF kind \in {"inout", "ram"} /\ p \in Places THEN WritesFrom(p, d) ELSE Refuses

Next ==
  \/ \E k \in Kinds : Open(k)
  \/ kind # "none" /\
       \/ Close \/ Unread \/ Deplete \/ ToEnd
       \/ \E n \in Int : Step(n)
       \/ \E p \in Nat : Point(p)
       \/ \E k \in Nat : Read(k) \/ \E p \in Nat : GetRecord(p, k)
       \/ \E d \in Seq(Byte) : Write(d) \/ \E p \in Nat : PutRecord(p, d)

Spec == Init /\ [][Next]_absvars
=============================================================================
