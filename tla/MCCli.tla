------------------------------- MODULE MCCli --------------------------------
(* Two names, five places, a global of each sort.                          *)
EXTENDS Cli
CONSTANTS x, y, none

MCVec == 1 .. 5
MCName == {x, y}
R(t, G, top) == [type |-> t, sets |-> G, top |-> top, cut |-> FALSE]
Cut(r) == [r EXCEPT !.cut = TRUE]
End == R("end", {}, 0)

(* start and a user's global; the same in two hunks, of which the first    *)
(* takes globin or a library global; a second hunk that needs more globals *)
(* than there are; no start; a hunk cut short; not a segment.              *)
Small == <<R("hunk", {1, 5}, 5), End>>
Two   == <<R("bhunk", {2}, 2), End, R("hunk", {1, 4}, 4), End>>
Over  == <<R("hunk", {1, 3}, 3), R("hunk", {5}, 6)>>
Takes == <<R("hunk", {3, 5}, 5)>>
Short == <<R("bhunk", {1}, 1), Cut(R("bhunk", {5}, 5))>>
Bad   == <<R("hunk", {1}, 1), R("other", {}, 0)>>
CutHex == <<Cut(R("hunk", {1, 5}, 5))>>
MCImage == {Small, Two, Over, Takes, Short, Bad, CutHex, none}
Files(h, p) == [here |-> h, path |-> p]
Of(h, p, q) == [n \in MCName |-> IF n = x THEN Files(h, p) ELSE Files(q, none)]
MCDisc == {Of(Small, none, Small), Of(Small, none, Two), Of(Short, Small, Over),
           Of(Bad, Two, Takes), Of(CutHex, Small, none)}
=============================================================================
