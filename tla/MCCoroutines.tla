---------------------------- MODULE MCCoroutines ----------------------------
(* The coroutine library on a few stacks. *)
EXTENDS Coroutines, TLC

(* The stacks that are not the root's are interchangeable. *)
Symmetry == Permutations(Co \ {Root})
=============================================================================
