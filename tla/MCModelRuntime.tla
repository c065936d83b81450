--------------------------- MODULE MCModelRuntime ---------------------------
(* Instances of ModelRuntime. Calls are interchangeable. *)
EXTENDS ModelRuntime, TLC

Symmetric == Permutations(Calls)
=============================================================================
