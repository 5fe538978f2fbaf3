------------------------------ MODULE MCMapping ------------------------------
(* Symmetry for TLC.  Pointers are not symmetric: AnyPointer is one of them. *)
EXTENDS Mapping, TLC

Symmetry == Permutations(Threads) \cup Permutations(Values)
=============================================================================
