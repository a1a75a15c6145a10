------------------------- MODULE MCIncrementalLoad -------------------------
(***************************************************************************)
(* IncrementalLoad for TLC: system fg has two sources, as in the manifest, *)
(* whose records can have the same ids.  Contents and sources are only     *)
(* compared, never chosen by.                                              *)
(***************************************************************************)
EXTENDS IncrementalLoad, TLC

MCSystemOf == [x \in Sources |-> "fg"]

Symmetry == Permutations(Vals) \cup Permutations(Sources)
=============================================================================
