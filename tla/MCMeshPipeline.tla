--------------------------- MODULE MCMeshPipeline ---------------------------
(***************************************************************************)
(* MeshPipeline for TLC.  Inodes are interchangeable.                      *)
(***************************************************************************)
EXTENDS MeshPipeline, FiniteSets, TLC

\* A run has at most one file open, and two names exist: with one inode more,
\* a free one is always left.
ASSUME Cardinality(Inodes) > 2 + Cardinality(Runs) - 1

InodeSymmetry == Permutations(Inodes)
=============================================================================
