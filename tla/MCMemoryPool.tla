---------------------------- MODULE MCMemoryPool ----------------------------
(* Small instances of MemoryPool. *)
EXTENDS MemoryPool, TLC

CONSTANTS o1, o2, o3, o4

\* The memory of all objects is alike.
MCSymmetry == Permutations(Object)
=============================================================================
