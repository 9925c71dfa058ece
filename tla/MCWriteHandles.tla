---------------------------- MODULE MCWriteHandles ----------------------------
(* Handles are interchangeable, and so are tasks, in the safety properties.    *)
EXTENDS WriteHandles, TLC

Symmetry == Permutations(Fh) \cup Permutations(Task)
=============================================================================
