----------------------------- MODULE MCReadCache -----------------------------
(* ReadCache on small instances: handles are alike, and so are runs. *)
EXTENDS ReadCache, TLC

Symmetry == Permutations(Handle) \cup Permutations(Run)
=============================================================================
