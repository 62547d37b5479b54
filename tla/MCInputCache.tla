---------------------------- MODULE MCInputCache ----------------------------
(* Bounds of the TLC runs of InputCache: one artifact under two runs' work   *)
(* prefixes, of which the store holds the first.                             *)
EXTENDS InputCache, TLC

CONSTANTS oldRun, newRun
Generations == {<<oldRun, newRun>>, <<newRun, oldRun>>}
Interchangeable == Permutations(Threads)
Sizes == [k \in Keys |-> 2]

=============================================================================
