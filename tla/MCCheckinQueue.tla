---------------------------- MODULE MCCheckinQueue ----------------------------
(* Instances of CheckinQueue for TLC.                                       *)
EXTENDS CheckinQueue, TLC

Symmetry == Permutations(Ids) \cup Permutations(Passes) \cup Permutations(Sessions)
==============================================================================
