------------------------------ MODULE MCMemory -------------------------------
(* Instances of Mind for TLC.  What belongs to different kinds may share   *)
(* its names, as no behaviour follows two kinds: fewer symmetries to try.    *)
EXTENDS Mind, TLC

Symmetry == Permutations(Extractions) \cup Permutations(Contents) \cup Permutations(Nodes)
==============================================================================
