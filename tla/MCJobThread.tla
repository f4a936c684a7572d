----------------------------- MODULE MCJobThread -----------------------------
(* Instances of JobThread for TLC.                                          *)
EXTENDS JobThread, TLC

CONSTANTS j1, j2, j3, acme, zen

\* Two jobs of one partner, and the fallback of another.
MCPartner == [j \in {j1, j2, j3} |-> IF j = j3 THEN zen ELSE acme]

Symmetry == Permutations(Ids) \cup Permutations(Passes) \cup Permutations(Sessions)
==============================================================================
