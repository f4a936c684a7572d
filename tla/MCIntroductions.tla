--------------------------- MODULE MCIntroductions ---------------------------
(* Instances of Introductions for TLC: two users, two directed pairs.       *)
EXTENDS Introductions, TLC

HandlerSymmetry == Permutations(Handlers)
==============================================================================
