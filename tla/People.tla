-------------------------------- MODULE People --------------------------------
(***************************************************************************)
(* The people the connections service introduces to one another.  A pair   *)
(* <<a, b>> is directed (b as seen by a); a couple is the two of them.     *)
(***************************************************************************)
EXTENDS Naturals, FiniteSets

CONSTANTS
  Users,      \* accounts
  Leavers,    \* bound: the accounts that may be erased
  None

ASSUME PeopleAssumption == Leavers \subseteq Users /\ None \notin Users

Pairs   == {p \in Users \X Users : p[1] # p[2]}
Back(p) == <<p[2], p[1]>>
Couple(p) == {p[1], p[2]}
Couples == {Couple(p) : p \in Pairs}
===============================================================================
