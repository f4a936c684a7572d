---------------------------- MODULE MCRendezvous ----------------------------
(* Instances of Rendezvous for TLC.                                         *)
EXTENDS Rendezvous, TLC

CONSTANTS m1, m2, u1, u2, u3

\* One meet of u1 and u2; with a second one, u1 is in both.
MCParty == [m \in MeetIds |-> [s \in Side |->
             IF s = "a" THEN u1 ELSE IF m = m1 THEN u2 ELSE u3]]

\* Two sides share no user, so users other than u1 may be swapped.
HandlerSymmetry == Permutations(Handlers)
==============================================================================
