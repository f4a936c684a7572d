---------------------------- MODULE MeetLifecycle ----------------------------
(***************************************************************************)
(* What the rendezvous service promises about one meet, with no rows, no   *)
(* copies and no network: a meet is proposed, gets a plan, is agreed to by *)
(* both or declined by one, and is concluded; it never goes back, and an   *)
(* erased meet stays erased.                                               *)
(***************************************************************************)
CONSTANTS Meets, Sides

VARIABLES
  phase,  \* per meet: absent, one of the five statuses of a meet, or gone
  voice   \* per meet and side: none, yes or no

vars == <<phase, voice>>

Silence == [s \in Sides |-> "none"]

Init == /\ phase = [m \in Meets |-> "absent"]
        /\ voice = [m \in Meets |-> Silence]

Move(m, from, to) == phase[m] = from /\ phase' = [phase EXCEPT ![m] = to]

Propose(m) == Move(m, "absent", "coordinating") /\ UNCHANGED voice
Plan(m)    == Move(m, "coordinating", "confirming") /\ UNCHANGED voice

\* A first voice, which is a yes: the plan still waits for the other side.
HalfAgree(m, s) ==
  /\ phase[m] = "confirming" /\ voice[m] = Silence
  /\ voice' = [voice EXCEPT ![m][s] = "yes"]
  /\ UNCHANGED phase

\* The last missing voice is a yes and all are.
Agree(m, s) ==
  /\ voice[m][s] = "none" /\ \A t \in Sides \ {s} : voice[m][t] = "yes"
  /\ Move(m, "confirming", "confirmed")
  /\ voice' = [voice EXCEPT ![m][s] = "yes"]

\* One no is enough.
Decline(m, s) ==
  /\ voice[m][s] = "none"
  /\ Move(m, "confirming", "cancelled")
  /\ voice' = [voice EXCEPT ![m][s] = "no"]

\* The other side's answer to a plan that was cancelled meanwhile.
LateVoice(m, s) ==
  /\ phase[m] = "cancelled" /\ voice[m][s] = "none"
  /\ \E v \in {"yes", "no"} : voice' = [voice EXCEPT ![m][s] = v]
  /\ UNCHANGED phase

Conclude(m) == Move(m, "confirmed", "followed_up") /\ UNCHANGED voice

\* Erasure of a participant takes any number of meets with it.
Erase ==
  \E M \in (SUBSET {m \in Meets : phase[m] \notin {"absent", "gone"}}) \ {{}} :
    /\ phase' = [m \in Meets |-> IF m \in M THEN "gone" ELSE phase[m]]
    /\ voice' = [m \in Meets |-> IF m \in M THEN Silence ELSE voice[m]]

Next ==
  \/ Erase
  \/ \E m \in Meets :
       \/ Propose(m) \/ Plan(m) \/ Conclude(m)
       \/ \E s \in Sides : HalfAgree(m, s) \/ Agree(m, s) \/ Decline(m, s) \/ LateVoice(m, s)

Spec == Init /\ [][Next]_vars
==============================================================================
