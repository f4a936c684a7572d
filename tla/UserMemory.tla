----------------------------- MODULE UserMemory ------------------------------
(***************************************************************************)
(* What the parts of the brain's memory of one user have in common: the    *)
(* background extractions and the sessions that write it, and the erasure  *)
(* of the user, which empties Postgres and Redis first and the graph then. *)
(***************************************************************************)
EXTENDS Naturals, FiniteSets

CONSTANTS
  Extractions,  \* background tasks, one per ended session of the user
  Contents,     \* what a fact or a trait may say
  None

ASSUME MemoryAssumption == None \notin Contents

VARIABLES
  erasure,    \* how far Memory.delete got: "none", "base", "done"
  straggler   \* history: something was stored after the erasure had begun

eraseVars == <<erasure, straggler>>

ErasureInit   == erasure = "none" /\ straggler = FALSE
ErasureTypeOK == erasure \in {"none", "base", "done"} /\ straggler \in BOOLEAN

\* GraphMemory.delete erases the base store, then the graph; the caller repeats
\* it after a failure, so either half may come again.
BaseErased  == erasure' = (IF erasure = "done" THEN "done" ELSE "base") /\ UNCHANGED straggler
GraphErased == erasure # "none" /\ erasure' = "done" /\ UNCHANGED straggler

\* A user who asked to be erased ends no further session.
Known == erasure = "none"

\* Something is stored: by what was under way, when the erasure has begun.
Stores == straggler' = (straggler \/ ~Known) /\ UNCHANGED erasure
==============================================================================
