------------------------------- MODULE Facts ---------------------------------
(***************************************************************************)
(* The facts of one user under one key, in the memory graph: written by    *)
(* background extractions (find the current node, close it, insert the new *)
(* one) and cleaned of duplicates by the nightly pass.  Facts of different *)
(* keys meet in no query that changes one.                                 *)
(*                                                                         *)
(* A closed node is never read again, so it is forgotten and its id, once  *)
(* nobody holds it, serves for a new node.                                 *)
(***************************************************************************)
EXTENDS UserMemory

CONSTANT FactIds  \* node ids

ASSUME FactAssumption == None \notin FactIds /\ IsFiniteSet(FactIds)

VARIABLES
  fact,     \* per id: what the current node says, or None
  writer,   \* per extraction: where it is in write_nodes
  losers,   \* duplicates the nightly pass still has to close
  told,     \* history: the key had a fact since the last erasure
  lost,     \* history: a writer failed between closing and inserting
  crossed   \* history: the write of one extraction began within another's

factVars == <<fact, writer, losers, told, lost, crossed>>

FreeHand == [at |-> "idle", id |-> None, says |-> None]
At(e)    == writer[e].at

Current  == {f \in FactIds : fact[f] # None}
Writing  == {e \in Extractions : At(e) \in {"closing", "inserting"}}
HeldIds  == losers \cup {writer[e].id : e \in Extractions}
FreeIds  == {f \in FactIds : fact[f] = None /\ f \notin HeldIds}

FactInit ==
  /\ fact = [f \in FactIds |-> None]
  /\ writer = [e \in Extractions |-> FreeHand]
  /\ losers = {}
  /\ told = FALSE /\ lost = FALSE /\ crossed = FALSE

-------------------------------------------------------------------------------
(* Extraction: GraphMemory.write_nodes, one fact after the other.           *)

\* A session ended; the extraction runs on its copy of the transcript.
Extract(e) ==
  /\ Known
  /\ At(e) = "idle"
  /\ writer' = [writer EXCEPT ![e].at = "ready"]
  /\ UNCHANGED <<fact, losers, told, lost, crossed, eraseVars>>

\* The node a writer finds: none, or any of the current ones (LIMIT 1).
FindCurrent(e, c) ==
  \/ /\ Current = {}
     /\ writer' = [writer EXCEPT ![e] = [at |-> "inserting", id |-> None, says |-> c]]
  \/ \E f \in Current :
       IF fact[f] = c THEN UNCHANGED writer
       ELSE writer' = [writer EXCEPT ![e] = [at |-> "closing", id |-> f, says |-> c]]

Find(e, c) ==
  /\ At(e) = "ready"
  /\ FindCurrent(e, c)
  /\ crossed' = (Writing # {} \/ (crossed /\ Cardinality(Current) > 1))
  /\ UNCHANGED <<fact, losers, told, lost, eraseVars>>

\* Mutant: the new fact is inserted next to the old one.
CloseNothing(e) ==
  /\ At(e) = "closing"
  /\ writer' = [writer EXCEPT ![e].at = "inserting"]
  /\ UNCHANGED <<fact, losers, told, lost, crossed, eraseVars>>

CloseOld(e) ==
  /\ At(e) = "closing"
  /\ fact' = [fact EXCEPT ![writer[e].id] = None]
  /\ writer' = [writer EXCEPT ![e].at = "inserting"]
  /\ UNCHANGED <<losers, told, lost, crossed, eraseVars>>

InsertFact(e) ==
  /\ At(e) = "inserting"
  /\ Stores
  /\ \E f \in FreeIds : fact' = [fact EXCEPT ![f] = writer[e].says]
  /\ writer' = [writer EXCEPT ![e] = [FreeHand EXCEPT !.at = "ready"]]
  /\ told' = TRUE /\ lost' = FALSE
  /\ UNCHANGED <<losers, crossed>>

\* All written, or a statement failed: write_nodes logs it and drops the rest;
\* the task may also die with its process.
ExtractionEnds(e) ==
  /\ At(e) # "idle"
  /\ writer' = [writer EXCEPT ![e] = FreeHand]
  /\ lost' = (lost \/ (At(e) = "inserting" /\ writer[e].id # None))
  /\ UNCHANGED <<fact, losers, told, crossed, eraseVars>>

-------------------------------------------------------------------------------
(* RESOLVE, a stage of the nightly pass, and the erasure of the user.       *)

\* Mutant: the kept node is closed with the others.
KeepNone ==
  /\ losers = {}
  /\ Cardinality(Current) > 1
  /\ losers' = Current
  /\ UNCHANGED <<fact, writer, told, lost, crossed, eraseVars>>

\* Reads the newest nodes (at most `limit`), keeps the one of highest
\* confidence, which decays and is the model's, so any.
ReadDuplicates ==
  /\ losers = {}
  /\ \E seen \in SUBSET Current : \E kept \in seen :
       /\ Cardinality(seen) > 1
       /\ losers' = seen \ {kept}
  /\ UNCHANGED <<fact, writer, told, lost, crossed, eraseVars>>

\* One closure; a failed one is skipped.
CloseLoser(f) ==
  /\ f \in losers
  /\ losers' = losers \ {f}
  /\ fact' \in {fact, [fact EXCEPT ![f] = None]}
  /\ UNCHANGED <<writer, told, lost, crossed, eraseVars>>

EraseBaseOfFacts == BaseErased /\ UNCHANGED factVars

EraseFacts ==
  /\ GraphErased
  /\ fact' = [f \in FactIds |-> None]
  /\ told' = FALSE /\ lost' = FALSE
  /\ UNCHANGED <<writer, losers, crossed>>

FactNext ==
  \/ \E e \in Extractions :
       \/ Extract(e) \/ CloseOld(e) \/ InsertFact(e) \/ ExtractionEnds(e)
       \/ \E c \in Contents : Find(e, c)
  \/ ReadDuplicates
  \/ \E f \in FactIds : CloseLoser(f)
  \/ EraseBaseOfFacts \/ EraseFacts

FactSpec == FactInit /\ ErasureInit /\ [][FactNext]_<<factVars, eraseVars>>

-------------------------------------------------------------------------------
(* Properties.                                                              *)

Hands == [at : {"idle", "ready", "closing", "inserting"},
          id : FactIds \cup {None}, says : Contents \cup {None}]

FactTypeOK ==
  /\ fact \in [FactIds -> Contents \cup {None}]
  /\ writer \in [Extractions -> Hands]
  /\ losers \subseteq FactIds
  /\ told \in BOOLEAN /\ lost \in BOOLEAN /\ crossed \in BOOLEAN

\* Something known is not forgotten: a key that had a fact has one, or one is
\* about to be inserted, however extractions and the nightly clean-up
\* interleave; only a write that failed half-way leaves it empty.
KnownStaysKnown ==
  told /\ ~lost => Current # {} \/ \E e \in Extractions : At(e) = "inserting"

\* One key has one current fact, unless one extraction began its write within
\* another's: there is no lock, and both may close the same node.
OneCurrentFact == ~crossed => Cardinality(Current) <= 1

\* An erasure empties the graph of facts; only an extraction that was under way
\* when it began may store one again.
FactsErased == erasure = "done" /\ ~straggler => Current = {}
==============================================================================
