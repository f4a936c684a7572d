---------------------------- MODULE Commitments ------------------------------
(***************************************************************************)
(* What the user said they would do, in the memory graph: written and      *)
(* de-duplicated by extractions, merged and declared due by the nightly    *)
(* pass, asked about by the proactivity engine through the check-in queue, *)
(* and resolved by the user's answer in a session.                         *)
(***************************************************************************)
EXTENDS UserMemory

CONSTANTS
  Keys,     \* the intents a commitment may be filed under
  Nodes,    \* bound: commitment nodes ever inserted
  Clients   \* the sessions a check-in may open

ASSUME CommitmentAssumption ==
  None \notin Nodes /\ IsFiniteSet(Nodes) /\ None \notin Keys

VARIABLES
  commitment,  \* the nodes; None: not inserted, or erased
  scribe,      \* per extraction: where it is in write_commitments
  merging,     \* CONSOLIDATE: nodes still to close
  ticking,     \* TICK: nodes read as pending, still to be marked due
  engine,      \* the commitment the proactivity engine has chosen, or None
  queued,      \* nodes with an undelivered check-in
  session,     \* per client: the commitment its opener is about
  doubled      \* history: keys that got a second open node in one of two ways:
               \* two extractions at once, or a tick over an answer

commitmentVars ==
  <<commitment, scribe, merging, ticking, engine, queued, session, doubled>>

Unwritten   == [at |-> "idle", key |-> None]
NoQuestion  == [at |-> "closed", on |-> None]

Stored      == {n \in Nodes : commitment[n] # None}
Resolved    == {n \in Stored : commitment[n].status \in {"kept", "dropped"}}
Pending     == {n \in Stored : commitment[n].current /\ commitment[n].status = "pending"}
Due         == {n \in Stored : commitment[n].current /\ commitment[n].status = "due"}
Open        == Pending \cup Due
OpenFor(k)  == {n \in Open : commitment[n].key = k}
HeldNodes   == merging \cup ticking \cup queued \cup {engine}
               \cup {session[s].on : s \in Clients}
FreeNodes   == Nodes \ (Stored \cup HeldNodes)
Inserting(k) == {e \in Extractions : scribe[e] = [at |-> "inserting", key |-> k]}

CommitmentInit ==
  /\ commitment = [n \in Nodes |-> None]
  /\ scribe = [e \in Extractions |-> Unwritten]
  /\ merging = {} /\ ticking = {}
  /\ engine = None
  /\ queued = {}
  /\ session = [s \in Clients |-> NoQuestion]
  /\ doubled = {}

\* MATCH (n {id}) SET ...: nothing happens when the node is gone.
WithStatus(n, to) ==
  IF commitment[n] = None THEN commitment ELSE [commitment EXCEPT ![n].status = to]

WithoutCurrent(n) ==
  IF commitment[n] = None THEN commitment ELSE [commitment EXCEPT ![n].current = FALSE]

-------------------------------------------------------------------------------
(* Extraction: GraphMemory.write_commitments, one after the other.          *)

Hear(e) ==
  /\ Known
  /\ scribe[e].at = "idle"
  /\ scribe' = [scribe EXCEPT ![e].at = "ready"]
  /\ UNCHANGED <<commitment, merging, ticking, engine, queued, session, doubled, eraseVars>>

\* Mutant: only a pending node of the key counts as open.
FindPendingOnly(e, k) ==
  /\ scribe[e].at = "ready"
  /\ IF \E n \in Pending : commitment[n].key = k THEN UNCHANGED scribe
     ELSE scribe' = [scribe EXCEPT ![e] = [at |-> "inserting", key |-> k]]
  /\ doubled' = doubled
  /\ UNCHANGED <<commitment, merging, ticking, engine, queued, session, eraseVars>>

\* An open node of the key is only touched (its deadline and mention count).
FindOpen(e, k) ==
  /\ scribe[e].at = "ready"
  /\ IF OpenFor(k) # {}
     THEN UNCHANGED scribe /\ doubled' = doubled
     ELSE /\ scribe' = [scribe EXCEPT ![e] = [at |-> "inserting", key |-> k]]
          /\ doubled' = IF Inserting(k) # {} THEN doubled \cup {k} ELSE doubled \ {k}
  /\ UNCHANGED <<commitment, merging, ticking, engine, queued, session, eraseVars>>

InsertCommitment(e) ==
  /\ scribe[e].at = "inserting"
  /\ Stores
  /\ \E n \in FreeNodes :
       commitment' = [commitment EXCEPT ![n] =
         [key |-> scribe[e].key, status |-> "pending", current |-> TRUE]]
  /\ scribe' = [scribe EXCEPT ![e] = [at |-> "ready", key |-> None]]
  /\ UNCHANGED <<merging, ticking, engine, queued, session, doubled>>

\* All written, a statement failed, or the process died.
HearingEnds(e) ==
  /\ scribe[e].at # "idle"
  /\ scribe' = [scribe EXCEPT ![e] = Unwritten]
  /\ UNCHANGED <<commitment, merging, ticking, engine, queued, session, doubled, eraseVars>>

-------------------------------------------------------------------------------
(* The nightly pass: CONSOLIDATE, then TICK.                                *)

\* The model's groups are filtered by a second read; of each group the soonest
\* deadline survives, else the newest.
MergeReads ==
  /\ merging = {} /\ ticking = {}
  /\ \E group \in SUBSET Open : \E kept \in group :
       /\ Cardinality(group) > 1
       /\ merging' = group \ {kept}
  /\ UNCHANGED <<commitment, scribe, ticking, engine, queued, session, doubled, eraseVars>>

MergeCloses(n) ==
  /\ n \in merging
  /\ merging' = merging \ {n}
  /\ commitment' = WithoutCurrent(n)
  /\ UNCHANGED <<scribe, ticking, engine, queued, session, doubled, eraseVars>>

\* Mutant: the tick reads every node of the user.
TickReadsAll ==
  /\ merging = {} /\ ticking = {}
  /\ ticking' \in (SUBSET Stored) \ {{}}
  /\ UNCHANGED <<commitment, scribe, merging, engine, queued, session, doubled, eraseVars>>

\* Those whose deadline or fallback window has passed, at any time.
TickReads ==
  /\ merging = {} /\ ticking = {}
  /\ ticking' \in (SUBSET Pending) \ {{}}
  /\ UNCHANGED <<commitment, scribe, merging, engine, queued, session, doubled, eraseVars>>

\* The UPDATE looks at no status.
TickMarks(n) ==
  /\ n \in ticking
  /\ ticking' = ticking \ {n}
  /\ commitment' = WithStatus(n, "due")
  /\ doubled' = IF n \in Resolved THEN doubled \cup {commitment[n].key} ELSE doubled
  /\ UNCHANGED <<scribe, merging, engine, queued, session, eraseVars>>

\* A statement failed (it is logged and the rest goes on or not), or it died.
NightPassDrops ==
  /\ merging # {} \/ ticking # {}
  /\ merging' \in SUBSET merging /\ ticking' \in SUBSET ticking
  /\ UNCHANGED <<commitment, scribe, engine, queued, session, doubled, eraseVars>>

-------------------------------------------------------------------------------
(* The proactivity engine, at most one check-in at a time.                  *)

\* A due node, or a pending one whose deadline is near.  mark_commitment_reminded
\* only spaces the questions about a due one by a day, at whatever time.
EngineReads ==
  /\ engine = None /\ queued = {}
  /\ engine' \in Open
  /\ UNCHANGED <<commitment, scribe, merging, ticking, queued, session, doubled, eraseVars>>

EngineQueues ==
  /\ engine # None
  /\ Stores
  /\ queued' = queued \cup {engine}
  /\ engine' = None
  /\ UNCHANGED <<commitment, scribe, merging, ticking, session, doubled>>

\* No hint, or a failure.
EngineGivesUp ==
  /\ engine # None
  /\ engine' = None
  /\ UNCHANGED <<commitment, scribe, merging, ticking, queued, session, doubled, eraseVars>>

-------------------------------------------------------------------------------
(* A session that opens with the check-in, and the answer.                  *)

ReadCheckin(s) ==
  /\ session[s].at = "closed"
  /\ \E n \in queued : session' = [session EXCEPT ![s] = [at |-> "read", on |-> n]]
  /\ UNCHANGED <<commitment, scribe, merging, ticking, engine, queued, doubled, eraseVars>>

\* Marked delivered; the answer is awaited only if the node is still open.
OpenWith(s) ==
  /\ session[s].at = "read"
  /\ queued' = queued \ {session[s].on}
  /\ session' = [session EXCEPT ![s] =
       IF @.on \in Open THEN [@ EXCEPT !.at = "armed"] ELSE NoQuestion]
  /\ UNCHANGED <<commitment, scribe, merging, ticking, engine, doubled, eraseVars>>

\* The answer was classified as kept or dropped: an UPDATE by id, whatever
\* became of the node.
Answer(s, how) ==
  /\ session[s].at = "armed"
  /\ commitment' = WithStatus(session[s].on, how)
  /\ session' = [session EXCEPT ![s] = NoQuestion]
  /\ UNCHANGED <<scribe, merging, ticking, engine, queued, doubled, eraseVars>>

\* A second unclear answer lets it go, or the client leaves; before the opener,
\* its check-in may have been marked.
Leave(s) ==
  /\ session[s].at # "closed"
  /\ queued' \in IF session[s].at = "read" THEN {queued, queued \ {session[s].on}} ELSE {queued}
  /\ session' = [session EXCEPT ![s] = NoQuestion]
  /\ UNCHANGED <<commitment, scribe, merging, ticking, engine, doubled, eraseVars>>

-------------------------------------------------------------------------------

\* Mutant: the queue is left out of the deletion.
EraseOtherTables ==
  /\ BaseErased
  /\ UNCHANGED commitmentVars

EraseCheckins ==
  /\ BaseErased
  /\ queued' = {}
  /\ UNCHANGED <<commitment, scribe, merging, ticking, engine, session, doubled>>

EraseCommitments ==
  /\ GraphErased
  /\ commitment' = [n \in Nodes |-> None]
  /\ UNCHANGED <<scribe, merging, ticking, engine, queued, session, doubled>>

CommitmentNext ==
  \/ \E e \in Extractions :
       \/ Hear(e) \/ InsertCommitment(e) \/ HearingEnds(e)
       \/ \E k \in Keys : FindOpen(e, k)
  \/ MergeReads \/ TickReads \/ NightPassDrops
  \/ \E n \in Nodes : MergeCloses(n) \/ TickMarks(n)
  \/ EngineReads \/ EngineQueues \/ EngineGivesUp
  \/ \E s \in Clients :
       \/ ReadCheckin(s) \/ OpenWith(s) \/ Leave(s)
       \/ \E how \in {"kept", "dropped"} : Answer(s, how)
  \/ EraseCheckins \/ EraseCommitments

CommitmentSpec ==
  CommitmentInit /\ ErasureInit /\ [][CommitmentNext]_<<commitmentVars, eraseVars>>

-------------------------------------------------------------------------------
(* Properties.                                                              *)

CommitmentNodes ==
  [key : Keys, status : {"pending", "due", "kept", "dropped"}, current : BOOLEAN]

CommitmentTypeOK ==
  /\ commitment \in [Nodes -> CommitmentNodes \cup {None}]
  /\ scribe \in [Extractions -> [at : {"idle", "ready", "inserting"}, key : Keys \cup {None}]]
  /\ merging \subseteq Nodes /\ ticking \subseteq Nodes
  /\ engine \in Nodes \cup {None}
  /\ queued \subseteq Nodes
  /\ session \in [Clients -> [at : {"closed", "read", "armed"}, on : Nodes \cup {None}]]
  /\ doubled \subseteq Keys

\* Restating an intent makes no second open node: a key has one, unless two
\* extractions looked before either inserted, or a tick reopened a resolved one.
OneOpenCommitment == \A k \in Keys : k \notin doubled => Cardinality(OpenFor(k)) <= 1

\* What the user resolved stays resolved and is not read by a tick again; the
\* one exception is a tick that had read it as pending before the answer.
ResolutionStands ==
  [][\A n \in Resolved \ ticking :
       \/ commitment'[n] = None
       \/ n \in Resolved' \ ticking']_<<commitmentVars, eraseVars>>

\* An erasure removes the commitments and the check-ins about them; only what
\* was under way when it began may store one again.
CommitmentsErased == erasure = "done" /\ ~straggler => Stored = {} /\ queued = {}
==============================================================================
