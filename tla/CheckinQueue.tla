----------------------------- MODULE CheckinQueue -----------------------------
(***************************************************************************)
(* The brain's queue of proactive openers (table `pending_checkins`) for   *)
(* one user: every statement on it selects by user_id, so users do not     *)
(* meet here.                                                              *)
(*                                                                         *)
(* Producers: the hourly proactivity engine and the nightly sleep pass     *)
(* look for an undelivered check-in, wait for a model or another service,  *)
(* and then insert; the HTTP route the other services call inserts without *)
(* looking.  Consumer: Companion.open_session reads the newest undelivered *)
(* row, marks it delivered, and only then has the opener written.          *)
(***************************************************************************)
EXTENDS Naturals, Sequences, FiniteSets

CONSTANTS
  Ids,       \* ids of rows in use at one time; an id nobody holds is reused
  Passes,    \* runs of the proactivity engine or the sleep pass over this user
  Sessions,  \* clients that can be opening a session for this user
  None       \* "no row"

ASSUME QueueAssumption ==
  /\ IsFiniteSet(Passes) /\ IsFiniteSet(Ids) /\ None \notin Ids
  /\ IsFiniteSet(Sessions)

VARIABLES
  queue,   \* the undelivered rows, oldest first (ORDER BY created_at)
  source,  \* per row: who inserted it, one of our "pass"es or the "route"
  pass,    \* per pass: "idle", or "deciding" between its check and its insert
  sess,    \* per session: where open_session is
  held,    \* per session: the row it read
  said     \* history: how many sessions opened with the row

vars == <<queue, source, pass, sess, held, said>>

Elems(q) == {q[i] : i \in DOMAIN q}
Queued == Elems(queue)
Fresh  == {i \in Ids : i \notin Queued /\ \A s \in Sessions : held[s] # i}

Deciding == {p \in Passes : pass[p] = "deciding"}
OwnRows  == {i \in Queued : source[i] = "pass"}

\* The sessions that took a row and have not yet opened with it.
Opening(i) == {s \in Sessions : held[s] = i /\ sess[s] \in {"read", "marked"}}

Init ==
  /\ queue = <<>>
  /\ source = [i \in Ids |-> "pass"]
  /\ pass = [p \in Passes |-> "idle"]
  /\ sess = [s \in Sessions |-> "closed"]
  /\ held = [s \in Sessions |-> None]
  /\ said = [i \in Ids |-> 0]

-------------------------------------------------------------------------------
(* PgRedisMemory: the three statements on the table.                        *)

\* get_pending_checkin: ORDER BY created_at DESC LIMIT 1.
Pending == IF queue = <<>> THEN None ELSE queue[Len(queue)]

\* queue_checkin: a new row, the newest of all.
Insert(id, by) ==
  /\ queue' = Append(queue, id)
  /\ source' = [source EXCEPT ![id] = by]
  /\ said' = [said EXCEPT ![id] = 0]

\* mark_checkin_delivered: UPDATE ... WHERE id = $1; a row that is already
\* delivered stays so.
Without(q, id) ==
  IF id \in Elems(q)
  THEN LET k == CHOOSE i \in DOMAIN q : q[i] = id
       IN  [i \in 1..(Len(q) - 1) |-> IF i < k THEN q[i] ELSE q[i + 1]]
  ELSE q

-------------------------------------------------------------------------------
(* Producers.                                                               *)

\* Mutants: the pass does not look; it looks once and queues twice.
DecideWithoutLook(p) ==
  /\ pass[p] = "idle"
  /\ pass' = [pass EXCEPT ![p] = "deciding"]
  /\ UNCHANGED <<queue, source, sess, held, said>>

\* The last "is a check-in pending?" of a pass before its model call.
Decide(p) ==
  /\ pass[p] = "idle"
  /\ Pending = None
  /\ pass' = [pass EXCEPT ![p] = "deciding"]
  /\ UNCHANGED <<queue, source, sess, held, said>>

QueueAndStay(p) ==
  /\ pass[p] = "deciding"
  /\ \E id \in Fresh : Insert(id, "pass")
  /\ UNCHANGED <<pass, sess, held>>

\* The hint is written: queue it and return.
QueueOne(p) ==
  /\ pass[p] = "deciding"
  /\ \E id \in Fresh : Insert(id, "pass")
  /\ pass' = [pass EXCEPT ![p] = "idle"]
  /\ UNCHANGED <<sess, held>>

\* Nothing is warranted, the hint is empty, a call raised, or the process died.
GiveUp(p) ==
  /\ pass[p] = "deciding"
  /\ pass' = [pass EXCEPT ![p] = "idle"]
  /\ UNCHANGED <<queue, source, sess, held, said>>

\* POST /users/{id}/checkins: one statement, no look at the queue.
RouteQueues ==
  /\ \E id \in Fresh : Insert(id, "route")
  /\ UNCHANGED <<pass, sess, held>>

-------------------------------------------------------------------------------
(* Companion.open_session.  A session that finds no row opens without one   *)
(* and changes nothing.                                                     *)

ReadPending(s) ==
  /\ sess[s] = "closed"
  /\ Pending # None
  /\ held' = [held EXCEPT ![s] = Pending]
  /\ sess' = [sess EXCEPT ![s] = "read"]
  /\ UNCHANGED <<queue, source, pass, said>>

\* Mutant: the opener is written and the row is marked when the session ends.
MarkLater(s) ==
  /\ sess[s] = "read"
  /\ sess' = [sess EXCEPT ![s] = "marked"]
  /\ UNCHANGED <<queue, source, pass, held, said>>

MarkDelivered(s) ==
  /\ sess[s] = "read"
  /\ queue' = Without(queue, held[s])
  /\ sess' = [sess EXCEPT ![s] = "marked"]
  /\ UNCHANGED <<source, pass, held, said>>

\* The model wrote the opener; it is the session's first turn.
SayOpener(s) ==
  /\ sess[s] = "marked"
  /\ said' = [said EXCEPT ![held[s]] = @ + 1]
  /\ sess' = [sess EXCEPT ![s] = "open"]
  /\ UNCHANGED <<queue, source, pass, held>>

\* Mutant: the row a session opened with is still held when the session is over.
CloseAndHold(s) ==
  /\ sess[s] # "closed"
  /\ sess' = [sess EXCEPT ![s] = "closed"]
  /\ UNCHANGED <<queue, source, pass, held, said>>

\* The session ends, or its process stops or a call raises half-way through
\* opening it.  A later session has a new id.
CloseSession(s) ==
  /\ sess[s] # "closed"
  /\ sess' = [sess EXCEPT ![s] = "closed"]
  /\ held' = [held EXCEPT ![s] = None]
  /\ UNCHANGED <<queue, source, pass, said>>

Produce(p) == Decide(p) \/ QueueOne(p) \/ GiveUp(p)
Open(s)    == ReadPending(s) \/ MarkDelivered(s) \/ SayOpener(s)

Next ==
  \/ \E p \in Passes : Produce(p)
  \/ RouteQueues
  \/ \E s \in Sessions : Open(s) \/ CloseSession(s)

Spec == Init /\ [][Next]_vars

\* A pass returns and a client that began to open a session goes on to mark
\* the row and to end; users come back, so sessions keep being opened.
FairSpec ==
  /\ Spec
  /\ \A p \in Passes : WF_vars(QueueOne(p) \/ GiveUp(p))
  /\ \A s \in Sessions : /\ WF_vars(CloseSession(s))
                         /\ SF_vars(ReadPending(s)) /\ SF_vars(MarkDelivered(s))

-------------------------------------------------------------------------------
(* Properties.                                                              *)

TypeOK ==
  /\ queue \in Seq(Ids)
  /\ source \in [Ids -> {"pass", "route"}]
  /\ pass \in [Passes -> {"idle", "deciding"}]
  /\ sess \in [Sessions -> {"closed", "read", "marked", "open"}]
  /\ held \in [Sessions -> Ids \cup {None}]
  /\ said \in [Ids -> Nat]
  /\ \A s \in Sessions : sess[s] = "closed" <=> held[s] = None

\* "At most one undelivered row per user is ever queued".
OneUndelivered == Len(queue) <= 1

\* What the look before the model call does buy, whatever overlaps: the
\* undelivered rows of the passes and the passes about to add one are together
\* never more than the passes there are.  With one pass: at most one row.
AtMostOnePerPass == Cardinality(OwnRows) + Cardinality(Deciding) <= Cardinality(Passes)

\* A row that opened a session is no longer queued, so no session that starts
\* later opens with it again, after a crash at any point either.
SaidIsDelivered == \A i \in Ids : said[i] > 0 => i \notin Queued

\* A row opens at most one session per client that was reading when it was
\* delivered: with one client, "fires at most once".
SaidOncePerClient ==
  \A i \in Ids : said[i] + Cardinality(Opening(i)) <= Cardinality(Sessions)

\* A check-in is said, then never queued again, and to one client only once.
SaidOnce == SaidIsDelivered /\ SaidOncePerClient

\* "the companion delivers the queued opener at the next session start": while
\* sessions are opened, a queued check-in waits for ever only if the other
\* services keep queueing for ever (the newest row is taken first).
EveryCheckinDelivered ==
  \/ []<><<RouteQueues>>_vars
  \/ \A i \in Ids : i \in Queued ~> i \notin Queued
==============================================================================
