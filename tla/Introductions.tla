---------------------------- MODULE Introductions ----------------------------
(***************************************************************************)
(* The connections service, one to one: the nightly passes that ingest the *)
(* pool, score it, judge pairs and surface introductions; the route by     *)
(* which the companion posts a user's yes or no, which creates a meet when *)
(* both said yes; and the erasure of an account, service after service.    *)
(*                                                                         *)
(* A pass reads the pool once, reads what it needs user by user and saves  *)
(* pair by pair, with awaits (a profile fetch, a model call, a check-in)   *)
(* in between.  A pair <<a, b>> is directed: b introduced to a.            *)
(***************************************************************************)
EXTENDS People

CONSTANTS
  Passes,     \* passes that can run at once (each cron job, one-shot CLIs)
  Handlers,   \* POST /matches/response requests in flight at once
  MaxAsked,   \* bound: check-ins the brain stores per pair
  MaxFaults   \* bound: lost calls and crashes, in total

ASSUME IntroAssumption ==
  /\ IsFiniteSet(Passes)
  /\ None \notin Users \X Users /\ None \notin Users \X {"below", "ready"}
  /\ MaxAsked \in Nat /\ MaxFaults \in Nat

Job == {"ingest", "score", "eval", "surface"}

VARIABLES
  pool,     \* users_pool by user: no row, a row below the floor, pool_ready
  scored,   \* candidate_scores: the pairs with a row
  liked,    \* eval_results: the pairs judged would_click and above threshold
  match,    \* match_state by pair: "none" is "no row"
  doing,    \* per pass: its job, or "idle"
  saw,      \* per eval pass: by_id, the pool as it was when the pass started
  left,     \* per pass: the users it read and has not come to yet
  fetched,  \* per ingest: the profile it holds
  todo,     \* per pass: the pairs it read for the user it is at
  stored,   \* per surfacing pass: the brain stored the check-in of todo's pair
  inbox,    \* the brain: undelivered check-ins by pair
  armed,    \* the companion: introductions a session waits for the answer to
  reply,    \* per handler: the pair it answers and how far it is
  meets,    \* rendezvous: meets by couple
  erasure,  \* per user: the last step done of the deletion under way
  closed,   \* accounts auth has deleted
  asked,    \* history: check-ins ever stored, by pair
  agreed,   \* history: the pairs whose user ever said yes
  faults    \* lost calls and crashes so far

tables == <<pool, scored, liked, match>>
passes == <<doing, saw, left, fetched, todo, stored>>
vars == <<tables, passes, inbox, armed, reply, meets, erasure, closed, asked, agreed, faults>>

Idle == [pair |-> None, at |-> "idle"]

Init ==
  /\ pool = [u \in Users |-> "absent"]
  /\ scored = {} /\ liked = {}
  /\ match = [p \in Pairs |-> "none"]
  /\ doing = [w \in Passes |-> "idle"]
  /\ saw = [w \in Passes |-> {}] /\ left = [w \in Passes |-> {}]
  /\ fetched = [w \in Passes |-> None]
  /\ todo = [w \in Passes |-> {}]
  /\ stored = [w \in Passes |-> FALSE]
  /\ inbox = [p \in Pairs |-> 0] /\ armed = {}
  /\ reply = [h \in Handlers |-> Idle]
  /\ meets = [c \in Couples |-> 0]
  /\ erasure = [u \in Users |-> "none"] /\ closed = {}
  /\ asked = [p \in Pairs |-> 0]
  /\ agreed = {}
  /\ faults = 0

Fault == faults < MaxFaults /\ faults' = faults + 1

-------------------------------------------------------------------------------
(* What the passes read.                                                    *)

\* Mutant: the roster is every account there ever was.
EveryAccount == Users

\* Auth's list of user ids: an account is there until auth erased it.
Roster == Users \ closed

\* What a profile of u can amount to: an erased memory serves an empty profile.
ProfileOf(u) == IF erasure[u] = "none" THEN {"ready", "below"} ELSE {"below"}

\* get_pool_users.
Ready == {u \in Users : pool[u] = "ready"}

\* Mutant: only an introduction still open counts as shown.
ShownIfOpen == {p \in Pairs : match[p] = "shown"}

\* get_shown_user_ids: pairs surfaced before are not offered again.
Shown == {p \in Pairs : match[p] \in {"shown", "accepted", "skipped"}}

\* get_surfaceable_matches: a JOIN of verdict and score, not yet shown.
Surfaceable == (scored \cap liked) \ Shown

PairsOf(a) == {p \in Pairs : p[1] = a}

\* generate_candidates: the top of those in the pool and not shown before.
Candidates(a) == SUBSET {p \in PairsOf(a) : p[2] \in Ready /\ p \notin Shown}

\* The shortlist of good enough scores; a candidate the eval pass did not see
\* in the pool is skipped.
Shortlist(w, a) == SUBSET {p \in PairsOf(a) \cap scored : p[2] \in saw[w]}

\* The one best match (max_surface_per_pass), if there is any.
BestMatch(a) ==
  LET some == PairsOf(a) \cap Surfaceable
  IN  IF some = {} THEN {{}} ELSE {{p} : p \in some}

\* What a pass may read for user a.
Reads(w, a) == CASE doing[w] = "score" -> Candidates(a)
                 [] doing[w] = "eval"  -> Shortlist(w, a)
                 [] OTHER              -> BestMatch(a)

-------------------------------------------------------------------------------
(* The nightly passes.                                                      *)

StartPass(w, j) ==
  /\ doing[w] = "idle"
  /\ doing' = [doing EXCEPT ![w] = j]
  /\ left' = [left EXCEPT ![w] = IF j = "ingest" THEN Roster ELSE Ready]
  /\ saw' = [saw EXCEPT ![w] = IF j = "eval" THEN Ready ELSE {}]
  /\ UNCHANGED <<tables, fetched, todo, stored, inbox, armed, reply, meets, erasure, closed, asked, agreed, faults>>

\* The pass turns to user a; a failed read only skips the user.
Visit(w, a) ==
  /\ a \in left[w] /\ todo[w] = {} /\ fetched[w] = None
  /\ left' = [left EXCEPT ![w] = @ \ {a}]
  /\ IF doing[w] = "ingest"
     THEN /\ \E got \in ProfileOf(a) : fetched' = [fetched EXCEPT ![w] = <<a, got>>]
          /\ UNCHANGED todo
     ELSE /\ \E read \in Reads(w, a) : todo' = [todo EXCEPT ![w] = read]
          /\ UNCHANGED fetched
  /\ UNCHANGED <<tables, doing, saw, stored, inbox, armed, reply, meets, erasure, closed, asked, agreed, faults>>

Skip(w, a) ==
  /\ a \in left[w] /\ todo[w] = {} /\ fetched[w] = None
  /\ Fault
  /\ left' = [left EXCEPT ![w] = @ \ {a}]
  /\ UNCHANGED <<tables, doing, saw, fetched, todo, stored, inbox, armed, reply, meets, erasure, closed, asked, agreed>>

\* _ingest_one: the snapshot and its pool_ready flag.
SaveSnapshot(w) ==
  /\ fetched[w] # None
  /\ pool' = [pool EXCEPT ![fetched[w][1]] = fetched[w][2]]
  /\ fetched' = [fetched EXCEPT ![w] = None]
  /\ UNCHANGED <<scored, liked, match, doing, saw, left, todo, stored, inbox, armed, reply, meets, erasure, closed, asked, agreed, faults>>

SaveScore(w, p) ==
  /\ doing[w] = "score" /\ p \in todo[w]
  /\ scored' = scored \cup {p}
  /\ todo' = [todo EXCEPT ![w] = @ \ {p}]
  /\ UNCHANGED <<pool, liked, match, doing, saw, left, fetched, stored, inbox, armed, reply, meets, erasure, closed, asked, agreed, faults>>

\* The model's verdict replaces the earlier one; a malformed one is skipped.
SaveVerdict(w, p) ==
  /\ doing[w] = "eval" /\ p \in todo[w]
  /\ liked' \in {liked \cup {p}, liked \ {p}}
  /\ todo' = [todo EXCEPT ![w] = @ \ {p}]
  /\ UNCHANGED <<pool, scored, match, doing, saw, left, fetched, stored, inbox, armed, reply, meets, erasure, closed, asked, agreed, faults>>

\* The brain inserts the check-in.
Deliver(p) ==
  /\ asked[p] < MaxAsked
  /\ inbox' = [inbox EXCEPT ![p] = @ + 1]
  /\ asked' = [asked EXCEPT ![p] = @ + 1]

\* _surface_one: the brain stored the check-in and said so.
Queue(w, p) ==
  /\ doing[w] = "surface" /\ p \in todo[w] /\ ~stored[w]
  /\ Deliver(p)
  /\ stored' = [stored EXCEPT ![w] = TRUE]
  /\ UNCHANGED <<tables, doing, saw, left, fetched, todo, armed, reply, meets, erasure, closed, agreed, faults>>

\* Mutant: the introduction is taken as shown when the brain refused it.
RefuseAsShown(w, p) ==
  /\ doing[w] = "surface" /\ p \in todo[w] /\ ~stored[w]
  /\ todo' = [todo EXCEPT ![w] = {}]
  /\ match' = [match EXCEPT ![p] = "skipped"]
  /\ UNCHANGED <<pool, scored, liked, doing, saw, left, fetched, stored, inbox, armed, reply, meets, erasure, closed, asked, agreed, faults>>

\* The brain refused: nothing is saved, the next pass tries again.
Refuse(w, p) ==
  /\ doing[w] = "surface" /\ p \in todo[w] /\ ~stored[w]
  /\ todo' = [todo EXCEPT ![w] = {}]
  /\ UNCHANGED <<tables, doing, saw, left, fetched, stored, inbox, armed, reply, meets, erasure, closed, asked, agreed, faults>>

\* The brain stored it but the answer was lost or late.
Unanswered(w, p) ==
  /\ doing[w] = "surface" /\ p \in todo[w] /\ ~stored[w]
  /\ Fault
  /\ Deliver(p)
  /\ todo' = [todo EXCEPT ![w] = {}]
  /\ UNCHANGED <<tables, doing, saw, left, fetched, stored, armed, reply, meets, erasure, closed, agreed>>

\* Mutant: the pass goes on as if the next check-in were stored already.
SaveShownStored(w, p) ==
  /\ stored[w] /\ p \in todo[w]
  /\ match' = [match EXCEPT ![p] = "shown"]
  /\ todo' = [todo EXCEPT ![w] = {}]
  /\ UNCHANGED <<pool, scored, liked, doing, saw, left, fetched, stored, inbox, armed, reply, meets, erasure, closed, asked, agreed, faults>>

\* save_match_state: an upsert, whatever the row says by now.
SaveShown(w, p) ==
  /\ stored[w] /\ p \in todo[w]
  /\ match' = [match EXCEPT ![p] = "shown"]
  /\ todo' = [todo EXCEPT ![w] = {}]
  /\ stored' = [stored EXCEPT ![w] = FALSE]
  /\ UNCHANGED <<pool, scored, liked, doing, saw, left, fetched, inbox, armed, reply, meets, erasure, closed, asked, agreed, faults>>

Stop(w) ==
  /\ doing' = [doing EXCEPT ![w] = "idle"]
  /\ saw' = [saw EXCEPT ![w] = {}] /\ left' = [left EXCEPT ![w] = {}]
  /\ todo' = [todo EXCEPT ![w] = {}]
  /\ fetched' = [fetched EXCEPT ![w] = None]
  /\ stored' = [stored EXCEPT ![w] = FALSE]
  /\ UNCHANGED <<tables, inbox, armed, reply, meets, erasure, closed, asked, agreed>>

Finish(w) ==
  /\ doing[w] # "idle" /\ left[w] = {} /\ todo[w] = {} /\ fetched[w] = None
  /\ Stop(w)
  /\ UNCHANGED faults

\* The process dies, or the save raises.
Crash(w) == doing[w] # "idle" /\ Fault /\ Stop(w)

-------------------------------------------------------------------------------
(* The answer to an introduction.                                           *)

\* open_session delivers the check-in and waits for the user's next message.
OpenSession(p) ==
  /\ inbox[p] > 0 /\ p \notin armed /\ p[1] \notin closed
  /\ inbox' = [inbox EXCEPT ![p] = @ - 1]
  /\ armed' = armed \cup {p}
  /\ UNCHANGED <<tables, passes, reply, meets, erasure, closed, asked, agreed, faults>>

\* The companion posts the yes or no; the route's first statement is an UPDATE,
\* which does nothing without a row.
Respond(h, p, yes) ==
  /\ reply[h] = Idle
  /\ p \in armed
  /\ armed' = armed \ {p}
  /\ agreed' = IF yes THEN agreed \cup {p} ELSE agreed
  /\ match' = IF match[p] = "none" THEN match
              ELSE [match EXCEPT ![p] = IF yes THEN "accepted" ELSE "skipped"]
  /\ reply' = IF yes THEN [reply EXCEPT ![h] = [pair |-> p, at |-> "saved"]] ELSE reply
  /\ UNCHANGED <<pool, scored, liked, passes, inbox, meets, erasure, closed, asked, faults>>

\* The session ends without an answer, or the companion's post is lost.
NoResponse(p) ==
  /\ p \in armed
  /\ armed' = armed \ {p}
  /\ UNCHANGED <<tables, passes, inbox, reply, meets, erasure, closed, asked, agreed, faults>>

\* Mutant: a row of the other side is enough.
ReadAnyReverse(h) ==
  /\ reply[h].at = "saved"
  /\ reply' = [reply EXCEPT ![h] = IF match[Back(reply[h].pair)] # "none"
                                   THEN [@ EXCEPT !.at = "mutual"] ELSE Idle]
  /\ UNCHANGED <<tables, passes, inbox, armed, meets, erasure, closed, asked, agreed, faults>>

\* Mutant: so that only one of two answers creates the meet, the answer of the
\* couple's first side does.
ReadReverseIfFirst(h) ==
  /\ reply[h].at = "saved"
  /\ reply' = [reply EXCEPT ![h] =
       IF /\ match[Back(reply[h].pair)] = "accepted"
          /\ reply[h].pair = CHOOSE p \in Pairs : Couple(p) = Couple(reply[h].pair)
       THEN [@ EXCEPT !.at = "mutual"] ELSE Idle]
  /\ UNCHANGED <<tables, passes, inbox, armed, meets, erasure, closed, asked, agreed, faults>>

\* Has the other side accepted too?  Otherwise the handler is done.
ReadReverse(h) ==
  /\ reply[h].at = "saved"
  /\ reply' = [reply EXCEPT ![h] = IF match[Back(reply[h].pair)] = "accepted"
                                   THEN [@ EXCEPT !.at = "mutual"] ELSE Idle]
  /\ UNCHANGED <<tables, passes, inbox, armed, meets, erasure, closed, asked, agreed, faults>>

\* create_meet; the answer is not looked at.
CreateMeet(h) ==
  /\ reply[h].at = "mutual"
  /\ meets' = [meets EXCEPT ![Couple(reply[h].pair)] = @ + 1]
  /\ reply' = [reply EXCEPT ![h] = Idle]
  /\ UNCHANGED <<tables, passes, inbox, armed, erasure, closed, asked, agreed, faults>>

\* The rendezvous service is down, or the handler dies after its update.
CreateFails(h) ==
  /\ reply[h] # Idle
  /\ Fault
  /\ reply' = [reply EXCEPT ![h] = Idle]
  /\ UNCHANGED <<tables, passes, inbox, armed, meets, erasure, closed, asked, agreed>>

-------------------------------------------------------------------------------
(* DELETE /users/{id}: memory, auth, connections, rendezvous, in that order.*)
(* A step that fails raises, and the deletion is asked for again.           *)

Spares(u) == {p \in Pairs : u \notin Couple(p)}

\* Asked for again, the deletion starts over.
EraseMemory(u) ==
  /\ u \in Leavers
  /\ inbox' = [p \in Pairs |-> IF p[1] = u THEN 0 ELSE inbox[p]]
  /\ erasure' = [erasure EXCEPT ![u] = "memory"]
  /\ UNCHANGED <<tables, passes, armed, reply, meets, closed, asked, agreed, faults>>

EraseAccount(u) ==
  /\ erasure[u] = "memory"
  /\ erasure' = [erasure EXCEPT ![u] = "auth"]
  /\ closed' = closed \cup {u}
  /\ UNCHANGED <<tables, passes, inbox, armed, reply, meets, asked, agreed, faults>>

\* PgStore.delete_user: one transaction.
EraseRows(u) ==
  /\ erasure[u] = "auth"
  /\ pool' = [pool EXCEPT ![u] = "absent"]
  /\ scored' = scored \cap Spares(u) /\ liked' = liked \cap Spares(u)
  /\ match' = [p \in Pairs |-> IF p \in Spares(u) THEN match[p] ELSE "none"]
  /\ erasure' = [erasure EXCEPT ![u] = "connections"]
  /\ UNCHANGED <<passes, inbox, armed, reply, meets, closed, asked, agreed, faults>>

EraseMeets(u) ==
  /\ erasure[u] = "connections"
  /\ meets' = [c \in Couples |-> IF u \in c THEN 0 ELSE meets[c]]
  /\ erasure' = [erasure EXCEPT ![u] = "done"]
  /\ UNCHANGED <<tables, passes, inbox, armed, reply, closed, asked, agreed, faults>>

-------------------------------------------------------------------------------
Pass(w) ==
  \/ \E j \in Job : StartPass(w, j)
  \/ \E a \in Users : Visit(w, a) \/ Skip(w, a)
  \/ SaveSnapshot(w)
  \/ \E p \in Pairs : \/ SaveScore(w, p) \/ SaveVerdict(w, p) \/ Queue(w, p)
                      \/ Refuse(w, p) \/ Unanswered(w, p) \/ SaveShown(w, p)
  \/ Finish(w) \/ Crash(w)

Answer(h) ==
  \/ \E p \in Pairs, yes \in BOOLEAN : Respond(h, p, yes)
  \/ ReadReverse(h) \/ CreateMeet(h) \/ CreateFails(h)

Erase(u) == EraseMemory(u) \/ EraseAccount(u) \/ EraseRows(u) \/ EraseMeets(u)

Next ==
  \/ \E w \in Passes : Pass(w)
  \/ \E h \in Handlers : Answer(h)
  \/ \E p \in Pairs : OpenSession(p) \/ NoResponse(p)
  \/ \E u \in Users : Erase(u)

Spec == Init /\ [][Next]_vars

-------------------------------------------------------------------------------
(* Properties.                                                              *)

\* What a pass holds goes with its job.
PassShape(w) ==
  /\ doing[w] = "idle" => left[w] = {} /\ saw[w] = {}
  /\ doing[w] \in {"idle", "ingest"} => todo[w] = {}
  /\ doing[w] = "surface" => todo[w] = {} \/ \E p \in Pairs : todo[w] = {p}
  /\ stored[w] => doing[w] = "surface" /\ todo[w] # {}
  /\ fetched[w] # None => doing[w] = "ingest"

IntroTypeOK ==
  /\ pool \in [Users -> {"absent", "below", "ready"}]
  /\ scored \subseteq Pairs /\ liked \subseteq Pairs
  /\ match \in [Pairs -> {"none", "shown", "accepted", "skipped"}]
  /\ doing \in [Passes -> Job \cup {"idle"}]
  /\ saw \in [Passes -> SUBSET Users] /\ left \in [Passes -> SUBSET Users]
  /\ fetched \in [Passes -> (Users \X {"below", "ready"}) \cup {None}]
  /\ todo \in [Passes -> SUBSET Pairs]
  /\ stored \in [Passes -> BOOLEAN]
  /\ inbox \in [Pairs -> Nat] /\ asked \in [Pairs -> Nat]
  /\ reply \in [Handlers -> [pair : Pairs, at : {"saved", "mutual"}] \cup {Idle}]
  /\ meets \in [Couples -> Nat]
  /\ erasure \in [Users -> {"none", "memory", "auth", "connections", "done"}]
  /\ agreed \subseteq Pairs
  /\ faults \in Nat
  /\ closed \subseteq Users /\ armed \subseteq Pairs
  /\ \A w \in Passes : PassShape(w)

\* "when two people have MUTUALLY accepted an introduction": no meet, and no
\* handler about to create one, unless each was asked about the other and said yes.
MeetIsMutual ==
  /\ \A p \in Pairs : meets[Couple(p)] > 0 => p \in agreed
  /\ \A h \in Handlers : reply[h].at = "mutual" =>
       reply[h].pair \in agreed /\ Back(reply[h].pair) \in agreed

\* Two accepted introductions of a couple have led to a meet, or a handler is
\* still on its way to create it, whichever order the two answers come in: as
\* long as no call is lost and neither account is being deleted.
MutualAcceptMeets ==
  faults = 0 => \A p \in Pairs :
    /\ match[p] = "accepted" /\ match[Back(p)] = "accepted"
    /\ erasure[p[1]] = "none" /\ erasure[p[2]] = "none"
    => \/ meets[Couple(p)] > 0
       \/ \E h \in Handlers : reply[h] # Idle /\ Couple(reply[h].pair) = Couple(p)

\* Two people who both said yes, and no others, are brought together.
MeetIffMutual == MeetIsMutual /\ MutualAcceptMeets

\* Passes that picked p and have not had an answer from the brain yet.
Surfacing(p) == {w \in Passes : doing[w] = "surface" /\ p \in todo[w] /\ ~stored[w]}

\* "The candidate is recorded as shown so it's never re-surfaced": while no call
\* is lost and both have their accounts, an introduction is put to the user, or
\* about to be, at most once per pass that can be surfacing at the same time.
AskedOncePerPass ==
  faults = 0 => \A p \in Pairs : Couple(p) \cap closed = {} =>
                  asked[p] + Cardinality(Surfacing(p)) <= Cardinality(Passes)

\* "a failure returns None: the caller then keeps no state": an introduction
\* leaves the surfaceable ones for good only if the brain has stored it.
ShownWasStored == \A p \in Shown : asked[p] > 0

\* Shown means asked, and asked once by each pass at most.
ShownOnce == AskedOncePerPass /\ ShownWasStored

\* Where a pass, a request or a check-in queued for somebody else (the brain
\* deletes only the user's own) still knows of u.
InFlight(u) ==
  \/ \E p \in Pairs : u \in Couple(p) /\ (inbox[p] > 0 \/ p \in armed)
  \/ \E w \in Passes : u \in left[w] \cup saw[w]
                       \/ (fetched[w] # None /\ fetched[w][1] = u)
                       \/ \E p \in todo[w] : u \in Couple(p)
  \/ \E h \in Handlers : reply[h] # Idle /\ u \in Couple(reply[h].pair)

NoRow(u) ==
  /\ pool[u] = "absent"
  /\ \A p \in Pairs : u \in Couple(p) =>
       p \notin scored \cup liked /\ match[p] = "none" /\ meets[Couple(p)] = 0

Forgotten(u) == u \in closed /\ NoRow(u) /\ ~InFlight(u)

\* Right to erasure: once the deletion went through every service and nothing
\* in flight knows of the user, no later pass or answer brings it back.
ForgottenForGood == [][\A u \in Users : Forgotten(u) => Forgotten(u)']_vars

\* "connections calls it once (create a meet)".
OneMeetPerPair == \A c \in Couples : meets[c] <= 1
==============================================================================
