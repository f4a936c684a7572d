# Alik: a verification project

Alik is a companion that talks with one person at a time, remembers, and now
and then brings an opener of its own: a check-in, a job, an introduction, a
meeting. It is five asyncio Python services over Postgres, Redis and a graph
store. This directory holds TLA+ models of the parts of it where several
processes touch the same rows, the TLC configurations that check them, and TLAPS
proofs of their safety properties for every instance.

Paths are relative to the repository. `BR` is `src/alik`, `CN` is
`services/connections/src/connections_service`, `MT`, `RV`, `AU` the packages of
matching, rendezvous and auth. In `PROJECT.json` the same paths start with
`src/`, the directory the repository is checked out in.

    tlasany Groups.tla                             # parse
    tlc -workers 2 -config groups.cfg MCGroups     # model-check
    tlapm GroupsProofs.tla                         # prove

## 1. Inventory

### 1.1 Components

| component | state it keeps | operations | modelled in |
|---|---|---|---|
| **Rendezvous** (`RV`) | `meets`: status, where/when, yes/no, follow-up, one asked-flag per side and stage | create, three reply routes, cron `advance_pass`, delete user | `Rendezvous`, `MeetLifecycle` |
| **Check-in queue** (`BR` proactivity, `pg_redis`, companion) | `pending_checkins` | engine and sleep pass queue, route queues, session reads, marks, speaks | `CheckinQueue` |
| **Job thread** (`MT`, sleep pass, companion) | `job_recommendations_log`, `user_job_state` | `GET /match`, follow-up due, delivered, sent, outcome | `JobThread` |
| **Introductions** (`CN`) | `users_pool`, `candidate_scores`, `eval_results`, `match_state` | ingest, score, eval, surface, response, delete user | `Introductions` |
| **Erasure fan-out** (`BR/api.py`) | none of its own | memory, auth, matching, connections, rendezvous in order | in `Introductions`; the meets' side in `Rendezvous` |
| **Groups** (`CN/cluster.py`) | `group_candidates` | cluster, propose, queue one opener per member, decline, delete user | `Groups`, `Cliques` |
| **Kernel, interests, tagger, passes' data** (`CN`) | snapshots: `users_pool`, `profile_dimensions`, `user_interests` | derive interests, score, rank, judge, choose | `Kernel`, `Interests`, `Screening` |
| **Pass log, digest** (`CN`) | `pass_runs` | count, record, sum up, alert | `PassLog` |
| **Auth** (`AU`) | the login, the profile row, the photo | sign-up with rollback, photo, delete | `Accounts` |
| **Memory graph** (`BR/memory`, extraction) | facts with validity windows, commitments, traits, signals | extract and write, resolve, decay, consolidate, erase | `Facts`, `Commitments`, `UserMemory` |
| **Living profile** (`BR/profile.py`, companion) | dimensions and traits with a status, a cooldown | observe, confirm, correct, reflect back | `Profile` |
| **Working buffer, episodes** (`pg_redis`, companion, sleep pass) | turns and a session index in Redis, summaries and reflections in Postgres | write, expire, summarise, promote, decay, reflect, erase | `Chats`, `Episodes` |
| **Parsers of the model's answers** (`BR/prompt.py`, graph, sleep pass) | none | parse, salvage, ground, merge, score | `Replies` |
| **Sleep pass** (`BR/sleep_pass.py`) | none of its own | promote, resolve, decay, reflect, detect, consolidate, prune, profile, tick, job passes | in the module of what each pass changes |
| **Companion conversation** | per session: transcript, which question is armed | open, respond, end | what it reads, marks and posts, in the module of each kind of check-in; `Chats` |
| **Catalogue, scorer** (`MT`) | static | pick a job for a user | `Choice` of `JobThread` |
| **Prompts, LLM client, CLI, configuration** | none | wording, wiring | not modelled |

### 1.2 How the components interact

* The brain polls nobody. Its two crons (nightly sleep pass, proactivity every few
  hours) and the connections and rendezvous crons **write check-ins** into
  `pending_checkins`, the others over `POST /users/{id}/checkins`.
* A session **reads the newest undelivered check-in**, marks it, has the opener
  written and *arms* one question. The user's next message is classified and the
  answer **posted back** to the service that asked (`/matches/response`,
  `/meets/{id}/pref`, `/jobs/{id}/outcome`, ...).
* Two accepted introductions make connections call rendezvous' `POST /meets`.
* `DELETE /users/{id}` on the brain calls every service in turn; the first
  failure ends it and the caller asks again.
* Every client (`*_client.py`) has a timeout and turns every failure into `None`.
  A call that timed out may still have happened. This is where most of the
  hard behaviour comes from.

### 1.3 What is hard about it

Every handler is "read, await, write", with no row locks and no version column
(the only transactions are `delete_user` and the upserts of a user's interests
and dimensions). The processes that interleave: cron passes with HTTP
handlers, one-shot command-line passes with the crons, two clients of one user
with each other, and an erasure with everything. Failures: a lost or late answer, a
service that is down, a pass or a session that dies between two statements.
`PROJECT.json` lists the places, line by line, as *hazards*, with the
properties that speak about each.

### 1.4 What makes each component correct

* Rendezvous: no meet confirmed without both voices, one plan for both, a decline or an
  erasure is final, nobody asked twice, every meet ends.
* Check-ins: bounded backlog, what was said is never queued again, everything
  queued is said.
* Jobs: one open thread, never the same job, outcomes only from answers to what was
  asked, every thread closes.
* Introductions: a meet only between two who agreed, every mutual yes meets, nobody is asked
  twice, an erased user stays erased.
* Groups: people who suit one another, everybody asked and once, nobody in two live
  groups of an interest, a decline is final.
* Screening: a person's snapshot is one profile they had, two people are judged alike from either
  side, a verdict needs evidence; the digest says what happened.
* Accounts: a login and its profile exist together, a deletion that returned left nothing.
* Memory and profile: what is known is not forgotten, one current fact and one open
  commitment per key, what the user resolved, confirmed or corrected stands, gentle questions
  keep their distance, an erasure leaves nothing.
* Chats and episodes: no turn is lost between buffer, summary and extraction, what was
  promoted does not fade.
* Answers of the model: a merge loses no intent, nothing is believed without evidence, however the answer
  is cut, repeated or late.

## 2. Plan

| step | modules | state |
|---|---|---|
| 1 | `Rendezvous`, abstract `MeetLifecycle`, `RendezvousProofs` | done |
| 2 | `CheckinQueue`, proved in `JobThreadProofs` | done |
| 3 | `JobThread` (EXTENDS `CheckinQueue`), `JobThreadProofs` | done |
| 4 | `Introductions`, `IntroductionsProofs` | done |
| 5 | `UserMemory`, `Facts`, `Commitments`, `Profile`, composed in `Memory`; `MemoryProofs` | done |
| 6 | `Groups`, `Cliques`, `GroupsProofs` | done |
| 7 | `Chats`, `Episodes`, in `Memory`; `MemoryProofs` | done |
| 8 | `Accounts`; `CommunityProofs` | done |
| 9 | `Kernel`, `Interests`, `Screening`, `PassLog`; with `Introductions` and `Accounts` in `Community`; `FoldProofs`, `ScreeningProofs`, `CommunityProofs` | done |
| 10 | `Replies`, with `Memory` in `Mind`; `MemoryProofs` | done |
| 11 | proofs without overlap: `JobThread`, the serial invariant of `Rendezvous` and its refinement of `MeetLifecycle` | done |
| 12 | proofs over data: the kernel's fairness, the derivation of interests, whole snapshots, the digest | done |
| 13 | proofs over sequences: the parsers and merges of `Replies` | done |
| 14 | an abstract life of a job thread and of a group | next |

Modules that concern one community (`Community`) or one user (`Mind`) are composed, so that one run
checks several. They share no variable, so a behaviour of the composition follows one part.

Modules with theorems reach no RECURSIVE operator: `Cliques`, the only module that declares one,
is a parameter of `Groups`, and recursion elsewhere is a fold.

## 3. The modules

A step is what the code does between two awaits that matter; a pure computation and the
statement that follows it are one step. Every database statement is atomic and runs at
once. What a model, a user or a score decides is a nondeterministic choice.
Fault budgets (`MaxFaults`) count lost calls and crashes in total.

### 3.1 Rendezvous

`row` is the table. Every handler reads the row, changes its private copy (`job`) and
saves **the whole row**; the pass works from the list it read before its first network
call (`snap`, then `left`, `cur`, `dirty` while it asks). The reply functions
`ApplyPref`, `ApplyConfirm`, `ApplyFollowup` are the three functions of
`RV/lifecycle.py`, on a copy. `Remember` is the social event told to the brain,
`AskAccepted`, `AskRefused` and `AskUnanswered` the three outcomes of queueing a check-in.
`accepted`, `memories` are what the brain holds; `said`, `shown`, `erased` are
history. With `Overlap = FALSE` an operation starts only when none is under way: this
is what the unit tests exercise, and the promises the code can keep are
checked there; with `Overlap = TRUE` everything interleaves.

`MeetLifecycle` is what a meet promises without rows or copies: `absent`,
`coordinating`, `confirming`, then `confirmed` and `followed_up` or `cancelled`, and
`gone`. `Rendezvous` implements it when operations do not overlap (`LifecycleSpec`).

### 3.2 CheckinQueue

`pending_checkins` of one user, as the sequence of undelivered rows. A pass *decides*
(the last look at the queue before the model call) and later inserts; the HTTP route
inserts without a look; a session reads the newest row, marks it, speaks, closes. Row
ids nobody holds are reused, so the model is finite with no bound on the
number of check-ins.

### 3.3 JobThread

`log` is the user's part of `job_recommendations_log`. The module EXTENDS `CheckinQueue` and
adds to its statements what a check-in is *about*; a nightly pass first runs the follow-ups
(`check_job_followups`), then `match_jobs`, whose `GET /match` is three steps in the
matching service (`MatchReads`, `MatchPicks`, `MatchLogs`) that go on after the brain gave up
(`GivesUp`). Days are the three windows the code tells apart: `new`, `due`,
`cold`. A session reads, marks, sets up (it asks the matching service what it is about to talk
about), speaks, takes one reply, leaves. `Failing` selects which of its calls may fail.

### 3.4 Introductions

`pool`, `scored`, `liked`, `match` are the four tables, as far as the passes tell their
rows apart; a pair is directed, `<<a, b>>` being b introduced to a. A pass has one of four jobs:
it reads a list of users once (`StartPass`), then comes to one user after another (`Visit`,
or `Skip` on a failed read), holds what it read (`fetched`, `todo`) and saves piece by piece.
The response handler is three statements with awaits between them: the UPDATE (`Respond`),
the read of the other side (`ReadReverse`), the call to rendezvous (`CreateMeet`).
`inbox` and `armed` are the brain's side of an introduction.
`DELETE /users/{id}` is four steps; after a failure it starts over, at any time.

Two details matter and are in the model. The UPDATE of `Respond` does nothing without a
row, and the row is written only after the check-in was stored, so an answer can come before
its row. And a session of an erased user can still answer: `/chat` looks no account up.

### 3.5 Memory: UserMemory, Facts, Commitments, Profile

`UserMemory` holds what the kinds share: the erasure, which empties Postgres and Redis
(`BaseErased`) and then the graph (`GraphErased`) and may be repeated, and the history variable
`straggler`: something was stored after it began. Each kind is followed for one user:

* `Facts`, one key. `writer` is an extraction in `write_nodes`: it finds the current node (any of them:
  `LIMIT 1`), closes it, inserts its own; `ReadDuplicates` and `CloseLoser` are the nightly RESOLVE. `crossed`
  remembers that a write began within another, `lost` that one failed half-way.
* `Commitments`, several keys. `scribe` is an extraction in `write_commitments`, `merging` and `ticking`
  what CONSOLIDATE and TICK have read and not yet changed, `engine` what the proactivity engine has
  chosen, `queued` the check-in about it, `session` the client that opens with it and awaits the answer.
  Every UPDATE is by id and looks at nothing else (`WithStatus`, `WithoutCurrent`); on an erased node it does nothing.
* `Profile`, the traits of one key and one dimension. `pen` is whoever writes traits (the pass, or a session with the
  user's own words), `snapshot` the row `profile_pass` read before it asked the model, and will put back whole;
  `question`, `fired`, `remaining` are the companion's gentle question, `_rb_done` and the cooldown.
* `Chats`, the buffers of a user's sessions. A turn is buffered and indexed (`Respond`), its reply later (`Reply`); `ending` is
  an `end_session` with the copy it read, waiting for the summary, then for the clearing, then handed to the extraction. The
  erasure looks at the index (`Sweep`) and then deletes what it saw (`EraseChats`). `missed` is history: turns that came
  while their session was being summarised, that timed out, or of which the model wrote nothing; `tasked`: turns an extraction took over.
* `Episodes`, the rows the ends of sessions store, PROMOTE (`picked` while the model scores them), the decay, the reflection.

A closed fact or trait is never read as current again, so the model forgets it and reuses its id once nobody
holds it; nothing else bounds how long a behaviour may be. `Memory` composes the three: no statement reads nodes of one kind to change
another, and every process visits the kinds one after the other at times the modules leave open, so a behaviour
follows one kind (`focus`) and the erasure.

### 3.6 Community: Introductions with Screening, PassLog, Accounts

`Introductions` leaves to chance what the passes compute; the other modules compute it.
`Kernel` is `CN/kernel.py`: three components of a score, its weights renormalised over what is
there, confidence, flags. `Interests` is the keyword way and the tagging way to interest
edges. Both are pure. `Screening` runs them over tables: a person's profile moves on (`Story`), an
ingest writes its three tables one after the other and may be cut between them (`torn`),
scoring, evaluation and surfacing take one user or pair at a time, so they interleave with it.

`PassLog` is what a pass counts, the row it leaves (or fails to), and the
digest's arithmetic; `truth` is history: the units it came to and those that failed.

`Accounts` is the auth service over the hosted one: each call of it may fail, or be done and its answer
lost. `DropLogin` is external: the hosted service drops the profile row with the login.

### 3.7 Groups and Cliques

The pass reads the people of a node, their scores and skips, has the cliques found and
trimmed (`CandidateLists`), then reads the groups that count against overlap (`Taken`), saves (`Propose`), and later asks
the members of each proposed group one call at a time (`BeginGroup` to `EndGroup`). A group
is marked SURFACING first, which no later pass reads: that is what makes a crash ask nobody
twice. `group_response` is two statements with an await between them (`PostDecline`, `WriteDecline`).
`crew` keeps the members of an erased group, which the pass may still hold.

`FindCliques` and `Trim` are parameters with their definitions as assumptions: exactly the maximal
cliques, and a subset of the size asked for. `Cliques` translates `bron_kerbosch` and `_trim_to_size`; the run
gives them as values, and TLC evaluates the assumptions: every graph on the crowd, every table of scores.

### 3.8 Replies and Mind

An answer is what a parser meets: whole or cut short, and a few objects or groups with fields
missing, out of range, repeated, unknown. Each parser of `BR/prompt.py` is an operator on it; `Listen`,
`AnswerPatterns`, `AnswerProfile`, `AnswerByNumber`, `AnswerByKey`, `AnswerSalience`, `Classify`, `Resolve` apply the result
to the notes of one kind, after the notes may have changed under it (`asked` is what the model was shown). The
statements within are interleaved in `Commitments`, `Profile`, `Episodes`; here they are one step. `meant` is history: the
answer's own groups, without the parser's repairs.

## 4. The runs

TLC finishes each within five minutes with two workers.

| run | instance | shows |
|---|---|---|
| `rendezvous_overlap` | one meet, 2 handlers, the cron, an erasure, full overlap | `MeetIsAgreed` (both said yes, in their words), `AskedMeansStored`, `ErasedForGood` |
| `rendezvous_serial` | one meet, 2 texts, 2 replies per stage, 1 fault, no overlap | `PrefsKept`; both sides agree to one plan (`OnePlanAgreed`) with late and second replies |
| `rendezvous_concludes` | 2 meets that share a user, 2 leavers, no overlap, fair | `AskedAndToldOnce`, `EndedForGood` (decline, erasure), `MeetConcludes`, refinement of `MeetLifecycle` |
| `rendezvous_stuck` | as the first, fair, everyone answers | **violation** of `MeetConcludes` |
| `checkins` | 2 passes, the route, 2 sessions, 3 row ids, fair | `AtMostOnePerPass` (backlog), `SaidOnce`, `EveryCheckinDelivered` while the route pauses |
| `jobs_overlap` | 3 jobs of 2 partners, 1 pass, 1 session, other producers, one fault of any kind | `OneNewThread`, `OutcomeIsAnswer` |
| `jobs_concludes` | 2 jobs, no overlap, no faults, fair | `PicksAreFollowed` (delivered, and the reply booked where it belongs), `EveryThreadCloses` |
| `community` | 2 users, 1 leaver; a pass of any kind at a time, 2 answers in flight, 1 fault; 2 profiles of one of them, 2 ingests each; 2 passes of 3 units; 2 uploads, 2 deletions, 2 faults | `MeetIffMutual`, `ShownOnce`, `ForgottenForGood`; `SnapshotIsWhole`, `VerdictsAreFair`; `DigestIsTrue`; `AccountsAreWhole` |
| `introductions_twice` | 2 users, 2 answers in flight, no faults | **violation** of "connections calls it once" |
| `groups` | 3 people, 1 interest, 2 groups, 1 skip, 1 erasure, 1 fault | `GroupIsCrew`, `MembersAskedOnce`, `CrewsApart`, `DeclineStands` |
| `memory` | 2 extractions or sessions, the nightly pass, the engine, an erasure; 3 fact ids, 2 trait ids, 2 commitments of 2 keys, cooldown 2; 1 chat, 2 messages, 2 episodes; 3 notes, answers of 2 objects | `KnownOncePerKey`, `RememberedStays`, `ErasureIsComplete`, `ResolutionStands`, `UserHasLastWord`, `QuestionsSpaced`, `AnswersAreHonoured` |
| `memory_erased` | the same | **violation** of "hard-delete everything" |

Some properties are conjunctions of parts named in the module (`MeetIsAgreed` is `ConfirmedByBoth` and
`PlanIsRelayed`, and so on), so that a reader finds one name per promise.

### 4.1 Bounds, and why they are enough

* *Rendezvous.* A meet's row is read by id and meets meet only in an erasure, so one meet suffices
  for the interleavings and two that share a user for the erasure. Lost updates need
  two holders of copies: 2 handlers and a pass give three. Two concurrent passes with two
  handlers take more than five minutes; the theorems of 5.1 hold for any number.
* *CheckinQueue.* Two passes are the least for which the look-then-insert race exists, two sessions
  the least for two readers of a row. Three ids let the queue hold an old, a middle and
  a newest row.
* *JobThread.* Two recommendations (`MaxLog`) are the least for two threads, and for a second thread
  after a first. One pass: two passes do break `OneOpenThread` (section 6), the properties
  checked say what one nightly pass guarantees whatever else overlaps.
* *Introductions.* Two users have the two directed pairs an introduction and its answer need.
  `MaxAsked = 1` stops the model after the brain stored one check-in per pair; one pass of any job follows
  another any number of times. `ShownOnce` is violated within this bound by a
  pass that counts only unanswered introductions as shown, because such a pass picks the pair up again.
  Larger instances are covered by the proofs of 5.3. With one
  fault the deadlock check is meaningful: the crons can always start.

* *Memory.* Two extractions are the least that can both look before either writes, two sessions the least for one to overtake
  the other's question. Three ids hold the current fact, a duplicate and the one about to be inserted; two a trait and the one that replaces it (a third
  trait waits until an id is free). Two nodes of two keys let
  commitments be merged across keys and one key get a second node. The default cooldown is 3 sessions; 2 already tells "the
  session that asked counts" from "it does not". Names of different kinds are shared in the configuration, because no behaviour
  follows two kinds; a permutation of a set then permutes every kind that is named after it.

* *Screening.* One of the two has two profiles, so that a snapshot can be older than the profile, and
  ingests that differ in all three tables. Their interests, dimensions and values overlap in part, so every component of the
  kernel is present for some pair and absent for another. Two ingests per person put one after, or around, a scoring of the first.
  `TopN = 1`: with one other person in the pool, more never matters, so the cut is not exercised beyond it.
* *PassLog.* Three units tell one failure in three from two; two passes of one name add up. Accounts: two uploads and two deletions are the least
  that overtake each other; two faults the least for a sign-up whose insert and rollback both fail.
* *Groups.* Three people have cliques of two and of three, two groups that overlap and two that do not; `Weights` has a value
  on either side of the threshold and "no row". Every initial table of scores and interests is tried. One fault: `CrewsApart` holds
  without, the other properties with any number (5.6).
* *Chats, Episodes, Replies.* One session that can be ended twice at once, with a turn before and one during; two episodes, one promoted.
  Three notes are the least for two groups that share a member, answers of two groups of up to four
  mentions in all for one that repeats a number or spans both.

`CHECK_DEADLOCK FALSE` is in the configurations of rendezvous (a service whose meets all
ended or are erased, with ids used up, has nothing to do), of `community` (a bounded number of ingests, passes and faults, or an
account deleted for good) and of `groups` (bounded skips, erasures).

### 4.2 Fairness

Safety is checked without it. The liveness runs assume: a handler or pass under way takes its
next step (the event loop runs), crons fire again (`WF` on the passes), users open sessions and answer
(`UsersReply`, `Reads`/`Replies` in `JobFairSpec`), and the brain does not refuse one check-in for ever
(`SF` on `AskAccepted`). Sessions have `SF` on reading because the queue can be empty in between.
None of it says in which order anything happens. `EveryCheckinDelivered` is conditional: the newest row is read
first, so a route that never pauses starves the older ones.

## 5. What is proved

All by TLAPS, for every value of the constants that satisfies the named assumptions of the module
(which TLC evaluates in each run). The bounds `MaxReplies`, `MaxFaults`, `MaxAsked`, `MaxLog`, `MaxIngests`, `TopN` may be any number.
Some theorems have a hypothesis besides: that operations do not overlap, that no call is lost, that there is one nightly pass or one
session. It is stated in the theorem, a run satisfies it, and section 6 says what TLC finds without it.

What the assumptions say of the data is what the tables and parsers keep to: a profile has one value per axis (the primary key of
`profile_dimensions`), traits and dimensions carry a confidence on the scale, a verdict's confidence is clamped by
`parse_eval_response`, the catalogue has a general node for each category that is fallen back to (`all_interest_nodes` adds one to
every category), `None` is neither a job nor an outcome.

### 5.1 RendezvousProofs

`TypeCorrect`: types. Safety cannot be proved from the rows alone, since a
handler saves a copy it read long ago. The inductive invariant is `EveryCopySourced`
(`CopiesSourced`): each flag, text, plan and vote on **every copy** of every meet, in the table, in a
handler or in a pass, goes back to a check-in the brain stored or a reply a user posted. Sources only grow
(`SourcedGrows`), the reply functions keep a copy sourced (`ApplySourced`), and saving
only moves copies. From it: `AskedMeansStoredHolds`, `ConfirmedByBothHolds`, `PlanIsRelayedHolds`.
`MeetAgreed` joins the last two under the name the run checks. `ErasedForGoodHolds` is an action property: with no copy in flight nothing can save one.

*Operations that do not overlap* (`Overlap = FALSE`), any number of faults. `SerialInv` (`SerialHolds`) says why a copy is then as good as the
row: whoever holds a copy is alone (`OneAtATime`), a pass's copy is the row up to the asked-flags it has set (`InStep`), a handler's
is one reply applied to the row as it is (`JobFresh`), and what was put to a vote is the plan on the row (`ShownIsPlan`).
From it `OnePlanHolds`, `NothingSurvivesHolds` and, as a case for each save, `PrefsKeptHolds`.

*And no fault* (`MaxFaults = 0`). `LifeInv` (`LifeHolds`) adds the counts: a stored check-in is flagged where the next pass looks
(`AskedFlagged`), a pass has no flag of whom it still will ask (`LeftUnasked`), so each side is asked once per stage and answers once (`AskedFew`);
therefore a reply finds the row at the stage it answers (`Due`), which is what `apply_confirm` and `apply_followup` do not look at themselves; a vote
on the row was replied (`VotesReplied`), a "no" has cancelled or is about to (`NoCancels`), and what is told follows from replies of which there
will not be another (`ToldFew`, `JobDue`). From it `AskedAndToldOnceHolds`, `EndedForGoodHolds`.

`Implements`: `Spec => LifecycleSpec`. `PhaseOf` computes the abstract phase of a meet from its row; a new row begins the life, and of the other steps only the save of a reply
(`SaveReplyImplements`, by `LifecycleSteps`) and an erasure move it; all others are stutters (`Unseen`).

### 5.2 JobThreadProofs

The queue first. `Inv` adds to the types that a row is queued once, that a row a session has opened with
is not queued, and the two counts. `BacklogBounded`: a pass that inserts leaves `Deciding` as its row joins
`OwnRows`, and one that starts deciding saw an empty queue, so the sum never exceeds the number of
passes. `SaidOnlyDelivered`, `SaidOncePerClientHolds`: a session that opens leaves `Opening` as it is counted. `SaidAtMostOnce` joins them.

The thread builds on these. `JobTypeCorrect` needs that the queue has no duplicates and that a follow-up is about a recommendation (`Ties`): a session indexes the log with
what a check-in is about. Any number of passes and sessions.

* `OneOpenThreadHolds` needs one pass (`OnePass`: one process, or no overlap). `ThreadInv`: only the newest recommendation can be open, and a `GET /match` that went past
  its check still finds every thread closed. The service looks once; what keeps others from logging meanwhile is the pass that waits.
* `OneNewThreadHolds` needs one session as well (`OneClient`), for the partners: what the match read of the disliked ones stays true, as a reply can only close the
  open thread (`PartnerInv`), and there is none while a match is under way.
* `OutcomeIsAnswerHolds` and `AnswerInPlaceHolds` rest on `AnswerInv`: a follow-up in the queue is about the newest recommendation and no match is under way
  (`QueuedLatest`), so when the session asks the service what it is about to talk about, the newest pending follow-up is the one its
  opener was written about (`TalksLatest`), or none.

### 5.3 IntroductionsProofs

* `IntroTypeCorrect`: types, with `PassShape`: what a pass may hold given its job.
* `MeetsMutual`: with `AnswerIsOwn` (an accepted row, and a handler under way, has the user's own yes behind it).
* `MutualMeets`: when both rows are accepted, the handler that wrote the second one is still there, has
  read, or has created. The invariant says, for both accepted and nobody leaving: there is a meet, or a handler
  past its read, or one that will still read. `NothingUndone` shows that no step turns an accepted row
  back: `save_match_state` is an upsert over anything, but a pair being surfaced has no row.
* `ShownStored`: with `StoredIsAsked`, a pass that holds the brain's word has its check-in counted.
* `ForgottenStays`: a case for each step, that without a reference to the user no step makes one.
* `AskedBounded`: `AskInv` bounds `asked[p]` plus the passes that may still ask by the number of passes,
  and keeps a pair that was asked and has no pass still saving it out of `Surfaceable`.
* `MeetsIffMutual`, `ShownOnceHolds` join these under the names the run checks.

### 5.4 MemoryProofs

*The memory.* One inductive invariant per kind, proved of that kind's steps, and `MemoryInvariance`, which composes them: a kind that is
not followed is in its initial state. None of the properties is inductive as it stands.

* `KnownFactsStay` needs `KeptFact`: while the key is known there is a current node that RESOLVE does *not* mean to close, or a writer that closed
  one and will insert. The kept node may be closed by a writer, and then the writer is the witness.
* `OneEntryPerKey` needs `SerialWrites` and `SerialInserts`: what a lone writer found is still so when it writes. For a key
  that is not `doubled`, whoever is about to insert implies that there is no open node.
* `WhatIsSaidStays` needs, in `Keeping`, that a session's buffer holds nothing its ending has not copied but what is `missed`, and that what the ending
  copied is still in the buffer or handed on: two ends of one session may clear each other's buffer.
* `ErasureLeavesNothing` needs `QueueErased` and `RowErased`: the base, once erased, stays empty until the graph is; and for sessions
  `SweepFinds`: what the erasure has read of the index covers every buffer, unless a turn came since.
* `QuestionsAreSpaced` needs `Spacing`: the sessions left to skip and those that ended without a question make up the cooldown.
* `ResolutionsStand` and `UserIsBelieved` are action properties, one case per action (`ResolutionStep`, `DimensionStep`, `TraitStep`).

*The answers of the model.* What a parser keeps is a selection from a sequence. `Picked` states it by the set of the places that stay, and `InOrderFacts`
gives the numbering of such a set (each of its members once, in order); `OnlyFacts`, `DistinctFacts`, `GroupsFacts`, `DetectedFacts`, `DimensionsFacts`, `ScoresFacts` say
then what comes out of each parser, whatever went in. Writing one object after another is a fold: `FoldCommitments` and `FoldTraits` bound what it adds and keep its rows' types.

* `ReplyInv`: the model was shown notes, each once, and what it may cite is evidence, both still so when it answers, since notes are never removed
  and evidence only grows; traits and dimensions are grounded. That what an answer writes has room is the bound on answers.
* `MergeInv` is the invariant of the fold over the groups: a note that was changed is used and closed, and its group holds another, used, at least as good and not
  closed (`Spared`). The other stays because a used note is in no later group. `SurvivorFacts`: a best member exists, so `CHOOSE` has
  something to find; for commitments, where a group may name one note twice, the survivor is a note and not a place.
* `AnswersHonoured` follows for each way an answer is taken (`ReplyStep`), `MindTypes` with the memory's types, as a behaviour of `Mind` is one of both (`MindIsBoth`).

### 5.5 FoldProofs, ScreeningProofs, CommunityProofs

*Over data.* The operators of `Kernel` and `Interests` are sums and folds of the community modules, that is, recursive functions
on the subsets of a finite set. `Induction` and `SubsetInduction`, in `FoldProofs` with what 5.4 needs of folds as well, get at them without an operator parameter: they speak of a *set* of numbers
or of subsets, and follow from the minimal element of a well-founded relation (`WFMin`). `FoldExists` shows
that such a recursion has a solution and `SumSteps` unfolds a sum; then a sum is monotone, additive (`SumMonotone`, `SumOfSums`), and
a weighted sum lies between the weights times the extremes (`SumBetween`).

* *The kernel* (`KernelSays`). Each component is symmetric and on the scale (`InterestFair`, `MatchesFair`, `BinaryFair`): a Jaccard
  quotient, because the sum of the minima is at most the sum of the maxima and neither depends on the order; a mean, because every match is one of a few scores
  (`DimensionScoreWithin`). The weights that are there are positive, so the renormalised mean lies between the least and the greatest component (`MeanBetween`).
* *The interests* (`DerivedEdges`). Whatever a profile says and whatever the tagging model answers, what is derived is a finite set of edges, one per node, with a positive weight on the scale:
  `Add` keeps it so, and the folds over traits and tags carry it.
* *The passes.* `ScreeningInv` (`ScreeningHolds`): what is fetched is one snapshot of a profile the person had (`InHand`); who is
  in the store and neither being written nor torn is there as one (`InStore`); torn or not, what is there can be compared (`Comparable`), so the kernel's facts apply to it;
  scores and verdicts are what the kernel permits (`RankedWell`, `JudgedWell`). From it `ScreeningTypeCorrect`, `SnapshotIsWholeHolds`, `VerdictsAreFairHolds`,
  for any people, stories, answers of the model, opinions of the judge.

*The pass log.* `PassLogInv` (`PassLogHolds`): a row repeats its counters, and they say of the units the pass came to what `Counted` says, pass by pass: the ingest and
the scoring count all, the evaluation its failures, the others at most. `DigestIsTrueHolds` sums that over any log.

*Accounts.* `AccountInv` adds two facts to the properties: once some deletion has removed a user's photo, a photo or an upload of theirs
overlapped it (`FilesAccounted`), and a deletion past its first step, or over, is of an account that had signed up and has no photo step left
(`DeletionsInOrder`), so no sign-up brings the account back. From it `NoOrphanLogin`, `DeletionIsComplete` and, together, `AccountsStayWhole`.

*The composition.* `PartsBehave`: a behaviour of `Community` is one of each of its parts, the steps of the others being stutters. So
`CommunityTypes` and `CommunityHolds`: what is proved of a part alone is true of what the run checks.

### 5.6 GroupsProofs

For any crowd, any interests, any scores, any number of faults, and any `FindCliques` and `Trim` that satisfy the two assumptions.

* `GroupsAreCrews` needs `CrewsFit`: the same of the lists, and of the candidate, that the pass holds, with what may have changed since it
  read: scores and fans only shrink (an erasure, and then the group is not one nobody left), skips only grow. `CandidatesFit` derives it from the assumptions.
* `MembersAreAskedOnce` needs `AskedInOrder`: of the group being asked, nobody unasked was invited; of a proposed one, nobody.
* `CrewsStayApart` needs `ApartInOrder`. `Taken` does not count proposed groups; what saves the property is that, while nothing fails,
  a proposed group's node is done and the pass comes to the group before it ends (`ProposedAhead`), so no candidate is chosen beside it (`TopApart`).
  `LiveApart` also counts the group being asked, declined or not, since the pass may turn it on again.
* `DeclinesStand`: every write to a status is by the pass to a group it holds, or by a decline.

### 5.7 Only model-checked

Liveness, which is out of the prover's reach: `MeetConcludes`, `EveryCheckinDelivered`, `PicksAreFollowed`, `EveryThreadCloses`. That `Cliques` computes what
`FindCliques` is assumed to be: `bron_kerbosch` is a `RECURSIVE` operator, and TLC compares it over every small graph. And the three violations, of course.
Every invariant and every action property of a passing run is a theorem.

## 6. Where code and documents part

Confirmed by a listed run: `rendezvous_stuck`, `introductions_twice` and
`memory_erased` (see "findings" in `PROJECT.json`). These have no run of their own; each appears when the property
named is added to a configuration changed as said.

* `PrefsKept`, `AskedAndToldOnce`, `EndedForGood` fail in `rendezvous_overlap`: the same whole-row save loses
  a preference, asks twice, undoes a decline, or revives an erased row.
* `AskedAndToldOnce` fails in `rendezvous_serial` because of its fault: a check-in whose answer was lost is asked again. The second answer then moves a meet that has moved on,
  so `DeclineCancels` and `LifecycleSpec` fail with one fault as well.
* `OneOpenThread` fails in `jobs_overlap` with `Passes = {sleep, cli}`: two `GET /match` of one user both find nothing open.
* `OutcomeIsAnswer` fails in `jobs_overlap` with two sessions: both await the answer to one follow-up, and `POST /jobs/{id}/outcome` books the second reply
  over the first. A "liked" becomes "disliked" and the engagement flag stays up.
* `FollowupWaits` fails in `jobs_overlap`: the window is counted from the day a job was recommended, not delivered
  (`MT/config.py:28`), so a late delivery is followed up at once.
* `PicksAreFollowed` without failures only: a timed-out `GET /match` logs a recommendation the brain never queues; being open and undelivered it
  blocks every later one. `BR/matching_client.py:6-8` says "the user just doesn't get a job nudge that day". (`jobs_concludes` with `Failing = {"call"}`
  and `MaxFaults = 1` shows it.)
* `ReplyIsBooked` fails in `jobs_overlap`, without a fault: the follow-up is queued before it is marked sent, a session that opens in
  between finds no pending follow-up, and the reply is dropped.
* `OneUndelivered` fails in `checkins`: `BR/memory/schema.sql:31` and `BR/models.py:180` promise one undelivered row per user, but
  two passes both look before either inserts, and `POST /users/{id}/checkins` does not look.
* `ResolutionStands` fails without its `ticking`: `BR/sleep_pass.py:245` says the tick "NEVER resolves", but it does undo a resolution: it
  marks what it read as pending, and the same statement clears `resolved_at` and `follow_through`.
* `DimensionStands` fails without the condition on `snapshot`: a profile pass that waits for the model while the user confirms or corrects
  puts the old row, with its old status, over the answer.
* `TraitStands` fails for a trait a writer has chosen: "a user-CONFIRMED trait is authoritative" (`BR/memory/graph.py:355-356`) holds of the look, not of the closing.
* `KnownOncePerKey` fails without `crossed` and `doubled`: two extractions of one user both insert. RESOLVE repairs facts the next night;
  for commitments CONSOLIDATE does if the model groups them.
* `ShownOnce` without the `faults = 0` of its `AskedOncePerPass` fails: a lost answer from the brain leaves no row.

* `DeclineStands` fails without its `g # current`: a member who declines while the pass still asks the others is overwritten by SURFACED
  (`CN/cluster.py:168-170`), where `CN/routes.py:68-69` says that "any one decline" declines the group.
* `CrewsApart` fails with a fault: a pass that dies between proposing and asking leaves a proposed group, which counts in no later pass' overlap.
* `RememberedStays` without `missed` fails: `BR/companion.py:890-891` says that "clearing the buffer can't race" the extraction, which is true of the
  copy; a turn sent during the summary call is cleared with the buffer and in no summary.
* `ErasureIsComplete` without `straggler` fails for a chat that begins between the look at the session index and the index's deletion: its
  buffer is then in no index, so "re-running after recovery completes the erasure" (`BR/api.py`, `delete_user`) is not true of it until the TTL.
* `AccountsAreWhole` without `overlapped` fails: a photo stored after the deletion's photo step stays.
* `SnapshotIsWhole` without `torn` fails: the three writes of an ingest are three transactions.

Read in the code and not modelled as a property:

* A group one of whose members could not be asked stays SURFACING and is never read again; `CN/brain_client.py:52-53` says a failed call "keeps no
  state and retries next pass", `CN/models.py:225` has SURFACING as a state on the way.
* `group_decline_threshold` (`CN/config.py:80`) is read by no code.
* `eval_pass` awaits `_summary` outside every `try` (`CN/eval.py:294`), so one failed read ends the pass, whose docstring says pairs are isolated and it never
  raises; what it counted until then is recorded as any other run.
* A check-in call of the surfacing pass that raises is in no counter of the digest.
* A cause the tagging model names has source `llm`, so it is scored with the interests, while `CN/kernel.py:115` says causes are scored "ONLY in the
  values component".
* `scoring_pass` says it replaces prior scores; rows of pairs that left the best N stay, and still introduce.
* A weak shared specific interest can score below the broad fallback it replaces.
* `_is_affirmative` looks for "no" as a substring, so "I know, let's" is a no.

* `RV/models.py:8` says an erasure makes a meet `CANCELLED`; the row is deleted. The model deletes.
* `open_session` is called by `BR/cli.py` only, whose `Companion` has no rendezvous client: in
  that wiring replies to a meet's check-ins are not posted. The models assume the client is there, as the companion's
  tests do.
* `MT/config.py:30` speaks of a different category after "not tried"; no code does this.
* A trait the user corrects without saying what is right is closed and leaves no trace under its key, so the next night may infer it again;
  a corrected *dimension* is never inferred again.
* `_maybe_reflect_back` awaits the answer before it has stored the cooldown: if that fails, the turn fails, and the next message is taken for an
  answer (`AskInterrupted`).
* The judge's `flag_for_review` is stored and read by no query (`CN/eval.py:203`), so a flagged verdict introduces like any other.
* `auth.delete_account` runs again after a failed fan-out. That it then succeeds on
  a deleted user is up to the hosted auth service; the model lets it succeed.

## 7. Not modelled, and why

* Prompt texts, the wording of openers, the e-mail of the digest, tokens and passwords: no state and no order.
* Text normalisation and the keyword catalogue itself: a text is the set of keywords found in it; whether a word is found is a table lookup.
* The decay of a fact's confidence: nothing reads the confidence but RESOLVE, whose choice the model leaves open. Emotional signals
  are only appended, and read as evidence (`Replies`).
* Social events, profile reads and the edit of a profile's columns: single statements nobody else depends on.
* Matching's own erasure: one transaction on one user's rows. Its text overlap of jobs and users: a choice.
* Configuration, command lines, synthetic users: they start what is modelled.
