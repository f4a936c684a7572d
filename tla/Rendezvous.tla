------------------------------ MODULE Rendezvous ------------------------------
(***************************************************************************)
(* The rendezvous service: one row per meet in the table `meets`, a cron   *)
(* pass that asks the two participants for a where/when, a yes/no and a    *)
(* follow-up, and HTTP handlers that apply the replies the companion posts *)
(* back.                                                                   *)
(*                                                                         *)
(* Every handler is "SELECT the row; change a private copy; UPSERT the     *)
(* WHOLE row", with awaits in between, and the pass works from a list of   *)
(* rows it read once before its first network call.  Each await is a step  *)
(* boundary here: a handler holds its copy in job[h], a pass in snap[p],   *)
(* and anything may happen to the row while they hold it.                  *)
(***************************************************************************)
EXTENDS Naturals, FiniteSets

CONSTANTS
  MeetIds,     \* meet ids the service may ever hand out (uuid4, never reused)
  Users,       \* participants
  Leavers,     \* bound: the users who may ask to be erased
  Party,       \* Party[m][s]: the user on side s of meet m
  Texts,       \* the free-text where/when a user may answer with
  None,        \* "no text" and "no meet"
  Handlers,    \* HTTP handlers that can be in flight at once
  Passes,      \* advance passes that can run at once (cron, one-shot CLI)
  Overlap,     \* TRUE: operations interleave at every await, as they do in
               \* the code; FALSE: one runs at a time, as in the unit tests
  MaxReplies,  \* bound: replies per participant and stage
  MaxFaults    \* bound: lost answers and failed writes, in total

Side   == {"a", "b"}
Stage  == {"pref", "confirm", "followup"}
Memory == {"meet_set", "met"}
Answer == {"yes", "no", "felt"}

ASSUME PartyAssumption ==
  /\ Party \in [MeetIds -> [Side -> Users]]
  /\ \A m \in MeetIds : Party[m]["a"] # Party[m]["b"]
  /\ Leavers \subseteq Users
ASSUME ValueAssumption ==
  /\ None \notin Texts \cup MeetIds
  /\ Texts \cap Answer = {}
ASSUME BoundAssumption ==
  /\ MaxReplies \in Nat /\ MaxFaults \in Nat
  /\ Overlap \in BOOLEAN

ActiveStatus == {"coordinating", "confirming", "confirmed"}
Status == ActiveStatus \cup {"followed_up", "cancelled"}
TextPair == [Side -> Texts \cup {None}]

\* A row of the table; status "absent" stands for "there is no such row".
Row == [ status   : Status \cup {"absent"},
         pref     : TextPair,
         plan     : TextPair,
         confirm  : [Side -> {"none", "yes", "no"}],
         followup : SUBSET Side,
         asked    : SUBSET (Stage \X Side) ]

NewRow == [ status |-> "coordinating", pref |-> [s \in Side |-> None],
            plan |-> [s \in Side |-> None], confirm |-> [s \in Side |-> "none"],
            followup |-> {}, asked |-> {} ]
NoRow  == [NewRow EXCEPT !.status = "absent"]

VARIABLES
  row,       \* [MeetIds -> Row]: the table
  created,   \* ids handed out
  job,       \* per handler: the meet, its changed copy, memories still to tell
  snap,      \* per pass and meet: the copy it read and has not finished with
  left,      \* per pass and meet: the sides it still has to ask
  cur,       \* per pass: the meet it is working on
  dirty,     \* per pass: the current copy has been changed
  accepted,  \* how many check-ins the brain stored, by meet, side and stage
  memories,  \* how many social events the brain stored, by meet, side and kind
  replied,   \* how many replies were posted, by meet, side and stage
  said,      \* history: every reply ever posted
  shown,     \* history: the plans put in front of each side for a yes/no
  erased,    \* history: meets deleted because a participant was erased
  faults     \* lost answers and failed writes so far

pass  == <<snap, left, cur, dirty>>
brain == <<accepted, memories>>
user  == <<replied, said>>
vars  == <<row, created, job, pass, brain, user, shown, erased, faults>>

-------------------------------------------------------------------------------
(* Meet and MeetStatus: what a copy of a row tells.                         *)

\* Mutants of the next five: cancelled meets stay active; one preference is
\* enough; one yes is enough; only two declines cancel; a third answer is due.
IsActiveWhenCancelled(r) == r.status \in ActiveStatus \cup {"cancelled"}
EitherPrefIn(r)          == \E s \in Side : r.pref[s] # None
EitherConfirmed(r)       == \E s \in Side : r.confirm[s] = "yes"
BothDeclined(r)          == \A s \in Side : r.confirm[s] = "no"
NeverFollowedUp(r)       == Cardinality(r.followup) > 2

IsActive(r)       == r.status \in ActiveStatus
BothPrefsIn(r)    == \A s \in Side : r.pref[s] # None
BothConfirmed(r)  == \A s \in Side : r.confirm[s] = "yes"
AnyDeclined(r)    == \E s \in Side : r.confirm[s] = "no"
BothFollowedUp(r) == r.followup = Side

\* Mutants: the stage is taken for the status; a side is asked again at every
\* pass.
StageIsStatus(r)  == r.status
AskAgain(r)       == Side

\* The one stage a pass asks about, given the status it read.
StageOf(r) == CASE r.status = "coordinating" -> "pref"
                [] r.status = "confirming"   -> "confirm"
                [] OTHER                     -> "followup"
Unasked(r) == {s \in Side : <<StageOf(r), s>> \notin r.asked}

(* The three reply handlers, as functions on the handler's copy.            *)

\* Mutants: a late preference rebuilds the plan; a reply overwrites the other
\* side's preference; any yes is told.
ApplyPrefAnyStatus(r, s, text) ==
  LET q == [r EXCEPT !.pref[s] = text]
  IN  IF \A t \in Side : q.pref[t] # None
      THEN [q EXCEPT !.plan = q.pref,
                     !.status = IF @ = "coordinating" THEN "confirming" ELSE @]
      ELSE q
ApplyPrefAlone(r, s, text) ==
  LET q == [r EXCEPT !.pref = [t \in Side |-> IF t = s THEN text ELSE None]]
  IN  IF \E t \in Side : r.pref[t] # None
      THEN [q EXCEPT !.plan = [t \in Side |-> text], !.status = "confirming"] ELSE q
TellAnyYes(q, s, stage) ==
  IF stage = "confirm" /\ q.confirm[s] = "yes" THEN Side \X {"meet_set"} ELSE {}

ApplyPref(r, s, text) ==
  LET q == [r EXCEPT !.pref[s] = text]
  IN  IF BothPrefsIn(q) /\ q.status = "coordinating"
      THEN [q EXCEPT !.plan = q.pref, !.status = "confirming"]
      ELSE q

ApplyConfirm(r, s, answer) ==
  LET q == [r EXCEPT !.confirm[s] = answer]
  IN  [q EXCEPT !.status = IF AnyDeclined(q) THEN "cancelled"
                           ELSE IF BothConfirmed(q) THEN "confirmed" ELSE @]

ApplyFollowup(r, s) ==
  LET q == [r EXCEPT !.followup = @ \cup {s}]
  IN  [q EXCEPT !.status = IF BothFollowedUp(q) THEN "followed_up" ELSE @]

Apply(r, s, stage, value) ==
  CASE stage = "pref"     -> ApplyPref(r, s, value)
    [] stage = "confirm"  -> ApplyConfirm(r, s, value)
    [] stage = "followup" -> ApplyFollowup(r, s)

\* The memories a handler writes to the brain before it saves copy q.
Telling(q, s, stage) ==
  CASE stage = "confirm" /\ BothConfirmed(q) -> Side \X {"meet_set"}
    [] stage = "followup"                    -> {<<s, "met">>}
    [] OTHER                                 -> {}

Replies(stage) == CASE stage = "pref"     -> Texts
                    [] stage = "confirm"  -> {"yes", "no"}
                    [] stage = "followup" -> {"felt"}

-------------------------------------------------------------------------------
IdleJob == [meet |-> None, copy |-> NoRow, tell |-> {}]
Job     == [meet : MeetIds \cup {None}, copy : Row, tell : SUBSET (Side \X Memory)]

Holding(p) == {m \in MeetIds : snap[p][m] # NoRow}
Quiet == /\ \A h \in Handlers : job[h] = IdleJob
         /\ \A p \in Passes : Holding(p) = {}
MayStart == Overlap \/ Quiet

Init ==
  /\ row = [m \in MeetIds |-> NoRow]
  /\ created = {}
  /\ job = [h \in Handlers |-> IdleJob]
  /\ snap = [p \in Passes |-> [m \in MeetIds |-> NoRow]]
  /\ left = [p \in Passes |-> [m \in MeetIds |-> {}]]
  /\ cur = [p \in Passes |-> None]
  /\ dirty = [p \in Passes |-> FALSE]
  /\ accepted = [c \in MeetIds \X Side \X Stage |-> 0]
  /\ memories = [c \in MeetIds \X Side \X Memory |-> 0]
  /\ replied = [c \in MeetIds \X Side \X Stage |-> 0]
  /\ said = {}
  /\ shown = {}
  /\ erased = {}
  /\ faults = 0

\* Mutant: an id may be handed out again.
CreateMeetAgain(m) ==
  /\ MayStart
  /\ created' = created \cup {m}
  /\ row' = [row EXCEPT ![m] = NewRow]
  /\ UNCHANGED <<job, pass, brain, user, shown, erased, faults>>

\* POST /meets: a fresh row under a fresh id.
CreateMeet(m) ==
  /\ MayStart
  /\ m \notin created
  /\ created' = created \cup {m}
  /\ row' = [row EXCEPT ![m] = NewRow]
  /\ UNCHANGED <<job, pass, brain, user, shown, erased, faults>>

\* POST /meets/{pref,confirm,followup}: the companion posts the answer to a
\* check-in the brain delivered; the handler loads the row (or answers 404)
\* and changes its copy.
LoadReply(h, m, s, stage, value) ==
  LET c == <<m, s, stage>>
      q == Apply(row[m], s, stage, value)
  IN  /\ MayStart
      /\ job[h] = IdleJob
      /\ replied[c] < accepted[c] /\ replied[c] < MaxReplies
      /\ replied' = [replied EXCEPT ![c] = @ + 1]
      /\ said' = said \cup {[meet |-> m, side |-> s, stage |-> stage, value |-> value]}
      /\ job' = IF row[m] = NoRow THEN job
                ELSE [job EXCEPT ![h] = [meet |-> m, copy |-> q,
                                         tell |-> Telling(q, s, stage)]]
      /\ UNCHANGED <<row, created, pass, brain, shown, erased, faults>>

\* record_social_event for every memory the handler owes; a write is best-effort
\* and one that fails is not tried again.
Remember(h) ==
  /\ job[h].tell # {}
  /\ \E told \in SUBSET job[h].tell :
       /\ \/ told = job[h].tell /\ UNCHANGED faults
          \/ told # job[h].tell /\ faults < MaxFaults /\ faults' = faults + 1
       /\ memories' = [c \in DOMAIN memories |->
                         IF c[1] = job[h].meet /\ <<c[2], c[3]>> \in told
                         THEN memories[c] + 1 ELSE memories[c]]
  /\ job' = [job EXCEPT ![h].tell = {}]
  /\ UNCHANGED <<row, created, pass, accepted, user, shown, erased>>

\* save_meet: an upsert of the whole copy, whatever the row is by now.
SaveReply(h) ==
  /\ job[h] # IdleJob /\ job[h].tell = {}
  /\ row' = [row EXCEPT ![job[h].meet] = job[h].copy]
  /\ job' = [job EXCEPT ![h] = IdleJob]
  /\ UNCHANGED <<created, pass, brain, user, shown, erased, faults>>

\* The handler dies with its copy: the save raises, or the service restarts.
FailReply(h) ==
  /\ job[h] # IdleJob
  /\ faults < MaxFaults
  /\ faults' = faults + 1
  /\ job' = [job EXCEPT ![h] = IdleJob]
  /\ UNCHANGED <<row, created, pass, brain, user, shown, erased>>

-------------------------------------------------------------------------------
(* The advance pass.                                                        *)

\* get_active_meets, once for the whole pass.  A meet both sides of which were
\* asked already is read and left alone, so the pass does not hold it.
StartPass(p) ==
  LET due == {m \in MeetIds : IsActive(row[m]) /\ Unasked(row[m]) # {}}
  IN  /\ MayStart
      /\ Holding(p) = {}
      /\ due # {}
      /\ snap' = [snap EXCEPT ![p] = [m \in MeetIds |-> IF m \in due THEN row[m] ELSE NoRow]]
      /\ left' = [left EXCEPT ![p] = [m \in MeetIds |-> IF m \in due THEN Unasked(row[m]) ELSE {}]]
      /\ UNCHANGED <<row, created, job, cur, dirty, brain, user, shown, erased, faults>>

\* The pass is at side s of meet m: one meet at a time, side a before side b.
AsksNext(p, m, s) ==
  /\ snap[p][m] # NoRow
  /\ cur[p] \in {None, m}
  /\ s \in left[p][m]
  /\ s = "b" => "a" \notin left[p][m]

Stored(m, s, r) ==
  /\ accepted' = [accepted EXCEPT ![<<m, s, StageOf(r)>>] = @ + 1]
  /\ shown' = IF StageOf(r) = "confirm"
              THEN shown \cup {[meet |-> m, side |-> s, plan |-> r.plan]} ELSE shown

AskDone(p, m, s) ==
  /\ cur' = [cur EXCEPT ![p] = m]
  /\ left' = [left EXCEPT ![p][m] = @ \ {s}]

\* The brain stored the check-in and its id came back: set the asked-flag.
AskAccepted(p, m, s) ==
  /\ AsksNext(p, m, s)
  /\ Stored(m, s, snap[p][m])
  /\ AskDone(p, m, s)
  /\ snap' = [snap EXCEPT ![p][m].asked = @ \cup {<<StageOf(snap[p][m]), s>>}]
  /\ dirty' = [dirty EXCEPT ![p] = TRUE]
  /\ UNCHANGED <<row, created, job, memories, user, erased, faults>>

\* Mutant: the flag is set although the brain refused the check-in.
FlagRefused(p, m, s) ==
  /\ AsksNext(p, m, s)
  /\ AskDone(p, m, s)
  /\ snap' = [snap EXCEPT ![p][m].asked = @ \cup {<<StageOf(snap[p][m]), s>>}]
  /\ dirty' = [dirty EXCEPT ![p] = TRUE]
  /\ UNCHANGED <<row, created, job, brain, user, shown, erased, faults>>

\* queue_checkin returned None and the brain stored nothing.
AskRefused(p, m, s) ==
  /\ AsksNext(p, m, s)
  /\ AskDone(p, m, s)
  /\ UNCHANGED <<row, created, job, snap, dirty, brain, user, shown, erased, faults>>

\* queue_checkin returned None, yet the brain stored the check-in: the answer
\* was lost or came after the 5 s timeout.
AskUnanswered(p, m, s) ==
  /\ AsksNext(p, m, s)
  /\ faults < MaxFaults
  /\ faults' = faults + 1
  /\ Stored(m, s, snap[p][m])
  /\ AskDone(p, m, s)
  /\ UNCHANGED <<row, created, job, snap, dirty, memories, user, erased>>

MeetDone(p, m) ==
  /\ snap' = [snap EXCEPT ![p][m] = NoRow]
  /\ left' = [left EXCEPT ![p][m] = {}]
  /\ cur' = [cur EXCEPT ![p] = None]
  /\ dirty' = [dirty EXCEPT ![p] = FALSE]

\* Both sides tried: one whole-row save, if any flag was set.
SavePass(p, m) ==
  /\ cur[p] = m /\ snap[p][m] # NoRow /\ left[p][m] = {}
  /\ row' = IF dirty[p] THEN [row EXCEPT ![m] = snap[p][m]] ELSE row
  /\ MeetDone(p, m)
  /\ UNCHANGED <<created, job, brain, user, shown, erased, faults>>

\* An exception in this meet's turn (a failed save, an unreadable answer), or
\* a restart: its copy is gone, the other meets are not affected.
FailPass(p, m) ==
  /\ cur[p] = m /\ snap[p][m] # NoRow
  /\ faults < MaxFaults
  /\ faults' = faults + 1
  /\ MeetDone(p, m)
  /\ UNCHANGED <<row, created, job, brain, user, shown, erased>>

\* Mutant: only the meets the user is side a of are deleted.
EraseSideA(u) ==
  LET gone == {m \in MeetIds : row[m] # NoRow /\ \E s \in Side : Party[m][s] = u}
  IN  /\ MayStart
      /\ gone # {}
      /\ row' = [m \in MeetIds |-> IF m \in gone /\ Party[m]["a"] = u THEN NoRow ELSE row[m]]
      /\ erased' = erased \cup gone
      /\ UNCHANGED <<created, job, pass, brain, user, shown, faults>>

\* DELETE /users/{id}: every meet the user is in goes.
EraseUser(u) ==
  LET gone == {m \in MeetIds : row[m] # NoRow /\ \E s \in Side : Party[m][s] = u}
  IN  /\ MayStart
      /\ gone # {}
      /\ row' = [m \in MeetIds |-> IF m \in gone THEN NoRow ELSE row[m]]
      /\ erased' = erased \cup gone
      /\ UNCHANGED <<created, job, pass, brain, user, shown, faults>>

-------------------------------------------------------------------------------
HandlerStep(h) == Remember(h) \/ SaveReply(h)
PassStep(p) ==
  \/ StartPass(p)
  \/ \E m \in MeetIds :
       \/ \E s \in Side : AskAccepted(p, m, s) \/ AskRefused(p, m, s)
       \/ SavePass(p, m)

Next ==
  \/ \E m \in MeetIds : CreateMeet(m)
  \/ \E h \in Handlers :
       \/ \E m \in MeetIds, s \in Side, stage \in Stage : \E value \in Replies(stage) :
            LoadReply(h, m, s, stage, value)
       \/ HandlerStep(h)
       \/ FailReply(h)
  \/ \E p \in Passes :
       \/ PassStep(p)
       \/ \E m \in MeetIds : FailPass(p, m) \/ \E s \in Side : AskUnanswered(p, m, s)
  \/ \E u \in Leavers : EraseUser(u)

Spec == Init /\ [][Next]_vars

(* A pass cron keeps firing and a request once received is carried through;  *)
(* the brain is not down for good, so a check-in that is tried again and     *)
(* again is stored in the end.                                               *)
Fairness ==
  /\ \A h \in Handlers : WF_vars(HandlerStep(h))
  /\ \A p \in Passes : WF_vars(PassStep(p))
  /\ \A p \in Passes, m \in MeetIds, s \in Side : SF_vars(AskAccepted(p, m, s))
FairSpec == Spec /\ Fairness

\* In addition every delivered check-in is answered, sooner or later.
UsersReply ==
  \A m \in MeetIds, s \in Side, stage \in Stage :
    WF_vars(\E h \in Handlers, value \in Replies(stage) : LoadReply(h, m, s, stage, value))
ReplyingSpec == FairSpec /\ UsersReply

-------------------------------------------------------------------------------
(* Properties.                                                              *)

TypeOK ==
  /\ row \in [MeetIds -> Row]
  /\ created \subseteq MeetIds
  /\ job \in [Handlers -> Job]
  /\ snap \in [Passes -> [MeetIds -> Row]]
  /\ left \in [Passes -> [MeetIds -> SUBSET Side]]
  /\ cur \in [Passes -> MeetIds \cup {None}]
  /\ dirty \in [Passes -> BOOLEAN]
  /\ accepted \in [MeetIds \X Side \X Stage -> Nat]
  /\ memories \in [MeetIds \X Side \X Memory -> Nat]
  /\ replied \in [MeetIds \X Side \X Stage -> Nat]
  /\ said \subseteq [meet : MeetIds, side : Side, stage : Stage, value : Texts \cup Answer]
  /\ shown \subseteq [meet : MeetIds, side : Side, plan : TextPair]
  /\ erased \subseteq MeetIds
  /\ faults \in Nat

\* The row of a meet and every copy of it somebody holds and may yet save.
Copies(m) == {row[m]} \cup {job[h].copy : h \in {g \in Handlers : job[g].meet = m}}
                      \cup {snap[p][m] : p \in Passes}
Said(m, s, stage, value) == [meet |-> m, side |-> s, stage |-> stage, value |-> value] \in said

\* The pass "never sets an asked-flag unless the brain accepted the check-in":
\* in the table and in every copy that may still be saved over it, a flag
\* stands for a check-in the brain really stored.
AskedMeansStored ==
  \A m \in MeetIds : \A r \in Copies(m) : \A k \in r.asked :
    accepted[<<m, k[2], k[1]>>] > 0

\* No meet is confirmed, and nobody is told a meet is set, unless BOTH users
\* said yes, whatever is read stale or saved late by apply_confirm.
ConfirmedByBoth ==
  \A m \in MeetIds :
    (\/ \E r \in Copies(m) : r.status = "confirmed"
     \/ \E s \in Side : memories[<<m, s, "meet_set">>] > 0)
      => \A s \in Side : Said(m, s, "confirm", "yes")

\* A plan in front of a user is made of words each of the two really wrote:
\* a confirming copy has a plan, and both halves of any plan were posted.
PlanIsRelayed ==
  \A m \in MeetIds : \A r \in Copies(m) :
    /\ r.status = "confirming" => \A s \in Side : r.plan[s] # None
    /\ \A s \in Side : r.plan[s] # None => Said(m, s, "pref", r.plan[s])

\* A meet two people are told is set is one both agreed to, in the words both
\* wrote.
MeetIsAgreed == ConfirmedByBoth /\ PlanIsRelayed

\* What is true of every copy r of meet m, given what the brain stored (acc) and
\* what users have posted (sd): each flag, text, plan and vote has its origin.
Sourced(m, r, acc, sd) ==
  LET Heard(s, stage, value) == [meet |-> m, side |-> s, stage |-> stage, value |-> value] \in sd
  IN  /\ \A k \in r.asked : acc[<<m, k[2], k[1]>>] > 0
      /\ \A s \in Side :
           /\ r.pref[s] # None => Heard(s, "pref", r.pref[s])
           /\ r.plan[s] # None => Heard(s, "pref", r.plan[s])
           /\ r.status = "confirming" => r.plan[s] # None
           /\ r.confirm[s] # "none" => Heard(s, "confirm", r.confirm[s])
           /\ r.status = "confirmed" => Heard(s, "confirm", "yes")

\* The inductive invariant behind the three properties above: every copy of a
\* row is sourced, not only the rows, and so is every memory still to be told.
EveryCopySourced ==
  /\ \A m \in MeetIds : Sourced(m, row[m], accepted, said)
  /\ \A p \in Passes, m \in MeetIds : Sourced(m, snap[p][m], accepted, said)
  /\ \A h \in Handlers : job[h].meet # None =>
       /\ Sourced(job[h].meet, job[h].copy, accepted, said)
       /\ \A s \in Side : <<s, "meet_set">> \in job[h].tell =>
            \A t \in Side : Said(job[h].meet, t, "confirm", "yes")
  /\ \A m \in MeetIds, s \in Side : memories[<<m, s, "meet_set">>] > 0 =>
       \A t \in Side : Said(m, t, "confirm", "yes")

\* Once a meet is erased and no handler or pass holds a copy of it, it never
\* comes back: only a save that was in flight can revive it.
Gone(m) == m \in created /\ \A r \in Copies(m) : r = NoRow
ErasedForGood == [][\A m \in MeetIds : Gone(m) => Gone(m)']_vars

\* A saved where/when stays saved until the meet is erased.
PrefsKept ==
  [][\A m \in MeetIds, s \in Side :
       row[m].pref[s] # None /\ row'[m] # NoRow => row'[m].pref[s] # None]_vars

\* Both sides said yes to the same plan: all the plans ever shown to either
\* side of a confirmed meet are the plan on the row.
OnePlanAgreed ==
  \A m \in MeetIds : row[m].status = "confirmed" =>
    \A k \in shown : k.meet = m => k.plan = row[m].plan

\* Each side is asked at most once per stage ("guarded by per-stage
\* asked-flags so it's idempotent").
AskedOnce == \A c \in DOMAIN accepted : accepted[c] <= 1

\* "a meet is set" and "met" are told to a participant once.
ToldOnce == \A c \in DOMAIN memories : memories[c] <= 1

\* "Any decline cancels": from the moment a "no" has been applied and saved,
\* the meet is never an active one again.
DeclineCancels ==
  \A m \in MeetIds :
    (/\ \E s \in Side : Said(m, s, "confirm", "no")
     /\ \A h \in Handlers : job[h].meet # m) => ~IsActive(row[m])

\* "nothing about the erased user survives": no row of an erased meet.
NothingSurvives == \A m \in erased : row[m] = NoRow

\* A user is not asked, nor told, the same thing about a meet twice.
AskedAndToldOnce == AskedOnce /\ ToldOnce

\* A meet that somebody declined, or whose user is erased, is over for good.
EndedForGood == DeclineCancels /\ NothingSurvives

\* If everyone answers, every meet ends: followed up, cancelled or erased.
MeetConcludes ==
  \A m \in MeetIds : IsActive(row[m]) ~> ~IsActive(row[m])

\* What a meet promises to the outside, when operations do not overlap.
Lifecycle == INSTANCE MeetLifecycle WITH
  Meets <- MeetIds,
  Sides <- Side,
  phase <- [m \in MeetIds |-> IF m \in created /\ row[m] = NoRow THEN "gone" ELSE row[m].status],
  voice <- [m \in MeetIds |-> row[m].confirm]
LifecycleSpec == Lifecycle!Spec
==============================================================================
