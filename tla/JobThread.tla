------------------------------ MODULE JobThread ------------------------------
(***************************************************************************)
(* One user's job recommendations, from the nightly pass that asks the     *)
(* matching service for one, through the check-in queue and the session    *)
(* that opens with it, to the follow-up three days later and its outcome.  *)
(*                                                                         *)
(* The matching service keeps the log (`job_recommendations_log`); the     *)
(* brain talks to it over HTTP with a client that turns every failure into *)
(* None, and queues and delivers the openers (module CheckinQueue).        *)
(***************************************************************************)
EXTENDS CheckinQueue, Functions

CONSTANTS
  Jobs,      \* the catalog
  Partner,   \* Partner[j]: who pays for job j
  Fallback,  \* the jobs that are available_to_all
  MaxLog,    \* bound: recommendations ever logged
  Failing,   \* what may fail: calls to the matching service, inserts into the
             \* queue, the model, and sessions that end before the reply
  MaxFaults, \* bound: failures, in total
  Overlap,   \* TRUE: operations interleave at their awaits; FALSE: one at a time
  Routed     \* TRUE: other services queue check-ins for the user as well

Outcome == {"liked", "disliked", "not_tried"}   \* liked also stands for loved_it

ASSUME JobAssumption ==
  /\ Fallback \subseteq Jobs /\ Jobs \subseteq DOMAIN Partner
  /\ None \notin Jobs \cup Outcome
  /\ Failing \subseteq {"call", "insert", "model", "session"}
  /\ MaxLog \in Nat /\ MaxFaults \in Nat
  /\ Overlap \in BOOLEAN /\ Routed \in BOOLEAN

Recs    == 1..MaxLog
NoRec   == 0

VARIABLES
  log,      \* the user's recommendations, oldest first
  about,    \* what a check-in is about: <<"job" | "followup", rec>>, or others'
  pick,     \* per pass: the recommendation it is about to queue a check-in for
  call,     \* per pass: its GET /match in the matching service
  armed,    \* per session: the job question the next message answers
  active,   \* user_job_state.job_active
  asked,    \* history: recommendations whose follow-up question was put
  waited,   \* history: those delivered for the whole follow-up window
  faults    \* failures so far

jobVars == <<log, about, pick, call, armed, active, asked, waited, faults>>
allVars == <<vars, jobVars>>

\* Mutant: a thread starts with an outcome of its own.
NewRecOpen(j) == [job |-> j, delivered |-> FALSE, age |-> "new", sent |-> FALSE,
                  outcome |-> "open"]

NewRec(j) == [job |-> j, delivered |-> FALSE, age |-> "new", sent |-> FALSE,
              outcome |-> None]
Idle      == [at |-> "idle", data |-> None]
Unarmed   == [kind |-> "none", rec |-> NoRec]

JobInit ==
  /\ Init
  /\ log = <<>>
  /\ about = [i \in Ids |-> <<"other", NoRec>>]
  /\ pick = [p \in Passes |-> NoRec]
  /\ call = [p \in Passes |-> Idle]
  /\ armed = [s \in Sessions |-> Unarmed]
  /\ active = FALSE
  /\ asked = {} /\ waited = {}
  /\ faults = 0

Fails(what) == what \in Failing /\ faults < MaxFaults /\ faults' = faults + 1
MayBegin == Overlap \/ /\ \A p \in Passes : pass[p] = "idle" /\ call[p] = Idle
                       /\ \A s \in Sessions : sess[s] \in {"closed", "open"}

-------------------------------------------------------------------------------
(* The matching service: its queries, and the selection policy.             *)

Logged    == DOMAIN log
IsOpen(r) == log[r].outcome = None
Newest(S) == IF S = {} THEN NoRec ELSE CHOOSE r \in S : \A q \in S : q <= r
Oldest(S) == IF S = {} THEN NoRec ELSE CHOOSE r \in S : \A q \in S : r <= q

\* Mutants of the next three: a link is marked delivered within three days or
\* never; a follow-up is due before delivery, or only when the cooldown would
\* be over; the oldest thread ever followed up is taken, closed or not.
OpenRecent     == Newest({r \in Logged : ~log[r].delivered /\ IsOpen(r) /\ log[r].age = "new"})
DueUndelivered == Oldest({r \in Logged : log[r].age # "new" /\ ~log[r].sent /\ IsOpen(r)})
DueLate        == Oldest({r \in Logged : log[r].age = "cold" /\ ~log[r].sent /\ IsOpen(r)})
PendingAny     == Oldest({r \in Logged : log[r].sent})

OpenUndelivered == Newest({r \in Logged : ~log[r].delivered /\ IsOpen(r)})
DueFollowup     == Oldest({r \in Logged : /\ log[r].delivered /\ ~log[r].sent
                                          /\ log[r].age # "new" /\ IsOpen(r)})
PendingFollowup == Newest({r \in Logged : log[r].sent /\ IsOpen(r)})

\* Mutant: a thread blocks only once it was delivered.
DeliveredBlocks == \E r \in Logged : IsOpen(r) /\ log[r].delivered

\* An open thread blocks, and so does the cooldown after the newest one.
Blocked ==
  \/ \E r \in Logged : IsOpen(r)
  \/ /\ log # <<>>
     /\ log[Len(log)].outcome \in {"disliked", "not_tried"}
     /\ log[Len(log)].age # "cold"

Recommended == {log[r].job : r \in Logged}
Disliked    == {Partner[log[r].job] : r \in {q \in Logged : log[q].outcome = "disliked"}}

\* Mutant: a disliked partner is not excluded.
ChoiceAnyPartner(fits, bad) ==
  LET eligible == Jobs \ Recommended
  IN  IF fits \cap eligible # {} THEN fits \cap eligible ELSE eligible \cap Fallback

\* match_jobs_for_user: a specific job that fits the profile, else a fallback.
Choice(fits, bad) ==
  LET eligible == {j \in Jobs \ Recommended : Partner[j] \notin bad}
  IN  IF fits \cap eligible # {} THEN fits \cap eligible ELSE eligible \cap Fallback

\* GET /match reads the user's rows and goes on only if nothing blocks; the
\* partners to avoid come from these rows.
MatchReads(p) ==
  /\ call[p].at = "asked"
  /\ IF Blocked
     THEN /\ call' = [call EXCEPT ![p] = Idle]
          /\ pass' = [pass EXCEPT ![p] = IF @ = "matching" THEN "idle" ELSE @]
     ELSE /\ call' = [call EXCEPT ![p] = [at |-> "read", data |-> Disliked]]
          /\ UNCHANGED pass
  /\ UNCHANGED <<queue, source, sess, held, said, log, about, pick, armed, active, asked, waited, faults>>

\* It reads the jobs recommended so far and scores the catalog.  An empty
\* profile (the brain did not answer) fits no specific job.
MatchPicks(p) ==
  /\ call[p].at = "read"
  /\ \E fits \in SUBSET (Jobs \ Fallback) :
       LET best == Choice(fits, call[p].data) IN
       \/ /\ best = {}
          /\ call' = [call EXCEPT ![p] = Idle]
          /\ pass' = [pass EXCEPT ![p] = IF @ = "matching" THEN "idle" ELSE @]
       \/ /\ \E j \in best : call' = [call EXCEPT ![p] = [at |-> "picked", data |-> j]]
          /\ UNCHANGED pass
  /\ UNCHANGED <<queue, source, sess, held, said, log, about, pick, armed, active, asked, waited, faults>>

\* It logs the recommendation and answers, if the brain still waits.
MatchLogs(p) ==
  /\ call[p].at = "picked" /\ Len(log) < MaxLog
  /\ log' = Append(log, NewRec(call[p].data))
  /\ call' = [call EXCEPT ![p] = Idle]
  /\ IF pass[p] = "matching"
     THEN /\ pass' = [pass EXCEPT ![p] = "hint"]
          /\ pick' = [pick EXCEPT ![p] = Len(log) + 1]
     ELSE UNCHANGED <<pass, pick>>
  /\ UNCHANGED <<queue, source, sess, held, said, about, armed, active, asked, waited, faults>>

\* Three days after it was logged a follow-up may be due; a week or two after
\* the follow-up was sent the cooldown is over.
TimePasses(r) ==
  /\ \/ /\ log[r].age = "new"
        /\ log' = [log EXCEPT ![r].age = "due"] /\ UNCHANGED waited
     \/ /\ log[r].age = "due" /\ log[r].delivered /\ r \notin waited
        /\ waited' = waited \cup {r} /\ UNCHANGED log
     \/ /\ log[r].age = "due" /\ log[r].sent
        /\ log' = [log EXCEPT ![r].age = "cold"] /\ UNCHANGED waited
  /\ UNCHANGED <<vars, about, pick, call, armed, active, asked, faults>>

-------------------------------------------------------------------------------
(* The sleep pass: check_job_followups, then match_jobs.                    *)

\* Each of the two looks at the queue first.
StartFollowups(p) ==
  /\ pass[p] = "idle" /\ MayBegin /\ call[p] = Idle
  /\ pass' = [pass EXCEPT ![p] = IF Pending = None THEN "followups" ELSE "between"]
  /\ UNCHANGED <<queue, source, sess, held, said, jobVars>>

AsksDue(p) ==
  /\ pass[p] = "followups"
  /\ \/ /\ DueFollowup # NoRec
        /\ pick' = [pick EXCEPT ![p] = DueFollowup]
        /\ pass' = [pass EXCEPT ![p] = "due"] /\ UNCHANGED faults
     \/ /\ DueFollowup = NoRec
        /\ pass' = [pass EXCEPT ![p] = "between"] /\ UNCHANGED <<pick, faults>>
     \/ /\ Fails("call")
        /\ pass' = [pass EXCEPT ![p] = "between"] /\ UNCHANGED pick
  /\ UNCHANGED <<queue, source, sess, held, said, log, about, call, armed, active, asked, waited>>

\* Queue the opener; if the INSERT raises, this pass over the user goes on.
QueueAbout(p, kind, next) ==
  /\ \/ /\ \E id \in Fresh :
             Insert(id, "pass") /\ about' = [about EXCEPT ![id] = <<kind, pick[p]>>]
        /\ pass' = [pass EXCEPT ![p] = next] /\ UNCHANGED faults
     \/ /\ Fails("insert")
        /\ pass' = [pass EXCEPT ![p] = IF kind = "job" THEN "idle" ELSE "between"]
        /\ UNCHANGED <<queue, source, said, about>>
  /\ UNCHANGED <<sess, held, log, pick, call, armed, active, asked, waited>>

QueueFollowup(p) == pass[p] = "due"  /\ QueueAbout(p, "followup", "sending")
QueueJob(p)      == pass[p] = "hint" /\ QueueAbout(p, "job", "idle")

\* POST followup-sent: a request that is lost is only logged.
MarkSent(p) ==
  /\ pass[p] = "sending"
  /\ pass' = [pass EXCEPT ![p] = "between"]
  /\ \/ log' = [log EXCEPT ![pick[p]].sent = TRUE] /\ UNCHANGED faults
     \/ Fails("call") /\ UNCHANGED log
  /\ UNCHANGED <<queue, source, sess, held, said, about, pick, call, armed, active, asked, waited>>

StartMatch(p) ==
  /\ pass[p] = "between"
  /\ IF Pending = None
     THEN /\ pass' = [pass EXCEPT ![p] = "matching"]
          /\ call' = [call EXCEPT ![p] = [at |-> "asked", data |-> None]]
     ELSE pass' = [pass EXCEPT ![p] = "idle"] /\ UNCHANGED call
  /\ UNCHANGED <<queue, source, sess, held, said, log, about, pick, armed, active, asked, waited, faults>>

\* The client's timeout: the brain takes it for "no recommendation", while the
\* matching service goes on.
GivesUp(p) ==
  /\ pass[p] = "matching" /\ Fails("call")
  /\ pass' = [pass EXCEPT ![p] = "idle"]
  /\ UNCHANGED <<queue, source, sess, held, said, log, about, pick, call, armed, active, asked, waited>>

\* Anybody else's check-in for the user.
OthersQueue ==
  /\ Routed /\ MayBegin
  /\ \E id \in Fresh : Insert(id, "route") /\ about' = [about EXCEPT ![id] = <<"other", NoRec>>]
  /\ UNCHANGED <<pass, sess, held, log, pick, call, armed, active, asked, waited, faults>>

-------------------------------------------------------------------------------
(* The companion's session.                                                 *)

Reads(s) == MayBegin /\ ReadPending(s) /\ UNCHANGED jobVars
Marks(s) == MarkDelivered(s) /\ UNCHANGED jobVars

Says(s) ==
  /\ sess[s] = "marked"
  /\ sess' = [sess EXCEPT ![s] = "setup"]
  /\ said' = [said EXCEPT ![held[s]] = @ + 1]
  /\ asked' = IF about[held[s]][1] = "followup" THEN asked \cup {about[held[s]][2]} ELSE asked
  /\ UNCHANGED <<queue, source, pass, held, log, about, pick, call, armed, active, waited, faults>>

\* _setup_job_recommendation: the newest undelivered open thread is marked; the
\* UPDATE commutes with every step between the GET and the POST.
SetupJob(s) ==
  /\ about[held[s]][1] = "job"
  /\ LET r == OpenUndelivered IN
     \/ /\ r # NoRec
        /\ log' = [log EXCEPT ![r].delivered = TRUE] /\ UNCHANGED faults
        /\ armed' = [armed EXCEPT ![s] = [kind |-> "job", rec |-> r]]
     \/ /\ r = NoRec /\ UNCHANGED <<log, faults>>
        /\ armed' = [armed EXCEPT ![s] = [kind |-> "job", rec |-> NoRec]]
     \/ /\ Fails("call") /\ UNCHANGED log   \* the GET or the POST is lost
        /\ \E q \in {NoRec, r} : armed' = [armed EXCEPT ![s] = [kind |-> "job", rec |-> q]]

\* _setup_job_followup: the newest thread whose follow-up was sent.
SetupFollowup(s) ==
  /\ about[held[s]][1] = "followup"
  /\ \/ /\ armed' = [armed EXCEPT ![s] = [kind |-> "followup", rec |-> PendingFollowup]]
        /\ UNCHANGED faults
     \/ /\ Fails("call")
        /\ armed' = [armed EXCEPT ![s] = [kind |-> "followup", rec |-> NoRec]]
  /\ UNCHANGED log

Setup(s) ==
  /\ sess[s] = "setup"
  /\ sess' = [sess EXCEPT ![s] = "open"]
  /\ \/ SetupJob(s)
     \/ SetupFollowup(s)
     \/ about[held[s]][1] = "other" /\ UNCHANGED <<log, armed, faults>>
  /\ UNCHANGED <<queue, source, pass, held, said, about, pick, call, active, asked, waited>>

\* The user's next message.  A yes to a link changes nothing that is kept; a
\* follow-up reply is classified, unless the model fails or does not know; the
\* service books the outcome and then sets the flag, and may fail in between.
Replies(s) ==
  /\ sess[s] = "open" /\ armed[s] # Unarmed
  /\ armed' = [armed EXCEPT ![s] = Unarmed]
  /\ \/ /\ armed[s].kind = "followup" /\ armed[s].rec # NoRec
        /\ \E o \in Outcome : LET booked == [log EXCEPT ![armed[s].rec].outcome = o] IN
             \/ /\ log' = booked
                /\ active' = (active \/ o = "liked")
                /\ UNCHANGED faults
             \/ Fails("call") /\ log' \in {log, booked} /\ UNCHANGED active
     \/ /\ armed[s].kind = "job" \/ armed[s].rec = NoRec
        /\ UNCHANGED <<log, active, faults>>
     \/ Fails("model") /\ UNCHANGED <<log, active>>
  /\ UNCHANGED <<vars, about, pick, call, asked, waited>>

\* The session ends.  If it ends before the reply, or its process stops, what
\* was armed is gone; the check-in stays delivered.
Leaves(s) ==
  /\ sess[s] # "closed"
  /\ IF sess[s] = "open" /\ armed[s] = Unarmed THEN UNCHANGED faults ELSE Fails("session")
  /\ sess' = [sess EXCEPT ![s] = "closed"]
  /\ held' = [held EXCEPT ![s] = None]
  /\ armed' = [armed EXCEPT ![s] = Unarmed]
  /\ UNCHANGED <<queue, source, pass, said, log, about, pick, call, active, asked, waited>>

Sleep(p)  == \/ StartFollowups(p) \/ AsksDue(p) \/ QueueFollowup(p) \/ MarkSent(p)
             \/ StartMatch(p) \/ QueueJob(p)
Match(p)  == MatchReads(p) \/ MatchPicks(p) \/ MatchLogs(p)
Opens(s)  == Reads(s) \/ Marks(s) \/ Says(s) \/ Setup(s)

JobNext ==
  \/ \E p \in Passes : Sleep(p) \/ Match(p) \/ GivesUp(p)
  \/ OthersQueue
  \/ \E r \in Logged : TimePasses(r)
  \/ \E s \in Sessions : Opens(s) \/ Replies(s) \/ Leaves(s)

JobSpec == JobInit /\ [][JobNext]_allVars

\* The cron runs every night and the user keeps opening sessions and replies;
\* calls return and time passes.
JobFairSpec ==
  /\ JobSpec
  /\ \A p \in Passes : WF_allVars(Sleep(p)) /\ WF_allVars(Match(p))
  /\ \A r \in Recs : WF_allVars(r \in Logged /\ TimePasses(r))
  /\ \A s \in Sessions : /\ SF_allVars(Reads(s)) /\ WF_allVars(Opens(s))
                         /\ WF_allVars(Replies(s)) /\ WF_allVars(Leaves(s))

-------------------------------------------------------------------------------
(* Properties.                                                              *)

Row  == [job : Jobs, delivered : BOOLEAN, age : {"new", "due", "cold"},
         sent : BOOLEAN, outcome : Outcome \cup {None}]
Call == [at : {"idle", "asked"}, data : {None}]
        \cup [at : {"read"}, data : SUBSET Range(Partner)]
        \cup [at : {"picked"}, data : Jobs]
Stages    == {"idle", "followups", "due", "sending", "between", "matching", "hint"}
Questions == [kind : {"none", "job", "followup"}, rec : Recs \cup {NoRec}]

JobTypeOK ==
  /\ queue \in Seq(Ids) /\ source \in [Ids -> {"pass", "route"}]
  /\ held \in [Sessions -> Ids \cup {None}]
  /\ pass \in [Passes -> Stages]
  /\ sess \in [Sessions -> {"closed", "read", "marked", "setup", "open"}]
  /\ said \in [Ids -> Nat]
  /\ log \in Seq(Row) /\ Len(log) <= MaxLog
  /\ about \in [Ids -> {"job", "followup", "other"} \X (Recs \cup {NoRec})]
  /\ pick \in [Passes -> Recs \cup {NoRec}]
  /\ call \in [Passes -> Call]
  /\ armed \in [Sessions -> Questions]
  /\ active \in BOOLEAN /\ asked \subseteq Recs /\ waited \subseteq Recs
  /\ faults \in 0..MaxFaults

\* "Lifecycle is one OPEN thread per user".
OneOpenThread == \A q, r \in Logged : IsOpen(q) /\ IsOpen(r) => q = r

\* "Never the same job twice; never a disliked partner again."
NeverAgain ==
  \A q, r \in Logged : q < r =>
    /\ log[q].job # log[r].job
    /\ log[q].outcome = "disliked" => Partner[log[q].job] # Partner[log[r].job]

\* A user has one open thread, about a job and a partner that are new to them.
OneNewThread == OneOpenThread /\ NeverAgain

\* An outcome is booked only on a recommendation the user was shown and was
\* asked about, and the engagement flag is up only if one of them was liked.
OutcomeIsAnswer ==
  /\ \A r \in Logged : ~IsOpen(r) => log[r].delivered /\ r \in asked
  /\ active => \E r \in Logged : log[r].outcome = "liked"

\* "outcome is set from the user's follow-up reply": the reply a session waits
\* for is booked on the recommendation its opener asked about.
ReplyIsBooked ==
  \A s \in Sessions : armed[s].kind = "followup" => armed[s].rec = about[held[s]][2]

\* "wait this long after delivery before following up".
FollowupWaits == \A r \in asked : r \in waited

\* "a matching outage never breaks ... the user just doesn't get a job nudge
\* that day": a logged recommendation reaches the user in the end.
EveryPickReachesUser ==
  \A r \in Recs : r \in Logged ~> (r \in Logged /\ log[r].delivered)

\* A recommendation is told to the user, and their reply is booked on the one
\* they were asked about.
PicksAreFollowed == []ReplyIsBooked /\ EveryPickReachesUser

\* A thread is closed in the end, so that the next one can begin.
EveryThreadCloses ==
  \A r \in Recs : r \in Logged ~> (r \in Logged /\ ~IsOpen(r))
==============================================================================
