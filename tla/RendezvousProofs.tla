--------------------------- MODULE RendezvousProofs ---------------------------
(***************************************************************************)
(* For any number of meets, handlers and passes, any texts, any budget of  *)
(* replies and faults:                                                     *)
(*   - whether or not operations overlap: the types, that nothing on any   *)
(*     copy of a meet lacks its origin, and that an erased meet nobody     *)
(*     holds stays erased;                                                 *)
(*   - when one operation runs at a time, as the code's unit tests run     *)
(*     them: both say yes to one plan, no where/when is lost, no erased    *)
(*     meet keeps a row;                                                   *)
(*   - and when nothing is lost either: nobody is asked or told twice, a   *)
(*     "no" is final, and the service implements MeetLifecycle.            *)
(* Neither hypothesis can be dropped: TLC violates every property stated   *)
(* under the first one once two operations overlap, and every one stated   *)
(* under both once a single answer is lost or a single save fails.         *)
(***************************************************************************)
EXTENDS Rendezvous, TLAPS

\* The copies a handler makes of a row are rows again.
LEMMA ApplyIsRow ==
  ASSUME NEW r \in Row, NEW s \in Side, NEW stage \in Stage, NEW v \in Replies(stage)
  PROVE  /\ Apply(r, s, stage, v) \in Row
         /\ Telling(Apply(r, s, stage, v), s, stage) \subseteq Side \X Memory
         /\ v \in Texts \cup Answer
<1>1. CASE stage = "pref"
  <2>1. v \in Texts BY <1>1 DEF Replies
  <2>2. ApplyPref(r, s, v) \in Row
    BY <2>1 DEF ApplyPref, Row, TextPair, Status, ActiveStatus
  <2>3. QED BY <1>1, <2>1, <2>2 DEF Apply, Telling
<1>2. CASE stage = "confirm"
  <2>1. v \in {"yes", "no"} BY <1>2 DEF Replies
  <2>2. ApplyConfirm(r, s, v) \in Row
    BY <2>1 DEF ApplyConfirm, Row, TextPair, Status, ActiveStatus
  <2>3. QED BY <1>2, <2>1, <2>2 DEF Apply, Telling, Memory, Answer
<1>3. CASE stage = "followup"
  <2>1. v \in {"felt"} BY <1>3 DEF Replies
  <2>2. ApplyFollowup(r, s) \in Row
    BY DEF ApplyFollowup, Row, TextPair, Status, ActiveStatus
  <2>3. QED BY <1>3, <2>1, <2>2 DEF Apply, Telling, Memory, Answer
<1>4. QED BY <1>1, <1>2, <1>3 DEF Stage

\* The row that is not there and a new row have the shape of rows.
LEMMA NoRowIsRow == NoRow \in Row /\ NewRow \in Row
  BY DEF NoRow, NewRow, Row, TextPair, Status, ActiveStatus

\* Every variable keeps its type.
THEOREM TypeCorrect == Spec => []TypeOK
<1>1. Init => TypeOK
  BY NoRowIsRow DEF Init, TypeOK, IdleJob, Job
<1>2. TypeOK /\ [Next]_vars => TypeOK'
  <2> SUFFICES ASSUME TypeOK, [Next]_vars PROVE TypeOK'
    OBVIOUS
  <2> USE DEF TypeOK
  <2>1. ASSUME NEW m \in MeetIds, CreateMeet(m) PROVE TypeOK'
    BY <2>1, NoRowIsRow DEF CreateMeet, pass, brain, user
  <2>2. ASSUME NEW h \in Handlers, NEW m \in MeetIds, NEW s \in Side, NEW stage \in Stage,
               NEW v \in Replies(stage), LoadReply(h, m, s, stage, v)
        PROVE  TypeOK'
    <3>1. /\ Apply(row[m], s, stage, v) \in Row
          /\ Telling(Apply(row[m], s, stage, v), s, stage) \subseteq Side \X Memory
          /\ v \in Texts \cup Answer
      BY ApplyIsRow
    <3>2. job' \in [Handlers -> Job]
      BY <2>2, <3>1 DEF LoadReply, Job
    <3>3. replied' \in [MeetIds \X Side \X Stage -> Nat]
      BY <2>2 DEF LoadReply
    <3>4. said' \subseteq [meet : MeetIds, side : Side, stage : Stage, value : Texts \cup Answer]
      BY <2>2, <3>1 DEF LoadReply
    <3>5. QED BY <2>2, <3>2, <3>3, <3>4 DEF LoadReply, pass, brain
  <2>3. ASSUME NEW h \in Handlers, Remember(h) PROVE TypeOK'
    <3>1. memories' \in [MeetIds \X Side \X Memory -> Nat]
      BY <2>3 DEF Remember
    <3>2. [job[h] EXCEPT !.tell = {}] \in Job
      <4>1. job[h] \in Job OBVIOUS
      <4>2. QED BY <4>1 DEF Job
    <3>3. job' \in [Handlers -> Job] /\ faults' \in Nat
      BY <2>3, <3>2 DEF Remember
    <3>4. QED BY <2>3, <3>1, <3>3 DEF Remember, pass, user
  <2>4. ASSUME NEW h \in Handlers, SaveReply(h) PROVE TypeOK'
    BY <2>4, NoRowIsRow DEF SaveReply, Job, IdleJob, pass, brain, user
  <2>5. ASSUME NEW h \in Handlers, FailReply(h) PROVE TypeOK'
    BY <2>5, NoRowIsRow DEF FailReply, Job, IdleJob, pass, brain, user
  <2>6. ASSUME NEW p \in Passes, StartPass(p) PROVE TypeOK'
    BY <2>6, NoRowIsRow DEF StartPass, Unasked, brain, user
  <2>7. ASSUME NEW p \in Passes, NEW m \in MeetIds, NEW s \in Side,
               AskAccepted(p, m, s) \/ AskRefused(p, m, s) \/ AskUnanswered(p, m, s)
        PROVE  TypeOK'
    <3>1. snap[p][m] \in Row /\ StageOf(snap[p][m]) \in Stage
      BY DEF StageOf, Stage
    <3>2. AskDone(p, m, s)
      BY <2>7 DEF AskAccepted, AskRefused, AskUnanswered
    <3>. /\ cur' \in [Passes -> MeetIds \cup {None}]
         /\ left' \in [Passes -> [MeetIds -> SUBSET Side]]
      <4>1. cur' \in [Passes -> MeetIds \cup {None}]
        BY <3>2 DEF AskDone
      <4>2. [left[p] EXCEPT ![m] = @ \ {s}] \in [MeetIds -> SUBSET Side]
        OBVIOUS
      <4>3. QED BY <3>2, <4>1, <4>2 DEF AskDone
    <3>3. CASE AskAccepted(p, m, s)
      <4>1. [snap[p][m] EXCEPT !.asked = @ \cup {<<StageOf(snap[p][m]), s>>}] \in Row
        <5>1. snap[p][m].asked \cup {<<StageOf(snap[p][m]), s>>} \in SUBSET (Stage \X Side)
          BY <3>1 DEF Row
        <5>2. QED BY <3>1, <5>1 DEF Row
      <4>2. snap' \in [Passes -> [MeetIds -> Row]] /\ dirty' \in [Passes -> BOOLEAN]
        BY <3>3, <4>1 DEF AskAccepted
      <4>3. /\ accepted' \in [MeetIds \X Side \X Stage -> Nat]
            /\ shown' \subseteq [meet : MeetIds, side : Side, plan : TextPair]
        BY <3>1, <3>3 DEF AskAccepted, Stored, Row
      <4>4. QED BY <3>2, <3>3, <4>2, <4>3 DEF AskAccepted, user
    <3>4. CASE AskRefused(p, m, s)
      BY <3>2, <3>4 DEF AskRefused, brain, user
    <3>5. CASE AskUnanswered(p, m, s)
      <4>1. /\ accepted' \in [MeetIds \X Side \X Stage -> Nat]
            /\ shown' \subseteq [meet : MeetIds, side : Side, plan : TextPair]
        BY <3>1, <3>5 DEF AskUnanswered, Stored, Row
      <4>2. QED BY <3>2, <3>5, <4>1 DEF AskUnanswered, user
    <3>6. QED BY <2>7, <3>3, <3>4, <3>5
  <2>8. ASSUME NEW p \in Passes, NEW m \in MeetIds, SavePass(p, m) \/ FailPass(p, m)
        PROVE  TypeOK'
    <3>1. /\ snap' \in [Passes -> [MeetIds -> Row]]
          /\ left' \in [Passes -> [MeetIds -> SUBSET Side]]
          /\ cur' \in [Passes -> MeetIds \cup {None}]
          /\ dirty' \in [Passes -> BOOLEAN]
      <4>1. MeetDone(p, m)
        BY <2>8 DEF SavePass, FailPass
      <4>2. /\ [snap[p] EXCEPT ![m] = NoRow] \in [MeetIds -> Row]
            /\ [left[p] EXCEPT ![m] = {}] \in [MeetIds -> SUBSET Side]
        BY NoRowIsRow
      <4>3. snap' \in [Passes -> [MeetIds -> Row]]
        BY <4>1, <4>2 DEF MeetDone
      <4>4. left' \in [Passes -> [MeetIds -> SUBSET Side]]
        BY <4>1, <4>2 DEF MeetDone
      <4>5. QED BY <4>1, <4>3, <4>4 DEF MeetDone
    <3>2. faults' \in Nat
      BY <2>8 DEF SavePass, FailPass
    <3>3. row' \in [MeetIds -> Row]
      <4>1. row' \in {row, [row EXCEPT ![m] = snap[p][m]]}
        BY <2>8 DEF SavePass, FailPass
      <4>2. [row EXCEPT ![m] = snap[p][m]] \in [MeetIds -> Row]
        OBVIOUS
      <4>3. QED BY <4>1, <4>2
    <3>4. QED BY <2>8, <3>1, <3>2, <3>3 DEF SavePass, FailPass, brain, user
  <2>9. ASSUME NEW u \in Leavers, EraseUser(u) PROVE TypeOK'
    BY <2>9, NoRowIsRow DEF EraseUser, pass, brain, user
  <2>10. CASE UNCHANGED vars
    BY <2>10 DEF vars, pass, brain, user
  <2> HIDE DEF TypeOK
  <2>11. QED
    BY <2>1, <2>2, <2>3, <2>4, <2>5, <2>6, <2>7, <2>8, <2>9, <2>10
       DEF Next, HandlerStep, PassStep
<1>3. QED BY <1>1, <1>2, PTL DEF Spec

-------------------------------------------------------------------------------
(* Where the parts of a copy come from.                                     *)

\* A sourced copy stays sourced while the brain stores and users post more.
LEMMA SourcedGrows ==
  ASSUME NEW m, NEW r, NEW acc, NEW sd, NEW acc2, NEW sd2,
         Sourced(m, r, acc, sd),
         \A k \in r.asked : acc[<<m, k[2], k[1]>>] > 0 => acc2[<<m, k[2], k[1]>>] > 0,
         sd \subseteq sd2
  PROVE  Sourced(m, r, acc2, sd2)
BY DEF Sourced

\* A handler that applies a posted reply to a sourced copy makes a sourced
\* copy, and owes a "meet is set" only when both votes were posted.
LEMMA ApplySourced ==
  ASSUME NEW m \in MeetIds, NEW r \in Row, NEW s \in Side, NEW stage \in Stage,
         NEW v \in Replies(stage), NEW acc, NEW sd,
         Sourced(m, r, acc, sd),
         [meet |-> m, side |-> s, stage |-> stage, value |-> v] \in sd
  PROVE  /\ Sourced(m, Apply(r, s, stage, v), acc, sd)
         /\ \A u \in Side :
              <<u, "meet_set">> \in Telling(Apply(r, s, stage, v), s, stage) =>
                \A t \in Side :
                  [meet |-> m, side |-> t, stage |-> "confirm", value |-> "yes"] \in sd
<1>. DEFINE Heard(t, st, x) == [meet |-> m, side |-> t, stage |-> st, value |-> x] \in sd
<1>1. CASE stage = "pref"
  <2>. DEFINE q == [r EXCEPT !.pref[s] = v]
  <2>1. v \in Texts /\ v # None
    BY <1>1, ValueAssumption DEF Replies
  <2>2. /\ q.status = r.status /\ q.plan = r.plan /\ q.confirm = r.confirm /\ q.asked = r.asked
        /\ \A t \in Side : q.pref[t] = IF t = s THEN v ELSE r.pref[t]
    BY DEF Row, TextPair
  <2>3. \A t \in Side : q.pref[t] # None => Heard(t, "pref", q.pref[t])
    BY <1>1, <2>2 DEF Sourced
  <2>4. Sourced(m, q, acc, sd)
    BY <2>2, <2>3 DEF Sourced
  <2>5. ASSUME BothPrefsIn(q)
        PROVE  Sourced(m, [q EXCEPT !.plan = q.pref, !.status = "confirming"], acc, sd)
    <3>. DEFINE z == [q EXCEPT !.plan = q.pref, !.status = "confirming"]
    <3>1. /\ z.plan = q.pref /\ z.status = "confirming" /\ z.pref = q.pref
          /\ z.confirm = q.confirm /\ z.asked = q.asked
      BY DEF Row
    <3>2. \A t \in Side : z.plan[t] # None
      BY <2>5, <3>1 DEF BothPrefsIn
    <3>. HIDE DEF z, q
    <3>3. \A t \in Side : z.plan[t] # None => Heard(t, "pref", z.plan[t])
      BY <2>4, <3>1 DEF Sourced
    <3>4. z.status # "confirmed"
      BY <3>1
    <3>5. Sourced(m, z, acc, sd)
      BY <2>4, <3>1, <3>2, <3>3, <3>4 DEF Sourced
    <3>6. QED BY <3>5 DEF z
  <2>6. Sourced(m, ApplyPref(r, s, v), acc, sd)
    BY <2>4, <2>5 DEF ApplyPref
  <2>7. QED BY <1>1, <2>6 DEF Apply, Telling
<1>2. CASE stage = "confirm"
  <2>. DEFINE q == [r EXCEPT !.confirm[s] = v]
              z == ApplyConfirm(r, s, v)
  <2>1. v \in {"yes", "no"}
    BY <1>2 DEF Replies
  <2>2. /\ q.status = r.status /\ q.plan = r.plan /\ q.pref = r.pref /\ q.asked = r.asked
        /\ \A t \in Side : q.confirm[t] = IF t = s THEN v ELSE r.confirm[t]
    BY DEF Row
  <2>3. \A t \in Side : q.confirm[t] # "none" => Heard(t, "confirm", q.confirm[t])
    BY <1>2, <2>2 DEF Sourced
  <2>4. /\ z.plan = q.plan /\ z.pref = q.pref /\ z.asked = q.asked /\ z.confirm = q.confirm
        /\ z.status \in {"cancelled", "confirmed", q.status}
        /\ z.status = "confirmed" => BothConfirmed(q) \/ q.status = "confirmed"
    BY DEF ApplyConfirm, Row
  <2>5. BothConfirmed(q) => \A t \in Side : Heard(t, "confirm", "yes")
    BY <2>3 DEF BothConfirmed
  <2>6. BothConfirmed(z) => BothConfirmed(q)
    BY <2>4 DEF BothConfirmed
  <2>7. q.status = "confirmed" => \A t \in Side : Heard(t, "confirm", "yes")
    BY <2>2 DEF Sourced
  <2>. HIDE DEF z, q
  <2>8. Sourced(m, z, acc, sd)
    BY <2>2, <2>3, <2>4, <2>5, <2>7 DEF Sourced
  <2>9. Apply(r, s, stage, v) = z
    BY <1>2 DEF Apply, z
  <2>10. QED BY <1>2, <2>5, <2>6, <2>8, <2>9 DEF Telling
<1>3. CASE stage = "followup"
  <2>. DEFINE z == ApplyFollowup(r, s)
  <2>1. /\ z.plan = r.plan /\ z.pref = r.pref /\ z.asked = r.asked /\ z.confirm = r.confirm
        /\ z.status \in {"followed_up", r.status}
    BY DEF ApplyFollowup, Row
  <2>. HIDE DEF z
  <2>2. Sourced(m, z, acc, sd)
    BY <2>1 DEF Sourced
  <2>3. QED BY <1>3, <2>2 DEF Apply, Telling, z
<1>4. QED BY <1>1, <1>2, <1>3 DEF Stage

\* A new row, and none, hold nothing that needs an origin.
LEMMA NewRowSourced ==
  ASSUME NEW m, NEW acc, NEW sd
  PROVE  Sourced(m, NoRow, acc, sd) /\ Sourced(m, NewRow, acc, sd)
BY DEF Sourced, NoRow, NewRow

\* One step adds to what was said and stored and takes nothing away, so the
\* copies and memories a step leaves alone stay sourced.
LEMMA StillSourced ==
  ASSUME TypeOK, EveryCopySourced, said \subseteq said',
         \A c \in DOMAIN accepted : accepted[c] > 0 => accepted'[c] > 0
  PROVE  /\ \A m \in MeetIds : Sourced(m, row[m], accepted', said')
         /\ \A p \in Passes, m \in MeetIds : Sourced(m, snap[p][m], accepted', said')
         /\ \A h \in Handlers : job[h].meet # None =>
              Sourced(job[h].meet, job[h].copy, accepted', said')
<1>1. \A r \in Row, m \in MeetIds : \A k \in r.asked : <<m, k[2], k[1]>> \in DOMAIN accepted
  BY DEF TypeOK, Row
<1>2. \A m \in MeetIds : row[m] \in Row
  BY DEF TypeOK
<1>3. \A p \in Passes, m \in MeetIds : snap[p][m] \in Row
  BY DEF TypeOK
<1>4. \A h \in Handlers : job[h].copy \in Row /\ (job[h].meet # None => job[h].meet \in MeetIds)
  BY DEF TypeOK, Job
<1>5. ASSUME NEW m \in MeetIds, NEW r \in Row, Sourced(m, r, accepted, said)
      PROVE  Sourced(m, r, accepted', said')
  BY <1>1, <1>5, SourcedGrows
<1>6. QED BY <1>2, <1>3, <1>4, <1>5 DEF EveryCopySourced

\* Every flag, text, plan and vote on every copy of every meet, and every
\* "meet is set" told or about to be told, goes back to a check-in the brain
\* stored or a reply a user posted.
THEOREM CopiesSourced == Spec => []EveryCopySourced
<1>1. Init => EveryCopySourced
  BY NewRowSourced DEF Init, EveryCopySourced, IdleJob, Memory
<1>2. TypeOK /\ EveryCopySourced /\ [Next]_vars => EveryCopySourced'
  <2> SUFFICES ASSUME TypeOK, EveryCopySourced, [Next]_vars PROVE EveryCopySourced'
    OBVIOUS
  <2>. DEFINE AllYes(m) == \A t \in Side :
                [meet |-> m, side |-> t, stage |-> "confirm", value |-> "yes"] \in said'
  <2>1. ASSUME NEW m \in MeetIds, CreateMeet(m) PROVE EveryCopySourced'
    <3>1. /\ UNCHANGED <<job, snap, accepted, memories, said>>
          /\ \A n \in MeetIds : row'[n] = IF n = m THEN NewRow ELSE row[n]
      BY <2>1 DEF CreateMeet, pass, brain, user, TypeOK
    <3>2. \A n \in MeetIds : Sourced(n, row'[n], accepted', said')
      BY <3>1, NewRowSourced DEF EveryCopySourced
    <3>3. QED BY <3>1, <3>2 DEF EveryCopySourced, Said
  <2>2. ASSUME NEW h \in Handlers, NEW m \in MeetIds, NEW s \in Side, NEW stage \in Stage,
               NEW v \in Replies(stage), LoadReply(h, m, s, stage, v)
        PROVE  EveryCopySourced'
    <3>. DEFINE q == Apply(row[m], s, stage, v)
                reply == [meet |-> m, side |-> s, stage |-> stage, value |-> v]
    <3>1. /\ UNCHANGED <<row, snap, accepted, memories>>
          /\ said' = said \cup {reply}
      BY <2>2 DEF LoadReply, pass, brain
    <3>2. /\ \A n \in MeetIds : Sourced(n, row[n], accepted', said')
          /\ \A p \in Passes, n \in MeetIds : Sourced(n, snap[p][n], accepted', said')
          /\ \A g \in Handlers : job[g].meet # None =>
               Sourced(job[g].meet, job[g].copy, accepted', said')
      BY <3>1, StillSourced
    <3>3. /\ Sourced(m, q, accepted', said')
          /\ \A u \in Side : <<u, "meet_set">> \in Telling(q, s, stage) => AllYes(m)
      <4>1. row[m] \in Row /\ Sourced(m, row[m], accepted', said') /\ reply \in said'
        BY <3>1, <3>2 DEF TypeOK
      <4>2. QED BY <4>1, ApplySourced DEF Said
    <3>4. \A g \in Handlers :
            job'[g] \in {job[g], [meet |-> m, copy |-> q, tell |-> Telling(q, s, stage)]}
      BY <2>2 DEF LoadReply, TypeOK
    <3>5. ASSUME NEW g \in Handlers, job'[g].meet # None
          PROVE  /\ Sourced(job'[g].meet, job'[g].copy, accepted', said')
                 /\ \A u \in Side : <<u, "meet_set">> \in job'[g].tell => AllYes(job'[g].meet)
      <4>1. CASE job'[g] = job[g]
        BY <3>1, <3>2, <3>5, <4>1 DEF EveryCopySourced, Said
      <4>2. CASE job'[g] = [meet |-> m, copy |-> q, tell |-> Telling(q, s, stage)]
        BY <3>3, <4>2
      <4>3. QED BY <3>4, <4>1, <4>2
    <3>6. \A n \in MeetIds, t \in Side : memories'[<<n, t, "meet_set">>] > 0 => AllYes(n)
      BY <3>1 DEF EveryCopySourced, Said
    <3>7. QED BY <3>1, <3>2, <3>5, <3>6 DEF EveryCopySourced, Said
  <2>3. ASSUME NEW h \in Handlers, Remember(h) PROVE EveryCopySourced'
    <3>1. /\ UNCHANGED <<row, snap, accepted, said>>
          /\ job' = [job EXCEPT ![h].tell = {}]
      BY <2>3 DEF Remember, pass, user
    <3>2. \A g \in Handlers : /\ job'[g].meet = job[g].meet /\ job'[g].copy = job[g].copy
                              /\ job'[g].tell \subseteq job[g].tell
      BY <3>1 DEF TypeOK, Job
    <3>3. ASSUME NEW n \in MeetIds, NEW t \in Side, memories'[<<n, t, "meet_set">>] > 0
          PROVE  AllYes(n)
      <4>1. <<n, t, "meet_set">> \in DOMAIN memories
        BY DEF TypeOK, Memory
      <4>2. \/ memories[<<n, t, "meet_set">>] > 0
            \/ n = job[h].meet /\ <<t, "meet_set">> \in job[h].tell
        <5>1. PICK told \in SUBSET job[h].tell :
                memories' = [c \in DOMAIN memories |->
                               IF c[1] = job[h].meet /\ <<c[2], c[3]>> \in told
                               THEN memories[c] + 1 ELSE memories[c]]
          BY <2>3 DEF Remember
        <5>2. QED BY <3>3, <4>1, <5>1
      <4>3. n # None
        BY ValueAssumption
      <4>4. QED BY <3>1, <4>2, <4>3 DEF EveryCopySourced, Said
    <3>4. QED BY <3>1, <3>2, <3>3 DEF EveryCopySourced, Said
  <2>4. ASSUME NEW h \in Handlers, SaveReply(h) PROVE EveryCopySourced'
    <3>1. /\ UNCHANGED <<snap, accepted, memories, said>>
          /\ row' = [row EXCEPT ![job[h].meet] = job[h].copy]
          /\ job' = [job EXCEPT ![h] = IdleJob]
      BY <2>4 DEF SaveReply, pass, brain, user
    <3>2. \A n \in MeetIds : \/ row'[n] = row[n]
                             \/ n = job[h].meet /\ row'[n] = job[h].copy
      BY <3>1 DEF TypeOK
    <3>3. \A n \in MeetIds : Sourced(n, row'[n], accepted', said')
      BY <3>1, <3>2, ValueAssumption DEF EveryCopySourced
    <3>4. \A g \in Handlers : job'[g] = job[g] \/ job'[g].meet = None
      BY <3>1 DEF TypeOK, IdleJob
    <3>5. QED BY <3>1, <3>3, <3>4 DEF EveryCopySourced, Said
  <2>5. ASSUME NEW h \in Handlers, FailReply(h) PROVE EveryCopySourced'
    <3>1. /\ UNCHANGED <<row, snap, accepted, memories, said>>
          /\ job' = [job EXCEPT ![h] = IdleJob]
      BY <2>5 DEF FailReply, pass, brain, user
    <3>2. \A g \in Handlers : job'[g] = job[g] \/ job'[g].meet = None
      BY <3>1 DEF TypeOK, IdleJob
    <3>3. QED BY <3>1, <3>2 DEF EveryCopySourced, Said
  <2>6. ASSUME NEW p \in Passes, StartPass(p) PROVE EveryCopySourced'
    <3>1. UNCHANGED <<row, job, accepted, memories, said>>
      BY <2>6 DEF StartPass, brain, user
    <3>2. \A o \in Passes, m \in MeetIds : snap'[o][m] \in {snap[o][m], row[m], NoRow}
      BY <2>6 DEF StartPass, TypeOK
    <3>3. \A o \in Passes, m \in MeetIds : Sourced(m, snap'[o][m], accepted', said')
      BY <3>1, <3>2, NewRowSourced DEF EveryCopySourced
    <3>4. QED BY <3>1, <3>3 DEF EveryCopySourced, Said
  <2>7. ASSUME NEW p \in Passes, NEW m \in MeetIds, NEW s \in Side, AskAccepted(p, m, s)
        PROVE  EveryCopySourced'
    <3>. DEFINE stage == StageOf(snap[p][m])
                z == [snap[p][m] EXCEPT !.asked = @ \cup {<<stage, s>>}]
    <3>1. /\ UNCHANGED <<row, job, memories, said>>
          /\ accepted' = [accepted EXCEPT ![<<m, s, stage>>] = @ + 1]
          /\ snap' = [snap EXCEPT ![p][m] = z]
      BY <2>7 DEF AskAccepted, Stored, user
    <3>2. /\ <<m, s, stage>> \in DOMAIN accepted
          /\ \A c \in DOMAIN accepted : accepted[c] \in Nat
          /\ snap[p][m] \in Row
      BY DEF TypeOK, StageOf, Stage
    <3>3. /\ \A c \in DOMAIN accepted : accepted[c] > 0 => accepted'[c] > 0
          /\ accepted'[<<m, s, stage>>] > 0
      BY <3>1, <3>2
    <3>4. /\ \A n \in MeetIds : Sourced(n, row[n], accepted', said')
          /\ \A o \in Passes, n \in MeetIds : Sourced(n, snap[o][n], accepted', said')
          /\ \A g \in Handlers : job[g].meet # None =>
               Sourced(job[g].meet, job[g].copy, accepted', said')
      BY <3>1, <3>3, StillSourced
    <3>5. Sourced(m, z, accepted', said')
      <4>1. /\ z.status = snap[p][m].status /\ z.pref = snap[p][m].pref
            /\ z.plan = snap[p][m].plan /\ z.confirm = snap[p][m].confirm
            /\ z.asked = snap[p][m].asked \cup {<<stage, s>>}
        BY <3>2 DEF Row
      <4>2. \A k \in z.asked : accepted'[<<m, k[2], k[1]>>] > 0
        BY <3>3, <3>4, <4>1 DEF Sourced
      <4>. HIDE DEF z
      <4>3. QED BY <3>4, <4>1, <4>2 DEF Sourced
    <3>6. \A o \in Passes, n \in MeetIds :
            snap'[o][n] = snap[o][n] \/ (n = m /\ snap'[o][n] = z)
      <4>. HIDE DEF z
      <4>1. snap' = [snap EXCEPT ![p] = [snap[p] EXCEPT ![m] = z]]
        BY <3>1
      <4>2. \A o \in Passes : snap'[o] = IF o = p THEN [snap[p] EXCEPT ![m] = z] ELSE snap[o]
        BY <4>1 DEF TypeOK
      <4>3. \A n \in MeetIds :
              [snap[p] EXCEPT ![m] = z][n] = IF n = m THEN z ELSE snap[p][n]
        BY DEF TypeOK
      <4>4. QED BY <4>2, <4>3
    <3>7. QED BY <3>1, <3>4, <3>5, <3>6 DEF EveryCopySourced, Said
  <2>8. ASSUME NEW p \in Passes, NEW m \in MeetIds, NEW s \in Side,
               AskRefused(p, m, s) \/ AskUnanswered(p, m, s)
        PROVE  EveryCopySourced'
    <3>1. UNCHANGED <<row, job, snap, memories, said>>
      BY <2>8 DEF AskRefused, AskUnanswered, brain, user
    <3>2. \A c \in DOMAIN accepted : accepted[c] > 0 => accepted'[c] > 0
      <4>1. CASE AskRefused(p, m, s)
        BY <4>1 DEF AskRefused, brain
      <4>2. CASE AskUnanswered(p, m, s)
        <5>1. accepted' = [accepted EXCEPT ![<<m, s, StageOf(snap[p][m])>>] = @ + 1]
          BY <4>2 DEF AskUnanswered, Stored
        <5>2. \A c \in DOMAIN accepted : accepted[c] \in Nat
          BY DEF TypeOK
        <5>3. QED BY <5>1, <5>2
      <4>3. QED BY <2>8, <4>1, <4>2
    <3>3. QED BY <3>1, <3>2, StillSourced DEF EveryCopySourced, Said
  <2>9. ASSUME NEW p \in Passes, NEW m \in MeetIds, SavePass(p, m) \/ FailPass(p, m)
        PROVE  EveryCopySourced'
    <3>1. /\ UNCHANGED <<job, accepted, memories, said>>
          /\ row' \in {row, [row EXCEPT ![m] = snap[p][m]]}
          /\ snap' = [snap EXCEPT ![p][m] = NoRow]
      BY <2>9 DEF SavePass, FailPass, MeetDone, brain, user
    <3>2. \A n \in MeetIds : row'[n] \in {row[n], snap[p][n]}
      BY <3>1 DEF TypeOK
    <3>3. \A o \in Passes, n \in MeetIds : snap'[o][n] \in {snap[o][n], NoRow}
      BY <3>1 DEF TypeOK
    <3>4. QED BY <3>1, <3>2, <3>3, NewRowSourced DEF EveryCopySourced, Said
  <2>10. ASSUME NEW u \in Leavers, EraseUser(u) PROVE EveryCopySourced'
    <3>1. /\ UNCHANGED <<job, snap, accepted, memories, said>>
          /\ \A n \in MeetIds : row'[n] \in {row[n], NoRow}
      BY <2>10 DEF EraseUser, pass, brain, user
    <3>2. QED BY <3>1, NewRowSourced DEF EveryCopySourced, Said
  <2>11. CASE UNCHANGED vars
    BY <2>11 DEF vars, pass, brain, user, EveryCopySourced, Said
  <2>12. QED
    BY <2>1, <2>2, <2>3, <2>4, <2>5, <2>6, <2>7, <2>8, <2>9, <2>10, <2>11
       DEF Next, HandlerStep, PassStep
<1>3. QED BY <1>1, <1>2, TypeCorrect, PTL DEF Spec

\* What the three properties below quantify over is sourced.
LEMMA CopyIsSourced ==
  ASSUME EveryCopySourced, NEW m \in MeetIds, NEW r \in Copies(m)
  PROVE  Sourced(m, r, accepted, said)
BY ValueAssumption DEF EveryCopySourced, Copies

\* A flag on any copy of a meet stands for a check-in the brain stored.
THEOREM AskedMeansStoredHolds == Spec => []AskedMeansStored
<1>1. TypeOK /\ EveryCopySourced => AskedMeansStored
  <2> SUFFICES ASSUME TypeOK, EveryCopySourced, NEW m \in MeetIds, NEW r \in Copies(m)
               PROVE  Sourced(m, r, accepted, said)
    BY DEF AskedMeansStored, Sourced
  <2>1. QED BY CopyIsSourced
<1>2. QED BY <1>1, TypeCorrect, CopiesSourced, PTL

\* Whoever is told a meet is set, or holds a confirmed copy of it, has two yeses
\* behind it.
THEOREM ConfirmedByBothHolds == Spec => []ConfirmedByBoth
<1>1. TypeOK /\ EveryCopySourced => ConfirmedByBoth
  <2> SUFFICES ASSUME TypeOK, EveryCopySourced, NEW m \in MeetIds,
                      \/ \E r \in Copies(m) : r.status = "confirmed"
                      \/ \E s \in Side : memories[<<m, s, "meet_set">>] > 0,
                      NEW t \in Side
               PROVE  Said(m, t, "confirm", "yes")
    BY DEF ConfirmedByBoth
  <2>1. CASE \E r \in Copies(m) : r.status = "confirmed"
    BY <2>1, CopyIsSourced DEF Sourced, Said
  <2>2. CASE \E s \in Side : memories[<<m, s, "meet_set">>] > 0
    BY <2>2 DEF EveryCopySourced
  <2>3. QED BY <2>1, <2>2
<1>2. QED BY <1>1, TypeCorrect, CopiesSourced, PTL

\* A plan put to a vote is made of what the two posted.
THEOREM PlanIsRelayedHolds == Spec => []PlanIsRelayed
<1>1. TypeOK /\ EveryCopySourced => PlanIsRelayed
  <2> SUFFICES ASSUME TypeOK, EveryCopySourced, NEW m \in MeetIds, NEW r \in Copies(m),
                      NEW s \in Side
               PROVE  /\ r.status = "confirming" => r.plan[s] # None
                      /\ r.plan[s] # None => Said(m, s, "pref", r.plan[s])
    BY DEF PlanIsRelayed
  <2>1. QED BY CopyIsSourced DEF Sourced, Said
<1>2. QED BY <1>1, TypeCorrect, CopiesSourced, PTL

-------------------------------------------------------------------------------
\* An erased meet of which no copy is left stays erased, for ever.
THEOREM ErasedForGoodHolds == Spec => ErasedForGood
<1>1. ASSUME TypeOK, [Next]_vars, NEW m \in MeetIds, Gone(m)
      PROVE  Gone(m)'
  <2>. DEFINE Free == /\ m \in created'
                      /\ row'[m] = NoRow
                      /\ \A h \in Handlers : job'[h].meet = m => job'[h].copy = NoRow
                      /\ \A p \in Passes : snap'[p][m] = NoRow
  <2>1. /\ m \in created /\ row[m] = NoRow
        /\ \A h \in Handlers : job[h].meet = m => job[h].copy = NoRow
        /\ \A p \in Passes : snap[p][m] = NoRow
    BY <1>1 DEF Gone, Copies
  <2>2. Free => Gone(m)'
    BY DEF Gone, Copies
  <2>3. m # None
    BY ValueAssumption
  <2>4. ~IsActive(NoRow)
    BY DEF IsActive, NoRow, ActiveStatus
  <2>5. ASSUME NEW n \in MeetIds, CreateMeet(n) PROVE Free
    BY <1>1, <2>1, <2>5 DEF CreateMeet, pass, TypeOK
  <2>6. ASSUME NEW h \in Handlers, NEW n \in MeetIds, NEW s \in Side, NEW stage \in Stage,
               NEW v \in Replies(stage), LoadReply(h, n, s, stage, v)
        PROVE  Free
    BY <1>1, <2>1, <2>6 DEF LoadReply, pass, TypeOK
  <2>7. ASSUME NEW h \in Handlers, Remember(h) PROVE Free
    <3>1. \A g \in Handlers : job'[g].meet = job[g].meet /\ job'[g].copy = job[g].copy
      BY <1>1, <2>7 DEF Remember, TypeOK, Job
    <3>2. QED BY <2>1, <2>7, <3>1 DEF Remember, pass
  <2>8. ASSUME NEW h \in Handlers, SaveReply(h) \/ FailReply(h) PROVE Free
    <3>1. /\ UNCHANGED <<created, snap>>
          /\ row' \in {row, [row EXCEPT ![job[h].meet] = job[h].copy]}
          /\ job' = [job EXCEPT ![h] = IdleJob]
      BY <2>8 DEF SaveReply, FailReply, pass
    <3>2. row'[m] = NoRow
      BY <1>1, <2>1, <3>1 DEF TypeOK
    <3>3. QED BY <1>1, <2>1, <2>3, <3>1, <3>2 DEF TypeOK, IdleJob
  <2>9. ASSUME NEW p \in Passes, StartPass(p) PROVE Free
    BY <1>1, <2>1, <2>4, <2>9 DEF StartPass, TypeOK
  <2>10. ASSUME NEW p \in Passes, NEW n \in MeetIds, NEW s \in Side,
                AskAccepted(p, n, s) \/ AskRefused(p, n, s) \/ AskUnanswered(p, n, s)
         PROVE  Free
    <3>1. n # m
      BY <2>1, <2>10 DEF AskAccepted, AskRefused, AskUnanswered, AsksNext
    <3>2. UNCHANGED <<row, created, job>>
      BY <2>10 DEF AskAccepted, AskRefused, AskUnanswered
    <3>3. \A o \in Passes : snap'[o][m] = snap[o][m]
      BY <1>1, <2>10, <3>1 DEF AskAccepted, AskRefused, AskUnanswered, TypeOK
    <3>4. QED BY <2>1, <3>2, <3>3
  <2>11. ASSUME NEW p \in Passes, NEW n \in MeetIds, SavePass(p, n) \/ FailPass(p, n)
         PROVE  Free
    <3>1. n # m
      BY <2>1, <2>11 DEF SavePass, FailPass
    <3>2. /\ UNCHANGED <<created, job>>
          /\ row' \in {row, [row EXCEPT ![n] = snap[p][n]]}
          /\ snap' = [snap EXCEPT ![p][n] = NoRow]
      BY <2>11 DEF SavePass, FailPass, MeetDone
    <3>3. QED BY <1>1, <2>1, <3>1, <3>2 DEF TypeOK
  <2>12. ASSUME NEW u \in Leavers, EraseUser(u) PROVE Free
    BY <1>1, <2>1, <2>12 DEF EraseUser, pass
  <2>13. CASE UNCHANGED vars
    BY <2>1, <2>2, <2>13 DEF vars, pass
  <2>14. QED
    BY <1>1, <2>2, <2>5, <2>6, <2>7, <2>8, <2>9, <2>10, <2>11, <2>12, <2>13
       DEF Next, HandlerStep, PassStep
<1>2. TypeOK /\ [Next]_vars => [\A m \in MeetIds : Gone(m) => Gone(m)']_vars
  BY <1>1
<1>3. QED BY <1>2, TypeCorrect, PTL DEF Spec, ErasedForGood

\* A confirmed meet has two yeses and a plan made of what the two posted.
THEOREM MeetAgreed == Spec => []MeetIsAgreed
BY ConfirmedByBothHolds, PlanIsRelayedHolds, PTL DEF MeetIsAgreed
-------------------------------------------------------------------------------
(* One operation at a time, as the unit tests run them.  A copy in flight is *)
(* then as good as the row: nobody else touches the row while it is held.    *)

OneAtATime ==
  /\ \A h, g \in Handlers : job[h] # IdleJob /\ job[g] # IdleJob => h = g
  /\ \A p, q \in Passes : Holding(p) # {} /\ Holding(q) # {} => p = q
  /\ \A h \in Handlers, p \in Passes : job[h] # IdleJob => Holding(p) = {}

\* A pass's copy is the row, up to the asked-flags it has set and will save.
InStep(p, m) ==
  /\ IsActive(row[m])
  /\ row[m].asked \subseteq snap[p][m].asked
  /\ snap[p][m] = [row[m] EXCEPT !.asked = snap[p][m].asked]
  /\ (cur[p] = m /\ dirty[p]) \/ snap[p][m] = row[m]

\* A handler's copy is what one reply makes of the row as it is now.
JobFresh(h) ==
  /\ job[h].meet \in MeetIds
  /\ row[job[h].meet].status # "absent"
  /\ \E s \in Side, stage \in Stage : \E v \in Replies(stage) :
       job[h].copy = Apply(row[job[h].meet], s, stage, v)

RowsKnown ==
  \A m \in MeetIds : /\ row[m] # NoRow => m \in created
                     /\ row[m].status = "absent" => row[m] = NoRow

\* Whatever was put to a vote is the plan on the row.
ShownIsPlan ==
  \A k \in shown : /\ k.meet \in created
                   /\ row[k.meet] # NoRow => /\ row[k.meet].status # "coordinating"
                                             /\ k.plan = row[k.meet].plan

SerialInv ==
  /\ OneAtATime
  /\ \A p \in Passes, m \in MeetIds : snap[p][m] # NoRow => InStep(p, m)
  /\ \A h \in Handlers : job[h] # IdleJob => JobFresh(h)
  /\ RowsKnown
  /\ ShownIsPlan
  /\ erased \subseteq created /\ NothingSurvives

\* What a reply never does to a row: touch the flags, lose a where/when, go
\* back to coordinating, or change a plan that exists.
LEMMA ApplyKeeps ==
  ASSUME NEW r \in Row, r.status # "absent",
         NEW s \in Side, NEW stage \in Stage, NEW v \in Replies(stage)
  PROVE  LET q == Apply(r, s, stage, v)
         IN  /\ q.asked = r.asked
             /\ q.status # "absent"
             /\ r.status # "coordinating" => q.status # "coordinating" /\ q.plan = r.plan
             /\ \A t \in Side : r.pref[t] # None => q.pref[t] # None
<1>1. CASE stage = "pref"
  <2>1. v # None
    BY <1>1, ValueAssumption DEF Replies
  <2>2. QED BY <1>1, <2>1 DEF Apply, ApplyPref, Row
<1>2. CASE stage = "confirm"
  BY <1>2 DEF Apply, ApplyConfirm, Row
<1>3. CASE stage = "followup"
  BY <1>3 DEF Apply, ApplyFollowup, Row
<1>4. QED BY <1>1, <1>2, <1>3 DEF Stage

\* An operation starts only when no handler and no pass holds a copy.
LEMMA QuietMeans ==
  ASSUME Overlap = FALSE, MayStart
  PROVE  /\ \A h \in Handlers : job[h] = IdleJob
         /\ \A p \in Passes, m \in MeetIds : snap[p][m] = NoRow
BY DEF MayStart, Quiet, Holding

\* One operation at a time, every copy in flight agrees with the row it will be
\* saved over, whatever fails.
THEOREM SerialHolds ==
  ASSUME Overlap = FALSE
  PROVE  Spec => []SerialInv
<1>1. Init => SerialInv
  BY DEF Init, SerialInv, OneAtATime, RowsKnown, ShownIsPlan, NothingSurvives, Holding
<1>2. TypeOK /\ SerialInv /\ [Next]_vars => SerialInv'
  <2> SUFFICES ASSUME TypeOK, SerialInv, [Next]_vars PROVE SerialInv'
    OBVIOUS
  <2>a. /\ NoRow.status = "absent" /\ NewRow # NoRow /\ ~IsActive(NoRow)
        /\ \A m \in MeetIds : m # None
        /\ \A m \in MeetIds : row[m] \in Row
        /\ \A p \in Passes, m \in MeetIds : snap[p][m] \in Row
    BY ValueAssumption DEF NoRow, NewRow, IsActive, ActiveStatus, TypeOK
  <2>1. ASSUME NEW m \in MeetIds, CreateMeet(m) PROVE SerialInv'
    <3>1. /\ \A h \in Handlers : job'[h] = IdleJob
          /\ \A p \in Passes, n \in MeetIds : snap'[p][n] = NoRow
      BY <2>1, QuietMeans DEF CreateMeet, pass
    <3>2. /\ m \notin created /\ created' = created \cup {m}
          /\ \A n \in MeetIds : row'[n] = IF n = m THEN NewRow ELSE row[n]
          /\ UNCHANGED <<shown, erased>>
      BY <2>1 DEF CreateMeet, TypeOK
    <3>3. RowsKnown' /\ ShownIsPlan'
      BY <3>2, <2>a DEF SerialInv, RowsKnown, ShownIsPlan, NewRow, TypeOK
    <3>4. (erased \subseteq created /\ NothingSurvives)'
      BY <3>2 DEF SerialInv, NothingSurvives, TypeOK
    <3>5. OneAtATime'
      BY <3>1 DEF OneAtATime, Holding
    <3>6. QED BY <3>1, <3>3, <3>4, <3>5 DEF SerialInv
  <2>2. ASSUME NEW h \in Handlers, NEW m \in MeetIds, NEW s \in Side, NEW stage \in Stage,
               NEW v \in Replies(stage), LoadReply(h, m, s, stage, v)
        PROVE  SerialInv'
    <3>1. /\ \A g \in Handlers : job[g] = IdleJob
          /\ \A p \in Passes, n \in MeetIds : snap'[p][n] = NoRow
          /\ UNCHANGED <<row, created, shown, erased>>
      BY <2>2, QuietMeans DEF LoadReply, pass
    <3>2. \A g \in Handlers :
            \/ job'[g] = IdleJob
            \/ /\ g = h /\ row[m] # NoRow
               /\ job'[g].meet = m /\ job'[g].copy = Apply(row[m], s, stage, v)
      BY <2>2, <3>1 DEF LoadReply, TypeOK
    <3>3. OneAtATime'
      BY <3>1, <3>2 DEF OneAtATime, Holding
    <3>4. ASSUME NEW g \in Handlers, job'[g] # IdleJob PROVE JobFresh(g)'
      <4>1. row'[m].status # "absent" /\ row' = row
        BY <3>1, <3>2, <3>4 DEF SerialInv, RowsKnown
      <4>2. QED BY <3>2, <3>4, <4>1 DEF JobFresh
    <3>5. (RowsKnown /\ ShownIsPlan /\ erased \subseteq created /\ NothingSurvives)'
      BY <3>1 DEF SerialInv, RowsKnown, ShownIsPlan, NothingSurvives
    <3>6. QED BY <3>1, <3>3, <3>4, <3>5 DEF SerialInv
  <2>3. ASSUME NEW h \in Handlers, Remember(h) PROVE SerialInv'
    <3>1. UNCHANGED <<row, created, snap, left, cur, dirty, shown, erased>>
      BY <2>3 DEF Remember, pass
    <3>2. /\ job[h] # IdleJob
          /\ \A g \in Handlers : /\ job'[g].meet = job[g].meet /\ job'[g].copy = job[g].copy
                                 /\ g # h => job'[g] = job[g]
      BY <2>3 DEF Remember, TypeOK, Job, IdleJob
    <3>3. \A g \in Handlers : job'[g] # IdleJob => job[g] # IdleJob
      BY <3>2
    <3>4. OneAtATime'
      BY <3>1, <3>3 DEF SerialInv, OneAtATime, Holding
    <3>5. \A g \in Handlers : job'[g] # IdleJob => JobFresh(g)'
      BY <3>1, <3>2, <3>3 DEF SerialInv, JobFresh
    <3>6. (RowsKnown /\ ShownIsPlan /\ erased \subseteq created /\ NothingSurvives)'
      BY <3>1 DEF SerialInv, RowsKnown, ShownIsPlan, NothingSurvives
    <3>7. \A p \in Passes, m \in MeetIds : snap'[p][m] # NoRow => InStep(p, m)'
      BY <3>1 DEF SerialInv, InStep
    <3>8. QED BY <3>4, <3>5, <3>6, <3>7 DEF SerialInv
  <2>4. ASSUME NEW h \in Handlers, SaveReply(h) PROVE SerialInv'
    <3>. DEFINE m == job[h].meet
    <3>1. /\ job[h] # IdleJob /\ JobFresh(h)
          /\ UNCHANGED <<created, snap, left, cur, dirty, shown, erased>>
          /\ \A g \in Handlers : job'[g] = IdleJob
      BY <2>4 DEF SaveReply, pass, brain, user, SerialInv, OneAtATime, TypeOK
    <3>2. /\ m \in MeetIds /\ row[m].status # "absent"
          /\ \A n \in MeetIds : row'[n] = IF n = m THEN job[h].copy ELSE row[n]
      BY <2>4, <3>1 DEF SaveReply, JobFresh, TypeOK
    <3>3. PICK s \in Side, stage \in Stage : \E v \in Replies(stage) :
            job[h].copy = Apply(row[m], s, stage, v)
      BY <3>1 DEF JobFresh
    <3>4. /\ job[h].copy.status # "absent"
          /\ row[m].status # "coordinating" =>
               job[h].copy.status # "coordinating" /\ job[h].copy.plan = row[m].plan
      BY <3>2, <3>3, <2>a, ApplyKeeps
    <3>5. \A p \in Passes, n \in MeetIds : snap'[p][n] = NoRow
      BY <3>1 DEF SerialInv, OneAtATime, Holding
    <3>6. row[m] # NoRow /\ job[h].copy # NoRow /\ m \in created /\ m \notin erased
      BY <3>2, <3>4, <2>a DEF SerialInv, RowsKnown, NothingSurvives
    <3>r. RowsKnown'
      BY <3>1, <3>2, <3>4, <3>6 DEF SerialInv, RowsKnown
    <3>s. ShownIsPlan'
      <4>. SUFFICES ASSUME NEW k \in shown, row'[k.meet] # NoRow
                    PROVE  row'[k.meet].status # "coordinating" /\ k.plan = row'[k.meet].plan
        BY <3>1 DEF SerialInv, ShownIsPlan
      <4>1. k.meet \in MeetIds /\ (row[k.meet] # NoRow =>
              row[k.meet].status # "coordinating" /\ k.plan = row[k.meet].plan)
        BY DEF SerialInv, ShownIsPlan, TypeOK
      <4>2. CASE k.meet = m
        BY <3>2, <3>4, <3>6, <4>1, <4>2
      <4>3. CASE k.meet # m
        BY <3>2, <4>1, <4>3
      <4>. QED  BY <4>2, <4>3
    <3>7. RowsKnown' /\ ShownIsPlan'
      BY <3>r, <3>s
    <3>8. (erased \subseteq created /\ NothingSurvives)'
      BY <3>1, <3>2, <3>6 DEF SerialInv, NothingSurvives, TypeOK
    <3>9. OneAtATime'
      BY <3>1, <3>5 DEF OneAtATime, Holding
    <3>10. QED BY <3>1, <3>5, <3>7, <3>8, <3>9 DEF SerialInv
  <2>5. ASSUME NEW h \in Handlers, FailReply(h) PROVE SerialInv'
    <3>1. /\ UNCHANGED <<row, created, snap, left, cur, dirty, shown, erased>>
          /\ \A g \in Handlers : job'[g] \in {IdleJob, job[g]}
      BY <2>5 DEF FailReply, pass, TypeOK
    <3>2. \A g \in Handlers : job'[g] # IdleJob => JobFresh(g)'
      BY <3>1 DEF SerialInv, JobFresh
    <3>3. OneAtATime'
      BY <3>1 DEF SerialInv, OneAtATime, Holding
    <3>4. \A p \in Passes, m \in MeetIds : snap'[p][m] # NoRow => InStep(p, m)'
      BY <3>1 DEF SerialInv, InStep
    <3>5. (RowsKnown /\ ShownIsPlan /\ erased \subseteq created /\ NothingSurvives)'
      BY <3>1 DEF SerialInv, RowsKnown, ShownIsPlan, NothingSurvives
    <3>6. QED BY <3>2, <3>3, <3>4, <3>5 DEF SerialInv
  <2>6. ASSUME NEW p \in Passes, StartPass(p) PROVE SerialInv'
    <3>1. /\ \A h \in Handlers : job'[h] = IdleJob
          /\ \A o \in Passes, m \in MeetIds : snap[o][m] = NoRow
          /\ UNCHANGED <<row, created, shown, erased>>
      BY <2>6, QuietMeans DEF StartPass
    <3>2. \A o \in Passes, m \in MeetIds :
            \/ snap'[o][m] = NoRow
            \/ o = p /\ IsActive(row[m]) /\ snap'[o][m] = row[m]
      BY <2>6, <3>1 DEF StartPass, TypeOK
    <3>3. ASSUME NEW o \in Passes, NEW m \in MeetIds, snap'[o][m] # NoRow
          PROVE  InStep(o, m)'
      BY <3>1, <3>2, <3>3, <2>a DEF InStep, IsActive, Row
    <3>4. OneAtATime'
      BY <3>1, <3>2 DEF OneAtATime, Holding
    <3>5. (RowsKnown /\ ShownIsPlan /\ erased \subseteq created /\ NothingSurvives)'
      BY <3>1 DEF SerialInv, RowsKnown, ShownIsPlan, NothingSurvives
    <3>6. QED BY <3>1, <3>3, <3>4, <3>5 DEF SerialInv
  <2>7. ASSUME NEW p \in Passes, NEW m \in MeetIds, NEW s \in Side,
               AskAccepted(p, m, s) \/ AskRefused(p, m, s) \/ AskUnanswered(p, m, s)
        PROVE  SerialInv'
    <3>. DEFINE r == snap[p][m]
                z == [r EXCEPT !.asked = @ \cup {<<StageOf(r), s>>}]
    <3>1. /\ r # NoRow /\ cur[p] \in {None, m} /\ InStep(p, m)
          /\ UNCHANGED <<row, created, job, erased>>
          /\ \A o \in Passes : cur'[o] = IF o = p THEN m ELSE cur[o]
      BY <2>7 DEF AskAccepted, AskRefused, AskUnanswered, AsksNext, AskDone, SerialInv, TypeOK
    <3>2. /\ \A o \in Passes, n \in MeetIds :
               snap'[o][n] = snap[o][n] \/ (o = p /\ n = m /\ snap'[o][n] = z /\ dirty'[p])
          /\ \A o \in Passes : dirty'[o] = dirty[o] \/ (o = p /\ dirty'[p])
      <4>. HIDE DEF z
      <4>1. CASE AskAccepted(p, m, s)
        <5>1. snap' = [snap EXCEPT ![p] = [snap[p] EXCEPT ![m] = z]]
          BY <4>1 DEF AskAccepted, z
        <5>2. \A o \in Passes : snap'[o] = IF o = p THEN [snap[p] EXCEPT ![m] = z] ELSE snap[o]
          BY <5>1 DEF TypeOK
        <5>3. \A n \in MeetIds : [snap[p] EXCEPT ![m] = z][n] = IF n = m THEN z ELSE snap[p][n]
          BY DEF TypeOK
        <5>4. \A o \in Passes : dirty'[o] = IF o = p THEN TRUE ELSE dirty[o]
          BY <4>1 DEF AskAccepted, TypeOK
        <5>5. QED BY <5>2, <5>3, <5>4
      <4>2. CASE AskRefused(p, m, s) \/ AskUnanswered(p, m, s)
        BY <4>2 DEF AskRefused, AskUnanswered
      <4>3. QED BY <2>7, <4>1, <4>2
    <3>3. \A o \in Passes, n \in MeetIds : snap'[o][n] # NoRow => snap[o][n] # NoRow
      BY <3>1, <3>2
    <3>4. ASSUME NEW o \in Passes, NEW n \in MeetIds, snap'[o][n] # NoRow
          PROVE  InStep(o, n)'
      <4>1. InStep(o, n) /\ snap[o][n] # NoRow
        BY <3>3, <3>4 DEF SerialInv
      <4>2. CASE o = p /\ n = m /\ snap'[o][n] = z /\ dirty'[p]
        <5>1. /\ row[m].asked \subseteq z.asked
              /\ z = [row[m] EXCEPT !.asked = z.asked]
              /\ z.asked = r.asked \cup {<<StageOf(r), s>>}
          <6>1. /\ r \in Row /\ row[m] \in Row
                /\ row[m].asked \subseteq r.asked
                /\ r = [row[m] EXCEPT !.asked = r.asked]
            BY <3>1, <2>a DEF InStep
          <6>2. z.asked = r.asked \cup {<<StageOf(r), s>>}
            BY <6>1 DEF Row
          <6>3. \A x : [[row[m] EXCEPT !.asked = r.asked] EXCEPT !.asked = x]
                        = [row[m] EXCEPT !.asked = x]
            BY <6>1 DEF Row
          <6>4. z = [row[m] EXCEPT !.asked = z.asked]
            BY <6>1, <6>2, <6>3
          <6>5. QED BY <6>1, <6>2, <6>4
        <5>. HIDE DEF z
        <5>2. QED BY <3>1, <4>1, <4>2, <5>1 DEF InStep
      <4>3. CASE snap'[o][n] = snap[o][n]
        <5>1. cur[o] = n /\ dirty[o] => cur'[o] = n /\ dirty'[o]
          BY <3>1, <3>2, <2>a
        <5>2. QED BY <3>1, <4>1, <4>3, <5>1 DEF InStep
      <4>4. QED BY <3>2, <4>2, <4>3
    <3>5. ShownIsPlan'
      <4>1. \A k \in shown' :
              \/ k \in shown
              \/ k.meet = m /\ k.plan = r.plan /\ StageOf(r) = "confirm"
        BY <2>7 DEF AskAccepted, AskRefused, AskUnanswered, Stored, brain
      <4>2. StageOf(r) = "confirm" => r.status # "coordinating"
        BY DEF StageOf
      <4>3. row[m] # NoRow /\ m \in created
        BY <3>1, <2>a DEF InStep, SerialInv, RowsKnown
      <4>4. row[m].plan = r.plan /\ row[m].status = r.status
        BY <3>1, <2>a DEF InStep, Row
      <4>5. QED BY <3>1, <4>1, <4>2, <4>3, <4>4 DEF SerialInv, ShownIsPlan
    <3>6. OneAtATime'
      BY <3>1, <3>3 DEF SerialInv, OneAtATime, Holding
    <3>7. \A h \in Handlers : job'[h] # IdleJob => JobFresh(h)'
      BY <3>1 DEF SerialInv, JobFresh
    <3>8. (RowsKnown /\ erased \subseteq created /\ NothingSurvives)'
      BY <3>1 DEF SerialInv, RowsKnown, NothingSurvives
    <3>9. QED BY <3>4, <3>5, <3>6, <3>7, <3>8 DEF SerialInv
  <2>8. ASSUME NEW p \in Passes, NEW m \in MeetIds, SavePass(p, m) \/ FailPass(p, m)
        PROVE  SerialInv'
    <3>1. /\ snap[p][m] # NoRow /\ cur[p] = m /\ InStep(p, m)
          /\ UNCHANGED <<created, job, shown, erased>>
          /\ row' \in {row, [row EXCEPT ![m] = snap[p][m]]}
          /\ MeetDone(p, m)
      BY <2>8 DEF SavePass, FailPass, SerialInv
    <3>2. \A o \in Passes, n \in MeetIds :
            snap'[o][n] = IF o = p /\ n = m THEN NoRow ELSE snap[o][n]
      BY <3>1 DEF MeetDone, TypeOK
    <3>3. /\ snap[p][m].status = row[m].status /\ snap[p][m].plan = row[m].plan
          /\ row[m].status # "absent" /\ row[m] # NoRow
      BY <3>1, <2>a DEF InStep, Row, IsActive, ActiveStatus
    <3>4. \A n \in MeetIds : /\ n # m => row'[n] = row[n]
                             /\ row'[n].status = row[n].status /\ row'[n].plan = row[n].plan
                             /\ row'[n] = NoRow <=> row[n] = NoRow
      BY <3>1, <3>3, <2>a DEF TypeOK
    <3>5. \A h \in Handlers : job'[h] = IdleJob
      BY <3>1 DEF SerialInv, OneAtATime, Holding
    <3>6. ASSUME NEW o \in Passes, NEW n \in MeetIds, snap'[o][n] # NoRow
          PROVE  InStep(o, n)'
      <4>1. o = p
        BY <3>1, <3>2, <3>6 DEF SerialInv, OneAtATime, Holding
      <4>2. n # m /\ snap[p][n] # NoRow /\ snap'[p][n] = snap[p][n] /\ InStep(p, n)
        BY <3>2, <3>6, <4>1 DEF SerialInv
      <4>3. snap[p][n] = row[n]
        BY <3>1, <4>2 DEF InStep
      <4>4. QED BY <3>4, <4>1, <4>2, <4>3 DEF InStep
    <3>7. OneAtATime'
      BY <3>2, <3>5 DEF SerialInv, OneAtATime, Holding
    <3>8. (RowsKnown /\ ShownIsPlan)'
      <4>1. RowsKnown'
        BY <3>1, <3>4 DEF SerialInv, RowsKnown
      <4>2. ASSUME NEW k \in shown PROVE /\ k.meet \in created /\ k.meet \in MeetIds
        BY DEF SerialInv, ShownIsPlan, TypeOK
      <4>3. ShownIsPlan'
        BY <3>1, <3>4, <4>2 DEF SerialInv, ShownIsPlan
      <4>4. QED BY <4>1, <4>3
    <3>9. (erased \subseteq created /\ NothingSurvives)'
      BY <3>1, <3>4 DEF SerialInv, NothingSurvives, TypeOK
    <3>10. QED BY <3>5, <3>6, <3>7, <3>8, <3>9 DEF SerialInv
  <2>9. ASSUME NEW u \in Leavers, EraseUser(u) PROVE SerialInv'
    <3>1. /\ \A h \in Handlers : job'[h] = IdleJob
          /\ \A p \in Passes, n \in MeetIds : snap'[p][n] = NoRow
      BY <2>9, QuietMeans DEF EraseUser, pass
    <3>2. PICK gone \in SUBSET MeetIds :
            /\ \A n \in gone : row[n] # NoRow
            /\ \A n \in MeetIds : row'[n] = IF n \in gone THEN NoRow ELSE row[n]
            /\ erased' = erased \cup gone
            /\ UNCHANGED <<created, shown>>
      BY <2>9 DEF EraseUser
    <3>3. RowsKnown' /\ ShownIsPlan'
      BY <3>2 DEF SerialInv, RowsKnown, ShownIsPlan, TypeOK
    <3>4. (erased \subseteq created /\ NothingSurvives)'
      BY <3>2 DEF SerialInv, NothingSurvives, RowsKnown, TypeOK
    <3>5. OneAtATime'
      BY <3>1 DEF OneAtATime, Holding
    <3>6. QED BY <3>1, <3>3, <3>4, <3>5 DEF SerialInv
  <2>10. CASE UNCHANGED vars
    BY <2>10 DEF vars, pass, SerialInv, OneAtATime, Holding, InStep, JobFresh, RowsKnown,
                 ShownIsPlan, NothingSurvives
  <2>11. QED
    BY <2>1, <2>2, <2>3, <2>4, <2>5, <2>6, <2>7, <2>8, <2>9, <2>10
       DEF Next, HandlerStep, PassStep
<1>3. QED BY <1>1, <1>2, TypeCorrect, PTL DEF Spec

\* One operation at a time, both say yes to the same plan, whatever fails.
THEOREM OnePlanHolds ==
  ASSUME Overlap = FALSE
  PROVE  Spec => []OnePlanAgreed
<1>1. TypeOK /\ SerialInv => OnePlanAgreed
  <2>1. NoRow.status = "absent"
    BY DEF NoRow, NewRow
  <2>2. QED BY <2>1 DEF TypeOK, SerialInv, ShownIsPlan, OnePlanAgreed
<1>2. QED BY <1>1, TypeCorrect, SerialHolds, PTL

\* One operation at a time, no save loses a where/when that was saved before.
THEOREM PrefsKeptHolds ==
  ASSUME Overlap = FALSE
  PROVE  Spec => PrefsKept
<1>. DEFINE Kept == \A m \in MeetIds, s \in Side :
              row[m].pref[s] # None /\ row'[m] # NoRow => row'[m].pref[s] # None
<1>1. TypeOK /\ SerialInv /\ [Next]_vars => Kept
  <2> SUFFICES ASSUME TypeOK, SerialInv, [Next]_vars,
                      NEW m \in MeetIds, NEW s \in Side,
                      row[m].pref[s] # None, row'[m] # NoRow
               PROVE  row'[m].pref[s] # None
    OBVIOUS
  <2>1. row[m] # NoRow
    BY DEF NoRow, NewRow
  <2>2. ASSUME NEW n \in MeetIds, CreateMeet(n) PROVE row'[m] = row[m]
    BY <2>1, <2>2 DEF CreateMeet, TypeOK, SerialInv, RowsKnown
  <2>3. ASSUME NEW h \in Handlers, SaveReply(h) PROVE row'[m].pref[s] # None
    <3>1. /\ JobFresh(h) /\ row' = [row EXCEPT ![job[h].meet] = job[h].copy]
      BY <2>3 DEF SaveReply, SerialInv
    <3>2. CASE job[h].meet = m
      <4>1. row[m] \in Row /\ row[m].status # "absent" /\ row'[m] = job[h].copy
        BY <3>1, <3>2 DEF JobFresh, TypeOK
      <4>2. PICK t \in Side, stage \in Stage : \E v \in Replies(stage) :
              job[h].copy = Apply(row[m], t, stage, v)
        BY <3>1, <3>2 DEF JobFresh
      <4>3. QED BY <4>1, <4>2, ApplyKeeps
    <3>3. CASE job[h].meet # m
      BY <3>1, <3>3 DEF TypeOK
    <3>4. QED BY <3>2, <3>3
  <2>4. ASSUME NEW p \in Passes, NEW n \in MeetIds, SavePass(p, n)
        PROVE  row'[m].pref[s] # None
    <3>1. InStep(p, n) /\ row' \in {row, [row EXCEPT ![n] = snap[p][n]]}
      BY <2>4 DEF SavePass, SerialInv
    <3>2. snap[p][n].pref = row[n].pref
      BY <3>1 DEF InStep, TypeOK, Row
    <3>3. QED BY <3>1, <3>2 DEF TypeOK
  <2>5. ASSUME NEW u \in Leavers, EraseUser(u) PROVE row'[m] = row[m]
    BY <2>5 DEF EraseUser
  <2>6. ASSUME NEW h \in Handlers, Remember(h) \/ FailReply(h)
        PROVE  row' = row
    BY <2>6 DEF Remember, FailReply
  <2>7. ASSUME NEW h \in Handlers, NEW n \in MeetIds, NEW t \in Side, NEW stage \in Stage,
               NEW v \in Replies(stage), LoadReply(h, n, t, stage, v)
        PROVE  row' = row
    BY <2>7 DEF LoadReply
  <2>8. ASSUME NEW p \in Passes,
               \/ StartPass(p)
               \/ \E n \in MeetIds : FailPass(p, n) \/ \E t \in Side :
                    AskAccepted(p, n, t) \/ AskRefused(p, n, t) \/ AskUnanswered(p, n, t)
        PROVE  row' = row
    BY <2>8 DEF StartPass, AskAccepted, AskRefused, AskUnanswered, FailPass
  <2>9. CASE UNCHANGED vars
    BY <2>9 DEF vars
  <2>10. QED
    BY <2>2, <2>3, <2>4, <2>5, <2>6, <2>7, <2>8, <2>9 DEF Next, HandlerStep, PassStep
<1>2. TypeOK /\ SerialInv /\ [Next]_vars => [Kept]_vars
  BY <1>1
<1>3. QED BY <1>2, TypeCorrect, SerialHolds, PTL DEF Spec, PrefsKept

-------------------------------------------------------------------------------
(* One operation at a time and nothing lost (no faults): the life of a meet. *)

\* The votes on a row are what its status says they are.
LifeOf(r) ==
  /\ r.status = "coordinating" => \A s \in Side : r.confirm[s] = "none"
  /\ r.status = "confirming"   => ~AnyDeclined(r) /\ ~BothConfirmed(r)
  /\ r.status \in {"confirmed", "followed_up"} => BothConfirmed(r)
  /\ r.status = "cancelled" => AnyDeclined(r)

\* A reply finds the row at the stage it answers: a yes/no finds its side
\* without a vote and the meet not agreed to, a follow-up finds it agreed to.
Due(r, s, stage) ==
  /\ stage = "confirm"  => r.status \in {"confirming", "cancelled"} /\ r.confirm[s] = "none"
  /\ stage = "followup" => r.status \in {"confirmed", "followed_up"}

\* Each side is asked at most once per stage, and answers at most that often.
AskedFew == \A c \in DOMAIN accepted : replied[c] <= accepted[c] /\ accepted[c] <= 1

\* A stored check-in is flagged where the next pass looks, and was asked at
\* its stage.
AskedFlagged ==
  \A m \in MeetIds, s \in Side, stage \in Stage : accepted[<<m, s, stage>>] > 0 =>
    /\ m \in created
    /\ \/ row[m] = NoRow
       \/ <<stage, s>> \in row[m].asked
       \/ \E p \in Passes : <<stage, s>> \in snap[p][m].asked
    /\ stage = "confirm"  => row[m].status # "coordinating"
    /\ stage = "followup" => row[m].status \in {"absent", "confirmed", "followed_up"}

\* A side a pass still has to ask has no flag on the pass's copy.
LeftUnasked ==
  \A p \in Passes, m \in MeetIds : snap[p][m] # NoRow =>
    \A s \in left[p][m] : <<StageOf(snap[p][m]), s>> \notin snap[p][m].asked

VotesReplied ==
  \A m \in MeetIds, s \in Side :
    row[m].confirm[s] # "none" => replied[<<m, s, "confirm">>] > 0

\* A "no" has cancelled the meet, or is about to, if it is not erased.
NoCancels ==
  \A m \in MeetIds, s \in Side : Said(m, s, "confirm", "no") =>
    /\ m \in created
    /\ \/ row[m].status \in {"absent", "cancelled"}
       \/ \E h \in Handlers : job[h].meet = m /\ job[h].copy.status = "cancelled"

\* What is told follows from replies of which there will not be another.
ToldFrom(m, u, kind) ==
  /\ kind = "meet_set" => \A t \in Side : replied[<<m, t, "confirm">>] > 0
  /\ kind = "met" => replied[<<m, u, "followup">>] > 0

ToldFew ==
  \A m \in MeetIds, u \in Side, kind \in Memory :
    /\ memories[<<m, u, kind>>] <= 1
    /\ memories[<<m, u, kind>>] > 0 => ToldFrom(m, u, kind)

\* A handler's copy is a due reply applied to the row, and what it still has
\* to tell has not been told.
JobDue(h) ==
  LET m == job[h].meet
  IN  /\ \E s \in Side, stage \in Stage : \E v \in Replies(stage) :
           /\ job[h].copy = Apply(row[m], s, stage, v)
           /\ Due(row[m], s, stage)
           /\ replied[<<m, s, stage>>] > 0
      /\ \A u \in Side, kind \in Memory : <<u, kind>> \in job[h].tell =>
           memories[<<m, u, kind>>] = 0 /\ ToldFrom(m, u, kind)

LifeInv ==
  /\ faults = 0
  /\ \A m \in MeetIds : LifeOf(row[m])
  /\ AskedFew /\ AskedFlagged /\ LeftUnasked
  /\ VotesReplied /\ NoCancels /\ ToldFew
  /\ \A h \in Handlers : job[h] # IdleJob => JobDue(h)

\* What a reply does to the votes and the status of a row.
LEMMA ApplyMoves ==
  ASSUME NEW r \in Row, NEW s \in Side, NEW stage \in Stage, NEW v \in Replies(stage)
  PROVE  LET q == Apply(r, s, stage, v)
         IN  /\ stage = "pref" =>
                  /\ q.confirm = r.confirm
                  /\ \/ q.status = r.status
                     \/ r.status = "coordinating" /\ q.status = "confirming"
             /\ stage = "confirm" =>
                  /\ v \in {"yes", "no"}
                  /\ q.confirm = [r.confirm EXCEPT ![s] = v]
                  /\ q.status = IF AnyDeclined(q) THEN "cancelled"
                                ELSE IF BothConfirmed(q) THEN "confirmed" ELSE r.status
             /\ stage = "followup" =>
                  /\ q.confirm = r.confirm
                  /\ q.status \in {r.status, "followed_up"}
<1>. DEFINE q == Apply(r, s, stage, v)
<1>1. CASE stage = "pref"
  <2>. DEFINE z == [r EXCEPT !.pref[s] = v]
  <2>1. z.status = r.status /\ z.confirm = r.confirm /\ v \in Texts
    BY <1>1 DEF Row, Replies
  <2>2. z \in Row
    BY <2>1 DEF Row, TextPair
  <2>3. \/ q = z
        \/ z.status = "coordinating" /\ q = [z EXCEPT !.plan = z.pref, !.status = "confirming"]
    BY <1>1 DEF Apply, ApplyPref
  <2>. HIDE DEF z, q
  <2>4. CASE q = z
    BY <1>1, <2>1, <2>4 DEF q
  <2>5. CASE z.status = "coordinating" /\ q = [z EXCEPT !.plan = z.pref, !.status = "confirming"]
    <3>1. q.confirm = z.confirm /\ q.status = "confirming"
      BY <2>2, <2>5 DEF Row
    <3>2. QED BY <1>1, <2>1, <2>5, <3>1 DEF q
  <2>6. QED BY <2>3, <2>4, <2>5
<1>2. CASE stage = "confirm"
  <2>. DEFINE z == [r EXCEPT !.confirm[s] = v]
  <2>1. v \in {"yes", "no"}
    BY <1>2 DEF Replies
  <2>2. z.status = r.status /\ z \in Row /\ z.confirm = [r.confirm EXCEPT ![s] = v]
    BY <2>1 DEF Row
  <2>3. q = [z EXCEPT !.status = IF AnyDeclined(z) THEN "cancelled"
                                 ELSE IF BothConfirmed(z) THEN "confirmed" ELSE @]
    BY <1>2 DEF Apply, ApplyConfirm
  <2>. HIDE DEF z, q
  <2>4. /\ q.confirm = z.confirm
        /\ q.status = IF AnyDeclined(z) THEN "cancelled"
                      ELSE IF BothConfirmed(z) THEN "confirmed" ELSE z.status
    BY <2>2, <2>3 DEF Row
  <2>5. (AnyDeclined(q) <=> AnyDeclined(z)) /\ (BothConfirmed(q) <=> BothConfirmed(z))
    BY <2>4 DEF AnyDeclined, BothConfirmed
  <2>6. QED BY <1>2, <2>1, <2>2, <2>4, <2>5 DEF q
<1>3. CASE stage = "followup"
  BY <1>3 DEF Apply, ApplyFollowup, Row
<1>4. QED BY <1>1, <1>2, <1>3 DEF Stage

\* A due reply keeps the votes and the status in line, and moves the meet on
\* along its life or not at all.
LEMMA ApplyLives ==
  ASSUME NEW r \in Row, r.status # "absent", LifeOf(r),
         NEW s \in Side, NEW stage \in Stage, NEW v \in Replies(stage), Due(r, s, stage)
  PROVE  LET q == Apply(r, s, stage, v)
         IN  /\ LifeOf(q)
             /\ r.status = "cancelled" => q.status = "cancelled"
             /\ r.status \in {"confirmed", "followed_up"} =>
                  q.status \in {"confirmed", "followed_up"}
             /\ stage = "confirm" /\ v = "no" => q.status = "cancelled"
             /\ \A t \in Side : q.confirm[t] = IF stage = "confirm" /\ t = s THEN v
                                               ELSE r.confirm[t]
<1>. DEFINE q == Apply(r, s, stage, v)
<1>. HIDE DEF q
<1>m. /\ stage = "pref" =>
           /\ q.confirm = r.confirm
           /\ \/ q.status = r.status
              \/ r.status = "coordinating" /\ q.status = "confirming"
      /\ stage = "confirm" =>
           /\ q.confirm = [r.confirm EXCEPT ![s] = v]
           /\ q.status = IF AnyDeclined(q) THEN "cancelled"
                         ELSE IF BothConfirmed(q) THEN "confirmed" ELSE r.status
      /\ stage = "followup" =>
           /\ q.confirm = r.confirm
           /\ q.status \in {r.status, "followed_up"}
  BY ApplyMoves DEF q
<1>1. CASE stage = "pref"
  <2>1. /\ q.confirm = r.confirm
        /\ \/ q.status = r.status
           \/ r.status = "coordinating" /\ q.status = "confirming"
    BY <1>1, <1>m
  <2>2. LifeOf(q)
    BY <2>1 DEF LifeOf, AnyDeclined, BothConfirmed, Side
  <2>3. QED BY <1>1, <2>1, <2>2 DEF q
<1>2. CASE stage = "confirm"
  <2>1. v \in {"yes", "no"} /\ r.status \in {"confirming", "cancelled"}
    BY <1>2 DEF Replies, Due
  <2>2. /\ \A t \in Side : q.confirm[t] = IF t = s THEN v ELSE r.confirm[t]
        /\ q.status = IF AnyDeclined(q) THEN "cancelled"
                      ELSE IF BothConfirmed(q) THEN "confirmed" ELSE r.status
    <3>1. r.confirm \in [Side -> {"none", "yes", "no"}]
      BY DEF Row
    <3>2. QED BY <1>2, <1>m, <3>1
  <2>3. r.status = "cancelled" => AnyDeclined(q)
    BY <1>2, <2>2 DEF LifeOf, AnyDeclined, Due
  <2>4. v = "no" => AnyDeclined(q)
    BY <2>2 DEF AnyDeclined
  <2>5. LifeOf(q)
    BY <2>1, <2>2, <2>3 DEF LifeOf
  <2>6. QED BY <1>2, <2>1, <2>2, <2>3, <2>4, <2>5 DEF q
<1>3. CASE stage = "followup"
  <2>1. /\ q.confirm = r.confirm
        /\ q.status \in {r.status, "followed_up"}
        /\ r.status \in {"confirmed", "followed_up"}
    BY <1>3, <1>m DEF Due
  <2>2. LifeOf(q)
    BY <2>1 DEF LifeOf, AnyDeclined, BothConfirmed
  <2>3. QED BY <1>3, <2>1, <2>2 DEF q
<1>4. QED BY <1>1, <1>2, <1>3 DEF Stage


\* One operation at a time and nothing lost: votes, status, flags, replies and
\* memories of every meet stay in line with each other.
THEOREM LifeHolds ==
  ASSUME Overlap = FALSE, MaxFaults = 0
  PROVE  Spec => []LifeInv
<1>1. Init => LifeInv
  <2> SUFFICES ASSUME Init PROVE LifeInv
    OBVIOUS
  <2>1. \A m \in MeetIds : row[m] = NoRow
    BY DEF Init
  <2>2. LifeOf(NoRow) /\ \A s \in Side : NoRow.confirm[s] = "none"
    BY DEF LifeOf, NoRow, NewRow
  <2>3. AskedFew /\ AskedFlagged /\ ToldFew /\ NoCancels /\ LeftUnasked
    BY DEF Init, AskedFew, AskedFlagged, ToldFew, NoCancels, LeftUnasked, Said
  <2>4. QED BY <2>1, <2>2, <2>3 DEF Init, LifeInv, VotesReplied
<1>2. TypeOK /\ SerialInv /\ LifeInv /\ [Next]_vars => LifeInv'
  <2> SUFFICES ASSUME TypeOK, SerialInv, LifeInv, [Next]_vars PROVE LifeInv'
    OBVIOUS
  <2>a. /\ NoRow.status = "absent" /\ NoRow.asked = {} /\ NewRow.status = "coordinating"
        /\ \A m \in MeetIds : m # None
        /\ \A m \in MeetIds : row[m] \in Row
        /\ \A p \in Passes, m \in MeetIds : snap[p][m] \in Row
    BY ValueAssumption DEF NoRow, NewRow, TypeOK
  <2>b. /\ \A m \in MeetIds, s \in Side, stage \in Stage :
             /\ <<m, s, stage>> \in DOMAIN accepted
             /\ accepted[<<m, s, stage>>] \in Nat /\ replied[<<m, s, stage>>] \in Nat
        /\ \A m \in MeetIds, s \in Side, kind \in Memory :
             memories[<<m, s, kind>>] \in Nat
        /\ DOMAIN accepted = MeetIds \X Side \X Stage
        /\ {"pref", "confirm", "followup"} \subseteq Stage
    BY DEF TypeOK, Stage
  <2>c. faults = 0 /\ ~(faults < MaxFaults)
    BY BoundAssumption DEF LifeInv
  <2>1. ASSUME NEW m \in MeetIds, CreateMeet(m) PROVE LifeInv'
    <3>1. /\ \A h \in Handlers : job'[h] = IdleJob
          /\ m \notin created /\ created' = created \cup {m}
          /\ \A n \in MeetIds : row'[n] = IF n = m THEN NewRow ELSE row[n]
          /\ UNCHANGED <<job, snap, left, accepted, memories, replied, said, faults>>
      BY <2>1, QuietMeans DEF CreateMeet, pass, brain, user, TypeOK
    <3>2. LifeOf(NewRow) /\ \A s \in Side : NewRow.confirm[s] = "none"
      BY DEF LifeOf, NewRow
    <3>3. AskedFlagged'
      BY <3>1 DEF LifeInv, AskedFlagged
    <3>4. NoCancels'
      BY <3>1 DEF LifeInv, NoCancels, Said
    <3>5. (VotesReplied /\ AskedFew /\ LeftUnasked /\ ToldFew)'
      BY <3>1, <3>2 DEF LifeInv, VotesReplied, AskedFew, LeftUnasked, ToldFew, ToldFrom
    <3>6. QED BY <3>1, <3>2, <3>3, <3>4, <3>5 DEF LifeInv
  <2>2. ASSUME NEW h \in Handlers, NEW m \in MeetIds, NEW s \in Side, NEW stage \in Stage,
               NEW v \in Replies(stage), LoadReply(h, m, s, stage, v)
        PROVE  LifeInv'
    <3>. DEFINE q == Apply(row[m], s, stage, v)
                c == <<m, s, stage>>
    <3>1. /\ \A g \in Handlers : job[g] = IdleJob
          /\ UNCHANGED <<row, created, snap, left, accepted, memories, faults>>
          /\ said' = said \cup {[meet |-> m, side |-> s, stage |-> stage, value |-> v]}
          /\ replied[c] < accepted[c]
          /\ replied' = [replied EXCEPT ![c] = @ + 1]
      BY <2>2, QuietMeans DEF LoadReply, pass, brain
    <3>p. /\ accepted[<<m, s, stage>>] > 0
          /\ replied[<<m, s, stage>>] = 0
      <4>1. /\ replied[c] \in Nat /\ accepted[c] \in Nat
            /\ replied[c] < accepted[c] /\ accepted[c] <= 1
        BY <3>1, <2>b DEF LifeInv, AskedFew
      <4>2. QED BY <4>1
    <3>2. /\ \A d \in DOMAIN accepted : replied'[d] = IF d = c THEN 1 ELSE replied[d]
          /\ \A d \in DOMAIN accepted : replied[d] > 0 => replied'[d] > 0
      <4>1. DOMAIN replied = DOMAIN accepted
        BY DEF TypeOK
      <4>2. QED BY <3>1, <3>p, <4>1
    <3>3. m \in created
      BY <3>p DEF LifeInv, AskedFlagged
    <3>4. row[m] # NoRow => row[m].status # "absent" /\ Due(row[m], s, stage)
      <4>1. row[m] # NoRow => row[m].status # "absent"
        BY DEF SerialInv, RowsKnown
      <4>2. CASE stage = "confirm" /\ row[m] # NoRow
        <5>1. row[m].confirm[s] = "none" /\ row[m].status # "coordinating"
          <6>1. accepted[<<m, s, "confirm">>] > 0 /\ ~(replied[<<m, s, "confirm">>] > 0)
            BY <3>p, <4>2
          <6>2. QED BY <4>2, <6>1 DEF LifeInv, VotesReplied, AskedFlagged
        <5>2. row[m].status \notin {"confirmed", "followed_up"}
          BY <5>1 DEF LifeInv, LifeOf, BothConfirmed
        <5>3. row[m].status \in {"confirming", "cancelled"}
          BY <5>1, <5>2, <4>1, <4>2, <2>a DEF Row, Status, ActiveStatus
        <5>4. QED BY <4>1, <4>2, <5>1, <5>3 DEF Due
      <4>3. CASE stage = "followup" /\ row[m] # NoRow
        BY <3>p, <4>1, <4>3 DEF LifeInv, AskedFlagged, Due
      <4>4. CASE stage = "pref"
        BY <4>1, <4>4 DEF Due
      <4>5. QED BY <4>2, <4>3, <4>4 DEF Stage
    <3>5. \A g \in Handlers :
            \/ job'[g] = IdleJob
            \/ /\ g = h /\ row[m] # NoRow
               /\ job'[g] = [meet |-> m, copy |-> q, tell |-> Telling(q, s, stage)]
      BY <2>2, <3>1 DEF LoadReply, TypeOK
    <3>6. AskedFew'
      <4>1. DOMAIN accepted' = DOMAIN accepted /\ accepted[c] \in Nat
        BY <3>1, <2>b
      <4>2. QED BY <3>1, <3>2, <3>p, <4>1 DEF LifeInv, AskedFew
    <3>7. (AskedFlagged /\ LeftUnasked)'
      BY <3>1 DEF LifeInv, AskedFlagged, LeftUnasked
    <3>8. VotesReplied'
      BY <3>1, <3>2, <2>b DEF LifeInv, VotesReplied
    <3>9. \A n \in MeetIds, u \in Side, kind \in Memory :
            ToldFrom(n, u, kind) => ToldFrom(n, u, kind)'
      BY <3>2, <2>b DEF ToldFrom
    <3>10. ToldFew'
      BY <3>1, <3>9 DEF LifeInv, ToldFew
    <3>11. ASSUME row[m] # NoRow
           PROVE  \A u \in Side, kind \in Memory : <<u, kind>> \in Telling(q, s, stage) =>
                    memories[<<m, u, kind>>] = 0 /\ ToldFrom(m, u, kind)'
      <4> SUFFICES ASSUME NEW u \in Side, NEW kind \in Memory,
                          <<u, kind>> \in Telling(q, s, stage)
                   PROVE  memories[<<m, u, kind>>] = 0 /\ ToldFrom(m, u, kind)'
        OBVIOUS
      <4>1. CASE stage = "confirm" /\ BothConfirmed(q) /\ kind = "meet_set"
        <5>1. \A t \in Side : t # s => row[m].confirm[t] # "none"
          BY <3>4, <3>11, <4>1, <2>a, ApplyLives DEF BothConfirmed, LifeInv
        <5>2. \A t \in Side : replied'[<<m, t, "confirm">>] > 0
          BY <3>2, <4>1, <5>1, <2>b DEF LifeInv, VotesReplied
        <5>3. ~(memories[<<m, u, kind>>] > 0)
          <6>1. ~(replied[<<m, s, "confirm">>] > 0)
            BY <3>p, <4>1
          <6>2. QED BY <4>1, <6>1 DEF LifeInv, ToldFew, ToldFrom
        <5>4. QED BY <4>1, <5>2, <5>3, <2>b DEF ToldFrom
      <4>2. CASE stage = "followup" /\ u = s /\ kind = "met"
        <5>1. replied'[<<m, u, "followup">>] > 0
          BY <3>2, <4>2, <2>b
        <5>2. ~(memories[<<m, u, kind>>] > 0)
          BY <3>p, <4>2 DEF LifeInv, ToldFew, ToldFrom
        <5>3. QED BY <4>2, <5>1, <5>2, <2>b DEF ToldFrom
      <4>3. QED BY <4>1, <4>2 DEF Telling, Stage
    <3>12. ASSUME NEW g \in Handlers, job'[g] # IdleJob PROVE JobDue(g)'
      <4>1. /\ job'[g].meet = m /\ job'[g].copy = q /\ job'[g].tell = Telling(q, s, stage)
            /\ row[m] # NoRow /\ row' = row /\ memories' = memories /\ replied'[c] > 0
        BY <3>1, <3>2, <3>5, <3>12, <2>b
      <4>2. Due(row[m], s, stage)
        BY <3>4, <4>1
      <4>3. QED BY <3>11, <4>1, <4>2 DEF JobDue
    <3>13. NoCancels'
      <4> SUFFICES ASSUME NEW n \in MeetIds, NEW t \in Side, Said(n, t, "confirm", "no")'
                   PROVE  /\ n \in created'
                          /\ \/ row'[n].status \in {"absent", "cancelled"}
                             \/ \E g \in Handlers :
                                  job'[g].meet = n /\ job'[g].copy.status = "cancelled"
        BY DEF NoCancels
      <4>1. CASE Said(n, t, "confirm", "no")
        <5>1. \A g \in Handlers : job[g].meet # n
          BY <3>1, <2>a DEF IdleJob
        <5>2. QED BY <3>1, <4>1, <5>1 DEF LifeInv, NoCancels
      <4>2. CASE n = m /\ t = s /\ stage = "confirm" /\ v = "no"
        <5>1. CASE row[m] = NoRow
          BY <3>1, <3>3, <4>2, <5>1, <2>a
        <5>2. CASE row[m] # NoRow
          <6>1. q.status = "cancelled"
            BY <3>4, <4>2, <5>2, <2>a, ApplyLives DEF LifeInv
          <6>2. job'[h].meet = m /\ job'[h].copy = q
            BY <2>2, <5>2 DEF LoadReply, TypeOK
          <6>3. QED BY <3>1, <3>3, <4>2, <6>1, <6>2
        <5>3. QED BY <5>1, <5>2
      <4>3. QED BY <3>1, <4>1, <4>2 DEF Said
    <3>14. QED BY <3>1, <3>6, <3>7, <3>8, <3>10, <3>12, <3>13 DEF LifeInv
  <2>3. ASSUME NEW h \in Handlers, Remember(h) PROVE LifeInv'
    <3>. DEFINE m == job[h].meet
    <3>1. /\ UNCHANGED <<row, created, snap, left, accepted, replied, said, faults>>
          /\ job[h] # IdleJob
          /\ \A c \in DOMAIN memories :
               memories'[c] = IF c[1] = m /\ <<c[2], c[3]>> \in job[h].tell
                              THEN memories[c] + 1 ELSE memories[c]
      BY <2>3, <2>c DEF Remember, pass, user, IdleJob
    <3>2. \A g \in Handlers : /\ job'[g].meet = job[g].meet /\ job'[g].copy = job[g].copy
                              /\ g # h => job'[g] = job[g]
                              /\ g = h => job'[g].tell = {}
      BY <2>3 DEF Remember, TypeOK, Job
    <3>3. JobDue(h) /\ m \in MeetIds
      BY <3>1 DEF LifeInv, SerialInv, JobFresh
    <3>4. ToldFew'
      <4> SUFFICES ASSUME NEW n \in MeetIds, NEW u \in Side, NEW kind \in Memory
                   PROVE  /\ memories'[<<n, u, kind>>] <= 1
                          /\ memories'[<<n, u, kind>>] > 0 => ToldFrom(n, u, kind)'
        BY DEF ToldFew
      <4>1. ToldFrom(n, u, kind)' <=> ToldFrom(n, u, kind)
        BY <3>1 DEF ToldFrom
      <4>2. <<n, u, kind>> \in DOMAIN memories
        BY DEF TypeOK
      <4>3. CASE n = m /\ <<u, kind>> \in job[h].tell
        BY <3>1, <3>3, <4>1, <4>2, <4>3, <2>b DEF JobDue
      <4>4. CASE ~(n = m /\ <<u, kind>> \in job[h].tell)
        BY <3>1, <4>1, <4>2, <4>4 DEF LifeInv, ToldFew
      <4>5. QED BY <4>3, <4>4
    <3>5. ASSUME NEW g \in Handlers, job'[g] # IdleJob PROVE JobDue(g)'
      <4>1. g = h
        BY <3>1, <3>2, <3>5 DEF SerialInv, OneAtATime
      <4>2. QED BY <3>1, <3>2, <3>3, <4>1 DEF JobDue
    <3>6. NoCancels'
      BY <3>1, <3>2 DEF LifeInv, NoCancels, Said
    <3>7. (AskedFew /\ AskedFlagged /\ LeftUnasked /\ VotesReplied)'
      BY <3>1 DEF LifeInv, AskedFew, AskedFlagged, LeftUnasked, VotesReplied
    <3>8. QED BY <3>1, <3>4, <3>5, <3>6, <3>7 DEF LifeInv
  <2>4. ASSUME NEW h \in Handlers, SaveReply(h) PROVE LifeInv'
    <3>. DEFINE m == job[h].meet
                q == job[h].copy
    <3>1. /\ job[h] # IdleJob /\ JobDue(h) /\ m \in MeetIds
          /\ row[m].status # "absent" /\ row[m] \in Row /\ LifeOf(row[m])
          /\ UNCHANGED <<created, snap, left, accepted, memories, replied, said, faults>>
          /\ \A g \in Handlers : job'[g] = IdleJob
      BY <2>4, <2>a DEF SaveReply, pass, brain, user, SerialInv, OneAtATime, LifeInv, JobFresh, TypeOK
    <3>2. \A n \in MeetIds : row'[n] = IF n = m THEN q ELSE row[n]
      BY <2>4, <3>1 DEF SaveReply, TypeOK
    <3>3. PICK s \in Side, stage \in Stage : \E v \in Replies(stage) :
            /\ q = Apply(row[m], s, stage, v)
            /\ Due(row[m], s, stage)
            /\ replied[<<m, s, stage>>] > 0
      BY <3>1 DEF JobDue
    <3>4. PICK v \in Replies(stage) : q = Apply(row[m], s, stage, v)
      BY <3>3
    <3>5. /\ q.asked = row[m].asked /\ q.status # "absent"
          /\ row[m].status # "coordinating" => q.status # "coordinating"
      BY <3>1, <3>4, ApplyKeeps
    <3>6. /\ LifeOf(q)
          /\ row[m].status = "cancelled" => q.status = "cancelled"
          /\ row[m].status \in {"confirmed", "followed_up"} => q.status \in {"confirmed", "followed_up"}
          /\ \A t \in Side : q.confirm[t] = row[m].confirm[t] \/ (stage = "confirm" /\ t = s)
      BY <3>1, <3>3, <3>4, ApplyLives
    <3>7. AskedFlagged'
      <4>1. row[m] # NoRow /\ q # NoRow
        BY <3>1, <3>5, <2>a
      <4>2. \A n \in MeetIds :
              /\ row'[n] = NoRow <=> row[n] = NoRow
              /\ row'[n].asked = row[n].asked
              /\ row[n].status # "coordinating" => row'[n].status # "coordinating"
              /\ row[n].status \in {"absent", "confirmed", "followed_up"} =>
                   row'[n].status \in {"absent", "confirmed", "followed_up"}
        BY <3>1, <3>2, <3>5, <3>6, <4>1
      <4>3. QED BY <3>1, <4>2 DEF LifeInv, AskedFlagged
    <3>8. VotesReplied'
      BY <3>1, <3>2, <3>3, <3>6 DEF LifeInv, VotesReplied
    <3>9. NoCancels'
      <4> SUFFICES ASSUME NEW n \in MeetIds, NEW t \in Side, Said(n, t, "confirm", "no")
                   PROVE  n \in created /\ row'[n].status \in {"absent", "cancelled"}
        BY <3>1 DEF NoCancels, Said
      <4>1. \A g \in Handlers : job[g].meet = n => g = h
        BY <3>1, <2>a DEF SerialInv, OneAtATime, IdleJob
      <4>2. /\ n \in created
            /\ \/ row[n].status \in {"absent", "cancelled"}
               \/ n = m /\ q.status = "cancelled"
        BY <4>1 DEF LifeInv, NoCancels
      <4>3. QED BY <3>1, <3>2, <3>6, <4>2
    <3>10. (AskedFew /\ LeftUnasked /\ ToldFew)'
      BY <3>1 DEF LifeInv, AskedFew, LeftUnasked, ToldFew, ToldFrom
    <3>11. QED BY <3>1, <3>2, <3>6, <3>7, <3>8, <3>9, <3>10 DEF LifeInv
  <2>5. ASSUME NEW h \in Handlers, FailReply(h) PROVE FALSE
    BY <2>5, <2>c DEF FailReply
  <2>6. ASSUME NEW p \in Passes, StartPass(p) PROVE LifeInv'
    <3>1. /\ \A o \in Passes, m \in MeetIds : snap[o][m] = NoRow
          /\ UNCHANGED <<row, created, job, accepted, memories, replied, said, faults>>
      BY <2>6, QuietMeans DEF StartPass, brain, user
    <3>2. \A o \in Passes, m \in MeetIds : snap'[o][m] # NoRow =>
            /\ o = p /\ snap'[o][m] = row[m] /\ left'[o][m] = Unasked(row[m])
      BY <2>6, <3>1 DEF StartPass, TypeOK
    <3>3. LeftUnasked'
      BY <3>2 DEF LeftUnasked, Unasked
    <3>4. AskedFlagged'
      BY <3>1, <2>a DEF LifeInv, AskedFlagged
    <3>5. (AskedFew /\ VotesReplied /\ NoCancels /\ ToldFew)'
      BY <3>1 DEF LifeInv, AskedFew, VotesReplied, NoCancels, ToldFew, ToldFrom, Said
    <3>6. \A h \in Handlers : job'[h] # IdleJob => JobDue(h)'
      BY <3>1 DEF LifeInv, JobDue, ToldFrom
    <3>7. QED BY <3>1, <3>3, <3>4, <3>5, <3>6 DEF LifeInv
  <2>7. ASSUME NEW p \in Passes, NEW m \in MeetIds, NEW s \in Side,
               AskAccepted(p, m, s) \/ AskRefused(p, m, s)
        PROVE  LifeInv'
    <3>. DEFINE r == snap[p][m]
                k == <<StageOf(r), s>>
                z == [r EXCEPT !.asked = @ \cup {k}]
    <3>1. /\ r # NoRow /\ r \in Row /\ InStep(p, m) /\ s \in left[p][m]
          /\ StageOf(r) \in Stage /\ k \notin r.asked
          /\ UNCHANGED <<row, created, job, memories, replied, said, faults>>
      BY <2>7, <2>a DEF AskAccepted, AskRefused, AsksNext, SerialInv, LifeInv, LeftUnasked,
                        brain, user, StageOf, Stage
    <3>2. \A o \in Passes, n \in MeetIds :
            left'[o][n] = IF o = p /\ n = m THEN left[p][m] \ {s} ELSE left[o][n]
      <4>1. left' = [left EXCEPT ![p] = [left[p] EXCEPT ![m] = @ \ {s}]]
        BY <2>7 DEF AskAccepted, AskRefused, AskDone
      <4>2. QED BY <4>1 DEF TypeOK
    <3>3. /\ \A h \in Handlers : job'[h] # IdleJob => JobDue(h)'
          /\ (VotesReplied /\ NoCancels /\ ToldFew)'
      BY <3>1 DEF LifeInv, VotesReplied, NoCancels, ToldFew, ToldFrom, Said, JobDue
    <3>4. CASE AskAccepted(p, m, s)
      <4>1. \A o \in Passes, n \in MeetIds :
              snap'[o][n] = IF o = p /\ n = m THEN z ELSE snap[o][n]
        <5>. HIDE DEF z
        <5>1. snap' = [snap EXCEPT ![p] = [snap[p] EXCEPT ![m] = z]]
          BY <3>4 DEF AskAccepted, z
        <5>2. QED BY <5>1 DEF TypeOK
      <4>2. z.asked = r.asked \cup {k} /\ StageOf(z) = StageOf(r)
        BY <3>1 DEF Row, StageOf
      <4>3. \A c \in DOMAIN accepted :
              accepted'[c] = IF c = <<m, s, StageOf(r)>> THEN accepted[c] + 1 ELSE accepted[c]
        BY <3>4 DEF AskAccepted, Stored
      <4>4. accepted[<<m, s, StageOf(r)>>] = 0
        <5>1. k \notin row[m].asked /\ row[m] # NoRow
          BY <3>1, <2>a DEF InStep, IsActive, ActiveStatus
        <5>2. \A o \in Passes : k \notin snap[o][m].asked
          <6>1. \A o \in Passes : o # p => snap[o][m] = NoRow
            BY <3>1 DEF SerialInv, OneAtATime, Holding
          <6>2. QED BY <3>1, <6>1, <2>a
        <5>3. ~(accepted[<<m, s, StageOf(r)>>] > 0)
          BY <3>1, <5>1, <5>2 DEF LifeInv, AskedFlagged
        <5>4. QED BY <3>1, <5>3, <2>b
      <4>5. LeftUnasked'
        <5> SUFFICES ASSUME NEW o \in Passes, NEW n \in MeetIds, snap'[o][n] # NoRow,
                            NEW t \in left'[o][n]
                     PROVE  <<StageOf(snap'[o][n]), t>> \notin snap'[o][n].asked
          BY DEF LeftUnasked
        <5>1. CASE o = p /\ n = m
          <6>1. t \in left[p][m] /\ t # s /\ snap'[o][n] = z
            BY <3>2, <4>1, <5>1
          <6>. HIDE DEF z
          <6>2. <<StageOf(r), t>> \notin r.asked
            BY <3>1, <6>1 DEF LifeInv, LeftUnasked
          <6>3. QED BY <4>2, <6>1, <6>2
        <5>2. CASE ~(o = p /\ n = m)
          BY <3>2, <4>1, <5>2 DEF LifeInv, LeftUnasked
        <5>3. QED BY <5>1, <5>2
      <4>6. AskedFew'
        <5>1. DOMAIN accepted' = DOMAIN accepted /\ replied' = replied
          BY <3>1, <3>4 DEF AskAccepted, Stored
        <5>2. \A c \in DOMAIN accepted : accepted[c] \in Nat /\ replied[c] \in Nat
          BY DEF TypeOK
        <5>3. \A c \in DOMAIN accepted : replied[c] <= accepted'[c] /\ accepted'[c] <= 1
          BY <4>3, <4>4, <5>2 DEF LifeInv, AskedFew
        <5>4. QED BY <5>1, <5>3 DEF AskedFew
      <4>7. AskedFlagged'
        <5> SUFFICES ASSUME NEW n \in MeetIds, NEW t \in Side, NEW stage \in Stage,
                            accepted'[<<n, t, stage>>] > 0
                     PROVE  /\ n \in created
                            /\ \/ row[n] = NoRow
                               \/ <<stage, t>> \in row[n].asked
                               \/ \E o \in Passes : <<stage, t>> \in snap'[o][n].asked
                            /\ stage = "confirm"  => row[n].status # "coordinating"
                            /\ stage = "followup" => row[n].status \in {"absent", "confirmed", "followed_up"}
          BY <3>1 DEF AskedFlagged
        <5>. HIDE DEF z
        <5>1. CASE <<n, t, stage>> = <<m, s, StageOf(r)>>
          <6>1. <<stage, t>> \in snap'[p][n].asked
            BY <4>1, <4>2, <5>1
          <6>2. n \in created
            BY <3>1, <5>1, <2>a DEF InStep, IsActive, ActiveStatus, SerialInv, RowsKnown
          <6>3. r.status = row[m].status /\ IsActive(row[m])
            BY <3>1, <2>a DEF InStep, Row
          <6>4. QED BY <5>1, <6>1, <6>2, <6>3 DEF StageOf, IsActive, ActiveStatus
        <5>2. CASE <<n, t, stage>> # <<m, s, StageOf(r)>>
          <6>1. accepted[<<n, t, stage>>] > 0
            BY <4>3, <5>2, <2>b
          <6>2. \A o \in Passes : snap[o][n].asked \subseteq snap'[o][n].asked
            BY <4>1, <4>2
          <6>3. QED BY <6>1, <6>2 DEF LifeInv, AskedFlagged
        <5>3. QED BY <5>1, <5>2
      <4>8. QED BY <3>1, <3>3, <4>5, <4>6, <4>7 DEF LifeInv
    <3>5. CASE AskRefused(p, m, s)
      <4>1. UNCHANGED <<snap, accepted>>
        BY <3>5 DEF AskRefused, brain
      <4>2. LeftUnasked'
        BY <3>2, <4>1 DEF LifeInv, LeftUnasked
      <4>3. (AskedFew /\ AskedFlagged)'
        BY <3>1, <4>1 DEF LifeInv, AskedFew, AskedFlagged
      <4>4. QED BY <3>1, <3>3, <4>2, <4>3 DEF LifeInv
    <3>6. QED BY <2>7, <3>4, <3>5
  <2>8. ASSUME NEW p \in Passes, NEW m \in MeetIds,
               FailPass(p, m) \/ \E s \in Side : AskUnanswered(p, m, s)
        PROVE  FALSE
    BY <2>8, <2>c DEF AskUnanswered, FailPass
  <2>9. ASSUME NEW p \in Passes, NEW m \in MeetIds, SavePass(p, m) PROVE LifeInv'
    <3>. DEFINE r == snap[p][m]
    <3>1. /\ r # NoRow /\ InStep(p, m) /\ left[p][m] = {} /\ cur[p] = m
          /\ UNCHANGED <<created, job, accepted, memories, replied, said, faults>>
          /\ row' = IF dirty[p] THEN [row EXCEPT ![m] = r] ELSE row
          /\ MeetDone(p, m)
      BY <2>9 DEF SavePass, SerialInv, brain, user
    <3>2. /\ \A o \in Passes, n \in MeetIds :
               snap'[o][n] = IF o = p /\ n = m THEN NoRow ELSE snap[o][n]
          /\ \A o \in Passes, n \in MeetIds :
               left'[o][n] = IF o = p /\ n = m THEN {} ELSE left[o][n]
      BY <3>1 DEF MeetDone, TypeOK
    <3>3. \A n \in MeetIds : row'[n] = IF n = m THEN r ELSE row[n]
      BY <3>1 DEF InStep, TypeOK
    <3>4. /\ r.status = row[m].status /\ r.confirm = row[m].confirm
          /\ row[m].asked \subseteq r.asked
      BY <3>1, <2>a DEF InStep, Row
    <3>5. \A h \in Handlers : job'[h] = IdleJob
      BY <3>1 DEF SerialInv, OneAtATime, Holding
    <3>6. LifeOf(r)
      BY <3>4 DEF LifeInv, LifeOf, AnyDeclined, BothConfirmed
    <3>7. AskedFlagged'
      <4>1. \A o \in Passes : o # p => snap[o][m] = NoRow
        BY <3>1 DEF SerialInv, OneAtATime, Holding
      <4>2. row[m] # NoRow
        BY <3>1, <2>a DEF InStep, IsActive, ActiveStatus
      <4>3. ASSUME NEW n \in MeetIds, NEW k \in Stage \X Side,
                   \/ row[n] = NoRow
                   \/ k \in row[n].asked
                   \/ \E o \in Passes : k \in snap[o][n].asked
            PROVE  \/ row'[n] = NoRow
                   \/ k \in row'[n].asked
                   \/ \E o \in Passes : k \in snap'[o][n].asked
        <5>1. CASE n = m
          BY <3>3, <3>4, <4>1, <4>2, <4>3, <5>1, <2>a
        <5>2. CASE n # m
          BY <3>2, <3>3, <4>3, <5>2
        <5>3. QED BY <5>1, <5>2
      <4>4. \A n \in MeetIds : row'[n].status = row[n].status
        BY <3>3, <3>4
      <4>5. QED BY <3>1, <4>3, <4>4 DEF LifeInv, AskedFlagged
    <3>8. LeftUnasked'
      BY <3>2 DEF LifeInv, LeftUnasked
    <3>9. (VotesReplied /\ NoCancels)'
      BY <3>1, <3>3, <3>4 DEF LifeInv, VotesReplied, NoCancels, Said
    <3>10. (AskedFew /\ ToldFew)'
      BY <3>1 DEF LifeInv, AskedFew, ToldFew, ToldFrom
    <3>11. QED BY <3>1, <3>3, <3>5, <3>6, <3>7, <3>8, <3>9, <3>10 DEF LifeInv
  <2>10. ASSUME NEW u \in Leavers, EraseUser(u) PROVE LifeInv'
    <3>1. /\ \A h \in Handlers : job'[h] = IdleJob
          /\ UNCHANGED <<created, job, snap, left, accepted, memories, replied, said, faults>>
          /\ \A n \in MeetIds : row'[n] \in {row[n], NoRow}
      BY <2>10, QuietMeans DEF EraseUser, pass, brain, user
    <3>2. LifeOf(NoRow) /\ \A s \in Side : NoRow.confirm[s] = "none"
      BY DEF LifeOf, NoRow, NewRow
    <3>3. AskedFlagged'
      BY <3>1, <2>a DEF LifeInv, AskedFlagged
    <3>4. (VotesReplied /\ NoCancels)'
      BY <3>1, <3>2, <2>a DEF LifeInv, VotesReplied, NoCancels, Said
    <3>5. (AskedFew /\ LeftUnasked /\ ToldFew)'
      BY <3>1 DEF LifeInv, AskedFew, LeftUnasked, ToldFew, ToldFrom
    <3>6. QED BY <3>1, <3>2, <3>3, <3>4, <3>5 DEF LifeInv
  <2>11. CASE UNCHANGED vars
    BY <2>11 DEF vars, pass, brain, user, LifeInv, AskedFew, AskedFlagged, LeftUnasked,
                 VotesReplied, NoCancels, ToldFew, ToldFrom, JobDue, Said
  <2>12. QED
    BY <2>1, <2>2, <2>3, <2>4, <2>5, <2>6, <2>7, <2>8, <2>9, <2>10, <2>11
       DEF Next, HandlerStep, PassStep
<1>3. QED BY <1>1, <1>2, TypeCorrect, SerialHolds, PTL DEF Spec


\* One operation at a time and nothing lost, nobody is asked or told the same
\* thing twice.
THEOREM AskedAndToldOnceHolds ==
  ASSUME Overlap = FALSE, MaxFaults = 0
  PROVE  Spec => []AskedAndToldOnce
<1>1. TypeOK /\ LifeInv => AskedAndToldOnce
  <2> SUFFICES ASSUME TypeOK, LifeInv PROVE AskedAndToldOnce
    OBVIOUS
  <2>1. AskedOnce
    BY DEF LifeInv, AskedFew, AskedOnce
  <2>2. ToldOnce
    BY DEF LifeInv, ToldFew, ToldOnce, TypeOK
  <2>3. QED BY <2>1, <2>2 DEF AskedAndToldOnce
<1>2. QED BY <1>1, TypeCorrect, LifeHolds, PTL

\* One operation at a time, no erased meet has a row, whatever fails.
THEOREM NothingSurvivesHolds ==
  ASSUME Overlap = FALSE
  PROVE  Spec => []NothingSurvives
<1>1. SerialInv => NothingSurvives
  BY DEF SerialInv
<1>2. QED BY <1>1, SerialHolds, PTL

\* One operation at a time and nothing lost, a "no" ends a meet for good, as
\* an erasure does.
THEOREM EndedForGoodHolds ==
  ASSUME Overlap = FALSE, MaxFaults = 0
  PROVE  Spec => []EndedForGood
<1>1. SerialInv /\ LifeInv => EndedForGood
  BY DEF SerialInv, LifeInv, NoCancels, EndedForGood, DeclineCancels, IsActive, ActiveStatus
<1>2. QED BY <1>1, SerialHolds, LifeHolds, PTL

-------------------------------------------------------------------------------
(* The service implements MeetLifecycle.                                    *)

PhaseOf(m) == IF m \in created /\ row[m] = NoRow THEN "gone" ELSE row[m].status

\* A step that leaves the phase and the votes of every meet alone is one the
\* abstract meets do not see.
LEMMA Unseen ==
  ASSUME \A m \in MeetIds : PhaseOf(m)' = PhaseOf(m) /\ row'[m].confirm = row[m].confirm
  PROVE  UNCHANGED Lifecycle!vars
BY DEF PhaseOf, Lifecycle!vars

\* Each of its seven actions is a step of the abstract meets.
LEMMA LifecycleSteps ==
  ASSUME NEW m \in MeetIds, NEW s \in Side,
         \/ Lifecycle!Propose(m) \/ Lifecycle!Plan(m) \/ Lifecycle!Conclude(m)
         \/ Lifecycle!HalfAgree(m, s) \/ Lifecycle!Agree(m, s)
         \/ Lifecycle!Decline(m, s) \/ Lifecycle!LateVoice(m, s)
  PROVE  Lifecycle!Next
BY DEF Lifecycle!Next

\* A reply that is saved is a step of the abstract meet, or none.
LEMMA SaveReplyImplements ==
  ASSUME TypeOK, SerialInv, LifeInv, NEW h \in Handlers, SaveReply(h)
  PROVE  Lifecycle!Next \/ UNCHANGED Lifecycle!vars
<1>m. PICK m \in MeetIds : m = job[h].meet
  BY DEF SaveReply, SerialInv, JobFresh
<1>. DEFINE q == job[h].copy
            phase == [n \in MeetIds |-> PhaseOf(n)]
            voice == [n \in MeetIds |-> row[n].confirm]
<1>1. /\ JobDue(h) /\ row[m].status # "absent" /\ row[m] \in Row
      /\ LifeOf(row[m]) /\ created' = created
      /\ \A n \in MeetIds : row'[n] = IF n = m THEN q ELSE row[n]
  BY <1>m DEF SaveReply, SerialInv, LifeInv, JobFresh, TypeOK
<1>2. PICK s \in Side, stage \in Stage : \E v \in Replies(stage) :
        q = Apply(row[m], s, stage, v) /\ Due(row[m], s, stage)
  BY <1>1, <1>m DEF JobDue
<1>3. PICK v \in Replies(stage) : q = Apply(row[m], s, stage, v)
  BY <1>2
<1>4. q.status # "absent" /\ LifeOf(q)
  BY <1>1, <1>2, <1>3, ApplyKeeps, ApplyLives
<1>5. NoRow.status = "absent"
  BY DEF NoRow, NewRow
<1>6. /\ phase[m] = row[m].status
      /\ phase' = [phase EXCEPT ![m] = q.status]
      /\ voice[m] = row[m].confirm
      /\ voice' = [voice EXCEPT ![m] = q.confirm]
  BY <1>1, <1>4, <1>5 DEF PhaseOf
<1>7. /\ stage = "pref" =>
           /\ q.confirm = row[m].confirm
           /\ \/ q.status = row[m].status
              \/ row[m].status = "coordinating" /\ q.status = "confirming"
      /\ stage = "confirm" =>
           /\ v \in {"yes", "no"}
           /\ q.confirm = [row[m].confirm EXCEPT ![s] = v]
           /\ q.status = IF AnyDeclined(q) THEN "cancelled"
                         ELSE IF BothConfirmed(q) THEN "confirmed" ELSE row[m].status
      /\ stage = "followup" =>
           /\ q.confirm = row[m].confirm
           /\ q.status \in {row[m].status, "followed_up"}
  BY <1>1, <1>3, ApplyMoves
<1>8. /\ Lifecycle!vars = <<phase, voice>>
      /\ Lifecycle!vars' = <<phase', voice'>>
  BY DEF Lifecycle!vars, PhaseOf
<1>9. CASE q.confirm = row[m].confirm /\ q.status = row[m].status
  BY <1>6, <1>8, <1>9
<1>10. CASE stage = "pref" /\ q.status # row[m].status
  <2>1. Lifecycle!Plan(m)
    BY <1>6, <1>7, <1>10 DEF Lifecycle!Plan, Lifecycle!Move, PhaseOf
  <2>2. QED BY <1>1, <2>1, LifecycleSteps
<1>11. CASE stage = "followup" /\ q.status # row[m].status
  <2>1. row[m].status = "confirmed" /\ q.status = "followed_up"
    BY <1>2, <1>7, <1>11 DEF Due
  <2>2. Lifecycle!Conclude(m)
    BY <1>6, <1>7, <1>11, <2>1 DEF Lifecycle!Conclude, Lifecycle!Move, PhaseOf
  <2>3. QED BY <1>1, <2>2, LifecycleSteps
<1>12. CASE stage = "confirm"
  <2>1. /\ row[m].confirm[s] = "none" /\ row[m].status \in {"confirming", "cancelled"}
        /\ row[m].confirm \in [Side -> {"none", "yes", "no"}]
        /\ v \in {"yes", "no"}
    BY <1>1, <1>2, <1>7, <1>12 DEF Due, Row
  <2>2. /\ \A t \in Side : q.confirm[t] = IF t = s THEN v ELSE row[m].confirm[t]
        /\ voice' = [voice EXCEPT ![m][s] = v]
        /\ voice[m][s] = "none"
    BY <1>6, <1>7, <1>12, <2>1
  <2>3. CASE row[m].status = "cancelled"
    <3>1. q.status = "cancelled"
      BY <1>1, <1>2, <1>3, <2>3, ApplyLives
    <3>2. phase' = phase
      BY <1>6, <2>3, <3>1
    <3>3. Lifecycle!LateVoice(m, s)
      BY <1>6, <2>1, <2>2, <2>3, <3>2 DEF Lifecycle!LateVoice, PhaseOf
    <3>4. QED BY <1>1, <3>3, LifecycleSteps
  <2>4. CASE row[m].status = "confirming" /\ v = "no"
    <3>1. q.status = "cancelled"
      BY <1>7, <1>12, <2>2, <2>4 DEF AnyDeclined
    <3>2. Lifecycle!Decline(m, s)
      BY <1>6, <2>2, <2>4, <3>1 DEF Lifecycle!Decline, Lifecycle!Move, PhaseOf
    <3>3. QED BY <1>1, <3>2, LifecycleSteps
  <2>5. CASE row[m].status = "confirming" /\ v = "yes"
    <3>1. ~AnyDeclined(row[m])
      BY <1>1, <2>5 DEF LifeOf
    <3>2. ~AnyDeclined(q)
      BY <2>2, <2>5, <3>1 DEF AnyDeclined
    <3>3. CASE \A t \in Side \ {s} : row[m].confirm[t] = "yes"
      <4>1. BothConfirmed(q)
        BY <2>2, <2>5, <3>3 DEF BothConfirmed
      <4>2. q.status = "confirmed"
        BY <1>7, <1>12, <3>2, <4>1
      <4>3. Lifecycle!Agree(m, s)
        BY <1>6, <2>2, <2>5, <3>3, <4>2 DEF Lifecycle!Agree, Lifecycle!Move, PhaseOf
      <4>4. QED BY <1>1, <4>3, LifecycleSteps
    <3>4. CASE ~\A t \in Side \ {s} : row[m].confirm[t] = "yes"
      <4>1. \A t \in Side : row[m].confirm[t] = "none"
        BY <2>1, <3>1, <3>4 DEF AnyDeclined, Side
      <4>2. ~BothConfirmed(q)
        BY <2>2, <3>4 DEF BothConfirmed
      <4>3. q.status = row[m].status
        BY <1>7, <1>12, <3>2, <4>2
      <4>4. phase' = phase
        BY <1>6, <4>3
      <4>5. voice[m] = Lifecycle!Silence
        BY <1>6, <2>1, <4>1 DEF Lifecycle!Silence
      <4>6. Lifecycle!HalfAgree(m, s)
        BY <1>6, <2>2, <2>5, <4>4, <4>5 DEF Lifecycle!HalfAgree, PhaseOf
      <4>7. QED BY <1>1, <4>6, LifecycleSteps
    <3>5. QED BY <3>3, <3>4
  <2>6. QED BY <2>1, <2>3, <2>4, <2>5
<1>13. QED BY <1>7, <1>9, <1>10, <1>11, <1>12 DEF Stage

\* One operation at a time and nothing lost, a meet lives as MeetLifecycle says:
\* replies are its steps, and check-ins, flags and memories are not seen.
THEOREM Implements ==
  ASSUME Overlap = FALSE, MaxFaults = 0
  PROVE  Spec => LifecycleSpec
<1>1. Init => Lifecycle!Init
  BY DEF Init, Lifecycle!Init, Lifecycle!Silence, NoRow, NewRow
<1>2. TypeOK /\ SerialInv /\ LifeInv /\ [Next]_vars => [Lifecycle!Next]_(Lifecycle!vars)
  <2> SUFFICES ASSUME TypeOK, SerialInv, LifeInv, [Next]_vars
               PROVE  Lifecycle!Next \/ UNCHANGED Lifecycle!vars
    OBVIOUS
  <2>. DEFINE phase == [n \in MeetIds |-> PhaseOf(n)]
              voice == [n \in MeetIds |-> row[n].confirm]
  <2>a. /\ NoRow.status = "absent" /\ NewRow # NoRow /\ NewRow.status = "coordinating"
        /\ NewRow.confirm = NoRow.confirm /\ NoRow.confirm = [s \in Side |-> "none"]
    BY DEF NoRow, NewRow
  <2>1. ASSUME NEW m \in MeetIds, CreateMeet(m) PROVE Lifecycle!Next
    <3>1. /\ m \notin created /\ created' = created \cup {m} /\ row[m] = NoRow
          /\ \A n \in MeetIds : row'[n] = IF n = m THEN NewRow ELSE row[n]
      BY <2>1 DEF CreateMeet, SerialInv, RowsKnown, TypeOK
    <3>2. phase[m] = "absent" /\ phase' = [phase EXCEPT ![m] = "coordinating"]
      BY <3>1, <2>a DEF PhaseOf
    <3>3. voice' = voice
      BY <3>1, <2>a
    <3>4. Lifecycle!Propose(m)
      BY <3>2, <3>3 DEF Lifecycle!Propose, Lifecycle!Move, PhaseOf
    <3>5. QED BY <3>4 DEF Lifecycle!Next
  <2>2. ASSUME NEW u \in Leavers, EraseUser(u) PROVE Lifecycle!Next
    <3>1. PICK gone \in SUBSET MeetIds :
            /\ gone # {} /\ \A m \in gone : row[m] # NoRow
            /\ \A m \in MeetIds : row'[m] = IF m \in gone THEN NoRow ELSE row[m]
            /\ created' = created
      <4>. DEFINE gone == {m \in MeetIds : row[m] # NoRow /\ \E s \in Side : Party[m][s] = u}
      <4>1. gone \in SUBSET MeetIds /\ gone # {} /\ \A m \in gone : row[m] # NoRow
        BY <2>2 DEF EraseUser
      <4>2. row' = [m \in MeetIds |-> IF m \in gone THEN NoRow ELSE row[m]] /\ created' = created
        BY <2>2 DEF EraseUser
      <4>3. QED BY <4>1, <4>2
    <3>2. \A m \in gone : phase[m] \notin {"absent", "gone"}
      <4> SUFFICES ASSUME NEW m \in gone PROVE phase[m] \notin {"absent", "gone"}
        OBVIOUS
      <4>1. m \in created /\ row[m].status # "absent" /\ row[m] \in Row
        BY <3>1 DEF SerialInv, RowsKnown, TypeOK
      <4>2. QED BY <3>1, <4>1 DEF PhaseOf, Row, Status, ActiveStatus
    <3>3. phase' = [m \in MeetIds |-> IF m \in gone THEN "gone" ELSE phase[m]]
      BY <3>1 DEF PhaseOf, SerialInv, RowsKnown
    <3>4. voice' = [m \in MeetIds |-> IF m \in gone THEN Lifecycle!Silence ELSE voice[m]]
      BY <3>1, <2>a DEF Lifecycle!Silence
    <3>5. Lifecycle!Erase
      <4>1. gone \in (SUBSET {m \in MeetIds : phase[m] \notin {"absent", "gone"}}) \ {{}}
        <5>. HIDE DEF phase
        <5>1. gone \subseteq {m \in MeetIds : phase[m] \notin {"absent", "gone"}} /\ gone # {}
          BY <3>1, <3>2
        <5>2. QED BY <5>1
      <4>2. QED BY <3>3, <3>4, <4>1 DEF Lifecycle!Erase, PhaseOf
    <3>6. QED BY <3>5 DEF Lifecycle!Next
  <2>3. ASSUME NEW p \in Passes, NEW m \in MeetIds, SavePass(p, m)
        PROVE  UNCHANGED Lifecycle!vars
    <3>1. /\ InStep(p, m) /\ created' = created
          /\ row' \in {row, [row EXCEPT ![m] = snap[p][m]]}
      BY <2>3 DEF SavePass, SerialInv
    <3>2. /\ snap[p][m].status = row[m].status /\ snap[p][m].confirm = row[m].confirm
          /\ row[m].status # "absent"
      BY <3>1 DEF InStep, TypeOK, Row, IsActive, ActiveStatus
    <3>3. \A n \in MeetIds : /\ row'[n].status = row[n].status /\ row'[n].confirm = row[n].confirm
                             /\ row'[n] = NoRow <=> row[n] = NoRow
      BY <3>1, <3>2, <2>a DEF TypeOK
    <3>4. QED BY <3>1, <3>3, Unseen DEF PhaseOf
  <2>4. ASSUME UNCHANGED <<row, created>> PROVE UNCHANGED Lifecycle!vars
    BY <2>4 DEF Lifecycle!vars
  <2>5. ASSUME NEW h \in Handlers, Remember(h) \/ FailReply(h)
        PROVE  UNCHANGED <<row, created>>
    BY <2>5 DEF Remember, FailReply
  <2>6. ASSUME NEW h \in Handlers, NEW n \in MeetIds, NEW t \in Side, NEW stage \in Stage,
               NEW v \in Replies(stage), LoadReply(h, n, t, stage, v)
        PROVE  UNCHANGED <<row, created>>
    BY <2>6 DEF LoadReply
  <2>7. ASSUME NEW p \in Passes,
               \/ StartPass(p)
               \/ \E n \in MeetIds : FailPass(p, n) \/ \E t \in Side :
                    AskAccepted(p, n, t) \/ AskRefused(p, n, t) \/ AskUnanswered(p, n, t)
        PROVE  UNCHANGED <<row, created>>
    BY <2>7 DEF StartPass, AskAccepted, AskRefused, AskUnanswered, FailPass
  <2>8. CASE UNCHANGED vars
    BY <2>4, <2>8 DEF vars
  <2>10. QED
    BY <2>1, <2>2, <2>3, <2>4, <2>5, <2>6, <2>7, <2>8, SaveReplyImplements
       DEF Next, HandlerStep, PassStep
<1>3. QED BY <1>1, <1>2, TypeCorrect, SerialHolds, LifeHolds, PTL
          DEF Spec, LifecycleSpec, Lifecycle!Spec
==============================================================================
